------------------------------ MODULE Accounts ------------------------------
(***************************************************************************)
(* Accounts, sessions and the log of logins, for any number of application *)
(* instances on one file that users may back up and restore: start and     *)
(* seeding (main), the login and sign-up forms (draw_login_screen),        *)
(* session_login and its commits, the idle lock, logout, exit and stop,    *)
(* the panel that changes roles, and the screen of backups.                *)
(*                                                                         *)
(* Every call on the file is a step of its own.  Passwords are left out: a *)
(* form refused before it reaches the tables changes nothing.  The idle    *)
(* limit may be over at any moment a session is on a screen that locks.    *)
(***************************************************************************)
EXTENDS Integers, Sequences, FiniteSets

CONSTANTS
  Procs,      \* application instances
  Names,      \* names users sign up with
  Seed,       \* the account main creates at every start
  MaxLog,     \* bound: rows of login_log
  MaxUsers,   \* bound: ids of users
  Scenarios,  \* bound: what a behaviour contains, roles changed, files restored or
              \* users miscounted
  NoOne       \* nobody is logged in, no name is being entered

ASSUME NamesAssumption == Seed \in Names /\ NoOne \notin Names
ASSUME BoundsAssumption == MaxLog \in Nat /\ MaxUsers \in Nat
ASSUME ScenariosAssumption == Scenarios \subseteq SUBSET {"roles", "restores", "miscounts"}

VARIABLES
  scenario,   \* one of Scenarios, chosen at the start
  account,    \* users: id and role of each name, id 0 when there is none
  log,        \* login_log
  backup,     \* one file of backups/: the two tables, or nothing
  at,         \* screen of each instance
  session,    \* g_session
  entry,      \* session_login or the sign-up under way
  panel,      \* "Gerer utilisateurs" is open
  entered,    \* history: the user who last got in on each instance
  fresh,      \* history: the session began after the last restore
  strayed,    \* history: rows closed by a session older than the last restore
  promoted,   \* history: users who were given their role
  misread,    \* history: a count of users failed, or the seeding did
  bypassed    \* history: instances entered though the login of a sign-up failed

tables == <<account, log, backup>>
history == <<fresh, strayed, promoted, misread, bypassed>>
vars == <<scenario, tables, at, session, entry, panel, entered, history>>

\* The third role, "manager", is left out: no step here tells it from this one.
Roles == {"admin", "operateur"}

\* "main" is the catalog and the list of categories, "backup" the screen of
\* backups; what is done on the fourteen others is not told apart.
Screens == {"off", "login", "main", "backup"}

Users == [id : 0..MaxUsers, role : Roles]

NoSession == [name |-> NoOne, id |-> 0, role |-> "operateur", row |-> 0]

NoEntry == [next |-> "none", name |-> NoOne, id |-> 0, role |-> "operateur"]

Entries ==
  {NoEntry} \cup
  [next : {"create", "verify"}, name : Names, id : {0}, role : Roles] \cup
  [next : {"open"}, name : Names, id : 1..MaxUsers, role : Roles]

Sessions ==
  [name : Names \cup {NoOne}, id : 0..MaxUsers, role : Roles, row : 0..MaxLog]

Logs == {l \in Seq([user : 1..MaxUsers, open : BOOLEAN]) : Len(l) <= MaxLog}

TypeOK ==
  /\ scenario \in Scenarios
  /\ account \in [Names -> Users]
  /\ log \in Logs
  /\ backup.account \in [Names -> Users] /\ backup.log \in Logs /\ backup.made \in BOOLEAN
  /\ at \in [Procs -> Screens]
  /\ session \in [Procs -> Sessions]
  /\ entry \in [Procs -> Entries]
  /\ panel \in [Procs -> BOOLEAN]
  /\ entered \in [Procs -> Names \cup {NoOne}]
  /\ fresh \in [Procs -> BOOLEAN]
  /\ strayed \in SUBSET (1..MaxLog)
  /\ promoted \in SUBSET Names
  /\ misread \in BOOLEAN
  /\ bypassed \in SUBSET Procs

Init ==
  /\ scenario \in Scenarios
  /\ account = [n \in Names |-> [id |-> 0, role |-> "operateur"]]
  /\ log = << >>
  /\ backup = [account |-> account, log |-> << >>, made |-> FALSE]
  /\ at = [p \in Procs |-> "off"]
  /\ session = [p \in Procs |-> NoSession]
  /\ entry = [p \in Procs |-> NoEntry]
  /\ panel = [p \in Procs |-> FALSE]
  /\ entered = [p \in Procs |-> NoOne]
  /\ fresh = [p \in Procs |-> FALSE]
  /\ strayed = {}
  /\ promoted = {}
  /\ misread = FALSE
  /\ bypassed = {}

Active(p) == session[p].name # NoOne

Exists(n) == account[n].id # 0

\* k is the id SQLite gives to a new row: one more than the largest.
IsNextId(k) ==
  /\ \A n \in Names : account[n].id < k
  /\ \E n \in Names : account[n].id = k - 1

\* INSERT INTO users.
Insert(n, role) ==
  \E k \in 1..MaxUsers :
    /\ IsNextId(k)
    /\ account' = [account EXCEPT ![n] = [id |-> k, role |-> role]]

\* p is on one of these screens, in no call.
On(p, screens) == at[p] \in screens /\ entry[p] = NoEntry

Goto(p, s) == at' = [at EXCEPT ![p] = s]

-----------------------------------------------------------------------------
(* Start, stop.                                                            *)

\* What an instance holds in memory is gone.
Forget(p) ==
  /\ session' = [session EXCEPT ![p] = NoSession]
  /\ entry' = [entry EXCEPT ![p] = NoEntry]
  /\ panel' = [panel EXCEPT ![p] = FALSE]
  /\ entered' = [entered EXCEPT ![p] = NoOne]

\* main: the INSERT of the seed fails when it is there, or is refused.
Start(p) ==
  /\ at[p] = "off"
  /\ \/ /\ ~Exists(Seed)
        /\ Insert(Seed, "admin")
        /\ UNCHANGED misread
     \/ /\ ~Exists(Seed) /\ misread' = TRUE
        /\ UNCHANGED account
     \/ /\ Exists(Seed)
        /\ UNCHANGED <<account, misread>>
  /\ Goto(p, "login")
  /\ UNCHANGED <<log, backup, session, entry, panel, entered, fresh, strayed,
                 promoted, bypassed>>

Stop(p) ==
  /\ at[p] # "off"
  /\ Goto(p, "off")
  /\ Forget(p)
  /\ bypassed' = bypassed \ {p}
  /\ UNCHANGED <<tables, fresh, strayed, promoted, misread>>

-----------------------------------------------------------------------------
(* The login screen.  Its session is still there when the lock led to it.  *)

\* db_verify_credentials finds the account and the password is right.
Verify(p, n) ==
  /\ On(p, {"login"})
  /\ Exists(n)
  /\ entry' = [entry EXCEPT ![p] =
       [next |-> "open", name |-> n, id |-> account[n].id, role |-> account[n].role]]
  /\ UNCHANGED <<tables, at, session, panel, entered, history>>

\* Mutant: the row opened for the last session is kept when none is inserted.
OpenSessionSameRow(p) ==
  LET e == entry[p]
      Row(r) == [name |-> e.name, id |-> e.id, role |-> e.role, row |-> r]
  IN
  /\ e.next = "open"
  /\ \/ /\ Len(log) < MaxLog
        /\ \E n \in Names : account[n].id = e.id
        /\ log' = Append(log, [user |-> e.id, open |-> TRUE])
        /\ session' = [session EXCEPT ![p] = Row(Len(log) + 1)]
     \/ session' = [session EXCEPT ![p] = Row(@.row)] /\ UNCHANGED log
  /\ entry' = [entry EXCEPT ![p] = NoEntry]
  /\ Goto(p, "main")
  /\ entered' = [entered EXCEPT ![p] = e.name]
  /\ fresh' = [fresh EXCEPT ![p] = TRUE]
  /\ bypassed' = bypassed \ {p}
  /\ UNCHANGED <<account, backup, panel, strayed, promoted, misread>>

\* The rest of session_login: the row of the log, which may not be written,
\* then the session, over the one that was there.
OpenSession(p) ==
  LET e == entry[p]
      Row(r) == [name |-> e.name, id |-> e.id, role |-> e.role, row |-> r]
  IN
  /\ e.next = "open"
  /\ \/ /\ Len(log) < MaxLog
        /\ \E n \in Names : account[n].id = e.id
        /\ log' = Append(log, [user |-> e.id, open |-> TRUE])
        /\ session' = [session EXCEPT ![p] = Row(Len(log) + 1)]
     \/ session' = [session EXCEPT ![p] = Row(0)] /\ UNCHANGED log
  /\ entry' = [entry EXCEPT ![p] = NoEntry]
  /\ Goto(p, "main")
  /\ entered' = [entered EXCEPT ![p] = e.name]
  /\ fresh' = [fresh EXCEPT ![p] = TRUE]
  /\ bypassed' = bypassed \ {p}
  /\ UNCHANGED <<account, backup, panel, strayed, promoted, misread>>

\* Mutant: the first two accounts are given the role of the first.
RoleOfTwoFirst == IF Cardinality({n \in Names : Exists(n)}) <= 1 THEN "admin" ELSE "operateur"

RoleOfNew == IF \E n \in Names : Exists(n) THEN "operateur" ELSE "admin"

\* Sign-up counts the users, whatever the name, and a count that fails leaves
\* zero.
CountUsers(p, n) ==
  /\ On(p, {"login"})
  /\ \E failed \in BOOLEAN :
       /\ failed => "miscounts" \in scenario
       /\ misread' = (misread \/ failed)
       /\ entry' = [entry EXCEPT ![p] =
            [next |-> "create", name |-> n, id |-> 0,
             role |-> IF failed THEN "admin" ELSE RoleOfNew]]
  /\ UNCHANGED <<tables, at, session, panel, entered, fresh, strayed, promoted,
                 bypassed>>

CreateUser(p) ==
  LET e == entry[p] IN
  /\ e.next = "create"
  /\ ~Exists(e.name)
  /\ Insert(e.name, e.role)
  /\ entry' = [entry EXCEPT ![p].next = "verify"]
  /\ UNCHANGED <<log, backup, at, session, panel, entered, history>>

\* The name is taken, or the INSERT fails: the form stays.
NotCreated(p) ==
  /\ entry[p].next = "create"
  /\ entry' = [entry EXCEPT ![p] = NoEntry]
  /\ UNCHANGED <<tables, at, session, panel, entered, history>>

VerifyNew(p) ==
  LET n == entry[p].name IN
  /\ entry[p].next = "verify"
  /\ Exists(n)
  /\ entry' = [entry EXCEPT ![p] =
       [next |-> "open", name |-> n, id |-> account[n].id, role |-> account[n].role]]
  /\ UNCHANGED <<tables, at, session, panel, entered, history>>

\* The result of session_login is not looked at: the screen changes all the
\* same, and the session is the one that was there.
EnterAnyway(p) ==
  /\ entry[p].next = "verify"
  /\ entry' = [entry EXCEPT ![p] = NoEntry]
  /\ Goto(p, "main")
  /\ bypassed' = bypassed \cup {p}
  /\ UNCHANGED <<tables, session, panel, entered, fresh, strayed, promoted,
                 misread>>

-----------------------------------------------------------------------------
(* Inside.                                                                 *)

\* The loop of gui_run locks the catalog and the list of categories only.
Lock(p) ==
  /\ On(p, {"main"})
  /\ Active(p)
  /\ Goto(p, "login")
  /\ UNCHANGED <<tables, session, entry, panel, entered, history>>

\* Only an administrator is shown the button of the backups.
OpenBackups(p) ==
  /\ "restores" \in scenario
  /\ On(p, {"main"})
  /\ ~panel[p]
  /\ session[p].role = "admin"
  /\ Goto(p, "backup")
  /\ UNCHANGED <<tables, session, entry, panel, entered, history>>

GoBack(p) ==
  /\ On(p, {"backup"})
  /\ Goto(p, "main")
  /\ UNCHANGED <<tables, session, entry, panel, entered, history>>

OpenUsersPanel(p) ==
  /\ "roles" \in scenario
  /\ On(p, {"main"})
  /\ session[p].role = "admin"
  /\ ~panel[p]
  /\ panel' = [panel EXCEPT ![p] = TRUE]
  /\ UNCHANGED <<tables, at, session, entry, entered, fresh, strayed, promoted, misread,
                 bypassed>>

CloseUsersPanel(p) ==
  /\ On(p, {"main"})
  /\ panel[p]
  /\ panel' = [panel EXCEPT ![p] = FALSE]
  /\ UNCHANGED <<tables, at, session, entry, entered, history>>

\* One of the three buttons of a user, listed again for every frame.
UpdateRole(p, n, r) ==
  /\ "roles" \in scenario
  /\ On(p, {"main"})
  /\ panel[p]
  /\ Exists(n) /\ account[n].role # r
  /\ account' = [account EXCEPT ![n].role = r]
  /\ promoted' = promoted \cup {n}
  /\ UNCHANGED <<log, backup, at, session, entry, panel, entered, fresh, strayed,
                 misread, bypassed>>

-----------------------------------------------------------------------------
(* session_logout, and who calls it.                                       *)

\* db_log_logout: the UPDATE of the row with this id, if there is one.
RowClosed(l, r) ==
  IF r \in 1..Len(l) THEN [l EXCEPT ![r].open = FALSE] ELSE l

\* p leaves its session, if it has one, for screen s.  The log is l, and not
\* the one the session began in unless it is current; the UPDATE may fail.
LeaveSession(p, l, current, s) ==
  /\ \/ /\ log' = RowClosed(l, session[p].row)
        /\ strayed' = (strayed \cup IF current THEN {} ELSE {session[p].row})
                      \cap 1..Len(l)
     \/ log' = l /\ strayed' = strayed \cap 1..Len(l)
  /\ session' = [session EXCEPT ![p] = NoSession]
  /\ entered' = [entered EXCEPT ![p] = NoOne]
  /\ bypassed' = bypassed \ {p}
  /\ Goto(p, s)

\* Its button works whatever panel is open, and leaves the panel open.
Logout(p) ==
  /\ On(p, {"main"})
  /\ LeaveSession(p, log, fresh[p], "login")
  /\ UNCHANGED <<account, backup, entry, panel, fresh, promoted, misread>>

\* The window is closed.
Exit(p) ==
  /\ On(p, Screens \ {"off"})
  /\ LeaveSession(p, log, fresh[p], "off")
  /\ panel' = [panel EXCEPT ![p] = FALSE]
  /\ UNCHANGED <<account, backup, entry, fresh, promoted, misread>>

-----------------------------------------------------------------------------
(* The screen of backups.                                                  *)

MakeBackup(p) ==
  /\ "restores" \in scenario
  /\ On(p, {"backup"})
  /\ ~backup.made
  /\ backup' = [account |-> account, log |-> log, made |-> TRUE]
  /\ UNCHANGED <<account, log, at, session, entry, panel, entered, history>>

\* The copy is made, under whatever the other instances are doing.
Replaced ==
  /\ backup.made
  /\ account' = backup.account
  /\ fresh' = [p \in Procs |-> FALSE]
  /\ UNCHANGED backup

\* Mutant: the screen is not left after a restore.
RestoreStays(p) ==
  /\ On(p, {"backup"})
  /\ Replaced
  /\ LeaveSession(p, backup.log, FALSE, "backup")
  /\ UNCHANGED <<entry, panel, promoted, misread>>

\* The copy, and a logout by the row the session had in the other log.
Restore(p) ==
  /\ On(p, {"backup"})
  /\ Replaced
  /\ LeaveSession(p, backup.log, FALSE, "login")
  /\ UNCHANGED <<entry, panel, promoted, misread>>

\* The file is locked: sqlite3_backup_finish does not report it, nor does
\* inv_restore_database, and the user is logged out of what was there.
RestoreNothing(p) ==
  /\ On(p, {"backup"})
  /\ backup.made
  /\ LeaveSession(p, log, fresh[p], "login")
  /\ UNCHANGED <<account, backup, entry, panel, fresh, promoted, misread>>

\* The copy is made and inv_init fails: an error, and the session goes on.
RestoreNotLoaded(p) ==
  /\ On(p, {"backup"})
  /\ Replaced
  /\ log' = backup.log
  /\ strayed' = {}
  /\ UNCHANGED <<at, session, entry, panel, entered, promoted, misread, bypassed>>

Next ==
  /\ UNCHANGED scenario
  /\ \E p \in Procs :
       \/ Start(p) \/ Stop(p) \/ Exit(p)
       \/ \E n \in Names : Verify(p, n) \/ CountUsers(p, n)
       \/ CreateUser(p) \/ NotCreated(p) \/ VerifyNew(p) \/ EnterAnyway(p)
       \/ OpenSession(p)
       \/ Lock(p) \/ GoBack(p) \/ Logout(p)
       \/ OpenBackups(p)
       \/ OpenUsersPanel(p) \/ CloseUsersPanel(p)
       \/ \E n \in Names, r \in Roles : UpdateRole(p, n, r)
       \/ MakeBackup(p) \/ Restore(p) \/ RestoreNothing(p) \/ RestoreNotLoaded(p)

Spec == Init /\ [][Next]_vars

-----------------------------------------------------------------------------
(* Properties.                                                             *)

(* As long as no restore has replaced the file since, the row of the log   *)
(* that a session will close is that of its user and of no other session;  *)
(* it is open unless a session older than a restore has closed it.  The    *)
(* lock, a second login over the first, failed inserts and stops do not    *)
(* change this (session_login, session_logout).                            *)
SessionOwnsRow ==
  \A p \in Procs :
    Active(p) /\ fresh[p] /\ session[p].row # 0 =>
      /\ session[p].row <= Len(log)
      /\ log[session[p].row].user = session[p].id
      /\ log[session[p].row].open \/ session[p].row \in strayed
      /\ \A q \in Procs :
           q # p /\ Active(q) /\ fresh[q] => session[q].row # session[p].row

(* Whoever is past the login screen is the user whose password was last    *)
(* accepted on that instance, unless it was entered by a sign-up whose     *)
(* login failed (draw_login_screen does not look at it).                   *)
InsideAsEntered ==
  \A p \in Procs :
    at[p] \in {"main", "backup"} /\ p \notin bypassed =>
      Active(p) /\ session[p].name = entered[p]

(* No sign-up makes an administrator of anyone but the first account,      *)
(* however sign-ups, restores and starts cross, as long as the seed was    *)
(* created and the users counted (README: "First account created           *)
(* automatically becomes admin; every account after defaults to            *)
(* operateur").                                                            *)
AdminsWerePromoted ==
  ~misread => \A n \in Names \ {Seed} : account[n].role = "admin" => n \in promoted
=============================================================================
