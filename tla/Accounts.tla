-------------------------------- MODULE Accounts --------------------------------
(***************************************************************************)
(* Registration and login: the map `users` that all workers share, the     *)
(* table `user` behind it, and the POST requests that DoRequest answers by *)
(* the two (http_conn.cpp:19-46, 374-452), in a process that may die at    *)
(* any time and start again.                                               *)
(***************************************************************************)
EXTENDS Integers

CONSTANTS Names, Passwords, Workers, none

ASSUME AccountsAssumption == none \notin Passwords \cup Workers

VARIABLES
    up,         \* whether the process runs
    reactor,    \* whether in reactor mode
    users,      \* the map: name -> password, or none
    user,       \* the table: the same, username being its primary key
    m_lock,     \* the worker that holds it, or none
    pc,         \* idle, ask, insert (to take m_lock), store (has it)
    request,    \* the request of each worker: flag, name, passWd
    res,        \* whether the INSERT of each worker succeeded
    refused,    \* history: names whose INSERT failed though the table has no such name
    granted,    \* history: how many registrations of a name were confirmed
    owner,      \* history: the password of the first one
    wrong       \* history: a welcome that the table does not back

vars == <<up, reactor, users, user, m_lock, pc, request, res, refused, granted,
          owner, wrong>>
history == <<refused, granted, owner, wrong>>

\* '2' is a login, '3' a registration.
Request == [flag : {"2", "3"}, name : Names, passWd : Passwords]
NoRequest == [flag |-> "0", name |-> none, passWd |-> none]
Empty == [n \in Names |-> none]

Init ==
    /\ up = TRUE
    /\ reactor \in BOOLEAN
    /\ users = Empty /\ user = Empty
    /\ m_lock = none
    /\ pc = [w \in Workers |-> "idle"]
    /\ request = [w \in Workers |-> NoRequest]
    /\ res = [w \in Workers |-> FALSE]
    /\ refused = {} /\ wrong = FALSE
    /\ granted = [n \in Names |-> 0]
    /\ owner = Empty

------------------------------------------------------------------------------
At(w, place) == up /\ pc[w] = place
Go(w, place) == pc' = [pc EXCEPT ![w] = place]
Done(w) ==
    /\ Go(w, "idle")
    /\ request' = [request EXCEPT ![w] = NoRequest]
    /\ res' = [res EXCEPT ![w] = FALSE]

\* A worker is in DoRequest with a POST of a name and a password.
Ask(w, r) ==
    /\ At(w, "idle")
    /\ Go(w, "ask")
    /\ request' = [request EXCEPT ![w] = r]
    /\ UNCHANGED <<up, reactor, users, user, m_lock, res, history>>

\* What users.find may say of a name: it takes no lock, and beside an insert it may
\* miss what is there.
Finds(w, name) ==
    {users[name] # none} \cup
    {FALSE : u \in {v \in Workers \ {w} : pc[v] = "store"}}

\* Any password will do: a mutant.
LoginByName(w) ==
    LET r == request[w] IN
    /\ At(w, "ask") /\ r.flag = "2"
    /\ \E found \in Finds(w, r.name) :
        wrong' = (wrong \/ (found /\ user[r.name] # r.passWd /\ r.name \notin refused))
    /\ Done(w)
    /\ UNCHANGED <<up, reactor, users, user, m_lock, refused, granted, owner>>

\* /welcome.html or /logError.html.
Login(w) ==
    LET r == request[w] IN
    /\ At(w, "ask") /\ r.flag = "2"
    /\ \E found \in Finds(w, r.name) :
        LET welcome == found /\ users[r.name] = r.passWd IN
        wrong' = (wrong \/ (welcome /\ user[r.name] # r.passWd
                                    /\ r.name \notin refused))
    /\ Done(w)
    /\ UNCHANGED <<up, reactor, users, user, m_lock, refused, granted, owner>>

\* A name that is taken: /registerError.html.
Taken(w) ==
    /\ At(w, "ask") /\ request[w].flag = "3"
    /\ TRUE \in Finds(w, request[w].name)
    /\ Done(w)
    /\ UNCHANGED <<up, reactor, users, user, m_lock, history>>

NotTaken(w) ==
    /\ At(w, "ask") /\ request[w].flag = "3"
    /\ FALSE \in Finds(w, request[w].name)
    /\ Go(w, "insert")
    /\ UNCHANGED <<up, reactor, users, user, m_lock, request, res, history>>

\* The INSERT under m_lock: the table takes a new name, and refuses one that it
\* has, or any for another reason (the connection to the database is lost, the
\* name is too long, is the same but for case, or has a quote in it).
Insert(w, ok) ==
    LET r == request[w] IN
    /\ At(w, "insert")
    /\ ~reactor
    /\ m_lock = none
    /\ m_lock' = w
    /\ ok => user[r.name] = none
    /\ user' = IF ok THEN [user EXCEPT ![r.name] = r.passWd] ELSE user
    /\ refused' = IF ~ok /\ user[r.name] = none THEN refused \cup {r.name}
                  ELSE refused
    /\ res' = [res EXCEPT ![w] = ok]
    /\ Go(w, "store")
    /\ UNCHANGED <<up, reactor, users, request, granted, owner, wrong>>

\* Everything a dying process takes with it.
Die ==
    /\ up' = FALSE
    /\ m_lock' = none
    /\ pc' = [w \in Workers |-> "idle"]
    /\ request' = [w \in Workers |-> NoRequest]
    /\ res' = [w \in Workers |-> FALSE]
    /\ users' = Empty
    /\ UNCHANGED <<reactor, user, history>>

\* In reactor mode no connection was taken for the request: mysql is NULL, and
\* mysql_query with it ends the process.
InsertByNull(w) ==
    /\ At(w, "insert")
    /\ reactor
    /\ m_lock = none
    /\ Die

\* operator[] for insert: a mutant.
StoreOver(w) ==
    LET r == request[w] IN
    /\ At(w, "store")
    /\ users' = [users EXCEPT ![r.name] = r.passWd]
    /\ m_lock' = none
    /\ IF res[w]
       THEN /\ granted' = [granted EXCEPT ![r.name] = @ + 1]
            /\ owner' = [owner EXCEPT ![r.name] = IF @ = none THEN r.passWd ELSE @]
       ELSE UNCHANGED <<granted, owner>>
    /\ Done(w)
    /\ UNCHANGED <<up, reactor, user, refused, wrong>>

\* Every registration confirmed: a mutant.
StoreConfirms(w) ==
    LET r == request[w] IN
    /\ At(w, "store")
    /\ users' = [users EXCEPT ![r.name] = IF @ = none THEN r.passWd ELSE @]
    /\ m_lock' = none
    /\ granted' = [granted EXCEPT ![r.name] = @ + 1]
    /\ owner' = [owner EXCEPT ![r.name] = IF @ = none THEN r.passWd ELSE @]
    /\ Done(w)
    /\ UNCHANGED <<up, reactor, user, refused, wrong>>

\* users.insert, which keeps what is there, whatever became of the INSERT; then
\* /log.html, or registerError.html, a page that does not exist.
Store(w) ==
    LET r == request[w] IN
    /\ At(w, "store")
    /\ users' = [users EXCEPT ![r.name] = IF @ = none THEN r.passWd ELSE @]
    /\ m_lock' = none
    /\ IF res[w]
       THEN /\ granted' = [granted EXCEPT ![r.name] = @ + 1]
            /\ owner' = [owner EXCEPT ![r.name] = IF @ = none THEN r.passWd ELSE @]
       ELSE UNCHANGED <<granted, owner>>
    /\ Done(w)
    /\ UNCHANGED <<up, reactor, user, refused, wrong>>

\* The process is killed, or stopped by SIGTERM, in whatever it is doing.
Stop == up /\ Die

\* InitMysqlResult: the table is read again.
Start ==
    /\ ~up
    /\ up' = TRUE
    /\ reactor' \in BOOLEAN
    /\ users' = user
    /\ refused' = {}
    /\ UNCHANGED <<user, m_lock, pc, request, res, granted, owner, wrong>>

Worker(w) ==
    \/ \E r \in Request : Ask(w, r)
    \/ Login(w) \/ Taken(w) \/ NotTaken(w)
    \/ \E ok \in BOOLEAN : Insert(w, ok)
    \/ InsertByNull(w) \/ Store(w)

Next == (\E w \in Workers : Worker(w)) \/ Stop \/ Start

Spec == Init /\ [][Next]_vars

------------------------------------------------------------------------------
(* What registration and login must satisfy.                               *)

TypeOK ==
    /\ {up, reactor, wrong} \subseteq BOOLEAN
    /\ users \in [Names -> Passwords \cup {none}]
    /\ user \in [Names -> Passwords \cup {none}]
    /\ owner \in [Names -> Passwords \cup {none}]
    /\ m_lock \in Workers \cup {none}
    /\ pc \in [Workers -> {"idle", "ask", "insert", "store"}]
    /\ request \in [Workers -> Request \cup {NoRequest}]
    /\ res \in [Workers -> BOOLEAN]
    /\ refused \subseteq Names
    /\ granted \in [Names -> Nat]

\* Two registrations of a name that both find it free, in two workers or on two
\* sides of a restart, are not both confirmed: the check is made outside m_lock,
\* and the key of the table decides (http_conn.cpp:419-431).
OneOwner == \A n \in Names : granted[n] <= 1

\* Who was told that a name is registered can log in with it, now and after a
\* restart: map and table hold that password, whoever else asked for the
\* name; unless an INSERT of that name failed for a reason of its own, when the
\* map has the name all the same until the next start (http_conn.cpp:422).
RegisteredCanLogIn ==
    \A n \in Names : granted[n] > 0 =>
        /\ user[n] = owner[n]
        /\ up /\ n \notin refused => users[n] = owner[n]

\* Nobody is welcomed with a name and a password that are not in the table, with the
\* same exception, though lookups take no lock (http_conn.cpp:444).
WelcomeBacked == ~wrong
================================================================================
