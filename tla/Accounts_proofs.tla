---------------------------- MODULE Accounts_proofs ----------------------------
(***************************************************************************)
(* Proofs for Accounts, for any workers, names and passwords: one owner of *)
(* a name, who can log in, and no welcome that the table does not back.    *)
(***************************************************************************)
EXTENDS Accounts, TLAPS

Confirms(w) == pc[w] = "store" /\ res[w] = TRUE

\* m_lock and the places of the workers.
LockInv ==
    /\ \A w \in Workers : pc[w] = "store" <=> m_lock = w
    /\ \A w \in Workers : pc[w] # "idle" => up /\ request[w] \in Request

\* What the history says of a name, and a confirmation that is still to be given.
OwnerInv ==
    /\ \A n \in Names :
        /\ granted[n] <= 1
        /\ granted[n] = 0 => owner[n] = none
        /\ granted[n] = 1 => user[n] = owner[n] /\ user[n] # none
    /\ \A w \in Workers : Confirms(w) =>
        /\ granted[request[w].name] = 0
        /\ user[request[w].name] = request[w].passWd
    /\ \A w \in Workers : pc[w] = "store" /\ res[w] = FALSE =>
        request[w].name \in refused \/ user[request[w].name] # none

\* Map and table agree on a name, but for the one that a worker is about to store.
AgreeInv ==
    up => \A n \in Names \ refused :
        \/ users[n] = user[n]
        \/ /\ users[n] = none
           /\ \E w \in Workers : Confirms(w) /\ request[w].name = n

AccInv == TypeOK /\ LockInv /\ OwnerInv /\ AgreeInv /\ wrong = FALSE

------------------------------------------------------------------------------
LEMMA RequestFields ==
    ASSUME NEW r \in Request
    PROVE  r.name \in Names /\ r.passWd \in Passwords /\ r.flag \in {"2", "3"}
BY DEF Request

LEMMA AccountsTypeInit == Init => TypeOK
<1> SUFFICES ASSUME Init PROVE TypeOK
    OBVIOUS
<1>1. up \in BOOLEAN /\ reactor \in BOOLEAN /\ wrong \in BOOLEAN
    BY Zenon DEF Init
<1>2. res \in [Workers -> BOOLEAN]
    BY DEF Init
<1> QED
    BY <1>1, <1>2, AccountsAssumption DEF Init, TypeOK, Empty

LEMMA AccountsTypeNext == TypeOK /\ LockInv /\ [Next]_vars => TypeOK'
<1> SUFFICES ASSUME TypeOK, LockInv, [Next]_vars PROVE TypeOK'
    OBVIOUS
<1> USE AccountsAssumption DEF TypeOK, history, At, Go, Done
<1>1. ASSUME NEW w \in Workers, NEW r \in Request, Ask(w, r) PROVE TypeOK'
    BY <1>1 DEF Ask
<1>2. ASSUME NEW w \in Workers, Login(w) PROVE TypeOK'
    <2>1. wrong' \in BOOLEAN
        BY <1>2 DEF Login
    <2> QED
        BY <1>2, <2>1 DEF Login
<1>3. ASSUME NEW w \in Workers, Taken(w) PROVE TypeOK'
    BY <1>3 DEF Taken
<1>4. ASSUME NEW w \in Workers, NotTaken(w) PROVE TypeOK'
    BY <1>4 DEF NotTaken
<1>5. ASSUME NEW w \in Workers, NEW ok \in BOOLEAN, Insert(w, ok) PROVE TypeOK'
    <2>1. request[w] \in Request
        BY <1>5 DEF Insert, LockInv
    <2>2. res' \in [Workers -> BOOLEAN]
        BY <1>5 DEF Insert
    <2>3. user' \in [Names -> Passwords \cup {none}] /\ refused' \subseteq Names
        BY <1>5, <2>1, RequestFields DEF Insert
    <2> QED
        BY <1>5, <2>2, <2>3 DEF Insert
<1>6. ASSUME Die PROVE TypeOK'
    <2>1. up' \in BOOLEAN /\ wrong' \in BOOLEAN /\ reactor' \in BOOLEAN
        BY <1>6, Zenon DEF Die
    <2> QED
        BY <1>6, <2>1 DEF Die, Empty
<1>7. ASSUME NEW w \in Workers, Store(w) PROVE TypeOK'
    <2>1. request[w] \in Request
        BY <1>7 DEF Store, LockInv
    <2>2. users' \in [Names -> Passwords \cup {none}]
        BY <1>7, <2>1, RequestFields DEF Store
    <2>3. granted' \in [Names -> Nat] /\ owner' \in [Names -> Passwords \cup {none}]
        BY <1>7, <2>1, RequestFields DEF Store
    <2> QED
        BY <1>7, <2>2, <2>3 DEF Store
<1>8. CASE Start
    <2>1. up' \in BOOLEAN /\ wrong' \in BOOLEAN /\ reactor' \in BOOLEAN
        BY <1>8, Zenon DEF Start
    <2> QED
        BY <1>8, <2>1 DEF Start
<1>9. CASE UNCHANGED vars
    BY <1>9 DEF vars
<1> QED
    BY <1>1, <1>2, <1>3, <1>4, <1>5, <1>6, <1>7, <1>8, <1>9
    DEF Next, Worker, InsertByNull, Stop

LEMMA LockNext == TypeOK /\ LockInv /\ [Next]_vars => LockInv'
<1> SUFFICES ASSUME TypeOK, LockInv, [Next]_vars PROVE LockInv'
    OBVIOUS
<1> USE AccountsAssumption DEF TypeOK, LockInv, history, At, Go, Done
<1>1. ASSUME NEW w \in Workers, NEW r \in Request, Ask(w, r) PROVE LockInv'
    BY <1>1 DEF Ask
<1>2. ASSUME NEW w \in Workers, Login(w) PROVE LockInv'
    BY <1>2 DEF Login
<1>3. ASSUME NEW w \in Workers, Taken(w) PROVE LockInv'
    BY <1>3 DEF Taken
<1>4. ASSUME NEW w \in Workers, NotTaken(w) PROVE LockInv'
    BY <1>4 DEF NotTaken
<1>5. ASSUME NEW w \in Workers, NEW ok \in BOOLEAN, Insert(w, ok) PROVE LockInv'
    BY <1>5 DEF Insert
<1>6. ASSUME Die PROVE LockInv'
    BY <1>6 DEF Die
<1>7. ASSUME NEW w \in Workers, Store(w) PROVE LockInv'
    BY <1>7 DEF Store
<1>8. CASE Start
    <2>1. \A w \in Workers : pc[w] = "idle"
        BY <1>8 DEF Start
    <2> QED
        BY <1>8, <2>1 DEF Start
<1>9. CASE UNCHANGED vars
    BY <1>9 DEF vars
<1> QED
    BY <1>1, <1>2, <1>3, <1>4, <1>5, <1>6, <1>7, <1>8, <1>9
    DEF Next, Worker, InsertByNull, Stop

\* Accounts.TypeOK holds in every state.
THEOREM AccountsType == Spec => []TypeOK
<1>1. Init => LockInv
    BY AccountsAssumption DEF Init, LockInv
<1> QED
    BY <1>1, AccountsTypeInit, AccountsTypeNext, LockNext, PTL DEF Spec

------------------------------------------------------------------------------
\* A step that leaves accounts, history and the workers at "store" alone.
LEMMA Untouched ==
    ASSUME TypeOK, OwnerInv, AgreeInv, LockInv,
           UNCHANGED <<up, users, user, refused, granted, owner>>,
           \A w \in Workers : pc'[w] = "store" <=> pc[w] = "store",
           \A w \in Workers : pc[w] = "store" =>
                request'[w] = request[w] /\ res'[w] = res[w]
    PROVE  OwnerInv' /\ AgreeInv'
<1>1. OwnerInv'
    BY DEF OwnerInv, Confirms
<1>2. AgreeInv'
    BY DEF AgreeInv, Confirms
<1> QED
    BY <1>1, <1>2

\* The worker that has the lock is the only one that may confirm.
LEMMA OneConfirms ==
    ASSUME LockInv, NEW w \in Workers, NEW v \in Workers, pc[w] = "store", Confirms(v)
    PROVE  v = w
BY DEF LockInv, Confirms

LEMMA InsertKeeps ==
    ASSUME AccInv, NEW w \in Workers, NEW ok \in BOOLEAN, Insert(w, ok)
    PROVE  OwnerInv' /\ AgreeInv'
<1> USE AccountsAssumption
<1> DEFINE r == request[w]
<1>1. /\ r \in Request /\ r.name \in Names /\ r.passWd \in Passwords
      /\ request' = request
    BY RequestFields DEF AccInv, LockInv, Insert, At
<1>2. /\ pc[w] = "insert" /\ m_lock = none
      /\ pc' = [pc EXCEPT ![w] = "store"]
      /\ res' = [res EXCEPT ![w] = ok]
      /\ UNCHANGED <<up, users, granted, owner>>
    BY DEF Insert, At, Go
<1>3. \A v \in Workers : ~Confirms(v)
    BY <1>2 DEF AccInv, LockInv, Confirms
<1>4. \A v \in Workers : Confirms(v)' => v = w /\ ok = TRUE
    BY <1>2, <1>3 DEF AccInv, TypeOK, Confirms
<1>5. CASE ok = TRUE
    <2>1. user[r.name] = none /\ user' = [user EXCEPT ![r.name] = r.passWd]
          /\ refused' = refused
        BY <1>5 DEF Insert
    <2>2. Confirms(w)'
        BY <1>2, <1>5 DEF AccInv, TypeOK, Confirms
    <2>3. granted[r.name] = 0
        BY <1>1, <2>1 DEF AccInv, OwnerInv, TypeOK
    <2>4. OwnerInv'
        <3>1. \A n \in Names : user[n] # none => user'[n] # none
            BY <1>1, <2>1 DEF AccInv, TypeOK
        <3>2. \A v \in Workers : pc'[v] = "store" => v = w /\ res'[v] = TRUE
            BY <1>2, <1>5 DEF AccInv, LockInv, TypeOK
        <3> QED
            BY <1>1, <1>2, <1>4, <2>1, <2>3, <3>1, <3>2 DEF AccInv, OwnerInv, TypeOK
    <2>5. ASSUME NEW n \in Names \ refused', up'
          PROVE  \/ users'[n] = user'[n]
                 \/ /\ users'[n] = none
                    /\ \E v \in Workers : Confirms(v)' /\ request'[v].name = n
        <3>1. users[n] = user[n]
            BY <1>2, <1>3, <2>1, <2>5 DEF AccInv, AgreeInv
        <3>2. CASE n = r.name
            BY <1>1, <1>2, <2>1, <2>2, <3>1, <3>2
        <3>3. CASE n # r.name
            BY <1>2, <2>1, <3>1, <3>3 DEF AccInv, TypeOK
        <3> QED
            BY <3>2, <3>3
    <2> QED
        BY <2>4, <2>5 DEF AgreeInv
<1>6. CASE ok = FALSE
    <2>1. user' = user /\ refused \subseteq refused'
        BY <1>6 DEF Insert
    <2>2. \A v \in Workers : ~Confirms(v)'
        BY <1>4, <1>6
    <2>3. OwnerInv'
        <3>1. \A v \in Workers : pc'[v] = "store" => v = w
            BY <1>2 DEF AccInv, LockInv, TypeOK
        <3>2. r.name \in refused' \/ user'[r.name] # none
            BY <1>1, <1>6 DEF Insert
        <3> QED
            BY <1>1, <1>2, <2>1, <2>2, <3>1, <3>2 DEF AccInv, OwnerInv
    <2>4. AgreeInv'
        BY <1>2, <1>3, <2>1 DEF AccInv, AgreeInv
    <2> QED
        BY <2>3, <2>4
<1> QED
    BY <1>5, <1>6

LEMMA StoreKeeps ==
    ASSUME AccInv, NEW w \in Workers, Store(w)
    PROVE  OwnerInv' /\ AgreeInv'
<1> USE AccountsAssumption
<1> DEFINE r == request[w]
           n0 == r.name
<1>1. r \in Request /\ n0 \in Names /\ r.passWd \in Passwords
    BY RequestFields DEF AccInv, LockInv, Store, At
<1>2. /\ pc[w] = "store"
      /\ users' = [users EXCEPT ![n0] = IF @ = none THEN r.passWd ELSE @]
      /\ pc' = [pc EXCEPT ![w] = "idle"]
      /\ UNCHANGED <<up, user, refused>>
    BY DEF Store, At, Done, Go
<1>3. \A v \in Workers : pc'[v] # "store" /\ ~Confirms(v)'
    BY <1>2 DEF AccInv, LockInv, TypeOK, Confirms
<1>4. CASE res[w] = TRUE
    <2>1. /\ granted' = [granted EXCEPT ![n0] = @ + 1]
          /\ owner' = [owner EXCEPT ![n0] = IF @ = none THEN r.passWd ELSE @]
        BY <1>4 DEF Store
    <2>2. granted[n0] = 0 /\ owner[n0] = none /\ user[n0] = r.passWd
        BY <1>1, <1>2, <1>4 DEF AccInv, OwnerInv, Confirms
    <2>3. OwnerInv'
        BY <1>1, <1>2, <1>3, <2>1, <2>2 DEF AccInv, OwnerInv, TypeOK
    <2>4. ASSUME NEW n \in Names \ refused', up' PROVE users'[n] = user'[n]
        <3>1. CASE n = n0
            BY <1>1, <1>2, <2>2, <2>4, <3>1 DEF AccInv, AgreeInv, TypeOK
        <3>2. CASE n # n0
            <4>1. \A v \in Workers : ~(Confirms(v) /\ request[v].name = n)
                BY <1>2, <3>2, OneConfirms DEF AccInv
            <4> QED
                BY <1>2, <2>4, <3>2, <4>1 DEF AccInv, AgreeInv, TypeOK
        <3> QED
            BY <3>1, <3>2
    <2> QED
        BY <2>3, <2>4 DEF AgreeInv
<1>5. CASE res[w] = FALSE
    <2>1. granted' = granted /\ owner' = owner
        BY <1>5 DEF Store
    <2>2. OwnerInv'
        BY <1>2, <1>3, <2>1 DEF AccInv, OwnerInv
    <2>3. \A v \in Workers : ~Confirms(v)
        BY <1>2, <1>5, OneConfirms DEF AccInv, Confirms
    <2>4. ASSUME NEW n \in Names \ refused', up' PROVE users'[n] = user'[n]
        <3>1. users[n] = user[n]
            BY <1>2, <2>3, <2>4 DEF AccInv, AgreeInv
        <3>2. n = n0 => users[n] # none
            BY <1>2, <1>5, <2>4, <3>1 DEF AccInv, OwnerInv
        <3> QED
            BY <1>1, <1>2, <3>1, <3>2 DEF AccInv, TypeOK
    <2> QED
        BY <2>2, <2>4 DEF AgreeInv
<1> QED
    BY <1>4, <1>5 DEF AccInv, TypeOK

LEMMA LoginKeeps ==
    ASSUME AccInv, NEW w \in Workers, Login(w)
    PROVE  wrong' = FALSE
<1> DEFINE r == request[w]
<1>1. r \in Request /\ r.name \in Names /\ r.passWd \in Passwords /\ up
    BY RequestFields DEF AccInv, LockInv, Login, At
<1>2. users[r.name] = r.passWd /\ r.name \notin refused => user[r.name] = r.passWd
    BY <1>1, AccountsAssumption DEF AccInv, AgreeInv
<1> QED
    BY <1>2 DEF Login, AccInv

LEMMA AccInit == Init => AccInv
<1> SUFFICES ASSUME Init PROVE AccInv
    OBVIOUS
<1>1. TypeOK
    BY AccountsTypeInit
<1>2. LockInv
    BY AccountsAssumption DEF Init, LockInv
<1>3. OwnerInv
    BY DEF Init, OwnerInv, Confirms, Empty
<1>4. AgreeInv
    BY DEF Init, AgreeInv, Empty
<1>5. wrong = FALSE
    BY DEF Init
<1> QED
    BY <1>1, <1>2, <1>3, <1>4, <1>5 DEF AccInv

LEMMA AccNext == AccInv /\ [Next]_vars => AccInv'
<1> SUFFICES ASSUME AccInv, [Next]_vars PROVE OwnerInv' /\ AgreeInv' /\ wrong' = FALSE
    BY AccountsTypeNext, LockNext DEF AccInv
<1>1. ASSUME NEW w \in Workers,
             \/ \E r \in Request : Ask(w, r)
             \/ Login(w) \/ Taken(w) \/ NotTaken(w)
      PROVE  OwnerInv' /\ AgreeInv'
    BY <1>1, Untouched
    DEF AccInv, TypeOK, Ask, Login, Taken, NotTaken, At, Go, Done, history
<1>2. ASSUME NEW w \in Workers,
             (\E r \in Request : Ask(w, r)) \/ Taken(w) \/ NotTaken(w)
      PROVE  wrong' = FALSE
    BY <1>2 DEF AccInv, Ask, Taken, NotTaken, history
<1>3. ASSUME NEW w \in Workers, NEW ok \in BOOLEAN, Insert(w, ok)
      PROVE  OwnerInv' /\ AgreeInv' /\ wrong' = FALSE
    <2>1. wrong' = FALSE
        BY <1>3 DEF Insert, AccInv
    <2> QED
        BY <1>3, <2>1, InsertKeeps
<1>4. ASSUME NEW w \in Workers, Store(w)
      PROVE  OwnerInv' /\ AgreeInv' /\ wrong' = FALSE
    <2>1. wrong' = FALSE
        BY <1>4 DEF Store, AccInv
    <2> QED
        BY <1>4, <2>1, StoreKeeps
<1>5. ASSUME Die PROVE OwnerInv' /\ AgreeInv' /\ wrong' = FALSE
    <2>1. OwnerInv'
        BY <1>5 DEF Die, history, AccInv, OwnerInv, Confirms
    <2>2. AgreeInv' /\ wrong' = FALSE
        BY <1>5 DEF Die, history, AccInv, AgreeInv
    <2> QED
        BY <2>1, <2>2
<1>6. CASE Start
    <2>1. \A w \in Workers : pc'[w] # "store"
        BY <1>6 DEF Start, AccInv, LockInv
    <2>2. OwnerInv'
        BY <1>6, <2>1 DEF Start, AccInv, OwnerInv, Confirms
    <2>3. AgreeInv' /\ wrong' = FALSE
        BY <1>6 DEF Start, AccInv, AgreeInv
    <2> QED
        BY <2>2, <2>3
<1>7. CASE UNCHANGED vars
    <2>1. OwnerInv' /\ AgreeInv'
        BY <1>7, Untouched DEF vars, AccInv
    <2> QED
        BY <1>7, <2>1 DEF vars, AccInv
<1>8. ASSUME NEW w \in Workers, Login(w) PROVE wrong' = FALSE
    BY <1>8, LoginKeeps
<1> QED
    BY <1>1, <1>2, <1>3, <1>4, <1>5, <1>6, <1>7, <1>8
    DEF Next, Worker, InsertByNull, Stop

\* Accounts.OneOwner holds in every state: of all registrations of a name, however
\* they overlap and whenever the process dies, at most one is confirmed.
THEOREM NamesHaveOneOwner == Spec => []OneOwner
<1>1. AccInv => OneOwner
    BY DEF AccInv, OwnerInv, OneOwner
<1> QED
    BY AccInit, AccNext, <1>1, PTL DEF Spec

\* Accounts.RegisteredCanLogIn holds in every state: a confirmed registration is in
\* the table and, but for names whose INSERT once failed, in the map.
THEOREM RegisteredStay == Spec => []RegisteredCanLogIn
<1>1. AccInv => RegisteredCanLogIn
    <2> SUFFICES ASSUME AccInv, NEW n \in Names, granted[n] > 0
                 PROVE  /\ user[n] = owner[n]
                        /\ up /\ n \notin refused => users[n] = owner[n]
        BY DEF RegisteredCanLogIn
    <2>1. granted[n] = 1
        BY DEF AccInv, OwnerInv, TypeOK
    <2>2. ~\E w \in Workers : Confirms(w) /\ request[w].name = n
        BY <2>1 DEF AccInv, OwnerInv
    <2> QED
        BY <2>1, <2>2 DEF AccInv, OwnerInv, AgreeInv
<1> QED
    BY AccInit, AccNext, <1>1, PTL DEF Spec

\* Accounts.WelcomeBacked holds in every state: lookups without the lock let nobody
\* in whom the table does not know.
THEOREM WelcomesAreBacked == Spec => []WelcomeBacked
<1>1. AccInv => WelcomeBacked
    BY DEF AccInv, WelcomeBacked
<1> QED
    BY AccInit, AccNext, <1>1, PTL DEF Spec
================================================================================
