----------------------------- MODULE AuthProofs -----------------------------
(***************************************************************************)
(* Proofs about accounts and refresh sessions: for any users, processes    *)
(* and sessions, sessions follow their account and an account is as its    *)
(* edits left it, as long as no two requests overlapped on it.             *)
(***************************************************************************)
EXTENDS AuthPart, Naturals, Sequences, TLAPS

Kinds    == A!Public \cup A!Manage
Rows     == [password : Nat, role : A!Roles, active : BOOLEAN]
Sessions == [user : Users, password : Nat, expired : BOOLEAN]

\* None stands apart from all it is compared with.
AuthConstants ==
    /\ None \notin Kinds /\ None \notin Nat /\ None \notin Rows
    /\ MaxSessions \in Nat

-----------------------------------------------------------------------------
(* What a request still has to do *)

Readers == {"login", "update", "password", "block", "unblock", "delete", "recover"}

\* The statements an operation has left, at each of its statements.
Left(op) ==
    CASE op = "login"   -> {<<"read", "session", "write">>, <<"session", "write">>, <<"write">>}
      [] op = "refresh" -> {<<"find", "rotate", "session">>, <<"rotate", "session">>, <<"session">>}
      [] op \in {"update", "unblock"} -> {<<"read", "write">>, <<"write">>}
      [] op \in {"password", "block"} ->
           {<<"read", "write", "revoke">>, <<"write", "revoke">>, <<"revoke">>}
      [] op = "delete"  -> {<<"read", "remove">>, <<"remove">>}
      [] op = "create"  -> {<<"insert">>}
      [] op = "seed"    -> {<<"count", "insert">>, <<"insert">>}
      [] op = "recover" -> {<<"read", "revoke", "write">>, <<"revoke", "write">>, <<"write">>}

Requests ==
    [op : Kinds, user : Users, actor : Users, role : A!Roles, todo : UNION {Left(op) : op \in Kinds},
     row : Rows \cup {None}, id : A!Ids \cup {None}, pwd : Nat \cup {None}]

Busy(p)  == proc[p].op # None
Place(p) == Head(proc[p].todo)

\* The request has read the row it will write back, and not written it yet.
HasRow(p) ==
    /\ Busy(p) /\ proc[p].op \in Readers /\ Place(p) # "read"
    /\ ~(proc[p].op \in {"password", "block"} /\ Place(p) = "revoke")

\* A refresh that has found its session.
Holding(p) == Busy(p) /\ proc[p].op = "refresh" /\ Place(p) # "find"

\* An edit that has changed the row and not yet revoked the sessions.
Revoking(p) == Busy(p) /\ proc[p].op \in {"password", "block"} /\ Place(p) = "revoke"

Pending(u) == \E p \in Procs : Revoking(p) /\ proc[p].user = u

-----------------------------------------------------------------------------

\* The tables and what a request carries at each of its statements.
TypeInv ==
    /\ users \in [Users -> Rows \cup {None}] /\ DOMAIN want = Users
    /\ sessions \in [DOMAIN sessions -> Sessions] /\ DOMAIN sessions \subseteq A!Used
    /\ spent \in [A!Ids -> Nat \cup {None}]
    /\ proc \in [Procs -> Requests \cup {A!Idle}]
    /\ mixed \subseteq Users /\ stale \in BOOLEAN /\ pwds \in Nat

Carried(p) ==
    Busy(p) =>
        /\ proc[p] \in Requests /\ proc[p].todo \in Left(proc[p].op)
        /\ HasRow(p) => proc[p].row \in Rows /\ proc[p].row.password <= pwds
        /\ HasRow(p) /\ proc[p].op = "login" => proc[p].row.active
        /\ Holding(p) => proc[p].row \in Rows /\ proc[p].id \in A!Used /\ proc[p].pwd \in Nat
        /\ ~Holding(p) => proc[p].id = None
        /\ proc[p].op \in A!Manage /\ proc[p].actor = proc[p].user =>
             A!SelfAllowed(proc[p].op, proc[p].role)

PlaceInv == \A p \in Procs : Carried(p)

\* Passwords are numbered as they are given.
BoundInv == \A u \in Users : users[u] # None => users[u].password <= pwds

\* Two requests on one account are known to have overlapped.
OneEach ==
    \A p, q \in Procs : Busy(p) /\ Busy(q) /\ p # q /\ proc[p].user = proc[q].user
                          => proc[p].user \in mixed

\* What a request read is still so, unless another one overlapped.
Fresh(p) ==
    Busy(p) /\ proc[p].user \notin mixed =>
        /\ HasRow(p) \/ Holding(p) => users[proc[p].user] # None /\ proc[p].row = users[proc[p].user]
        /\ Holding(p) => proc[p].row.active /\ proc[p].pwd = proc[p].row.password
        /\ proc[p].op = "recover" /\ Place(p) = "write" => A!SessionsOf(proc[p].user) = {}

FreshInv == \A p \in Procs : Fresh(p)

\* An account is as it was last meant to be.
Edited(u) == users[u] # None /\ u \notin mixed => users[u] = want[u]

\* The sessions of an account fit its row, except while an edit is about to revoke them.
Clean(u) ==
    /\ A!SessionsOf(u) # {} => users[u] # None
    /\ users[u] # None /\ u \notin mixed /\ ~Pending(u) =>
         /\ ~users[u].active => A!SessionsOf(u) = {}
         /\ \A i \in A!SessionsOf(u) : sessions[i].password = users[u].password

AccountInv == \A u \in Users : Edited(u) /\ Clean(u)

\* Which requests hold which session, and how often it was exchanged.
SpentInv ==
    /\ \A p \in Procs : Holding(p) /\ proc[p].id \in DOMAIN sessions =>
         sessions[proc[p].id].user = proc[p].user /\ Place(p) # "session"
    /\ \A p, q \in Procs : Holding(p) /\ Holding(q) /\ proc[p].id = proc[q].id =>
         proc[p].user = proc[q].user
    /\ mixed = {} => /\ \A i \in DOMAIN sessions : spent[i] = 0
                     /\ \A p \in Procs : Holding(p) => spent[proc[p].id] = 0
                     /\ \A i \in A!Used : spent[i] <= 1

\* As long as administrators act one at a time and none has lost the role.
AdminInv ==
    ~stale /\ mixed = {} =>
        /\ \A p, q \in Procs : Busy(p) /\ Busy(q) /\ {proc[p].op, proc[q].op} \subseteq A!Manage => p = q
        /\ \A p \in Procs : Busy(p) /\ proc[p].op \in A!Manage => A!IsAdmin(proc[p].actor)
        /\ (\E u \in Users : users[u] # None) => \E u \in Users : A!IsAdmin(u)

AuthInv == /\ TypeInv /\ PlaceInv /\ BoundInv /\ OneEach /\ FreshInv
           /\ AccountInv /\ SpentInv /\ AdminInv

-----------------------------------------------------------------------------

\* A sequence of one or more statements, taken apart.
LEMMA Steps ==
    /\ \A a : Head(<<a>>) = a /\ Len(<<a>>) = 1
    /\ \A a, b : Head(<<a, b>>) = a /\ Len(<<a, b>>) # 1 /\ Tail(<<a, b>>) = <<b>>
    /\ \A a, b, c : Head(<<a, b, c>>) = a /\ Len(<<a, b, c>>) # 1 /\ Tail(<<a, b, c>>) = <<b, c>>
  OBVIOUS

\* What is left of an operation at each of its statements, and after it.
LEMMA LeftSteps ==
    ASSUME NEW op \in Kinds, NEW t \in Left(op)
    PROVE  /\ Head(t) = "read" => /\ op \in Readers /\ Len(t) # 1 /\ Tail(t) \in Left(op)
                                  /\ Head(Tail(t)) # "read"
                                  /\ Head(Tail(t)) = "revoke" <=> op = "recover"
                                  /\ op \in {"login", "recover"} => Head(Tail(t)) # "write"
           /\ Head(t) = "session" => \/ /\ op = "login" /\ Len(t) # 1 /\ Tail(t) \in Left(op)
                                        /\ Head(Tail(t)) = "write"
                                     \/ op = "refresh" /\ Len(t) = 1
           /\ Head(t) = "write" => \/ op \in {"login", "update", "unblock", "recover"} /\ Len(t) = 1
                                   \/ /\ op \in {"password", "block"} /\ Len(t) # 1
                                      /\ Tail(t) \in Left(op) /\ Head(Tail(t)) = "revoke"
           /\ Head(t) = "revoke" => \/ op \in {"password", "block"} /\ Len(t) = 1
                                    \/ /\ op = "recover" /\ Len(t) # 1
                                       /\ Tail(t) \in Left(op) /\ Head(Tail(t)) = "write"
           /\ Head(t) = "remove" => op = "delete"
           /\ Head(t) = "count" => /\ op = "seed" /\ Len(t) # 1 /\ Tail(t) \in Left(op)
                                   /\ Head(Tail(t)) = "insert"
           /\ Head(t) = "insert" => op \in {"seed", "create"}
           /\ Head(t) = "find" => /\ op = "refresh" /\ Len(t) # 1 /\ Tail(t) \in Left(op)
                                  /\ Head(Tail(t)) = "rotate"
           /\ Head(t) = "rotate" => /\ op = "refresh" /\ Len(t) # 1 /\ Tail(t) \in Left(op)
                                    /\ Head(Tail(t)) = "session"
<1>1. CASE op = "login"
  <2>0. Left(op) = {<<"read", "session", "write">>, <<"session", "write">>, <<"write">>}
    BY <1>1, SMT DEF Left
  <2>1. CASE t = <<"read", "session", "write">>
    <3>1. /\ Head(t) = "read" /\ Len(t) # 1 /\ Tail(t) = <<"session", "write">>
          /\ Head(Tail(t)) = "session"
      BY <2>1, SMT
    <3>2. Tail(t) \in Left(op)
      BY <2>0, <3>1, Zenon
    <3> QED
      BY <1>1, <3>1, <3>2, Zenon DEF Readers
  <2>2. CASE t = <<"session", "write">>
    <3>1. /\ Head(t) = "session" /\ Len(t) # 1 /\ Tail(t) = <<"write">>
          /\ Head(Tail(t)) = "write"
      BY <2>2, Steps, ZenonT(30)
    <3>2. Tail(t) \in Left(op)
      BY <2>0, <3>1, Zenon
    <3> QED
      BY <1>1, <3>1, <3>2, Zenon DEF Readers
  <2>3. CASE t = <<"write">>
    <3>1. Head(t) = "write" /\ Len(t) = 1
      BY <2>3, Steps, Zenon
    <3> QED
      BY <1>1, <3>1, Zenon DEF Readers
  <2> QED
    BY <2>0, <2>1, <2>2, <2>3, Zenon
<1>2. CASE op = "refresh"
  <2>0. Left(op) = {<<"find", "rotate", "session">>, <<"rotate", "session">>, <<"session">>}
    BY <1>2, SMT DEF Left
  <2>1. CASE t = <<"find", "rotate", "session">>
    <3>1. /\ Head(t) = "find" /\ Len(t) # 1 /\ Tail(t) = <<"rotate", "session">>
          /\ Head(Tail(t)) = "rotate"
      BY <2>1, SMT
    <3>2. Tail(t) \in Left(op)
      BY <2>0, <3>1, Zenon
    <3> QED
      BY <1>2, <3>1, <3>2, Zenon DEF Readers
  <2>2. CASE t = <<"rotate", "session">>
    <3>1. /\ Head(t) = "rotate" /\ Len(t) # 1 /\ Tail(t) = <<"session">>
          /\ Head(Tail(t)) = "session"
      BY <2>2, Steps, ZenonT(30)
    <3>2. Tail(t) \in Left(op)
      BY <2>0, <3>1, Zenon
    <3> QED
      BY <1>2, <3>1, <3>2, Zenon DEF Readers
  <2>3. CASE t = <<"session">>
    <3>1. Head(t) = "session" /\ Len(t) = 1
      BY <2>3, Steps, Zenon
    <3> QED
      BY <1>2, <3>1, Zenon DEF Readers
  <2> QED
    BY <2>0, <2>1, <2>2, <2>3, Zenon
<1>3. CASE op \in {"update", "unblock"}
  <2>0. Left(op) = {<<"read", "write">>, <<"write">>}
    BY <1>3, SMT DEF Left
  <2>1. CASE t = <<"read", "write">>
    <3>1. /\ Head(t) = "read" /\ Len(t) # 1 /\ Tail(t) = <<"write">>
          /\ Head(Tail(t)) = "write"
      BY <2>1, Steps, ZenonT(30)
    <3>2. Tail(t) \in Left(op)
      BY <2>0, <3>1, Zenon
    <3> QED
      BY <1>3, <3>1, <3>2, Zenon DEF Readers
  <2>2. CASE t = <<"write">>
    <3>1. Head(t) = "write" /\ Len(t) = 1
      BY <2>2, Steps, Zenon
    <3> QED
      BY <1>3, <3>1, Zenon DEF Readers
  <2> QED
    BY <2>0, <2>1, <2>2, Zenon
<1>4. CASE op \in {"password", "block"}
  <2>0. Left(op) = {<<"read", "write", "revoke">>, <<"write", "revoke">>, <<"revoke">>}
    BY <1>4, SMT DEF Left
  <2>1. CASE t = <<"read", "write", "revoke">>
    <3>1. /\ Head(t) = "read" /\ Len(t) # 1 /\ Tail(t) = <<"write", "revoke">>
          /\ Head(Tail(t)) = "write"
      BY <2>1, SMT
    <3>2. Tail(t) \in Left(op)
      BY <2>0, <3>1, Zenon
    <3> QED
      BY <1>4, <3>1, <3>2, Zenon DEF Readers
  <2>2. CASE t = <<"write", "revoke">>
    <3>1. /\ Head(t) = "write" /\ Len(t) # 1 /\ Tail(t) = <<"revoke">>
          /\ Head(Tail(t)) = "revoke"
      BY <2>2, Steps, ZenonT(30)
    <3>2. Tail(t) \in Left(op)
      BY <2>0, <3>1, Zenon
    <3> QED
      BY <1>4, <3>1, <3>2, Zenon DEF Readers
  <2>3. CASE t = <<"revoke">>
    <3>1. Head(t) = "revoke" /\ Len(t) = 1
      BY <2>3, Steps, Zenon
    <3> QED
      BY <1>4, <3>1, Zenon DEF Readers
  <2> QED
    BY <2>0, <2>1, <2>2, <2>3, Zenon
<1>5. CASE op = "delete"
  <2>0. Left(op) = {<<"read", "remove">>, <<"remove">>}
    BY <1>5, SMT DEF Left
  <2>1. CASE t = <<"read", "remove">>
    <3>1. /\ Head(t) = "read" /\ Len(t) # 1 /\ Tail(t) = <<"remove">>
          /\ Head(Tail(t)) = "remove"
      BY <2>1, SMT
    <3>2. Tail(t) \in Left(op)
      BY <2>0, <3>1, Zenon
    <3> QED
      BY <1>5, <3>1, <3>2, Zenon DEF Readers
  <2>2. CASE t = <<"remove">>
    <3>1. Head(t) = "remove" /\ Len(t) = 1
      BY <2>2, Steps, Zenon
    <3> QED
      BY <1>5, <3>1, Zenon DEF Readers
  <2> QED
    BY <2>0, <2>1, <2>2, Zenon
<1>6. CASE op = "create"
  <2>0. Left(op) = {<<"insert">>}
    BY <1>6, SMT DEF Left
  <2>1. CASE t = <<"insert">>
    <3>1. Head(t) = "insert" /\ Len(t) = 1
      BY <2>1, Steps, Zenon
    <3> QED
      BY <1>6, <3>1, Zenon DEF Readers
  <2> QED
    BY <2>0, <2>1, Zenon
<1>7. CASE op = "seed"
  <2>0. Left(op) = {<<"count", "insert">>, <<"insert">>}
    BY <1>7, SMT DEF Left
  <2>1. CASE t = <<"count", "insert">>
    <3>1. /\ Head(t) = "count" /\ Len(t) # 1 /\ Tail(t) = <<"insert">>
          /\ Head(Tail(t)) = "insert"
      BY <2>1, Steps, ZenonT(30)
    <3>2. Tail(t) \in Left(op)
      BY <2>0, <3>1, Zenon
    <3> QED
      BY <1>7, <3>1, <3>2, Zenon DEF Readers
  <2>2. CASE t = <<"insert">>
    <3>1. Head(t) = "insert" /\ Len(t) = 1
      BY <2>2, Steps, Zenon
    <3> QED
      BY <1>7, <3>1, Zenon DEF Readers
  <2> QED
    BY <2>0, <2>1, <2>2, Zenon
<1>8. CASE op = "recover"
  <2>0. Left(op) = {<<"read", "revoke", "write">>, <<"revoke", "write">>, <<"write">>}
    BY <1>8, SMT DEF Left
  <2>1. CASE t = <<"read", "revoke", "write">>
    <3>1. /\ Head(t) = "read" /\ Len(t) # 1 /\ Tail(t) = <<"revoke", "write">>
          /\ Head(Tail(t)) = "revoke"
      BY <2>1, SMT
    <3>2. Tail(t) \in Left(op)
      BY <2>0, <3>1, Zenon
    <3> QED
      BY <1>8, <3>1, <3>2, Zenon DEF Readers
  <2>2. CASE t = <<"revoke", "write">>
    <3>1. /\ Head(t) = "revoke" /\ Len(t) # 1 /\ Tail(t) = <<"write">>
          /\ Head(Tail(t)) = "write"
      BY <2>2, Steps, ZenonT(30)
    <3>2. Tail(t) \in Left(op)
      BY <2>0, <3>1, Zenon
    <3> QED
      BY <1>8, <3>1, <3>2, Zenon DEF Readers
  <2>3. CASE t = <<"write">>
    <3>1. Head(t) = "write" /\ Len(t) = 1
      BY <2>3, Steps, Zenon
    <3> QED
      BY <1>8, <3>1, Zenon DEF Readers
  <2> QED
    BY <2>0, <2>1, <2>2, <2>3, Zenon
<1> QED
  BY <1>1, <1>2, <1>3, <1>4, <1>5, <1>6, <1>7, <1>8, Zenon DEF Kinds, A!Public, A!Manage

\* An operation begins with all of its statements, and reads or finds first.
LEMMA LeftStart ==
    ASSUME NEW op \in Kinds
    PROVE  /\ A!Statements(op) \in Left(op)
           /\ Head(A!Statements(op)) \in {"read", "find", "insert", "count"}
           /\ op \in Readers => Head(A!Statements(op)) = "read"
           /\ op = "refresh" => Head(A!Statements(op)) = "find"
<1>1. CASE op = "login"
  <2>1. A!Statements(op) = <<"read", "session", "write">>
    BY <1>1, SMT DEF A!Statements, A!Login
  <2>2. A!Statements(op) \in Left(op)
    BY <1>1, <2>1, SMT DEF Left
  <2>3. Head(A!Statements(op)) = "read"
    BY <2>1, SMT
  <2> QED
    BY <1>1, <2>2, <2>3, Zenon DEF Readers
<1>2. CASE op = "refresh"
  <2>1. A!Statements(op) = <<"find", "rotate", "session">>
    BY <1>2, SMT DEF A!Statements, A!Refresh
  <2>2. A!Statements(op) \in Left(op)
    BY <1>2, <2>1, SMT DEF Left
  <2>3. Head(A!Statements(op)) = "find"
    BY <2>1, SMT
  <2> QED
    BY <1>2, <2>2, <2>3, Zenon DEF Readers
<1>3. CASE op = "update"
  <2>1. A!Statements(op) = <<"read", "write">>
    BY <1>3, SMT DEF A!Statements, A!UpdateUser
  <2>2. A!Statements(op) \in Left(op)
    BY <1>3, <2>1, SMT DEF Left
  <2>3. Head(A!Statements(op)) = "read"
    BY <2>1, Steps, Zenon
  <2> QED
    BY <1>3, <2>2, <2>3, Zenon DEF Readers
<1>4. CASE op = "unblock"
  <2>1. A!Statements(op) = <<"read", "write">>
    BY <1>4, SMT DEF A!Statements, A!SetUserActive
  <2>2. A!Statements(op) \in Left(op)
    BY <1>4, <2>1, SMT DEF Left
  <2>3. Head(A!Statements(op)) = "read"
    BY <2>1, Steps, Zenon
  <2> QED
    BY <1>4, <2>2, <2>3, Zenon DEF Readers
<1>5. CASE op = "password"
  <2>1. A!Statements(op) = <<"read", "write", "revoke">>
    BY <1>5, SMT DEF A!Statements, A!SetPassword
  <2>2. A!Statements(op) \in Left(op)
    BY <1>5, <2>1, SMT DEF Left
  <2>3. Head(A!Statements(op)) = "read"
    BY <2>1, SMT
  <2> QED
    BY <1>5, <2>2, <2>3, Zenon DEF Readers
<1>6. CASE op = "block"
  <2>1. A!Statements(op) = <<"read", "write", "revoke">>
    BY <1>6, SMT DEF A!Statements, A!SetUserActive
  <2>2. A!Statements(op) \in Left(op)
    BY <1>6, <2>1, SMT DEF Left
  <2>3. Head(A!Statements(op)) = "read"
    BY <2>1, SMT
  <2> QED
    BY <1>6, <2>2, <2>3, Zenon DEF Readers
<1>7. CASE op = "delete"
  <2>1. A!Statements(op) = <<"read", "remove">>
    BY <1>7, SMT DEF A!Statements, A!DeleteUser
  <2>2. A!Statements(op) \in Left(op)
    BY <1>7, <2>1, SMT DEF Left
  <2>3. Head(A!Statements(op)) = "read"
    BY <2>1, Steps, Zenon
  <2> QED
    BY <1>7, <2>2, <2>3, Zenon DEF Readers
<1>8. CASE op = "create"
  <2>1. A!Statements(op) = <<"insert">>
    BY <1>8, SMT DEF A!Statements, A!CreateUser
  <2>2. A!Statements(op) \in Left(op)
    BY <1>8, <2>1, SMT DEF Left
  <2>3. Head(A!Statements(op)) = "insert"
    BY <2>1, Steps, Zenon
  <2> QED
    BY <1>8, <2>2, <2>3, Zenon DEF Readers
<1>9. CASE op = "seed"
  <2>1. A!Statements(op) = <<"count", "insert">>
    BY <1>9, SMT DEF A!Statements, A!SeedAdminIfEmpty
  <2>2. A!Statements(op) \in Left(op)
    BY <1>9, <2>1, SMT DEF Left
  <2>3. Head(A!Statements(op)) = "count"
    BY <2>1, Steps, Zenon
  <2> QED
    BY <1>9, <2>2, <2>3, Zenon DEF Readers
<1>10. CASE op = "recover"
  <2>1. A!Statements(op) = <<"read", "revoke", "write">>
    BY <1>10, SMT DEF A!Statements, A!ResetGeneratedPassword
  <2>2. A!Statements(op) \in Left(op)
    BY <1>10, <2>1, SMT DEF Left
  <2>3. Head(A!Statements(op)) = "read"
    BY <2>1, SMT
  <2> QED
    BY <1>10, <2>2, <2>3, Zenon DEF Readers
<1> QED
  BY <1>1, <1>2, <1>3, <1>4, <1>5, <1>6, <1>7, <1>8, <1>9, <1>10, Zenon DEF Kinds, A!Public, A!Manage

-----------------------------------------------------------------------------
(* A statement of one request *)

\* The request of p ended, or went on to its next statement; no other one changed.
Moved(p) ==
    /\ Busy(p) /\ proc' \in [Procs -> Requests \cup {A!Idle}]
    /\ \A q \in Procs : q # p => proc'[q] = proc[q]
    /\ \/ proc'[p] = A!Idle
       \/ /\ proc'[p] \in Requests /\ proc'[p].op = proc[p].op /\ proc'[p].user = proc[p].user
          /\ proc'[p].actor = proc[p].actor /\ proc'[p].role = proc[p].role
          /\ proc'[p].todo = Tail(proc[p].todo) /\ Tail(proc[p].todo) \in Left(proc[p].op)

\* What a request carries besides what it was told.
Carries(r, o) == r.row = o.row /\ r.id = o.id /\ r.pwd = o.pwd

\* A process that serves no request has no operation.
LEMMA IdleType == A!Idle.op = None
  BY DEF A!Idle

\* A process that serves a request carries what the request needs.
LEMMA BusyIsRequest ==
    ASSUME PlaceInv, NEW p \in Procs, Busy(p)
    PROVE  /\ proc[p] \in Requests /\ proc[p].op \in Kinds /\ proc[p].user \in Users
           /\ proc[p].actor \in Users /\ proc[p].role \in A!Roles /\ proc[p].todo \in Left(proc[p].op)
<1>1. proc[p] \in Requests /\ proc[p].todo \in Left(proc[p].op)
  BY Zenon DEF PlaceInv, Carried
<1> QED
  BY <1>1, Zenon DEF Requests

\* The end of a request leaves its process free and the others alone.
LEMMA EndMoves ==
    ASSUME TypeInv, NEW p \in Procs, Busy(p), A!End(p)
    PROVE  Moved(p) /\ proc'[p] = A!Idle
<1>1. proc \in [Procs -> Requests \cup {A!Idle}] /\ proc' = [proc EXCEPT ![p] = A!Idle]
  BY Zenon DEF TypeInv, A!End
<1> QED
  BY <1>1, Zenon DEF Moved

\* Replacing one field of a request, whatever the other fields are.
LEMMA NewTodo ==
    ASSUME NEW K, NEW U, NEW R, NEW T, NEW W, NEW I, NEW P, NEW t \in T,
           NEW o \in [op : K, user : U, actor : U, role : R, todo : T, row : W, id : I, pwd : P]
    PROVE  LET n == [o EXCEPT !.todo = t] IN
           /\ n \in [op : K, user : U, actor : U, role : R, todo : T, row : W, id : I, pwd : P]
           /\ n.op = o.op /\ n.user = o.user /\ n.actor = o.actor /\ n.role = o.role
           /\ n.todo = t /\ n.row = o.row /\ n.id = o.id /\ n.pwd = o.pwd
  BY SMT

\* A step of a request ends it, or leaves it with the statements that remain.
LEMMA AdvanceMoves ==
    ASSUME TypeInv, NEW p \in Procs, Busy(p), NEW o \in Requests, A!Advance(p, o),
           o.op = proc[p].op, o.user = proc[p].user, o.actor = proc[p].actor,
           o.role = proc[p].role, o.todo = proc[p].todo,
           Len(o.todo) = 1 \/ Tail(o.todo) \in Left(o.op)
    PROVE  /\ Moved(p)
           /\ Len(o.todo) = 1 => proc'[p] = A!Idle
           /\ Len(o.todo) # 1 => /\ proc'[p] \in Requests /\ Carries(proc'[p], o)
                                 /\ proc'[p].op = o.op /\ proc'[p].todo = Tail(o.todo)
<1> DEFINE r == IF Len(o.todo) = 1 THEN A!Idle ELSE [o EXCEPT !.todo = Tail(@)]
<1>1. proc \in [Procs -> Requests \cup {A!Idle}] /\ proc' = [proc EXCEPT ![p] = r]
  BY Zenon DEF TypeInv, A!Advance
<1>2. CASE Len(o.todo) = 1
  BY <1>1, <1>2, Zenon DEF Moved
<1>3. CASE Len(o.todo) # 1
  <2> DEFINE n == [o EXCEPT !.todo = Tail(@)]
  <2>1. Tail(o.todo) \in UNION {Left(op) : op \in Kinds}
    BY <1>3, Zenon DEF Requests
  <2>2. /\ n \in Requests /\ n.op = o.op /\ n.user = o.user /\ n.actor = o.actor /\ n.role = o.role
        /\ n.todo = Tail(o.todo) /\ Carries(n, o)
    BY <2>1, NewTodo, Zenon DEF Requests, Carries
  <2>3. proc'[p] = n
    BY <1>1, <1>3, Zenon
  <2>4. proc' \in [Procs -> Requests \cup {A!Idle}] /\ \A q \in Procs : q # p => proc'[q] = proc[q]
    BY <1>1, <1>3, <2>2, Zenon
  <2> HIDE DEF n
  <2> QED
    BY <1>3, <2>2, <2>3, <2>4, Zenon DEF Moved
<1> QED
  BY <1>2, <1>3, Zenon

\* What a step of p leaves of the other requests, and of an ended one.
LEMMA MovedOthers ==
    ASSUME NEW p \in Procs, \A q \in Procs : q # p => proc'[q] = proc[q]
    PROVE  \A q \in Procs : q # p => /\ Busy(q)' <=> Busy(q)
                                     /\ Place(q)' = Place(q)
                                     /\ HasRow(q)' <=> HasRow(q)
                                     /\ Holding(q)' <=> Holding(q)
                                     /\ Revoking(q)' <=> Revoking(q)
  BY Zenon DEF Busy, Place, HasRow, Holding, Revoking

\* A free process has read no row, holds no session and revokes nothing.
LEMMA IdleHasNothing ==
    ASSUME NEW p \in Procs, proc'[p] = A!Idle
    PROVE  ~Busy(p)' /\ ~HasRow(p)' /\ ~Holding(p)' /\ ~Revoking(p)'
  BY IdleType, Zenon DEF Busy, HasRow, Holding, Revoking

-----------------------------------------------------------------------------
(* What a statement on one account leaves alone *)

\* Rows and sessions of other accounts stay; tokens stay in use; passwords are added.
Local(u) ==
    /\ \A v \in Users : v # u => users'[v] = users[v] /\ want'[v] = want[v]
    /\ \A v \in Users : v # u =>
         /\ A!SessionsOf(v)' = A!SessionsOf(v)
         /\ \A i \in A!SessionsOf(v) : sessions'[i] = sessions[i]
    /\ mixed \subseteq mixed' /\ A!Used \subseteq A!Used' /\ pwds <= pwds' /\ pwds' \in Nat

\* A row has a password with a number.
LEMMA RowFields ==
    ASSUME NEW r \in Rows
    PROVE  r.password \in Nat /\ r.role \in A!Roles /\ r.active \in BOOLEAN
  BY Zenon DEF Rows

\* Requests on one account are still known to have overlapped, and what the others
\* carry is as good as before, and so are the other accounts.
LEMMA OthersKeep ==
    ASSUME TypeInv, PlaceInv, OneEach, FreshInv, AccountInv,
           NEW p \in Procs, Moved(p), Local(proc[p].user)
    PROVE  /\ OneEach'
           /\ \A q \in Procs : q # p => Carried(q)' /\ Fresh(q)'
           /\ \A v \in Users : v # proc[p].user => Edited(v)' /\ Clean(v)'
<1> DEFINE u == proc[p].user
<1>1. \A q \in Procs : q # p => proc'[q] = proc[q]
  BY Zenon DEF Moved
<1>2. Busy(p) /\ (Busy(p)' => proc'[p].user = u)
  BY IdleHasNothing, Zenon DEF Moved
<1>3. OneEach'
  <2> SUFFICES ASSUME NEW q \in Procs, NEW r \in Procs, Busy(q)', Busy(r)', q # r,
                      proc'[q].user = proc'[r].user
               PROVE  proc'[q].user \in mixed'
    BY Zenon DEF OneEach
  <2>1. Busy(q) /\ proc'[q].user = proc[q].user
    BY <1>1, <1>2, MovedOthers, Zenon
  <2>2. Busy(r) /\ proc'[r].user = proc[r].user
    BY <1>1, <1>2, MovedOthers, Zenon
  <2> QED
    BY <2>1, <2>2, Zenon DEF OneEach, Local
<1>4. ASSUME NEW q \in Procs, q # p
      PROVE  Carried(q)' /\ Fresh(q)'
  <2>1. /\ proc'[q] = proc[q] /\ (Busy(q)' <=> Busy(q)) /\ Place(q)' = Place(q)
        /\ (HasRow(q)' <=> HasRow(q)) /\ (Holding(q)' <=> Holding(q))
    BY <1>1, <1>4, MovedOthers, Zenon
  <2>2. Carried(q)'
    <3> SUFFICES ASSUME Busy(q), HasRow(q)
                 PROVE  proc[q].row.password <= pwds'
      BY <2>1, Zenon DEF PlaceInv, Carried, Local
    <3>1. proc[q].row.password <= pwds /\ proc[q].row \in Rows
      BY Zenon DEF PlaceInv, Carried
    <3>2. proc[q].row.password \in Nat
      BY <3>1, RowFields, Zenon
    <3>3. pwds \in Nat /\ pwds' \in Nat /\ pwds <= pwds'
      BY Zenon DEF TypeInv, Local
    <3> QED
      BY <3>1, <3>2, <3>3, SMT
  <2>3. Fresh(q)'
    <3> SUFFICES ASSUME Busy(q), proc[q].user \notin mixed'
                 PROVE  Fresh(q)'
      BY <2>1, Zenon DEF Fresh
    <3>0. proc[q].user \in Users /\ proc[q].user # u /\ proc[q].user \notin mixed
      BY <1>2, <1>4, BusyIsRequest, Zenon DEF OneEach, Local
    <3>1. PICK v \in Users : v = proc[q].user /\ v # u /\ v \notin mixed
      BY <3>0, Zenon
    <3>2. users'[v] = users[v] /\ A!SessionsOf(v)' = A!SessionsOf(v)
      BY <3>1, Zenon DEF Local
    <3>3. Fresh(q)
      BY Zenon DEF FreshInv
    <3>4. A!SessionsOf(proc[q].user)' = A!SessionsOf(v)' /\ A!SessionsOf(proc[q].user) = A!SessionsOf(v)
      BY <2>1, <3>1, Zenon DEF A!SessionsOf
    <3> QED
      BY <2>1, <3>1, <3>2, <3>3, <3>4, Zenon DEF Fresh
  <2> QED
    BY <2>2, <2>3, Zenon
<1>5. ASSUME NEW v \in Users, v # u
      PROVE  Edited(v)' /\ Clean(v)'
  <2>1. /\ users'[v] = users[v] /\ want'[v] = want[v] /\ A!SessionsOf(v)' = A!SessionsOf(v)
        /\ \A i \in A!SessionsOf(v) : sessions'[i] = sessions[i]
        /\ v \notin mixed' => v \notin mixed
    BY <1>5, Zenon DEF Local
  <2>2. Pending(v) => Pending(v)'
    BY <1>1, <1>5, MovedOthers, Zenon DEF Pending
  <2>3. Edited(v) /\ Clean(v)
    BY Zenon DEF AccountInv
  <2> QED
    BY <2>1, <2>2, <2>3, Zenon DEF Edited, Clean
<1> QED
  BY <1>3, <1>4, <1>5, Zenon

\* The request of p acquires no session, and sessions only go.
LEMMA SpentKeeps ==
    ASSUME TypeInv, SpentInv, NEW p \in Procs, \A q \in Procs : q # p => proc'[q] = proc[q],
           mixed \subseteq mixed', spent' = spent,
           DOMAIN sessions' \subseteq DOMAIN sessions,
           \A i \in DOMAIN sessions' : sessions'[i].user = sessions[i].user,
           Holding(p)' => /\ Holding(p) /\ proc'[p].id = proc[p].id /\ proc'[p].user = proc[p].user
                          /\ Place(p)' = "session" => proc[p].id \notin DOMAIN sessions'
    PROVE  SpentInv'
<1>1. \A q \in Procs : Holding(q)' => Holding(q) /\ proc'[q].id = proc[q].id /\ proc'[q].user = proc[q].user
  BY MovedOthers, Zenon
<1>2. \A q \in Procs : Holding(q)' /\ proc'[q].id \in DOMAIN sessions' =>
        sessions'[proc'[q].id].user = proc'[q].user /\ Place(q)' # "session"
  <2> SUFFICES ASSUME NEW q \in Procs, Holding(q)', proc'[q].id \in DOMAIN sessions'
               PROVE  sessions'[proc'[q].id].user = proc'[q].user /\ Place(q)' # "session"
    BY Zenon
  <2>1. /\ Holding(q) /\ proc[q].id \in DOMAIN sessions /\ sessions[proc[q].id].user = proc[q].user
        /\ Place(q) # "session"
    BY <1>1, Zenon DEF SpentInv
  <2>2. Place(q)' # "session"
    BY <1>1, <2>1, MovedOthers, Zenon
  <2> QED
    BY <1>1, <2>1, <2>2, Zenon
<1>3. ASSUME NEW q \in Procs, NEW r \in Procs, Holding(q)', Holding(r)', proc'[q].id = proc'[r].id
      PROVE  proc'[q].user = proc'[r].user
  <2>1. Holding(q) /\ Holding(r) /\ proc[q].id = proc[r].id
    BY <1>1, <1>3, Zenon
  <2>2. proc[q].user = proc[r].user
    BY <2>1, Zenon DEF SpentInv
  <2> QED
    BY <1>1, <1>3, <2>2, Zenon
<1>4. ASSUME mixed' = {}
      PROVE  /\ \A i \in DOMAIN sessions' : spent'[i] = 0
             /\ \A q \in Procs : Holding(q)' => spent'[proc'[q].id] = 0
             /\ \A i \in A!Used' : spent'[i] <= 1
  <2>1. mixed = {} /\ A!Used' = A!Used
    BY <1>4, Zenon DEF A!Used
  <2>2. /\ \A i \in DOMAIN sessions : spent[i] = 0
        /\ \A q \in Procs : Holding(q) => spent[proc[q].id] = 0
        /\ \A i \in A!Used : spent[i] <= 1
    BY <2>1, Zenon DEF SpentInv
  <2>3. \A i \in DOMAIN sessions' : spent'[i] = 0
    BY <2>2, Zenon
  <2>4. \A q \in Procs : Holding(q)' => spent'[proc'[q].id] = 0
    BY <1>1, <2>2, Zenon
  <2> QED
    BY <2>1, <2>2, <2>3, <2>4, Zenon
<1> QED
  BY <1>2, <1>3, <1>4, Zenon DEF SpentInv

\* No administrator is lost, no account appears and nobody begins to manage.
LEMMA AdminKeeps ==
    ASSUME PlaceInv, AdminInv, NEW p \in Procs, Moved(p), mixed \subseteq mixed', stale' = stale,
           \A v \in Users : A!IsAdmin(v) => A!IsAdmin(v)',
           (\E v \in Users : users'[v] # None) =>
               (\E v \in Users : users[v] # None) \/ (\E v \in Users : A!IsAdmin(v)')
    PROVE  AdminInv'
<1> SUFFICES ASSUME ~stale, mixed = {}
             PROVE  AdminInv'
  BY Zenon DEF AdminInv
<1>1. \A q \in Procs : Busy(q)' => /\ Busy(q) /\ proc'[q].op = proc[q].op
                                   /\ proc'[q].actor = proc[q].actor /\ proc[q].actor \in Users
  <2> SUFFICES ASSUME NEW q \in Procs, Busy(q)'
               PROVE  Busy(q) /\ proc'[q].op = proc[q].op /\ proc'[q].actor = proc[q].actor
    BY BusyIsRequest, Zenon
  <2>1. CASE q = p
    BY <2>1, IdleHasNothing, Zenon DEF Moved
  <2>2. CASE q # p
    BY <2>2, MovedOthers, Zenon DEF Moved
  <2> QED
    BY <2>1, <2>2, Zenon
<1>2. \A q, r \in Procs : Busy(q)' /\ Busy(r)' /\ {proc'[q].op, proc'[r].op} \subseteq A!Manage => q = r
  BY <1>1, Zenon DEF AdminInv
<1>3. ASSUME NEW q \in Procs, Busy(q)', proc'[q].op \in A!Manage
      PROVE  A!IsAdmin(proc[q].actor)'
  <2>1. PICK a \in Users : a = proc[q].actor /\ proc'[q].actor = a /\ A!IsAdmin(proc[q].actor)
    BY <1>1, <1>3, Zenon DEF AdminInv
  <2>2. A!IsAdmin(a) /\ (A!IsAdmin(a)' => A!IsAdmin(proc[q].actor)')
    BY <2>1, Zenon DEF A!IsAdmin
  <2> QED
    BY <2>2, Zenon
<1>4. (\E v \in Users : users'[v] # None) => \E v \in Users : A!IsAdmin(v)'
  BY Zenon DEF AdminInv
<1> QED
  BY <1>2, <1>3, <1>4, Zenon DEF AdminInv

-----------------------------------------------------------------------------
(* One statement after the other *)

\* The same for the row a request has read.
LEMMA NewRow ==
    ASSUME NEW K, NEW U, NEW R, NEW T, NEW W, NEW I, NEW P, NEW w \in W,
           NEW o \in [op : K, user : U, actor : U, role : R, todo : T, row : W, id : I, pwd : P]
    PROVE  LET n == [o EXCEPT !.row = w] IN
           /\ n \in [op : K, user : U, actor : U, role : R, todo : T, row : W, id : I, pwd : P]
           /\ n.op = o.op /\ n.user = o.user /\ n.actor = o.actor /\ n.role = o.role
           /\ n.todo = o.todo /\ n.row = w /\ n.id = o.id /\ n.pwd = o.pwd
  BY SMT

\* A statement of p on the account u is judged by what it does to p and to u.
LEMMA StepKeeps ==
    ASSUME AuthInv, NEW p \in Procs, NEW u \in Users, u = proc[p].user, Moved(p), Local(u),
           TypeInv', BoundInv', Carried(p)', Fresh(p)', Edited(u)', Clean(u)', SpentInv', AdminInv'
    PROVE  AuthInv'
<1>1. TypeInv /\ PlaceInv /\ OneEach /\ FreshInv /\ AccountInv
  BY Zenon DEF AuthInv
<1>2. /\ OneEach' /\ \A q \in Procs : q # p => Carried(q)' /\ Fresh(q)'
      /\ \A v \in Users : v # u => Edited(v)' /\ Clean(v)'
  BY <1>1, OthersKeep, Zenon
<1>3. PlaceInv' /\ FreshInv'
  BY <1>2, Zenon DEF PlaceInv, FreshInv
<1>4. AccountInv'
  BY <1>2, Zenon DEF AccountInv
<1> QED
  BY <1>2, <1>3, <1>4, Zenon DEF AuthInv

\* A statement that changes no table, of a request that had no sessions to revoke.
LEMMA LooksOnly ==
    ASSUME AuthInv, NEW p \in Procs, Moved(p), ~Revoking(p), Carried(p)', Fresh(p)', SpentInv',
           UNCHANGED <<users, sessions, want, spent, mixed, stale, pwds>>
    PROVE  AuthInv'
<1>0. TypeInv /\ PlaceInv /\ BoundInv /\ AccountInv /\ AdminInv
  BY Zenon DEF AuthInv
<1>1. PICK u \in Users : u = proc[p].user
  BY <1>0, BusyIsRequest, Zenon DEF Moved
<1>2. Local(u)
  <2>1. pwds <= pwds
    BY <1>0, SMT DEF TypeInv
  <2> QED
    BY <1>0, <2>1, Zenon DEF Local, A!SessionsOf, A!Used, TypeInv
<1>3. Edited(u)' /\ Clean(u)'
  <2>1. Pending(u) => Pending(u)'
    BY MovedOthers, Zenon DEF Pending, Moved
  <2>2. A!SessionsOf(u)' = A!SessionsOf(u)
    BY Zenon DEF A!SessionsOf
  <2>3. Edited(u) /\ Clean(u)
    BY <1>0, Zenon DEF AccountInv
  <2> QED
    BY <2>1, <2>2, <2>3, Zenon DEF Edited, Clean
<1>4. AdminInv'
  BY <1>0, AdminKeeps, Zenon DEF A!IsAdmin
<1>5. TypeInv' /\ BoundInv'
  BY <1>0, Zenon DEF TypeInv, BoundInv, Moved, A!Used
<1> QED
  BY <1>1, <1>2, <1>3, <1>4, <1>5, StepKeeps, Zenon

\* An ended request carries nothing.
LEMMA EndedIsFine ==
    ASSUME NEW p \in Procs, proc'[p] = A!Idle
    PROVE  Carried(p)' /\ Fresh(p)'
  BY IdleHasNothing, Zenon DEF Carried, Fresh

\* A request gives up, having changed nothing in this statement.
LEMMA GivesUp ==
    ASSUME AuthInv, NEW p \in Procs, Busy(p), A!End(p), ~Revoking(p),
           UNCHANGED <<users, sessions, want, spent, mixed, stale, pwds>>
    PROVE  AuthInv'
<1>0. TypeInv /\ SpentInv
  BY Zenon DEF AuthInv
<1>1. Moved(p) /\ proc'[p] = A!Idle
  BY <1>0, EndMoves, Zenon
<1>2. SpentInv'
  BY <1>0, <1>1, IdleHasNothing, SpentKeeps, Zenon DEF Moved
<1> QED
  BY <1>1, <1>2, EndedIsFine, LooksOnly, Zenon

\* The row of the account is read, or the request ends.
LEMMA ReadKeeps ==
    ASSUME AuthConstants, AuthInv, NEW p \in Procs, A!Read(p)
    PROVE  AuthInv'
<1> DEFINE o == proc[p]
<1>0. TypeInv /\ PlaceInv /\ BoundInv /\ OneEach /\ FreshInv /\ AccountInv /\ SpentInv /\ AdminInv
  BY Zenon DEF AuthInv
<1>1. /\ Busy(p) /\ Place(p) = "read"
      /\ UNCHANGED <<users, sessions, access, want, spent, mixed, stale, pwds>>
  BY Zenon DEF A!Read, A!At, Busy, Place
<1>a. o \in Requests /\ o.op \in Kinds /\ o.user \in Users /\ o.todo \in Left(o.op)
  BY <1>0, <1>1, BusyIsRequest, Zenon
<1>2. PICK u \in Users : u = o.user
  BY <1>a, Zenon
<1>3. /\ o.op \in Readers /\ Len(o.todo) # 1 /\ Tail(o.todo) \in Left(o.op) /\ Head(Tail(o.todo)) # "read"
      /\ (Head(Tail(o.todo)) = "revoke" <=> o.op = "recover")
      /\ (o.op \in {"login", "recover"} => Head(Tail(o.todo)) # "write")
  BY <1>1, <1>a, LeftSteps, Zenon DEF Place
<1>4. /\ Moved(p)
      /\ \/ proc'[p] = A!Idle
         \/ /\ users[u] \in Rows /\ (o.op = "login" => users[u].active)
            /\ proc'[p] \in Requests /\ proc'[p].op = o.op /\ proc'[p].user = u
            /\ proc'[p].actor = o.actor /\ proc'[p].role = o.role
            /\ proc'[p].todo = Tail(o.todo) /\ proc'[p].row = users[u] /\ proc'[p].id = o.id
  <2>1. CASE A!End(p)
    BY <1>0, <1>1, <2>1, EndMoves, Zenon
  <2>2. CASE ~A!End(p)
    <3> DEFINE n == [o EXCEPT !.row = users[u]]
    <3>1. users[u] # None /\ (o.op = "login" => users[u].active) /\ A!Advance(p, n)
      BY <1>2, <2>2, Zenon DEF A!Read
    <3>2. users[u] \in Rows
      BY <1>0, <1>2, <3>1, Zenon DEF TypeInv
    <3>3. /\ n \in Requests /\ n.op = o.op /\ n.user = u /\ n.actor = o.actor /\ n.role = o.role
          /\ n.todo = o.todo /\ n.row = users[u] /\ n.id = o.id
      BY <1>a, <1>2, <3>2, NewRow, Zenon DEF Requests
    <3> HIDE DEF n
    <3>4. Moved(p) /\ proc'[p] \in Requests /\ Carries(proc'[p], n) /\ proc'[p].op = n.op
          /\ proc'[p].todo = Tail(o.todo)
      BY <1>0, <1>1, <1>2, <1>3, <3>1, <3>3, AdvanceMoves, Zenon
    <3>5. proc'[p] # A!Idle
      BY <1>a, <3>3, <3>4, IdleType, Zenon DEF AuthConstants
    <3>6. proc'[p].user = u /\ proc'[p].actor = o.actor /\ proc'[p].role = o.role
      BY <1>2, <3>4, <3>5, Zenon DEF Moved
    <3>7. proc'[p].row = users[u] /\ proc'[p].id = o.id /\ proc'[p].op = o.op
      BY <3>3, <3>4, Zenon DEF Carries
    <3> QED
      BY <3>1, <3>2, <3>4, <3>6, <3>7, Zenon
  <2> QED
    BY <2>1, <2>2, Zenon
<1>5. /\ ~Holding(p)' /\ ~Revoking(p)' /\ ~Revoking(p) /\ ~Holding(p) /\ (Busy(p)' => HasRow(p)')
      /\ ~(Busy(p)' /\ proc'[p].op = "recover" /\ Place(p)' = "write")
  <2>1. ~Holding(p) /\ ~Revoking(p)
    BY <1>1, <1>3, Zenon DEF Holding, Revoking, Readers
  <2>2. CASE proc'[p] = A!Idle
    BY <2>1, <2>2, IdleHasNothing, Zenon
  <2>3. CASE proc'[p] # A!Idle
    <3>1. proc'[p].op = o.op /\ Place(p)' = Head(Tail(o.todo))
      BY <1>4, <2>3, Zenon DEF Place
    <3>2. o.op # "refresh" /\ ~(o.op \in {"password", "block"} /\ o.op = "recover")
      BY <1>3, Zenon DEF Readers
    <3> QED
      BY <1>3, <2>1, <3>1, <3>2, Zenon DEF Holding, Revoking, HasRow
  <2> QED
    BY <2>2, <2>3, Zenon
<1>6. Carried(p)'
  <2> SUFFICES ASSUME Busy(p)'
               PROVE  Carried(p)'
    BY Zenon DEF Carried
  <2>1. proc'[p] # A!Idle
    BY IdleHasNothing, Zenon
  <2>2. Carried(p)
    BY <1>0, Zenon DEF PlaceInv
  <2>3. users[u].password <= pwds
    BY <1>0, <1>2, <1>4, <2>1, Zenon DEF BoundInv, AuthConstants
  <2> QED
    BY <1>1, <1>2, <1>3, <1>4, <1>5, <2>1, <2>2, <2>3, Zenon DEF Carried
<1>7. Fresh(p)'
  <2> SUFFICES ASSUME Busy(p)'
               PROVE  Fresh(p)'
    BY Zenon DEF Fresh
  <2>1. proc'[p] # A!Idle
    BY IdleHasNothing, Zenon
  <2> QED
    BY <1>1, <1>4, <1>5, <2>1, Zenon DEF Fresh, AuthConstants
<1>8. SpentInv'
  BY <1>0, <1>1, <1>4, <1>5, SpentKeeps, Zenon DEF Moved
<1> QED
  BY <1>1, <1>4, <1>5, <1>6, <1>7, <1>8, LooksOnly, Zenon

\* Whether any account exists is asked before the first one is created.
LEMMA CountKeeps ==
    ASSUME AuthConstants, AuthInv, NEW p \in Procs, A!Count(p)
    PROVE  AuthInv'
<1> DEFINE o == proc[p]
<1>0. TypeInv /\ PlaceInv /\ SpentInv /\ Carried(p)
  BY Zenon DEF AuthInv, PlaceInv
<1>1. /\ Busy(p) /\ Place(p) = "count"
      /\ UNCHANGED <<users, sessions, want, spent, mixed, stale, pwds>>
  BY Zenon DEF A!Count, A!At, Busy, Place
<1>2. o \in Requests /\ o.op \in Kinds /\ o.todo \in Left(o.op)
  BY <1>0, <1>1, BusyIsRequest, Zenon
<1>3. o.op = "seed" /\ Len(o.todo) # 1 /\ Tail(o.todo) \in Left(o.op) /\ Head(Tail(o.todo)) = "insert"
  BY <1>1, <1>2, LeftSteps, Zenon DEF Place
<1>4. ~Revoking(p) /\ ~Holding(p)
  BY <1>3, Zenon DEF Revoking, Holding
<1>5. CASE A!End(p)
  BY <1>1, <1>4, <1>5, GivesUp, Zenon
<1>6. CASE A!Advance(p, o)
  <2>1. /\ Moved(p) /\ proc'[p] \in Requests /\ Carries(proc'[p], o)
        /\ proc'[p].op = o.op /\ proc'[p].todo = Tail(o.todo)
    BY <1>0, <1>1, <1>2, <1>3, <1>6, AdvanceMoves, Zenon
  <2>2. ~HasRow(p)' /\ ~Holding(p)' /\ proc'[p].op \notin A!Manage /\ proc'[p].op # "recover"
    BY <1>3, <2>1, Zenon DEF HasRow, Holding, Readers, A!Manage
  <2>3. Carried(p)'
    BY <1>0, <1>1, <1>3, <1>4, <2>1, <2>2, Zenon DEF Carried, Carries
  <2>4. Fresh(p)'
    BY <2>2, Zenon DEF Fresh
  <2>5. SpentInv'
    BY <1>0, <1>1, <2>1, <2>2, SpentKeeps, Zenon DEF Moved
  <2> QED
    BY <1>1, <1>4, <2>1, <2>3, <2>4, <2>5, LooksOnly, Zenon
<1> QED
  BY <1>5, <1>6, Zenon DEF A!Count

\* What is left of the table of sessions.
LEMMA WithoutSome ==
    ASSUME TypeInv, NEW S, sessions' = A!Without(S), spent' = spent
    PROVE  /\ DOMAIN sessions' = DOMAIN sessions \ S /\ sessions' \in [DOMAIN sessions' -> Sessions]
           /\ DOMAIN sessions' \subseteq A!Used'
           /\ \A i \in DOMAIN sessions' : sessions'[i] = sessions[i]
           /\ \A v : A!SessionsOf(v)' = A!SessionsOf(v) \ S
<1>1. sessions' = [i \in DOMAIN sessions \ S |-> sessions[i]]
  BY Zenon DEF A!Without
<1>2. sessions \in [DOMAIN sessions -> Sessions] /\ DOMAIN sessions \subseteq A!Used
  BY Zenon DEF TypeInv
<1>3. DOMAIN sessions' = DOMAIN sessions \ S
  BY <1>1, Zenon
<1>4. \A i \in DOMAIN sessions \ S : sessions'[i] = sessions[i]
  BY <1>1, Zenon
<1>5. sessions' \in [DOMAIN sessions \ S -> Sessions]
  BY <1>1, <1>2, Zenon
<1>6. A!Used' = A!Used
  BY Zenon DEF A!Used
<1>7. ASSUME NEW v
      PROVE  A!SessionsOf(v)' = A!SessionsOf(v) \ S
  BY <1>3, <1>4, Zenon DEF A!SessionsOf
<1> QED
  BY <1>2, <1>3, <1>4, <1>5, <1>6, <1>7, Zenon

\* Sessions of one account go and the rest of the tables stays.
LEMMA WithoutIsLocal ==
    ASSUME TypeInv, NEW u \in Users, NEW S, S \cap DOMAIN sessions \subseteq A!SessionsOf(u), sessions' = A!Without(S),
           \A v \in Users : v # u => users'[v] = users[v] /\ want'[v] = want[v],
           spent' = spent, pwds' = pwds, mixed \subseteq mixed'
    PROVE  Local(u)
<1>1. pwds <= pwds /\ pwds \in Nat
  BY SMT DEF TypeInv
<1>2. A!Used' = A!Used
  BY Zenon DEF A!Used
<1>3. ASSUME NEW v \in Users, v # u
      PROVE  /\ A!SessionsOf(v)' = A!SessionsOf(v)
             /\ \A i \in A!SessionsOf(v) : sessions'[i] = sessions[i]
  <2>1. A!SessionsOf(v) \cap S = {}
    BY <1>3, Zenon DEF A!SessionsOf
  <2>2. A!SessionsOf(v)' = A!SessionsOf(v) \ S /\ \A i \in DOMAIN sessions' : sessions'[i] = sessions[i]
    BY WithoutSome, Zenon
  <2>3. A!SessionsOf(v)' = A!SessionsOf(v)
    BY <2>1, <2>2, Zenon
  <2>4. A!SessionsOf(v)' \subseteq DOMAIN sessions'
    BY Zenon DEF A!SessionsOf
  <2> QED
    BY <2>2, <2>3, <2>4, Zenon
<1> QED
  BY <1>1, <1>2, <1>3, Zenon DEF Local

\* Fewer sessions, the same account.
LEMMA CleanShrinks ==
    ASSUME TypeInv, NEW u \in Users, Clean(u), NEW S, sessions' = A!Without(S), spent' = spent,
           users'[u] = users[u], mixed \subseteq mixed', Pending(u) => Pending(u)'
    PROVE  Clean(u)'
<1>1. A!SessionsOf(u)' = A!SessionsOf(u) \ S /\ \A i \in DOMAIN sessions' : sessions'[i] = sessions[i]
  BY WithoutSome, Zenon
<1>2. A!SessionsOf(u)' \subseteq DOMAIN sessions' /\ A!SessionsOf(u)' \subseteq A!SessionsOf(u)
  BY <1>1, Zenon DEF A!SessionsOf
<1>3. A!SessionsOf(u)' # {} => users'[u] # None
  BY <1>2, Zenon DEF Clean
<1>4. ASSUME users'[u] # None, u \notin mixed', ~Pending(u)'
      PROVE  /\ ~users'[u].active => A!SessionsOf(u)' = {}
             /\ \A i \in A!SessionsOf(u)' : sessions'[i].password = users'[u].password
  <2>1. /\ ~users[u].active => A!SessionsOf(u) = {}
        /\ \A i \in A!SessionsOf(u) : sessions[i].password = users[u].password
    BY <1>4, Zenon DEF Clean
  <2> QED
    BY <1>1, <1>2, <2>1, Zenon
<1> QED
  BY <1>3, <1>4, Zenon DEF Clean

\* The sessions of the account are revoked.
LEMMA RevokeKeeps ==
    ASSUME AuthConstants, AuthInv, NEW p \in Procs, A!Revoke(p)
    PROVE  AuthInv'
<1> DEFINE o == proc[p]
<1>0. /\ TypeInv /\ PlaceInv /\ BoundInv /\ FreshInv /\ AccountInv /\ SpentInv /\ AdminInv
      /\ Carried(p) /\ Fresh(p)
  BY Zenon DEF AuthInv, PlaceInv, FreshInv
<1>1. /\ Busy(p) /\ Place(p) = "revoke" /\ A!Advance(p, o)
      /\ UNCHANGED <<users, want, spent, mixed, stale, pwds>>
  BY Zenon DEF A!Revoke, A!At, Busy, Place
<1>a. o \in Requests /\ o.op \in Kinds /\ o.user \in Users /\ o.todo \in Left(o.op)
  BY <1>0, <1>1, BusyIsRequest, Zenon
<1>2. PICK u \in Users : u = o.user
  BY <1>a, Zenon
<1>3. sessions' = A!Without(A!SessionsOf(u))
  BY <1>2, Zenon DEF A!Revoke
<1>4. \/ o.op \in {"password", "block"} /\ Len(o.todo) = 1
      \/ /\ o.op = "recover" /\ Len(o.todo) # 1
         /\ Tail(o.todo) \in Left(o.op) /\ Head(Tail(o.todo)) = "write"
  BY <1>1, <1>a, LeftSteps, Zenon DEF Place
<1>5. /\ Moved(p)
      /\ Len(o.todo) = 1 => proc'[p] = A!Idle
      /\ Len(o.todo) # 1 => /\ proc'[p] \in Requests /\ Carries(proc'[p], o)
                            /\ proc'[p].op = o.op /\ proc'[p].todo = Tail(o.todo)
  BY <1>0, <1>1, <1>a, <1>4, AdvanceMoves, Zenon
<1>6. /\ DOMAIN sessions' = DOMAIN sessions \ A!SessionsOf(u) /\ sessions' \in [DOMAIN sessions' -> Sessions]
      /\ DOMAIN sessions' \subseteq A!Used' /\ \A i \in DOMAIN sessions' : sessions'[i] = sessions[i]
      /\ A!SessionsOf(u)' = {}
  <2>1. A!SessionsOf(u)' = A!SessionsOf(u) \ A!SessionsOf(u)
    BY <1>0, <1>1, <1>3, WithoutSome, Zenon
  <2> QED
    BY <1>0, <1>1, <1>3, <2>1, WithoutSome, Zenon
<1>7. Local(u)
  BY <1>0, <1>1, <1>3, WithoutIsLocal, Zenon
<1>8. Carried(p)' /\ Fresh(p)' /\ ~Holding(p)'
  <2>1. CASE Len(o.todo) = 1
    BY <1>5, <2>1, EndedIsFine, IdleHasNothing, Zenon
  <2>2. CASE Len(o.todo) # 1
    <3>1. /\ o.op = "recover" /\ proc'[p] \in Requests /\ Carries(proc'[p], o) /\ proc'[p].op = o.op
          /\ proc'[p].todo = Tail(o.todo) /\ proc'[p].todo \in Left(o.op) /\ Place(p)' = "write"
      BY <1>4, <1>5, <2>2, Zenon DEF Place
    <3>2. proc'[p] # A!Idle
      BY <1>a, <3>1, IdleType, Zenon DEF AuthConstants
    <3>3. proc'[p].user = u /\ proc'[p].actor = o.actor /\ proc'[p].role = o.role
      BY <1>2, <1>5, <3>2, Zenon DEF Moved
    <3>4. HasRow(p) /\ ~Holding(p) /\ ~Holding(p)'
      BY <1>1, <3>1, Zenon DEF HasRow, Holding, Readers
    <3>5. Carried(p)'
      BY <1>0, <1>1, <1>2, <3>1, <3>3, <3>4, Zenon DEF Carried, Carries
    <3>6. A!SessionsOf(proc[p].user)' = {}
      BY <1>6, <3>3, Zenon DEF A!SessionsOf
    <3>7. u \notin mixed => users[u] # None /\ o.row = users[u]
      BY <1>0, <1>1, <1>2, <3>4, Zenon DEF Fresh
    <3>8. Fresh(p)'
      BY <1>1, <3>1, <3>3, <3>4, <3>6, <3>7, Zenon DEF Fresh, Carries
    <3> QED
      BY <3>4, <3>5, <3>8, Zenon
  <2> QED
    BY <2>1, <2>2, Zenon
<1>9. Edited(u)' /\ Clean(u)'
  <2>1. Edited(u)
    BY <1>0, Zenon DEF AccountInv
  <2> QED
    BY <1>1, <1>6, <2>1, Zenon DEF Edited, Clean
<1>10. SpentInv'
  BY <1>0, <1>1, <1>5, <1>6, <1>8, SpentKeeps, Zenon DEF Moved
<1>11. AdminInv'
  BY <1>0, <1>1, <1>5, AdminKeeps, Zenon DEF A!IsAdmin
<1>12. TypeInv' /\ BoundInv'
  BY <1>0, <1>1, <1>5, <1>6, Zenon DEF TypeInv, BoundInv, Moved
<1> QED
  BY <1>2, <1>5, <1>7, <1>8, <1>9, <1>10, <1>11, <1>12, StepKeeps, Zenon

\* They could not be revoked: the recovery stops, the others do not notice.
LEMMA RevokeFailsKeeps ==
    ASSUME AuthConstants, AuthInv, NEW p \in Procs, A!RevokeFails(p)
    PROVE  AuthInv'
<1> DEFINE o == proc[p]
<1>0. TypeInv /\ PlaceInv /\ BoundInv /\ AccountInv /\ SpentInv /\ AdminInv
  BY Zenon DEF AuthInv
<1>1. /\ Busy(p) /\ A!End(p) /\ UNCHANGED <<users, sessions, want, spent, stale, pwds>>
      /\ mixed' = IF o.op = "recover" THEN mixed ELSE mixed \cup {o.user}
  BY Zenon DEF A!RevokeFails, A!At, Busy
<1>2. PICK u \in Users : u = o.user
  BY <1>0, <1>1, BusyIsRequest, Zenon
<1>3. Moved(p) /\ proc'[p] = A!Idle
  BY <1>0, <1>1, EndMoves, Zenon
<1>4. CASE o.op = "recover"
  <2>1. ~Revoking(p) /\ mixed' = mixed
    BY <1>1, <1>4, Zenon DEF Revoking
  <2> QED
    BY <1>1, <2>1, GivesUp, Zenon
<1>5. CASE o.op # "recover"
  <2>1. u \in mixed' /\ mixed \subseteq mixed' /\ mixed' \subseteq Users
    BY <1>0, <1>1, <1>2, <1>5, Zenon DEF TypeInv
  <2>2. A!Used' = A!Used /\ \A v : A!SessionsOf(v)' = A!SessionsOf(v)
    BY <1>1, Zenon DEF A!Used, A!SessionsOf
  <2>3. pwds <= pwds
    BY <1>0, SMT DEF TypeInv
  <2>4. Local(u)
    BY <1>0, <1>1, <2>1, <2>2, <2>3, Zenon DEF Local, TypeInv
  <2>5. Edited(u)' /\ Clean(u)'
    <3>1. Clean(u)
      BY <1>0, Zenon DEF AccountInv
    <3> QED
      BY <1>1, <2>1, <2>2, <3>1, Zenon DEF Edited, Clean
  <2>6. SpentInv'
    BY <1>0, <1>1, <1>3, <2>1, IdleHasNothing, SpentKeeps, Zenon DEF Moved
  <2>7. AdminInv'
    BY <1>0, <1>1, <1>3, <2>1, AdminKeeps, Zenon DEF A!IsAdmin
  <2>8. TypeInv' /\ BoundInv'
    BY <1>0, <1>1, <1>3, <2>1, <2>2, Zenon DEF TypeInv, BoundInv, Moved
  <2> QED
    BY <1>2, <1>3, <2>4, <2>5, <2>6, <2>7, <2>8, EndedIsFine, StepKeeps, Zenon
<1> QED
  BY <1>4, <1>5, Zenon

\* The account is removed, and its sessions with it.
LEMMA RemoveKeeps ==
    ASSUME AuthConstants, AuthInv, NEW p \in Procs, A!Remove(p)
    PROVE  AuthInv'
<1> DEFINE o == proc[p]
<1>0. TypeInv /\ PlaceInv /\ BoundInv /\ AccountInv /\ SpentInv /\ AdminInv /\ Carried(p)
  BY Zenon DEF AuthInv, PlaceInv
<1>1. /\ Busy(p) /\ Place(p) = "remove" /\ A!End(p)
      /\ UNCHANGED <<want, spent, mixed, stale, pwds>>
  BY Zenon DEF A!Remove, A!At, Busy, Place
<1>a. o.op \in Kinds /\ o.user \in Users /\ o.actor \in Users /\ o.todo \in Left(o.op)
  BY <1>0, <1>1, BusyIsRequest, Zenon
<1>2. PICK u \in Users : u = o.user
  BY <1>a, Zenon
<1>3. sessions' = A!Without(A!SessionsOf(u)) /\ users' = [users EXCEPT ![u] = None]
  BY <1>2, Zenon DEF A!Remove
<1>4. o.op = "delete" /\ o.op \in A!Manage
  BY <1>1, <1>a, LeftSteps, Zenon DEF Place, A!Manage
<1>5. Moved(p) /\ proc'[p] = A!Idle
  BY <1>0, <1>1, EndMoves, Zenon
<1>6. /\ DOMAIN sessions' = DOMAIN sessions \ A!SessionsOf(u) /\ sessions' \in [DOMAIN sessions' -> Sessions]
      /\ DOMAIN sessions' \subseteq A!Used' /\ \A i \in DOMAIN sessions' : sessions'[i] = sessions[i]
      /\ A!SessionsOf(u)' = {}
  <2>1. A!SessionsOf(u)' = A!SessionsOf(u) \ A!SessionsOf(u)
    BY <1>0, <1>1, <1>3, WithoutSome, Zenon
  <2> QED
    BY <1>0, <1>1, <1>3, <2>1, WithoutSome, Zenon
<1>7. /\ users' \in [Users -> Rows \cup {None}] /\ users'[u] = None
      /\ \A v \in Users : v # u => users'[v] = users[v]
  BY <1>0, <1>3, Zenon DEF TypeInv
<1>8. Local(u)
  BY <1>0, <1>1, <1>3, <1>7, WithoutIsLocal, Zenon
<1>9. Edited(u)' /\ Clean(u)'
  BY <1>6, <1>7, Zenon DEF Edited, Clean
<1>10. SpentInv'
  BY <1>0, <1>1, <1>5, <1>6, IdleHasNothing, SpentKeeps, Zenon DEF Moved
<1>11. AdminInv'
  <2> SUFFICES ASSUME ~stale, mixed = {}
               PROVE  AdminInv'
    BY <1>1, Zenon DEF AdminInv
  <2>1. PICK a \in Users : a = o.actor
    BY <1>a, Zenon
  <2>2. a # u
    BY <1>0, <1>1, <1>2, <1>4, <2>1, Zenon DEF Carried, A!SelfAllowed
  <2>3. A!IsAdmin(a)
    BY <1>0, <1>1, <1>4, <2>1, Zenon DEF AdminInv, A!IsAdmin
  <2>4. A!IsAdmin(a)'
    BY <1>7, <2>2, <2>3, Zenon DEF A!IsAdmin
  <2>5. ASSUME NEW q \in Procs, Busy(q)', proc'[q].op \in A!Manage
        PROVE  FALSE
    <3>1. q # p
      BY <1>5, <2>5, IdleHasNothing, Zenon
    <3>2. Busy(q) /\ proc[q].op \in A!Manage
      BY <1>5, <2>5, <3>1, MovedOthers, Zenon DEF Moved
    <3> QED
      BY <1>0, <1>1, <1>4, <3>1, <3>2, Zenon DEF AdminInv
  <2> QED
    BY <2>4, <2>5, Zenon DEF AdminInv
<1>12. TypeInv' /\ BoundInv'
  <2>1. BoundInv'
    BY <1>0, <1>1, <1>7, Zenon DEF BoundInv
  <2> QED
    BY <1>0, <1>1, <1>5, <1>6, <1>7, <2>1, Zenon DEF TypeInv, Moved
<1> QED
  BY <1>2, <1>5, <1>8, <1>9, <1>10, <1>11, <1>12, EndedIsFine, StepKeeps, Zenon

\* A row as it is created.
LEMMA RowType ==
    ASSUME NEW w \in Nat, NEW r \in A!Roles, NEW a \in BOOLEAN
    PROVE  /\ A!Row(w, r, a) \in Rows /\ A!Row(w, r, a).password = w
           /\ A!Row(w, r, a).role = r /\ A!Row(w, r, a).active = a
  BY SMT DEF Rows, A!Row

\* An account is created unless the name is taken.
LEMMA InsertKeeps ==
    ASSUME AuthConstants, AuthInv, NEW p \in Procs, A!Insert(p)
    PROVE  AuthInv'
<1> DEFINE o == proc[p]
<1> DEFINE row == A!Row(pwds + 1, IF o.op = "seed" THEN "admin" ELSE o.role, TRUE)
<1>0. TypeInv /\ PlaceInv /\ BoundInv /\ AccountInv /\ SpentInv /\ AdminInv /\ Carried(p)
  BY Zenon DEF AuthInv, PlaceInv
<1>1. /\ Busy(p) /\ Place(p) = "insert" /\ A!End(p)
      /\ UNCHANGED <<sessions, spent, mixed, stale>>
  BY Zenon DEF A!Insert, A!At, Busy, Place
<1>a. /\ o.op \in Kinds /\ o.user \in Users /\ o.actor \in Users /\ o.role \in A!Roles
      /\ o.todo \in Left(o.op)
  BY <1>0, <1>1, BusyIsRequest, Zenon
<1>2. PICK u \in Users : u = o.user
  BY <1>a, Zenon
<1>3. o.op \in {"seed", "create"}
  BY <1>1, <1>a, LeftSteps, Zenon DEF Place
<1>4. CASE users[u] # None
  <2>1. UNCHANGED <<users, want, pwds>>
    BY <1>2, <1>4, Zenon DEF A!Insert
  <2>2. ~Revoking(p)
    BY <1>3, Zenon DEF Revoking
  <2> QED
    BY <1>1, <2>1, <2>2, GivesUp, Zenon
<1>5. CASE users[u] = None
  <2>1. /\ users' = [users EXCEPT ![u] = row] /\ want' = [want EXCEPT ![u] = row] /\ pwds' = pwds + 1
    BY <1>2, <1>5, Zenon DEF A!Insert
  <2>2. /\ pwds \in Nat /\ pwds' \in Nat /\ pwds + 1 \in Nat /\ pwds <= pwds' /\ pwds + 1 <= pwds'
        /\ \A n \in Nat : n <= pwds => n <= pwds'
    <3>1. pwds \in Nat
      BY <1>0, Zenon DEF TypeInv
    <3> QED
      BY <2>1, <3>1, SMT
  <2>3. /\ row \in Rows /\ row # None /\ row.password = pwds + 1 /\ row.active = TRUE
        /\ o.op = "seed" => row.role = "admin"
    <3> DEFINE r == IF o.op = "seed" THEN "admin" ELSE o.role
    <3>1. r \in A!Roles /\ (o.op = "seed" => r = "admin") /\ row = A!Row(pwds + 1, r, TRUE)
      BY <1>a, Zenon DEF A!Roles
    <3> HIDE DEF r, row
    <3>2. row \in Rows /\ row.password = pwds + 1 /\ row.role = r /\ row.active = TRUE
      BY <2>2, <3>1, RowType, Zenon
    <3> QED
      BY <3>1, <3>2, Zenon DEF AuthConstants
  <2> HIDE DEF row
  <2>4. /\ users' \in [Users -> Rows \cup {None}] /\ DOMAIN want' = Users
        /\ users'[u] = row /\ want'[u] = row
        /\ \A v \in Users : v # u => users'[v] = users[v] /\ want'[v] = want[v]
    BY <1>0, <2>1, <2>3, Zenon DEF TypeInv
  <2>5. Moved(p) /\ proc'[p] = A!Idle
    BY <1>0, <1>1, EndMoves, Zenon
  <2>6. A!Used' = A!Used /\ \A v : A!SessionsOf(v)' = A!SessionsOf(v)
    BY <1>1, Zenon DEF A!Used, A!SessionsOf
  <2>7. Local(u)
    BY <1>1, <2>2, <2>4, <2>6, Zenon DEF Local
  <2>8. Edited(u)' /\ Clean(u)'
    <3>1. A!SessionsOf(u) = {}
      BY <1>0, <1>5, Zenon DEF AccountInv, Clean
    <3> QED
      BY <2>4, <2>6, <3>1, Zenon DEF Edited, Clean
  <2>9. SpentInv'
    BY <1>0, <1>1, <2>5, IdleHasNothing, SpentKeeps, Zenon DEF Moved
  <2>10. AdminInv'
    <3> SUFFICES ASSUME ~stale, mixed = {}
                 PROVE  AdminInv'
      BY <1>1, Zenon DEF AdminInv
    <3>1. \A v \in Users : A!IsAdmin(v) => A!IsAdmin(v)'
      BY <1>5, <2>4, Zenon DEF A!IsAdmin
    <3>2. CASE o.op = "seed"
      <4>1. A!IsAdmin(u)'
        BY <2>3, <2>4, <3>2, Zenon DEF A!IsAdmin
      <4> QED
        BY <1>0, <1>1, <2>5, <3>1, <4>1, AdminKeeps, Zenon
    <3>3. CASE o.op = "create"
      <4>1. o.op \in A!Manage
        BY <3>3, Zenon DEF A!Manage
      <4>2. users[o.actor] # None
        BY <1>0, <1>1, <4>1, Zenon DEF AdminInv, A!IsAdmin
      <4> QED
        BY <1>0, <1>1, <1>a, <2>5, <3>1, <4>2, AdminKeeps, Zenon
    <3> QED
      BY <1>3, <3>2, <3>3, Zenon
  <2>11. BoundInv'
    <3> SUFFICES ASSUME NEW v \in Users, users'[v] # None
                 PROVE  users'[v].password <= pwds'
      BY Zenon DEF BoundInv
    <3>1. CASE v = u
      BY <2>2, <2>3, <2>4, <3>1, Zenon
    <3>2. CASE v # u
      <4>1. users'[v] = users[v] /\ users[v] \in Rows /\ users[v].password <= pwds
        BY <1>0, <2>4, <3>2, Zenon DEF TypeInv, BoundInv
      <4> QED
        BY <2>2, <4>1, RowFields, Zenon
    <3> QED
      BY <3>1, <3>2, Zenon
  <2>12. TypeInv'
    BY <1>0, <1>1, <2>2, <2>4, <2>5, <2>6, Zenon DEF TypeInv, Moved
  <2> QED
    BY <1>2, <2>5, <2>7, <2>8, <2>9, <2>10, <2>11, <2>12, EndedIsFine, StepKeeps, Zenon
<1> QED
  BY <1>4, <1>5, Zenon

\* The session presented is deleted before its successor exists.
LEMMA RotateKeeps ==
    ASSUME AuthConstants, AuthInv, NEW p \in Procs, A!Rotate(p)
    PROVE  AuthInv'
<1> DEFINE o == proc[p]
<1>0. /\ TypeInv /\ PlaceInv /\ BoundInv /\ AccountInv /\ SpentInv /\ AdminInv
      /\ Carried(p) /\ Fresh(p)
  BY Zenon DEF AuthInv, PlaceInv, FreshInv
<1>1. /\ Busy(p) /\ Place(p) = "rotate" /\ A!Advance(p, o) /\ sessions' = A!Without({o.id})
      /\ UNCHANGED <<users, want, spent, mixed, stale, pwds>>
  BY Zenon DEF A!Rotate, A!DeleteByID, A!At, Busy, Place
<1>a. o \in Requests /\ o.op \in Kinds /\ o.user \in Users /\ o.todo \in Left(o.op)
  BY <1>0, <1>1, BusyIsRequest, Zenon
<1>2. PICK u \in Users : u = o.user
  BY <1>a, Zenon
<1>3. o.op = "refresh" /\ Len(o.todo) # 1 /\ Tail(o.todo) \in Left(o.op) /\ Head(Tail(o.todo)) = "session"
  BY <1>1, <1>a, LeftSteps, Zenon DEF Place
<1>4. /\ Moved(p) /\ proc'[p] \in Requests /\ Carries(proc'[p], o)
      /\ proc'[p].op = o.op /\ proc'[p].todo = Tail(o.todo)
  BY <1>0, <1>1, <1>a, <1>3, AdvanceMoves, Zenon
<1>5. proc'[p].user = u /\ proc'[p].actor = o.actor /\ proc'[p].role = o.role
  <2>1. proc'[p] # A!Idle
    BY <1>a, <1>4, IdleType, Zenon DEF AuthConstants
  <2> QED
    BY <1>2, <1>4, <2>1, Zenon DEF Moved
<1>6. /\ Holding(p) /\ ~Revoking(p) /\ Place(p)' = "session"
      /\ ~HasRow(p)' /\ Holding(p)'
  <2>1. Busy(p)'
    BY <1>1, <1>4, Zenon DEF Busy
  <2>2. Place(p)' = "session"
    BY <1>3, <1>4, Zenon DEF Place
  <2> QED
    BY <1>1, <1>3, <1>4, <2>1, <2>2, Zenon DEF Holding, Revoking, HasRow, Readers
<1>7. /\ DOMAIN sessions' = DOMAIN sessions \ {o.id} /\ sessions' \in [DOMAIN sessions' -> Sessions]
      /\ DOMAIN sessions' \subseteq A!Used' /\ \A i \in DOMAIN sessions' : sessions'[i] = sessions[i]
  BY <1>0, <1>1, WithoutSome, Zenon
<1>8. A!Used' = A!Used
  BY <1>1, Zenon DEF A!Used
<1>9. Local(u)
  <2>1. {o.id} \cap DOMAIN sessions \subseteq A!SessionsOf(u)
    BY <1>0, <1>2, <1>6, Zenon DEF SpentInv, A!SessionsOf
  <2> QED
    BY <1>0, <1>1, <2>1, WithoutIsLocal, Zenon
<1>10. Carried(p)'
  BY <1>0, <1>1, <1>2, <1>3, <1>4, <1>5, <1>6, <1>8, Zenon DEF Carried, Carries
<1>11. Fresh(p)'
  <2>1. o.op # "recover"
    BY <1>3, Zenon
  <2> QED
    BY <1>0, <1>1, <1>2, <1>4, <1>5, <1>6, <2>1, Zenon DEF Fresh, Carries
<1>12. Edited(u)' /\ Clean(u)'
  <2>1. Pending(u) => Pending(u)'
    BY <1>4, <1>6, MovedOthers, Zenon DEF Pending, Moved
  <2>2. Edited(u) /\ Clean(u)
    BY <1>0, Zenon DEF AccountInv
  <2> QED
    BY <1>0, <1>1, <2>1, <2>2, CleanShrinks, Zenon DEF Edited
<1>13. SpentInv'
  <2>1. proc'[p].id = o.id /\ proc'[p].user = o.user /\ o.id \notin DOMAIN sessions'
    BY <1>2, <1>4, <1>5, <1>7, Zenon DEF Carries
  <2> QED
    BY <1>0, <1>1, <1>4, <1>6, <1>7, <2>1, SpentKeeps, Zenon DEF Moved
<1>14. AdminInv'
  BY <1>0, <1>1, <1>4, AdminKeeps, Zenon DEF A!IsAdmin
<1>15. TypeInv' /\ BoundInv'
  BY <1>0, <1>1, <1>4, <1>7, Zenon DEF TypeInv, BoundInv, Moved
<1> QED
  BY <1>2, <1>4, <1>9, <1>10, <1>11, <1>12, <1>13, <1>14, <1>15, StepKeeps, Zenon

\* The same for the three fields FindSession sets.
LEMMA NewFound ==
    ASSUME NEW K, NEW U, NEW R, NEW T, NEW W, NEW I, NEW P, NEW i \in I, NEW w \in W, NEW x \in P,
           NEW o \in [op : K, user : U, actor : U, role : R, todo : T, row : W, id : I, pwd : P]
    PROVE  LET n == [o EXCEPT !.id = i, !.row = w, !.pwd = x] IN
           /\ n \in [op : K, user : U, actor : U, role : R, todo : T, row : W, id : I, pwd : P]
           /\ n.op = o.op /\ n.user = o.user /\ n.actor = o.actor /\ n.role = o.role
           /\ n.todo = o.todo /\ n.row = w /\ n.id = i /\ n.pwd = x
<1> DEFINE Q == [op : K, user : U, actor : U, role : R, todo : T, row : W, id : I, pwd : P]
<1> DEFINE a == [o EXCEPT !.id = i]
<1> DEFINE b == [a EXCEPT !.row = w]
<1> DEFINE c == [b EXCEPT !.pwd = x]
<1>1. /\ a \in Q /\ a.op = o.op /\ a.user = o.user /\ a.actor = o.actor /\ a.role = o.role
      /\ a.todo = o.todo /\ a.row = o.row /\ a.id = i /\ a.pwd = o.pwd
  BY SMT
<1> HIDE DEF a
<1>2. /\ b \in Q /\ b.op = o.op /\ b.user = o.user /\ b.actor = o.actor /\ b.role = o.role
      /\ b.todo = o.todo /\ b.row = w /\ b.id = i
  BY <1>1, NewRow, Zenon
<1> HIDE DEF b
<1>3. /\ c \in Q /\ c.op = o.op /\ c.user = o.user /\ c.actor = o.actor /\ c.role = o.role
      /\ c.todo = o.todo /\ c.row = w /\ c.id = i /\ c.pwd = x
  BY <1>2, SMT
<1>4. c = [o EXCEPT !.id = i, !.row = w, !.pwd = x]
  BY DEF a, b
<1> HIDE DEF c
<1> QED
  BY <1>3, <1>4, Zenon

\* The session presented and the row of its account go along with the request.
LEMMA FoundKeeps ==
    ASSUME AuthConstants, AuthInv, NEW p \in Procs, Busy(p), Place(p) = "find",
           NEW u \in Users, u = proc[p].user, NEW i \in A!SessionsOf(u),
           A!Advance(p, [proc[p] EXCEPT !.id = i, !.row = users[u], !.pwd = sessions[i].password]),
           UNCHANGED <<users, sessions, want, spent, mixed, stale, pwds>>
    PROVE  AuthInv'
<1> DEFINE o == proc[p]
<1> DEFINE n == [o EXCEPT !.id = i, !.row = users[u], !.pwd = sessions[i].password]
<1>0. /\ TypeInv /\ PlaceInv /\ OneEach /\ AccountInv /\ SpentInv
      /\ Carried(p) /\ Clean(u)
  BY Zenon DEF AuthInv, PlaceInv, AccountInv
<1>1. o \in Requests /\ o.op \in Kinds /\ o.todo \in Left(o.op)
  BY <1>0, BusyIsRequest, Zenon
<1>2. o.op = "refresh" /\ Len(o.todo) # 1 /\ Tail(o.todo) \in Left(o.op) /\ Head(Tail(o.todo)) = "rotate"
  BY <1>1, LeftSteps, Zenon DEF Place
<1>3. i \in DOMAIN sessions /\ sessions[i].user = u /\ i \in A!Used /\ i \in A!Ids /\ sessions[i] \in Sessions
  BY <1>0, Zenon DEF A!SessionsOf, A!Used, TypeInv
<1>4. users[u] \in Rows /\ users[u] # None /\ sessions[i].password \in Nat
  BY <1>0, <1>3, Zenon DEF Clean, TypeInv, Sessions
<1>5. /\ n \in Requests /\ n.op = o.op /\ n.user = o.user /\ n.actor = o.actor /\ n.role = o.role
      /\ n.todo = o.todo /\ n.row = users[u] /\ n.id = i /\ n.pwd = sessions[i].password
  BY <1>1, <1>3, <1>4, NewFound, Zenon DEF Requests
<1>6. A!Advance(p, n)
  OBVIOUS
<1> HIDE DEF n
<1>7. /\ Moved(p) /\ proc'[p] \in Requests /\ Carries(proc'[p], n)
      /\ proc'[p].op = o.op /\ proc'[p].todo = Tail(o.todo)
  BY <1>0, <1>2, <1>5, <1>6, AdvanceMoves, Zenon
<1>8. proc'[p].user = u /\ proc'[p].actor = o.actor /\ proc'[p].role = o.role
  <2>1. proc'[p] # A!Idle
    BY <1>1, <1>7, IdleType, Zenon DEF AuthConstants
  <2> QED
    BY <1>7, <2>1, Zenon DEF Moved
<1>9. proc'[p].row = users[u] /\ proc'[p].id = i /\ proc'[p].pwd = sessions[i].password
  BY <1>5, <1>7, Zenon DEF Carries
<1>10. /\ ~Revoking(p) /\ Place(p)' = "rotate" /\ ~HasRow(p)' /\ Holding(p)'
       /\ "refresh" \notin A!Manage
  <2>1. Busy(p)'
    BY <1>7, Zenon DEF Busy
  <2>2. Place(p)' = "rotate"
    BY <1>2, <1>7, Zenon DEF Place
  <2> QED
    BY <1>2, <1>7, <2>1, <2>2, Zenon DEF Holding, Revoking, HasRow, Readers, A!Manage
<1>11. Carried(p)'
  <2>1. A!Used' = A!Used
    BY Zenon DEF A!Used
  <2> QED
    BY <1>2, <1>3, <1>4, <1>7, <1>9, <1>10, <2>1, Zenon DEF Carried
<1>12. Fresh(p)'
  <2> SUFFICES ASSUME u \notin mixed
               PROVE  users[u].active /\ sessions[i].password = users[u].password
    BY <1>2, <1>4, <1>7, <1>8, <1>9, <1>10, Zenon DEF Fresh
  <2>1. ~Pending(u)
    <3> SUFFICES ASSUME NEW q \in Procs, Revoking(q), proc[q].user = u
                 PROVE  FALSE
      BY Zenon DEF Pending
    <3>1. Busy(q) /\ q # p
      BY <1>10, Zenon DEF Revoking
    <3> QED
      BY <1>0, <3>1, Zenon DEF OneEach
  <2> QED
    BY <1>0, <1>4, <2>1, Zenon DEF Clean
<1>13. SpentInv'
  <2>0. /\ \A q \in Procs : q # p => /\ proc'[q] = proc[q] /\ Place(q)' = Place(q)
                                     /\ Holding(q)' <=> Holding(q)
    BY <1>7, MovedOthers, Zenon DEF Moved
  <2>1. ASSUME NEW q \in Procs, Holding(q)', proc'[q].id \in DOMAIN sessions'
        PROVE  sessions'[proc'[q].id].user = proc'[q].user /\ Place(q)' # "session"
    <3>1. CASE q = p
      BY <1>3, <1>8, <1>9, <1>10, <3>1, Zenon
    <3>2. CASE q # p
      BY <1>0, <2>0, <2>1, <3>2, Zenon DEF SpentInv
    <3> QED
      BY <3>1, <3>2, Zenon
  <2>2. ASSUME NEW q \in Procs, Holding(q)', proc'[q].id = i
        PROVE  proc'[q].user = u
    BY <1>3, <2>1, <2>2, Zenon
  <2>3. ASSUME NEW q \in Procs, NEW r \in Procs, Holding(q)', Holding(r)', proc'[q].id = proc'[r].id
        PROVE  proc'[q].user = proc'[r].user
    <3>1. CASE q = p \/ r = p
      BY <1>9, <2>2, <2>3, <3>1, Zenon
    <3>2. CASE q # p /\ r # p
      <4>1. Holding(q) /\ Holding(r) /\ proc[q].id = proc[r].id
        BY <2>0, <2>3, <3>2, Zenon
      <4>2. proc[q].user = proc[r].user
        BY <1>0, <4>1, Zenon DEF SpentInv
      <4> QED
        BY <2>0, <3>2, <4>2, Zenon
    <3> QED
      BY <3>1, <3>2, Zenon
  <2>4. ASSUME mixed = {}
        PROVE  /\ \A j \in DOMAIN sessions : spent[j] = 0
               /\ \A q \in Procs : Holding(q)' => spent[proc'[q].id] = 0
               /\ \A j \in A!Used' : spent[j] <= 1
    <3>1. /\ \A j \in DOMAIN sessions : spent[j] = 0
          /\ \A q \in Procs : Holding(q) => spent[proc[q].id] = 0
          /\ \A j \in A!Used : spent[j] <= 1
      BY <1>0, <2>4, Zenon DEF SpentInv
    <3>2. A!Used' = A!Used
      BY Zenon DEF A!Used
    <3>3. ASSUME NEW q \in Procs, Holding(q)'
          PROVE  spent[proc'[q].id] = 0
      BY <1>3, <1>9, <2>0, <3>1, <3>3, Zenon
    <3> QED
      BY <3>1, <3>2, <3>3, Zenon
  <2> QED
    BY <2>1, <2>3, <2>4, Zenon DEF SpentInv
<1> QED
  BY <1>7, <1>10, <1>11, <1>12, <1>13, LooksOnly, Zenon

\* A refresh finds no session, an expired one or a good one.
LEMMA FindKeeps ==
    ASSUME AuthConstants, AuthInv, NEW p \in Procs, A!FindByTokenHash(p)
    PROVE  AuthInv'
<1> DEFINE o == proc[p]
<1>0. /\ TypeInv /\ PlaceInv /\ BoundInv /\ AccountInv /\ SpentInv /\ AdminInv
  BY Zenon DEF AuthInv
<1>1. /\ Busy(p) /\ Place(p) = "find" /\ UNCHANGED <<users, want, spent, mixed, stale, pwds>>
  BY Zenon DEF A!FindByTokenHash, A!At, Busy, Place
<1>a. o.op \in Kinds /\ o.user \in Users /\ o.todo \in Left(o.op)
  BY <1>0, <1>1, BusyIsRequest, Zenon
<1>2. PICK u \in Users : u = o.user
  BY <1>a, Zenon
<1>3. ~Revoking(p)
  <2>1. o.op = "refresh"
    BY <1>1, <1>a, LeftSteps, Zenon DEF Place
  <2> QED
    BY <2>1, Zenon DEF Revoking
<1>4. CASE A!End(p) /\ UNCHANGED sessions
  BY <1>1, <1>3, <1>4, GivesUp, Zenon
<1>5. ASSUME NEW i \in A!SessionsOf(u), A!End(p), sessions' = A!Without({i})
      PROVE  AuthInv'
  <2>1. Moved(p) /\ proc'[p] = A!Idle
    BY <1>0, <1>1, <1>5, EndMoves, Zenon
  <2>2. /\ DOMAIN sessions' = DOMAIN sessions \ {i} /\ sessions' \in [DOMAIN sessions' -> Sessions]
        /\ DOMAIN sessions' \subseteq A!Used' /\ \A j \in DOMAIN sessions' : sessions'[j] = sessions[j]
    BY <1>0, <1>1, <1>5, WithoutSome, Zenon
  <2>3. Local(u)
    BY <1>0, <1>1, <1>5, WithoutIsLocal, Zenon
  <2>4. Edited(u)' /\ Clean(u)'
    <3>1. Pending(u) => Pending(u)'
      BY <1>3, <2>1, MovedOthers, Zenon DEF Pending, Moved
    <3>2. Edited(u) /\ Clean(u)
      BY <1>0, Zenon DEF AccountInv
    <3> QED
      BY <1>0, <1>1, <1>5, <3>1, <3>2, CleanShrinks, Zenon DEF Edited
  <2>5. SpentInv'
    BY <1>0, <1>1, <2>1, <2>2, IdleHasNothing, SpentKeeps, Zenon DEF Moved
  <2>6. AdminInv'
    BY <1>0, <1>1, <2>1, AdminKeeps, Zenon DEF A!IsAdmin
  <2>7. TypeInv' /\ BoundInv'
    BY <1>0, <1>1, <2>1, <2>2, Zenon DEF TypeInv, BoundInv, Moved
  <2> QED
    BY <1>2, <2>1, <2>3, <2>4, <2>5, <2>6, <2>7, EndedIsFine, StepKeeps, Zenon
<1>6. ASSUME NEW i \in A!SessionsOf(u), UNCHANGED sessions,
             A!Advance(p, [o EXCEPT !.id = i, !.row = users[u], !.pwd = sessions[i].password])
      PROVE  AuthInv'
  BY <1>1, <1>2, <1>6, FoundKeeps, Zenon
<1> QED
  BY <1>2, <1>4, <1>5, <1>6, Zenon DEF A!FindByTokenHash

\* The session i of u is new, and the token old, if any, was exchanged for it.
Opened(i, u, w, old) ==
    /\ DOMAIN sessions' = DOMAIN sessions \cup {i} /\ sessions' \in [DOMAIN sessions' -> Sessions]
    /\ sessions'[i].user = u /\ sessions'[i].password = w
    /\ \A j \in DOMAIN sessions : sessions'[j] = sessions[j]
    /\ spent' \in [A!Ids -> Nat \cup {None}] /\ A!Used' = A!Used \cup {i} /\ spent'[i] = 0
    /\ old \in A!Used => spent'[old] = spent[old] + 1
    /\ \A j \in A!Used : j # old => spent'[j] = spent[j]

\* A session is opened under a token never used before; the one exchanged is counted.
LEMMA StartedTables ==
    ASSUME AuthConstants, TypeInv, NEW u \in Users, NEW w \in Nat, NEW old \in A!Used \cup {None},
           A!Used # A!Ids, A!Started(u, w, old)
    PROVE  \E i \in A!Ids \ A!Used : Opened(i, u, w, old)
<1> DEFINE i == CHOOSE j \in A!Ids \ A!Used : TRUE
<1> DEFINE new == [user |-> u, password |-> w, expired |-> FALSE]
<1>1. i \in A!Ids \ A!Used
  <2>1. \E j : j \in A!Ids \ A!Used
    BY Zenon DEF A!Used
  <2> QED
    BY <2>1, Zenon
<1>2. /\ sessions' = [j \in DOMAIN sessions \cup {i} |-> IF j = i THEN new ELSE sessions[j]]
      /\ spent' = [j \in A!Ids |-> IF j = i THEN 0 ELSE IF j = old THEN spent[j] + 1 ELSE spent[j]]
  BY Zenon DEF A!Started
<1>3. new \in Sessions /\ new.user = u /\ new.password = w
  BY SMT DEF Sessions
<1> HIDE DEF i, new
<1>4. sessions \in [DOMAIN sessions -> Sessions] /\ DOMAIN sessions \subseteq A!Used
  BY Zenon DEF TypeInv
<1>5. /\ DOMAIN sessions' = DOMAIN sessions \cup {i} /\ sessions' \in [DOMAIN sessions \cup {i} -> Sessions]
      /\ sessions'[i] = new /\ \A j \in DOMAIN sessions : sessions'[j] = sessions[j]
  <2>1. i \notin DOMAIN sessions
    BY <1>1, <1>4, Zenon
  <2>2. \A j \in DOMAIN sessions \cup {i} : sessions'[j] = IF j = i THEN new ELSE sessions[j]
    BY <1>2, Zenon
  <2>3. \A j \in DOMAIN sessions : sessions'[j] = sessions[j]
    BY <2>1, <2>2, Zenon
  <2>4. sessions'[i] = new
    BY <2>2, Zenon
  <2>5. \A j \in DOMAIN sessions \cup {i} : (IF j = i THEN new ELSE sessions[j]) \in Sessions
    BY <1>3, <1>4, Zenon
  <2> QED
    BY <1>2, <2>3, <2>4, <2>5, Zenon
<1>6. \A j \in A!Used : j \in A!Ids /\ spent[j] \in Nat /\ spent[j] + 1 \in Nat
  <2>1. \A j \in A!Used : j \in A!Ids /\ spent[j] \in Nat
    BY Zenon DEF TypeInv, A!Used
  <2> QED
    BY <2>1, SMT
<1>7. \A j \in A!Ids : spent'[j] = IF j = i THEN 0 ELSE IF j = old THEN spent[j] + 1 ELSE spent[j]
  BY <1>2, Zenon
<1>8. \A j \in A!Ids : j # None
  <2>1. A!Ids \subseteq Nat
    BY SMT DEF A!Ids, AuthConstants
  <2> QED
    BY <2>1, Zenon DEF AuthConstants
<1>9. \A j \in A!Ids : j = old => j \in A!Used
  BY <1>8, Zenon
<1>10. spent'[i] = 0 /\ 0 \in Nat
  <2>1. 0 \in Nat
    BY SMT
  <2> QED
    BY <1>1, <1>7, <2>1, Zenon
<1>11. old \in A!Used => spent'[old] = spent[old] + 1
  BY <1>1, <1>6, <1>7, Zenon
<1>12. \A j \in A!Used : j # old => spent'[j] = spent[j]
  BY <1>1, <1>6, <1>7, Zenon
<1>13. \A j \in A!Ids : j # i /\ j \notin A!Used => spent'[j] = spent[j] /\ spent[j] = None
  BY <1>7, <1>9, Zenon DEF A!Used
<1>14. \A j \in A!Ids : spent'[j] \in Nat \cup {None} /\ (spent'[j] # None <=> j = i \/ j \in A!Used)
  <2> SUFFICES ASSUME NEW j \in A!Ids
               PROVE  spent'[j] \in Nat \cup {None} /\ (spent'[j] # None <=> j = i \/ j \in A!Used)
    BY Zenon
  <2>1. CASE j = i
    BY <1>10, <2>1, Zenon DEF AuthConstants
  <2>2. CASE j # i /\ j \notin A!Used
    BY <1>13, <2>2, Zenon
  <2>3. CASE j \in A!Used
    <3>1. spent'[j] \in Nat
      BY <1>6, <1>11, <1>12, <2>3, Zenon
    <3> QED
      BY <2>3, <3>1, Zenon DEF AuthConstants
  <2> QED
    BY <2>1, <2>2, <2>3, Zenon
<1>15. spent' \in [A!Ids -> Nat \cup {None}]
  <2>1. spent' = [j \in A!Ids |-> spent'[j]]
    BY <1>2, Zenon
  <2> QED
    BY <1>14, <2>1, Zenon
<1>16. A!Used' = A!Used \cup {i}
  <2>1. A!Used' = {j \in A!Ids : spent'[j] # None}
    BY Zenon DEF A!Used, A!Ids
  <2>2. A!Used \subseteq A!Ids
    BY Zenon DEF A!Used
  <2> QED
    BY <1>1, <1>14, <2>1, <2>2, Zenon
<1> QED
  BY <1>1, <1>3, <1>5, <1>10, <1>11, <1>12, <1>15, <1>16, Zenon DEF Opened

\* Login and Refresh open a session with the password of the row that was read.
LEMMA OpenKeeps ==
    ASSUME AuthConstants, AuthInv, NEW p \in Procs, A!OpenSession(p)
    PROVE  AuthInv'
<1> DEFINE o == proc[p]
<1> DEFINE w == IF o.op = "login" THEN o.row.password ELSE o.pwd
<1>0. /\ TypeInv /\ PlaceInv /\ BoundInv /\ OneEach /\ AccountInv /\ SpentInv /\ AdminInv
      /\ Carried(p) /\ Fresh(p)
  BY Zenon DEF AuthInv, PlaceInv, FreshInv
<1>1. /\ Busy(p) /\ Place(p) = "session" /\ UNCHANGED <<users, want, mixed, stale, pwds>>
  BY Zenon DEF A!OpenSession, A!At, Busy, Place
<1>a. o \in Requests /\ o.op \in Kinds /\ o.user \in Users /\ o.todo \in Left(o.op)
  BY <1>0, <1>1, BusyIsRequest, Zenon
<1>2. PICK u \in Users : u = o.user
  BY <1>a, Zenon
<1>3. \/ /\ o.op = "login" /\ Len(o.todo) # 1 /\ Tail(o.todo) \in Left(o.op)
         /\ Head(Tail(o.todo)) = "write"
      \/ o.op = "refresh" /\ Len(o.todo) = 1
  BY <1>1, <1>a, LeftSteps, Zenon DEF Place
<1>4. ~Revoking(p)
  BY <1>3, Zenon DEF Revoking
<1>5. CASE A!End(p) /\ UNCHANGED <<sessions, spent>>
  BY <1>1, <1>4, <1>5, GivesUp, Zenon
<1>6. ASSUME A!CanStart(u), A!Started(u, w, o.id), A!Advance(p, o)
      PROVE  AuthInv'
  <2>1. users[u] # None /\ A!Used # A!Ids
    BY <1>6, Zenon DEF A!CanStart
  <2>2. /\ o.op = "login" => HasRow(p) /\ ~Holding(p)
        /\ o.op = "refresh" => Holding(p)
    BY <1>1, Zenon DEF HasRow, Holding, Readers
  <2>3. w \in Nat /\ o.id \in A!Used \cup {None} /\ (o.op = "login" => o.id = None)
    <3>1. CASE o.op = "login"
      <4>1. o.row \in Rows /\ o.id = None
        BY <1>0, <1>1, <2>2, <3>1, Zenon DEF Carried
      <4> QED
        BY <3>1, <4>1, RowFields, Zenon
    <3>2. CASE o.op = "refresh"
      <4>1. o.id \in A!Used /\ o.pwd \in Nat
        BY <1>0, <1>1, <2>2, <3>2, Zenon DEF Carried
      <4> QED
        BY <3>2, <4>1, Zenon
    <3> QED
      BY <1>3, <3>1, <3>2, Zenon
  <2>4. u \notin mixed => users[u].active /\ w = users[u].password
    <3>1. CASE o.op = "login"
      BY <1>0, <1>1, <1>2, <2>2, <3>1, Zenon DEF Carried, Fresh
    <3>2. CASE o.op = "refresh"
      BY <1>0, <1>1, <1>2, <2>2, <3>2, Zenon DEF Fresh
    <3> QED
      BY <1>3, <3>1, <3>2, Zenon
  <2> HIDE DEF w
  <2>a. PICK i \in A!Ids \ A!Used : Opened(i, u, w, o.id)
    BY <1>0, <1>6, <2>1, <2>3, StartedTables, Zenon
  <2>5. /\ i \in A!Ids /\ i \notin A!Used
        /\ DOMAIN sessions' = DOMAIN sessions \cup {i} /\ sessions' \in [DOMAIN sessions' -> Sessions]
        /\ sessions'[i].user = u /\ sessions'[i].password = w
        /\ \A j \in DOMAIN sessions : sessions'[j] = sessions[j]
        /\ spent' \in [A!Ids -> Nat \cup {None}] /\ A!Used' = A!Used \cup {i} /\ spent'[i] = 0
        /\ o.id \in A!Used => spent'[o.id] = spent[o.id] + 1
        /\ \A j \in A!Used : j # o.id => spent'[j] = spent[j]
    BY <2>a, Zenon DEF Opened
  <2>6. DOMAIN sessions \subseteq A!Used /\ i \notin DOMAIN sessions
    BY <1>0, <2>5, Zenon DEF TypeInv
  <2>7. \A v \in Users : v # u => A!SessionsOf(v)' = A!SessionsOf(v)
    BY <2>5, Zenon DEF A!SessionsOf
  <2>8. A!SessionsOf(u)' = A!SessionsOf(u) \cup {i}
    BY <2>5, Zenon DEF A!SessionsOf
  <2>9. /\ Moved(p)
        /\ Len(o.todo) = 1 => proc'[p] = A!Idle
        /\ Len(o.todo) # 1 => /\ proc'[p] \in Requests /\ Carries(proc'[p], o)
                              /\ proc'[p].op = o.op /\ proc'[p].todo = Tail(o.todo)
    BY <1>0, <1>1, <1>a, <1>3, <1>6, AdvanceMoves, Zenon
  <2>10. Local(u)
    <3>1. pwds <= pwds
      BY <1>0, SMT DEF TypeInv
    <3>2. \A v \in Users : \A j \in A!SessionsOf(v) : sessions'[j] = sessions[j]
      BY <2>5, Zenon DEF A!SessionsOf
    <3> QED
      BY <1>0, <1>1, <2>5, <2>7, <3>1, <3>2, Zenon DEF Local, TypeInv
  <2>11. Carried(p)' /\ Fresh(p)' /\ ~Holding(p)'
    <3>1. CASE Len(o.todo) = 1
      BY <2>9, <3>1, EndedIsFine, IdleHasNothing, Zenon
    <3>2. CASE Len(o.todo) # 1
      <4>1. /\ o.op = "login" /\ proc'[p] \in Requests /\ Carries(proc'[p], o) /\ proc'[p].op = o.op
            /\ proc'[p].todo = Tail(o.todo) /\ proc'[p].todo \in Left(o.op) /\ Place(p)' = "write"
        BY <1>3, <2>9, <3>2, Zenon DEF Place
      <4>2. proc'[p] # A!Idle
        BY <1>a, <4>1, IdleType, Zenon DEF AuthConstants
      <4>3. proc'[p].user = u /\ proc'[p].actor = o.actor /\ proc'[p].role = o.role
        BY <1>2, <2>9, <4>2, Zenon DEF Moved
      <4>4. HasRow(p) /\ ~Holding(p) /\ ~Holding(p)' /\ "login" \notin A!Manage
        BY <2>2, <4>1, Zenon DEF Holding, A!Manage
      <4>5. Carried(p)'
        BY <1>0, <1>1, <4>1, <4>4, Zenon DEF Carried, Carries
      <4>6. u \notin mixed => o.row = users[u]
        BY <1>0, <1>1, <1>2, <4>4, Zenon DEF Fresh
      <4>7. Fresh(p)'
        BY <1>1, <2>1, <4>1, <4>3, <4>4, <4>6, Zenon DEF Fresh, Carries
      <4> QED
        BY <4>4, <4>5, <4>7, Zenon
    <3> QED
      BY <3>1, <3>2, Zenon
  <2>12. Edited(u)' /\ Clean(u)'
    <3>1. Edited(u) /\ Clean(u)
      BY <1>0, Zenon DEF AccountInv
    <3>2. Pending(u) => Pending(u)'
      BY <1>4, <2>9, MovedOthers, Zenon DEF Pending, Moved
    <3>3. A!SessionsOf(u)' # {} => users'[u] # None
      BY <1>1, <2>1, Zenon
    <3>4. ASSUME users'[u] # None, u \notin mixed', ~Pending(u)'
          PROVE  /\ ~users'[u].active => A!SessionsOf(u)' = {}
                 /\ \A j \in A!SessionsOf(u)' : sessions'[j].password = users'[u].password
      <4>1. users'[u] = users[u] /\ users[u].active /\ w = users[u].password
        BY <1>1, <2>4, <3>4, Zenon
      <4>2. \A j \in A!SessionsOf(u) : sessions[j].password = users[u].password
        BY <1>1, <3>1, <3>2, <3>4, Zenon DEF Clean
      <4>3. \A j \in A!SessionsOf(u) : sessions'[j] = sessions[j]
        BY <2>5, Zenon DEF A!SessionsOf
      <4> QED
        BY <2>5, <2>8, <4>1, <4>2, <4>3, ZenonT(30)
    <3> QED
      BY <1>1, <3>1, <3>3, <3>4, Zenon DEF Edited, Clean
  <2>13. \A q \in Procs : Holding(q)' => /\ q # p /\ Holding(q) /\ proc'[q] = proc[q]
                                         /\ Place(q)' = Place(q) /\ proc[q].id \in A!Used
    <3> SUFFICES ASSUME NEW q \in Procs, Holding(q)'
                 PROVE  /\ q # p /\ Holding(q) /\ proc'[q] = proc[q]
                        /\ Place(q)' = Place(q) /\ proc[q].id \in A!Used
      BY Zenon
    <3>1. q # p /\ Holding(q) /\ proc'[q] = proc[q] /\ Place(q)' = Place(q)
      BY <2>9, <2>11, MovedOthers, Zenon DEF Moved
    <3> QED
      BY <1>0, <3>1, Zenon DEF PlaceInv, Carried, Holding
  <2>14. SpentInv'
    <3>1. ASSUME NEW q \in Procs, Holding(q)', proc'[q].id \in DOMAIN sessions'
          PROVE  sessions'[proc'[q].id].user = proc'[q].user /\ Place(q)' # "session"
      <4>0. PICK j \in A!Used : j = proc[q].id /\ proc'[q].id = j /\ j \in DOMAIN sessions'
        <5>1. proc'[q] = proc[q] /\ proc[q].id \in A!Used
          BY <2>13, <3>1, Zenon
        <5>2. proc'[q].id = proc[q].id /\ proc[q].id \in DOMAIN sessions'
          BY <3>1, <5>1, Zenon
        <5> QED
          BY <5>1, <5>2, Zenon
      <4>1. j \in DOMAIN sessions /\ sessions'[j] = sessions[j]
        <5>1. j # i
          BY <2>5, <4>0, Zenon
        <5>2. j \in DOMAIN sessions \cup {i}
          BY <2>5, <4>0, Zenon
        <5>3. j \in DOMAIN sessions
          BY <5>1, <5>2, Zenon
        <5> QED
          BY <2>5, <5>3, Zenon
      <4>2. Holding(q) /\ proc'[q] = proc[q] /\ Place(q)' = Place(q)
        BY <2>13, <3>1, Zenon
      <4>3. sessions[j].user = proc[q].user /\ Place(q) # "session"
        BY <1>0, <4>0, <4>1, <4>2, Zenon DEF SpentInv
      <4> QED
        BY <4>0, <4>1, <4>2, <4>3, Zenon
    <3>2. ASSUME NEW q \in Procs, NEW r \in Procs, Holding(q)', Holding(r)', proc'[q].id = proc'[r].id
          PROVE  proc'[q].user = proc'[r].user
      <4>1. Holding(q) /\ Holding(r) /\ proc[q].id = proc[r].id
        BY <2>13, <3>2, Zenon
      <4>2. proc[q].user = proc[r].user
        BY <1>0, <4>1, Zenon DEF SpentInv
      <4> QED
        BY <2>13, <3>2, <4>2, Zenon
    <3>3. ASSUME mixed = {}
          PROVE  /\ \A j \in DOMAIN sessions' : spent'[j] = 0
                 /\ \A q \in Procs : Holding(q)' => spent'[proc'[q].id] = 0
                 /\ \A j \in A!Used' : spent'[j] <= 1
      <4>1. /\ \A j \in DOMAIN sessions : spent[j] = 0
            /\ \A q \in Procs : Holding(q) => spent[proc[q].id] = 0
            /\ \A j \in A!Used : spent[j] <= 1
        BY <1>0, <3>3, Zenon DEF SpentInv
      <4>2. \A j \in A!Used : j # None
        <5>1. A!Used \subseteq Nat
          BY SMT DEF A!Used, A!Ids, AuthConstants
        <5> QED
          BY <5>1, Zenon DEF AuthConstants
      <4>3. o.id \in A!Used => Holding(p) /\ spent[o.id] = 0
        BY <1>3, <2>2, <2>3, <4>1, <4>2, Zenon
      <4>4. ASSUME NEW j \in DOMAIN sessions'
            PROVE  spent'[j] = 0
        <5>1. CASE j = i
          BY <2>5, <5>1, Zenon
        <5>2. CASE j # i
          <6>1. j \in DOMAIN sessions /\ j \in A!Used
            BY <2>5, <2>6, <4>4, <5>2, Zenon
          <6>2. j # o.id
            BY <1>0, <1>1, <4>3, <6>1, Zenon DEF SpentInv
          <6> QED
            BY <2>5, <4>1, <6>1, <6>2, Zenon
        <5> QED
          BY <5>1, <5>2, Zenon
      <4>5. ASSUME NEW q \in Procs, Holding(q)'
            PROVE  spent'[proc'[q].id] = 0
        <5>1. q # p /\ Holding(q) /\ proc'[q] = proc[q] /\ proc[q].id \in A!Used
          BY <2>13, <4>5, Zenon
        <5>2. proc[q].id # o.id
          <6> SUFFICES ASSUME proc[q].id = o.id
                       PROVE  FALSE
            BY Zenon
          <6>1. proc[q].user = proc[p].user
            BY <1>0, <4>3, <5>1, Zenon DEF SpentInv
          <6>2. proc[p].user \in mixed
            BY <1>0, <1>1, <5>1, <6>1, Zenon DEF OneEach, Holding
          <6> QED
            BY <3>3, <6>2, Zenon
        <5> QED
          BY <2>5, <4>1, <5>1, <5>2, Zenon
      <4>6. ASSUME NEW j \in A!Used'
            PROVE  spent'[j] <= 1
        <5>1. CASE j = i
          <6>1. 0 <= 1
            BY SMT
          <6> QED
            BY <2>5, <5>1, <6>1, Zenon
        <5>2. CASE j \in A!Used /\ j = o.id
          <6>1. 0 + 1 <= 1
            BY SMT
          <6> QED
            BY <2>5, <4>3, <5>2, <6>1, Zenon
        <5>3. CASE j \in A!Used /\ j # o.id
          BY <2>5, <4>1, <5>3, Zenon
        <5> QED
          BY <2>5, <4>6, <5>1, <5>2, <5>3, Zenon
      <4> QED
        BY <4>4, <4>5, <4>6, Zenon
    <3> QED
      BY <1>1, <3>1, <3>2, <3>3, Zenon DEF SpentInv
  <2>15. AdminInv'
    BY <1>0, <1>1, <2>9, AdminKeeps, Zenon DEF A!IsAdmin
  <2>16. TypeInv' /\ BoundInv'
    <3>1. DOMAIN sessions' \subseteq A!Used'
      BY <2>5, <2>6, Zenon
    <3>2. A!Ids' = A!Ids
      BY Zenon DEF A!Ids
    <3> QED
      BY <1>0, <1>1, <2>5, <2>9, <3>1, <3>2, Zenon DEF TypeInv, BoundInv, Moved
  <2> QED
    BY <1>2, <2>9, <2>10, <2>11, <2>12, <2>14, <2>15, <2>16, StepKeeps, Zenon
<1> QED
  BY <1>2, <1>5, <1>6, Zenon DEF A!OpenSession

\* Replacing columns of a row, whatever they hold.
LEMMA NewActive ==
    ASSUME NEW P, NEW R, NEW B, NEW w \in [password : P, role : R, active : B], NEW b \in B
    PROVE  LET r == [w EXCEPT !.active = b] IN
           /\ r \in [password : P, role : R, active : B]
           /\ r = [password |-> w.password, role |-> w.role, active |-> b]
           /\ r.password = w.password /\ r.role = w.role /\ r.active = b
  BY SMT

\* Replacing the password and the state of an account.
LEMMA NewPassword ==
    ASSUME NEW P, NEW R, NEW B, NEW w \in [password : P, role : R, active : B], NEW b \in B, NEW n \in P
    PROVE  LET r == [w EXCEPT !.password = n, !.active = b] IN
           /\ r \in [password : P, role : R, active : B]
           /\ r = [password |-> n, role |-> w.role, active |-> b]
           /\ r.password = n /\ r.role = w.role /\ r.active = b
<1> DEFINE v == [w EXCEPT !.password = n]
<1> DEFINE r == [v EXCEPT !.active = b]
<1>1. v \in [password : P, role : R, active : B] /\ v.password = n /\ v.role = w.role
  BY SMT
<1> HIDE DEF v
<1>2. /\ r \in [password : P, role : R, active : B]
      /\ r = [password |-> n, role |-> w.role, active |-> b]
      /\ r.password = n /\ r.role = w.role /\ r.active = b
  BY <1>1, SMT
<1>3. r = [w EXCEPT !.password = n, !.active = b]
  BY DEF v
<1> HIDE DEF r
<1> QED
  BY <1>2, <1>3, Zenon

\* What an operation makes of a row, column by column.
PasswordAfter(o, w, n) == IF o.op \in {"password", "recover"} THEN n ELSE w.password
RoleAfter(o, w)        == IF o.op = "update" THEN o.role ELSE w.role
ActiveAfter(o, w)      == IF o.op \in {"block", "unblock", "recover"} THEN o.op # "block" ELSE w.active

\* What each operation of the user management writes to the row of its account.
LEMMA ChangedRow ==
    ASSUME NEW o, o.role \in A!Roles, NEW row \in Rows, NEW n \in Nat
    PROVE  /\ A!Changed(o, row, n) \in Rows
           /\ A!Changed(o, row, n) = A!Row(PasswordAfter(o, row, n), RoleAfter(o, row), ActiveAfter(o, row))
           /\ A!Changed(o, row, n).password = PasswordAfter(o, row, n)
           /\ A!Changed(o, row, n).role = RoleAfter(o, row)
           /\ A!Changed(o, row, n).active = ActiveAfter(o, row)
<1> USE DEF PasswordAfter, RoleAfter, ActiveAfter
<1> DEFINE r == A!Changed(o, row, n)
<1>1. CASE o.op = "update"
  <2>1. r = [row EXCEPT !.role = o.role]
    BY <1>1, SMT DEF A!Changed
  <2> HIDE DEF r
  <2>2. r \in Rows /\ r.password = row.password /\ r.role = o.role /\ r.active = row.active
        /\ r = A!Row(row.password, o.role, row.active)
    BY <2>1, SMT DEF Rows, A!Row
  <2> QED
    BY <1>1, <2>2, SMT DEF r
<1>2. CASE o.op = "password"
  <2>1. r = [row EXCEPT !.password = n]
    BY <1>2, SMT DEF A!Changed
  <2> HIDE DEF r
  <2>2. r \in Rows /\ r.password = n /\ r.role = row.role /\ r.active = row.active
        /\ r = A!Row(n, row.role, row.active)
    BY <2>1, SMT DEF Rows, A!Row
  <2> QED
    BY <1>2, <2>2, SMT DEF r
<1>3. CASE o.op = "block"
  <2>1. r = [row EXCEPT !.active = FALSE]
    BY <1>3, SMT DEF A!Changed
  <2> HIDE DEF r
  <2>2. r \in Rows /\ r.password = row.password /\ r.role = row.role /\ r.active = FALSE
        /\ r = A!Row(row.password, row.role, FALSE)
    BY <2>1, NewActive, Zenon DEF Rows, A!Row
  <2>3. (o.op # "block") = FALSE
    BY <1>3, Zenon
  <2> QED
    BY <1>3, <2>2, <2>3, Zenon DEF r
<1>4. CASE o.op = "unblock"
  <2>1. r = [row EXCEPT !.active = TRUE]
    BY <1>4, SMT DEF A!Changed
  <2> HIDE DEF r
  <2>2. r \in Rows /\ r.password = row.password /\ r.role = row.role /\ r.active = TRUE
        /\ r = A!Row(row.password, row.role, TRUE)
    BY <2>1, NewActive, Zenon DEF Rows, A!Row
  <2>3. (o.op # "block") = TRUE
    BY <1>4, Zenon
  <2> QED
    BY <1>4, <2>2, <2>3, Zenon DEF r
<1>5. CASE o.op = "recover"
  <2>1. r = [row EXCEPT !.password = n, !.active = TRUE]
    BY <1>5, SMT DEF A!Changed
  <2> HIDE DEF r
  <2>2. r \in Rows /\ r.password = n /\ r.role = row.role /\ r.active = TRUE
        /\ r = A!Row(n, row.role, TRUE)
    BY <2>1, NewPassword, Zenon DEF Rows, A!Row
  <2>3. (o.op # "block") = TRUE
    BY <1>5, Zenon
  <2> QED
    BY <1>5, <2>2, <2>3, Zenon DEF r
<1>6. CASE o.op \notin {"update", "password", "block", "unblock", "recover"}
  <2>1. r = row
    BY <1>6, SMT DEF A!Changed
  <2> HIDE DEF r
  <2>2. row = A!Row(row.password, row.role, row.active)
    BY SMT DEF Rows, A!Row
  <2> QED
    BY <1>6, <2>1, <2>2, SMT DEF r
<1> QED
  BY <1>1, <1>2, <1>3, <1>4, <1>5, <1>6, SMT

\* The whole row is written back, with what the operation changes.
LEMMA WriteKeeps ==
    ASSUME AuthConstants, AuthInv, NEW p \in Procs, A!Write(p)
    PROVE  AuthInv'
<1> DEFINE o == proc[p]
<1>0. /\ TypeInv /\ PlaceInv /\ BoundInv /\ AccountInv /\ SpentInv /\ AdminInv
      /\ Carried(p) /\ Fresh(p)
  BY Zenon DEF AuthInv, PlaceInv, FreshInv
<1>1. /\ Busy(p) /\ Place(p) = "write" /\ UNCHANGED <<sessions, spent, mixed, stale>>
  BY Zenon DEF A!Write, A!At, Busy, Place
<1>a. /\ o \in Requests /\ o.op \in Kinds /\ o.user \in Users /\ o.todo \in Left(o.op)
      /\ o.actor \in Users /\ o.role \in A!Roles
  BY <1>0, <1>1, BusyIsRequest, Zenon
<1>2. PICK u \in Users : u = o.user
  BY <1>a, Zenon
<1>3. \/ o.op \in {"login", "update", "unblock", "recover"} /\ Len(o.todo) = 1
      \/ /\ o.op \in {"password", "block"} /\ Len(o.todo) # 1
         /\ Tail(o.todo) \in Left(o.op) /\ Head(Tail(o.todo)) = "revoke"
  BY <1>1, <1>a, LeftSteps, Zenon DEF Place
<1>4. ~Revoking(p) /\ HasRow(p) /\ ~Holding(p)
  BY <1>1, <1>3, Zenon DEF Revoking, HasRow, Holding, Readers
<1>5. CASE A!End(p) /\ UNCHANGED <<users, want, pwds>>
  BY <1>1, <1>4, <1>5, GivesUp, Zenon
<1>6. ASSUME users[u] # None, A!Update(u, A!Changed(o, o.row, pwds + 1)), A!Meant(o, u, pwds + 1),
             pwds' = IF o.op \in {"password", "recover"} THEN pwds + 1 ELSE pwds, A!Advance(p, o)
      PROVE  AuthInv'
  <2> DEFINE r == A!Changed(o, o.row, pwds + 1)
  <2> DEFINE m == A!Row(PasswordAfter(o, want[u], pwds + 1), RoleAfter(o, want[u]), ActiveAfter(o, want[u]))
  <2>1. o.row \in Rows /\ o.row.password <= pwds /\ o.row.password \in Nat
    <3>1. o.row \in Rows /\ o.row.password <= pwds
      BY <1>0, <1>1, <1>4, Zenon DEF Carried
    <3> QED
      BY <3>1, RowFields, Zenon
  <2>2. /\ pwds \in Nat /\ pwds + 1 \in Nat /\ pwds' \in Nat /\ pwds <= pwds'
        /\ \A n \in Nat : n <= pwds => n <= pwds'
        /\ o.op \in {"password", "recover"} => pwds + 1 <= pwds'
    <3>1. pwds \in Nat
      BY <1>0, Zenon DEF TypeInv
    <3> QED
      BY <1>6, <3>1, SMT
  <2>3. /\ r \in Rows /\ r # None
        /\ r = A!Row(PasswordAfter(o, o.row, pwds + 1), RoleAfter(o, o.row), ActiveAfter(o, o.row))
        /\ r.password = PasswordAfter(o, o.row, pwds + 1)
        /\ r.role = RoleAfter(o, o.row) /\ r.active = ActiveAfter(o, o.row)
    <3> HIDE DEF o
    <3>1. PICK w \in Rows, n \in Nat : w = o.row /\ n = pwds + 1
      BY <2>1, <2>2, Zenon
    <3>2. /\ A!Changed(o, w, n) \in Rows
          /\ A!Changed(o, w, n) = A!Row(PasswordAfter(o, w, n), RoleAfter(o, w), ActiveAfter(o, w))
          /\ A!Changed(o, w, n).password = PasswordAfter(o, w, n)
          /\ A!Changed(o, w, n).role = RoleAfter(o, w)
          /\ A!Changed(o, w, n).active = ActiveAfter(o, w)
      BY <1>a, <2>1, ChangedRow, Zenon
    <3> QED
      BY <3>1, <3>2, Zenon DEF AuthConstants
  <2>4. users' = [users EXCEPT ![u] = r] /\ want' = [want EXCEPT ![u] = m]
    BY <1>6, Zenon DEF A!Update, A!Meant, PasswordAfter, RoleAfter, ActiveAfter
  <2>a. want[u] = o.row => m = r
    BY <2>3, Zenon
  <2> HIDE DEF r, m
  <2>5. /\ users' \in [Users -> Rows \cup {None}] /\ DOMAIN want' = Users
        /\ users'[u] = r /\ want'[u] = m
        /\ \A v \in Users : v # u => users'[v] = users[v] /\ want'[v] = want[v]
    BY <1>0, <2>3, <2>4, Zenon DEF TypeInv
  <2>6. /\ Moved(p)
        /\ Len(o.todo) = 1 => proc'[p] = A!Idle
        /\ Len(o.todo) # 1 => /\ proc'[p] \in Requests /\ Carries(proc'[p], o)
                              /\ proc'[p].op = o.op /\ proc'[p].todo = Tail(o.todo)
    BY <1>0, <1>1, <1>a, <1>3, <1>6, AdvanceMoves, Zenon
  <2>7. A!Used' = A!Used /\ \A v : A!SessionsOf(v)' = A!SessionsOf(v)
    BY <1>1, Zenon DEF A!Used, A!SessionsOf
  <2>8. Local(u)
    BY <1>1, <2>2, <2>5, <2>7, Zenon DEF Local
  <2>9. u \notin mixed => o.row = users[u] /\ o.row = want[u]
    BY <1>0, <1>1, <1>2, <1>4, <1>6, Zenon DEF Fresh, AccountInv, Edited
  <2>10. /\ Carried(p)' /\ Fresh(p)' /\ ~Holding(p)'
         /\ o.op \in {"password", "block"} => Revoking(p)' /\ proc'[p].user = u
    <3>1. CASE Len(o.todo) = 1
      <4>1. o.op \notin {"password", "block"}
        BY <1>3, <3>1, Zenon
      <4> QED
        BY <2>6, <3>1, <4>1, EndedIsFine, IdleHasNothing, Zenon
    <3>2. CASE Len(o.todo) # 1
      <4>1. /\ o.op \in {"password", "block"} /\ proc'[p] \in Requests /\ Carries(proc'[p], o)
            /\ proc'[p].op = o.op /\ proc'[p].todo \in Left(o.op) /\ Place(p)' = "revoke"
        BY <1>3, <2>6, <3>2, Zenon DEF Place
      <4>2. proc'[p] # A!Idle
        BY <1>a, <4>1, IdleType, Zenon DEF AuthConstants
      <4>3. proc'[p].user = u /\ proc'[p].actor = o.actor /\ proc'[p].role = o.role
        BY <1>2, <2>6, <4>2, Zenon DEF Moved
      <4>4. Busy(p)'
        BY <1>1, <4>1, Zenon DEF Busy
      <4>5. Revoking(p)' /\ ~HasRow(p)' /\ ~Holding(p)' /\ o.op # "recover"
        BY <4>1, <4>4, Zenon DEF Revoking, HasRow, Holding
      <4>6. Carried(p)'
        BY <1>0, <1>1, <1>2, <1>4, <4>1, <4>3, <4>5, Zenon DEF Carried, Carries
      <4>7. Fresh(p)'
        BY <4>1, <4>5, Zenon DEF Fresh
      <4> QED
        BY <4>3, <4>5, <4>6, <4>7, Zenon
    <3> QED
      BY <3>1, <3>2, Zenon
  <2>11. Edited(u)'
    BY <1>1, <2>a, <2>5, <2>9, Zenon DEF Edited
  <2>12. Clean(u)'
    <3> SUFFICES ASSUME u \notin mixed, ~Pending(u)'
                 PROVE  /\ ~r.active => A!SessionsOf(u) = {}
                        /\ \A i \in A!SessionsOf(u) : sessions[i].password = r.password
      BY <1>1, <2>3, <2>5, <2>7, Zenon DEF Clean
    <3>1. o.op \in {"login", "update", "unblock", "recover"}
      BY <1>3, <2>10, Zenon DEF Pending
    <3>2. CASE o.op = "recover"
      <4>1. A!SessionsOf(proc[p].user) = {}
        BY <1>0, <1>1, <1>2, <3>2, Zenon DEF Fresh
      <4> QED
        BY <1>2, <4>1, Zenon
    <3>3. CASE o.op # "recover"
      <4>1. Pending(u) => Pending(u)'
        BY <1>4, <2>6, MovedOthers, Zenon DEF Pending, Moved
      <4>2. /\ ~users[u].active => A!SessionsOf(u) = {}
            /\ \A i \in A!SessionsOf(u) : sessions[i].password = users[u].password
        BY <1>0, <1>6, <4>1, Zenon DEF AccountInv, Clean
      <4>3. r.password = users[u].password /\ (~r.active => ~users[u].active)
        BY <2>3, <2>9, <3>1, <3>3, Zenon DEF PasswordAfter, ActiveAfter
      <4> QED
        BY <4>2, <4>3, Zenon
    <3> QED
      BY <3>2, <3>3, Zenon
  <2>13. SpentInv'
    BY <1>0, <1>1, <2>6, <2>10, SpentKeeps, Zenon DEF Moved
  <2>14. AdminInv'
    <3> SUFFICES ASSUME ~stale, mixed = {}
                 PROVE  AdminInv'
      BY <1>1, Zenon DEF AdminInv
    <3>0. users[u] = o.row
      BY <2>9, Zenon
    <3>1. CASE o.op # "block" /\ (o.op = "update" => o.role = "admin")
      <4>1. r.role = "admin" \/ r.role = users[u].role
        BY <2>3, <3>0, <3>1, Zenon DEF RoleAfter
      <4>2. r.active = TRUE \/ r.active = users[u].active
        BY <2>3, <3>0, <3>1, Zenon DEF ActiveAfter
      <4>3. A!IsAdmin(u) => A!IsAdmin(u)'
        BY <2>3, <2>5, <4>1, <4>2, Zenon DEF A!IsAdmin
      <4>4. \A v \in Users : A!IsAdmin(v) => A!IsAdmin(v)'
        BY <2>5, <4>3, Zenon DEF A!IsAdmin
      <4> QED
        BY <1>0, <1>1, <1>6, <2>6, <4>4, AdminKeeps, Zenon
    <3>2. CASE o.op = "block" \/ (o.op = "update" /\ o.role # "admin")
      <4>1. o.op \in A!Manage
        BY <3>2, Zenon DEF A!Manage
      <4>2. PICK a \in Users : a = o.actor
        BY <1>a, Zenon
      <4>3. a # u
        BY <1>0, <1>1, <1>2, <3>2, <4>1, <4>2, Zenon DEF Carried, A!SelfAllowed
      <4>4. A!IsAdmin(a)
        BY <1>0, <1>1, <4>1, <4>2, Zenon DEF AdminInv, A!IsAdmin
      <4>5. A!IsAdmin(a)'
        BY <2>5, <4>3, <4>4, Zenon DEF A!IsAdmin
      <4>6. ASSUME NEW q \in Procs, Busy(q)', proc'[q].op \in A!Manage
            PROVE  q = p /\ proc'[q].actor = a
        <5>1. Busy(q) /\ proc'[q].op = proc[q].op /\ proc'[q].actor = proc[q].actor
          <6>1. CASE q = p
            BY <2>6, <4>6, <6>1, IdleHasNothing, Zenon DEF Moved
          <6>2. CASE q # p
            BY <2>6, <4>6, <6>2, MovedOthers, Zenon DEF Moved
          <6> QED
            BY <6>1, <6>2, Zenon
        <5>2. q = p
          BY <1>0, <1>1, <4>1, <4>6, <5>1, Zenon DEF AdminInv
        <5> QED
          BY <4>2, <5>1, <5>2, Zenon
      <4>7. \A q \in Procs : Busy(q)' /\ proc'[q].op \in A!Manage => A!IsAdmin(proc[q].actor)'
        BY <4>5, <4>6, Zenon DEF A!IsAdmin
      <4>8. \A q, s \in Procs : Busy(q)' /\ Busy(s)' /\ {proc'[q].op, proc'[s].op} \subseteq A!Manage => q = s
        <5> SUFFICES ASSUME NEW q \in Procs, NEW s \in Procs, Busy(q)', Busy(s)',
                            proc'[q].op \in A!Manage, proc'[s].op \in A!Manage
                     PROVE  q = s
          BY Zenon
        <5>1. q = p /\ s = p
          BY <4>6, Zenon
        <5> QED
          BY <5>1, Zenon
      <4> QED
        BY <4>5, <4>7, <4>8, Zenon DEF AdminInv
    <3> QED
      BY <3>1, <3>2, Zenon
  <2>15. BoundInv'
    <3> SUFFICES ASSUME NEW v \in Users, users'[v] # None
                 PROVE  users'[v].password <= pwds'
      BY Zenon DEF BoundInv
    <3>1. CASE v = u
      BY <2>1, <2>2, <2>3, <2>5, <3>1, Zenon DEF PasswordAfter
    <3>2. CASE v # u
      <4>1. users'[v] = users[v] /\ users[v] \in Rows /\ users[v].password <= pwds
        BY <1>0, <2>5, <3>2, Zenon DEF TypeInv, BoundInv
      <4> QED
        BY <2>2, <4>1, RowFields, Zenon
    <3> QED
      BY <3>1, <3>2, Zenon
  <2>16. TypeInv'
    BY <1>0, <1>1, <2>2, <2>5, <2>6, <2>7, Zenon DEF TypeInv, Moved
  <2> QED
    BY <1>2, <2>6, <2>8, <2>10, <2>11, <2>12, <2>13, <2>14, <2>15, <2>16, StepKeeps, Zenon
<1> QED
  BY <1>2, <1>5, <1>6, Zenon DEF A!Write

\* A request begins; it has read nothing and holds nothing.
LEMMA BeginKeeps ==
    ASSUME AuthConstants, AuthInv, NEW p \in Procs, NEW op \in Kinds, NEW u \in Users, NEW actor \in Users,
           NEW role \in A!Roles, A!Begin(p, op, u, actor, role)
    PROVE  AuthInv'
<1> DEFINE n == [op |-> op, user |-> u, actor |-> actor, role |-> role,
                 todo |-> A!Statements(op), row |-> None, id |-> None, pwd |-> None]
<1>0. TypeInv /\ PlaceInv /\ BoundInv /\ OneEach /\ FreshInv /\ AccountInv /\ SpentInv /\ AdminInv
  BY Zenon DEF AuthInv
<1>1. /\ proc[p] = A!Idle /\ proc' = [proc EXCEPT ![p] = n]
      /\ op \in A!Manage /\ actor = u => A!SelfAllowed(op, role)
      /\ mixed' = IF A!Active(u) # {} THEN mixed \cup {u} ELSE mixed
      /\ UNCHANGED <<users, sessions, want, spent, pwds>>
  BY Zenon DEF A!Begin
<1>2. stale' = (stale \/ (op \in A!Manage /\
                  (~A!IsAdmin(actor) \/ \E q \in Procs : proc[q].op \in A!Edits)))
  BY Zenon DEF A!Begin
<1>3. /\ A!Statements(op) \in Left(op)
      /\ Head(A!Statements(op)) \in {"read", "find", "insert", "count"}
      /\ op \in Readers => Head(A!Statements(op)) = "read"
      /\ op = "refresh" => Head(A!Statements(op)) = "find"
  BY LeftStart, Zenon
<1>4. /\ n \in Requests /\ n.op = op /\ n.user = u /\ n.actor = actor /\ n.role = role
      /\ n.todo = A!Statements(op) /\ n.id = None
  <2>1. A!Statements(op) \in UNION {Left(k) : k \in Kinds}
    BY <1>3, Zenon
  <2> QED
    BY <2>1, Zenon DEF Requests
<1> HIDE DEF n
<1>5. /\ proc' \in [Procs -> Requests \cup {A!Idle}] /\ proc'[p] = n
      /\ \A q \in Procs : q # p => proc'[q] = proc[q]
  BY <1>0, <1>1, <1>4, Zenon DEF TypeInv
<1>6. Busy(p)' /\ Place(p)' = Head(A!Statements(op)) /\ ~Busy(p)
  <2>1. op # None
    BY Zenon DEF AuthConstants
  <2> QED
    BY <1>1, <1>4, <1>5, <2>1, IdleType, Zenon DEF Busy, Place
<1>7. /\ ~HasRow(p)' /\ ~Holding(p)' /\ ~Revoking(p)' /\ ~Revoking(p)
      /\ ~(proc'[p].op = "recover" /\ Place(p)' = "write")
  BY <1>3, <1>4, <1>5, <1>6, Zenon DEF HasRow, Holding, Revoking
<1>8. \A q \in Procs : q # p => /\ proc'[q] = proc[q] /\ (Busy(q)' <=> Busy(q)) /\ Place(q)' = Place(q)
                                /\ (HasRow(q)' <=> HasRow(q)) /\ (Holding(q)' <=> Holding(q))
                                /\ (Revoking(q)' <=> Revoking(q))
  BY <1>5, MovedOthers, Zenon
<1>9. mixed \subseteq mixed' /\ mixed' \subseteq Users /\ (A!Active(u) # {} => u \in mixed')
  BY <1>0, <1>1, Zenon DEF TypeInv
<1>10. A!Used' = A!Used /\ \A v : A!SessionsOf(v)' = A!SessionsOf(v)
  BY <1>1, Zenon DEF A!Used, A!SessionsOf
<1>11. TypeInv' /\ BoundInv'
  <2>1. stale' \in BOOLEAN
    BY <1>2, Zenon
  <2> QED
    BY <1>0, <1>1, <1>5, <1>9, <1>10, <2>1, Zenon DEF TypeInv, BoundInv
<1>12. PlaceInv'
  <2> SUFFICES ASSUME NEW q \in Procs
               PROVE  Carried(q)'
    BY Zenon DEF PlaceInv
  <2>1. CASE q = p
    BY <1>1, <1>3, <1>4, <1>5, <1>7, <2>1, Zenon DEF Carried
  <2>2. CASE q # p
    <3>1. Carried(q)
      BY <1>0, Zenon DEF PlaceInv
    <3>2. /\ proc'[q] = proc[q] /\ (Busy(q)' <=> Busy(q)) /\ Place(q)' = Place(q)
          /\ (HasRow(q)' <=> HasRow(q)) /\ (Holding(q)' <=> Holding(q))
      BY <1>8, <2>2, Zenon
    <3>3. pwds' = pwds
      BY <1>1, Zenon
    <3> QED
      BY <1>10, <3>1, <3>2, <3>3, Zenon DEF Carried
  <2> QED
    BY <2>1, <2>2, Zenon
<1>13. OneEach'
  <2>1. ASSUME NEW q \in Procs, q # p, Busy(q)', proc'[q].user = u
        PROVE  u \in mixed'
    <3>1. q \in A!Active(u)
      BY <1>8, <2>1, Zenon DEF A!Active, Busy
    <3> QED
      BY <1>9, <3>1, Zenon
  <2> SUFFICES ASSUME NEW q \in Procs, NEW r \in Procs, Busy(q)', Busy(r)', q # r,
                      proc'[q].user = proc'[r].user
               PROVE  proc'[q].user \in mixed'
    BY Zenon DEF OneEach
  <2>2. CASE q = p \/ r = p
    BY <1>4, <1>5, <2>1, <2>2, Zenon
  <2>3. CASE q # p /\ r # p
    <3>1. Busy(q) /\ Busy(r) /\ proc'[q] = proc[q] /\ proc'[r] = proc[r]
      BY <1>8, <2>3, Zenon
    <3>2. proc[q].user \in mixed
      BY <1>0, <3>1, Zenon DEF OneEach
    <3> QED
      BY <1>9, <3>1, <3>2, Zenon
  <2> QED
    BY <2>2, <2>3, Zenon
<1>14. FreshInv'
  <2> SUFFICES ASSUME NEW q \in Procs
               PROVE  Fresh(q)'
    BY Zenon DEF FreshInv
  <2>1. CASE q = p
    BY <1>7, <2>1, Zenon DEF Fresh
  <2>2. CASE q # p
    <3>1. Fresh(q)
      BY <1>0, Zenon DEF FreshInv
    <3>2. /\ proc'[q] = proc[q] /\ (Busy(q)' <=> Busy(q)) /\ Place(q)' = Place(q)
          /\ (HasRow(q)' <=> HasRow(q)) /\ (Holding(q)' <=> Holding(q))
      BY <1>8, <2>2, Zenon
    <3>3. A!SessionsOf(proc[q].user)' = A!SessionsOf(proc[q].user)
      BY <1>1, <3>2, Zenon DEF A!SessionsOf
    <3> QED
      BY <1>1, <1>9, <3>1, <3>2, <3>3, Zenon DEF Fresh
  <2> QED
    BY <2>1, <2>2, Zenon
<1>15. AccountInv'
  <2> SUFFICES ASSUME NEW v \in Users
               PROVE  Edited(v)' /\ Clean(v)'
    BY Zenon DEF AccountInv
  <2>1. Edited(v) /\ Clean(v)
    BY <1>0, Zenon DEF AccountInv
  <2>2. Pending(v) => Pending(v)'
    BY <1>7, <1>8, Zenon DEF Pending
  <2> QED
    BY <1>1, <1>9, <1>10, <2>1, <2>2, Zenon DEF Edited, Clean
<1>16. SpentInv'
  BY <1>0, <1>1, <1>5, <1>7, <1>9, SpentKeeps, Zenon
<1>17. AdminInv'
  <2> SUFFICES ASSUME ~stale', mixed' = {}
               PROVE  AdminInv'
    BY Zenon DEF AdminInv
  <2>1. ~stale /\ mixed = {}
    BY <1>2, <1>9, Zenon
  <2>2. op \in A!Manage => A!IsAdmin(actor) /\ \A q \in Procs : proc[q].op \notin A!Manage
    BY <1>2, Zenon DEF A!Edits
  <2>3. ASSUME NEW q \in Procs, NEW r \in Procs, Busy(q)', Busy(r)',
               proc'[q].op \in A!Manage, proc'[r].op \in A!Manage
        PROVE  q = r
    <3>1. CASE op \in A!Manage
      BY <1>8, <2>2, <2>3, <3>1, Zenon
    <3>2. CASE op \notin A!Manage
      <4>1. q # p /\ r # p
        BY <1>4, <1>5, <2>3, <3>2, Zenon
      <4> QED
        BY <1>0, <1>8, <2>1, <2>3, <4>1, Zenon DEF AdminInv
    <3> QED
      BY <3>1, <3>2, Zenon
  <2>4. ASSUME NEW q \in Procs, Busy(q)', proc'[q].op \in A!Manage
        PROVE  A!IsAdmin(proc[q].actor)'
    <3>1. CASE q = p
      <4>1. proc'[q].actor = actor /\ A!IsAdmin(actor)
        BY <1>4, <1>5, <2>2, <2>4, <3>1, Zenon
      <4> QED
        BY <1>1, <4>1, Zenon DEF A!IsAdmin
    <3>2. CASE q # p
      <4>1. proc'[q] = proc[q] /\ A!IsAdmin(proc[q].actor)
        BY <1>0, <1>8, <2>1, <2>4, <3>2, Zenon DEF AdminInv
      <4> QED
        BY <1>1, <4>1, Zenon DEF A!IsAdmin
    <3> QED
      BY <3>1, <3>2, Zenon
  <2>5. (\E v \in Users : users'[v] # None) => \E v \in Users : A!IsAdmin(v)'
    BY <1>0, <1>1, <2>1, Zenon DEF AdminInv, A!IsAdmin
  <2> QED
    BY <2>3, <2>4, <2>5, Zenon DEF AdminInv
<1> QED
  BY <1>11, <1>12, <1>13, <1>14, <1>15, <1>16, <1>17, Zenon DEF AuthInv

\* Sessions end or expire outside any request.
LEMMA SessionsGo ==
    ASSUME AuthInv, UNCHANGED <<users, proc, want, spent, mixed, stale, pwds>>,
           DOMAIN sessions' \subseteq DOMAIN sessions, sessions' \in [DOMAIN sessions' -> Sessions],
           \A i \in DOMAIN sessions' : /\ sessions'[i].user = sessions[i].user
                                       /\ sessions'[i].password = sessions[i].password
    PROVE  AuthInv'
<1>0. TypeInv /\ PlaceInv /\ BoundInv /\ OneEach /\ FreshInv /\ AccountInv /\ SpentInv /\ AdminInv
  BY Zenon DEF AuthInv
<1>1. \A q \in Procs : /\ (Busy(q)' <=> Busy(q)) /\ Place(q)' = Place(q)
                       /\ (HasRow(q)' <=> HasRow(q)) /\ (Holding(q)' <=> Holding(q))
                       /\ (Revoking(q)' <=> Revoking(q))
  BY Zenon DEF Busy, Place, HasRow, Holding, Revoking
<1>2. A!Used' = A!Used
  BY Zenon DEF A!Used
<1>3. \A v : A!SessionsOf(v)' \subseteq A!SessionsOf(v) /\ A!SessionsOf(v)' \subseteq DOMAIN sessions'
  BY Zenon DEF A!SessionsOf
<1>4. TypeInv' /\ BoundInv'
  BY <1>0, <1>2, Zenon DEF TypeInv, BoundInv
<1>5. PlaceInv'
  <2> SUFFICES ASSUME NEW q \in Procs
               PROVE  Carried(q)'
    BY Zenon DEF PlaceInv
  <2>1. Carried(q)
    BY <1>0, Zenon DEF PlaceInv
  <2> QED
    BY <1>1, <1>2, <2>1, Zenon DEF Carried
<1>6. OneEach'
  BY <1>0, Zenon DEF OneEach, Busy
<1>7. FreshInv'
  <2> SUFFICES ASSUME NEW q \in Procs
               PROVE  Fresh(q)'
    BY Zenon DEF FreshInv
  <2>1. Fresh(q)
    BY <1>0, Zenon DEF FreshInv
  <2>2. A!SessionsOf(proc[q].user) = {} => A!SessionsOf(proc[q].user)' = {}
    BY Zenon DEF A!SessionsOf
  <2> QED
    BY <1>1, <2>1, <2>2, Zenon DEF Fresh
<1>8. AccountInv'
  <2> SUFFICES ASSUME NEW v \in Users
               PROVE  Edited(v)' /\ Clean(v)'
    BY Zenon DEF AccountInv
  <2>1. Edited(v) /\ Clean(v)
    BY <1>0, Zenon DEF AccountInv
  <2>2. Pending(v) => Pending(v)'
    BY <1>1, Zenon DEF Pending
  <2>3. A!SessionsOf(v)' # {} => users'[v] # None
    BY <1>3, <2>1, Zenon DEF Clean
  <2>4. ASSUME users'[v] # None, v \notin mixed', ~Pending(v)'
        PROVE  /\ ~users'[v].active => A!SessionsOf(v)' = {}
               /\ \A i \in A!SessionsOf(v)' : sessions'[i].password = users'[v].password
    <3>1. /\ ~users[v].active => A!SessionsOf(v) = {}
          /\ \A i \in A!SessionsOf(v) : sessions[i].password = users[v].password
      BY <2>1, <2>2, <2>4, Zenon DEF Clean
    <3> QED
      BY <1>3, <3>1, Zenon
  <2> QED
    BY <2>1, <2>3, <2>4, Zenon DEF Edited, Clean
<1>9. SpentInv'
  <2>1. ASSUME NEW q \in Procs, Holding(q)', proc'[q].id \in DOMAIN sessions'
        PROVE  sessions'[proc'[q].id].user = proc'[q].user /\ Place(q)' # "session"
    <3>1. Holding(q) /\ proc[q].id \in DOMAIN sessions /\ Place(q)' = Place(q)
      BY <1>1, <2>1, Zenon
    <3> QED
      BY <1>0, <2>1, <3>1, Zenon DEF SpentInv
  <2>2. \A q, r \in Procs : Holding(q)' /\ Holding(r)' /\ proc'[q].id = proc'[r].id =>
          proc'[q].user = proc'[r].user
    <3> SUFFICES ASSUME NEW q \in Procs, NEW r \in Procs, Holding(q)', Holding(r)', proc'[q].id = proc'[r].id
                 PROVE  proc[q].user = proc[r].user
      BY Zenon
    <3>1. Holding(q) /\ Holding(r) /\ proc[q].id = proc[r].id
      BY <1>1, Zenon
    <3> QED
      BY <1>0, <3>1, Zenon DEF SpentInv
  <2>3. ASSUME mixed = {}
        PROVE  /\ \A i \in DOMAIN sessions' : spent[i] = 0
               /\ \A q \in Procs : Holding(q)' => spent[proc[q].id] = 0
               /\ \A i \in A!Used' : spent[i] <= 1
    BY <1>0, <1>1, <1>2, <2>3, Zenon DEF SpentInv
  <2> QED
    BY <2>1, <2>2, <2>3, Zenon DEF SpentInv
<1>10. AdminInv'
  BY <1>0, <1>1, Zenon DEF AdminInv, A!IsAdmin
<1> QED
  BY <1>4, <1>5, <1>6, <1>7, <1>8, <1>9, <1>10, Zenon DEF AuthInv

\* A session that expires keeps its user and the password it was opened with.
LEMMA NewExpired ==
    ASSUME NEW U, NEW P, NEW B, NEW s \in [user : U, password : P, expired : B], NEW b \in B
    PROVE  LET n == [s EXCEPT !.expired = b] IN
           n \in [user : U, password : P, expired : B] /\ n.user = s.user /\ n.password = s.password
  BY SMT

\* Logout, expiry and its purge.
LEMMA SessionStepsKeep ==
    ASSUME AuthConstants, AuthInv,
           (\E u \in Users : A!Logout(u)) \/ A!Expire \/ A!PurgeExpiredSessions \/ A!AccessExpires
    PROVE  AuthInv'
<1>0. TypeInv
  BY Zenon DEF AuthInv
<1>1. UNCHANGED <<users, proc, want, spent, mixed, stale, pwds>>
  BY Zenon DEF A!Logout, A!Expire, A!PurgeExpiredSessions, A!AccessExpires
<1>2. ASSUME NEW S, sessions' = A!Without(S)
      PROVE  AuthInv'
  <2>1. /\ DOMAIN sessions' \subseteq DOMAIN sessions /\ sessions' \in [DOMAIN sessions' -> Sessions]
        /\ \A i \in DOMAIN sessions' : sessions'[i] = sessions[i]
    BY <1>0, <1>1, <1>2, WithoutSome, Zenon
  <2>2. \A i \in DOMAIN sessions' : /\ sessions'[i].user = sessions[i].user
                                    /\ sessions'[i].password = sessions[i].password
    BY <2>1, Zenon
  <2> QED
    BY <1>1, <2>1, <2>2, SessionsGo, Zenon
<1>3. CASE \E u \in Users : A!Logout(u)
  <2>1. PICK u \in Users : sessions' = A!Without(A!SessionsOf(u))
    BY <1>3, Zenon DEF A!Logout
  <2> QED
    BY <1>2, <2>1, Zenon
<1>4. CASE A!PurgeExpiredSessions
  <2>1. sessions' = A!Without({i \in DOMAIN sessions : sessions[i].expired})
    BY <1>4, Zenon DEF A!PurgeExpiredSessions
  <2> QED
    BY <1>2, <2>1, Zenon
<1>5. CASE A!Expire
  <2>1. PICK i \in DOMAIN sessions : sessions' = [sessions EXCEPT ![i].expired = TRUE]
    BY <1>5, Zenon DEF A!Expire
  <2> DEFINE s == [sessions[i] EXCEPT !.expired = TRUE]
  <2>2. sessions \in [DOMAIN sessions -> Sessions] /\ sessions[i] \in Sessions
    BY <1>0, Zenon DEF TypeInv
  <2>3. s \in Sessions /\ s.user = sessions[i].user /\ s.password = sessions[i].password
    BY <2>2, NewExpired, Zenon DEF Sessions
  <2>4. sessions' = [sessions EXCEPT ![i] = s]
    BY <2>1, Zenon
  <2> HIDE DEF s
  <2>5. /\ DOMAIN sessions' = DOMAIN sessions /\ sessions' \in [DOMAIN sessions -> Sessions]
        /\ sessions'[i] = s /\ \A j \in DOMAIN sessions : j # i => sessions'[j] = sessions[j]
    BY <2>2, <2>3, <2>4, Zenon
  <2>6. \A j \in DOMAIN sessions' : /\ sessions'[j].user = sessions[j].user
                                    /\ sessions'[j].password = sessions[j].password
    BY <2>3, <2>5, Zenon
  <2> QED
    BY <1>1, <2>5, <2>6, SessionsGo, Zenon
<1>6. CASE A!AccessExpires
  <2>1. sessions' = sessions
    BY <1>6, Zenon DEF A!AccessExpires
  <2>2. sessions \in [DOMAIN sessions -> Sessions]
    BY <1>0, Zenon DEF TypeInv
  <2> QED
    BY <1>1, <2>1, <2>2, SessionsGo, Zenon
<1> QED
  BY <1>3, <1>4, <1>5, <1>6, Zenon

-----------------------------------------------------------------------------
(* Every behaviour *)

\* No request is under way at the start, and a row, if any, is an administrator's.
LEMMA AuthStart ==
    ASSUME AuthConstants, A!Init
    PROVE  AuthInv
<1> DEFINE first == A!Row(0, "admin", TRUE)
<1>1. /\ want = users /\ sessions = [i \in {} |-> None] /\ proc = [p \in Procs |-> A!Idle]
      /\ spent = [i \in A!Ids |-> None] /\ mixed = {} /\ stale = FALSE /\ pwds = 0
      /\ users = [u \in Users |-> None] \/ users = [u \in Users |-> first]
  BY Zenon DEF A!Init
<1>2. /\ first \in Rows /\ first # None /\ first.password = 0 /\ first.role = "admin" /\ first.active = TRUE
  <2>1. 0 \in Nat /\ "admin" \in A!Roles
    BY SMT DEF A!Roles
  <2> QED
    BY <2>1, RowType, Zenon DEF AuthConstants
<1> HIDE DEF first
<1>3. /\ users \in [Users -> Rows \cup {None}] /\ DOMAIN want = Users
      /\ \A u \in Users : users[u] # None => users[u] = first
  BY <1>1, <1>2, Zenon
<1>4. \A p \in Procs : proc[p] = A!Idle /\ ~Busy(p) /\ ~Holding(p)
  BY <1>1, IdleType, Zenon DEF Busy, Holding
<1>5. DOMAIN sessions = {} /\ sessions \in [DOMAIN sessions -> Sessions] /\ A!Used = {}
  <2>1. DOMAIN sessions = {}
    BY <1>1, Zenon
  <2>2. sessions \in [{} -> Sessions]
    BY <1>1, Zenon
  <2> QED
    BY <1>1, <2>1, <2>2, Zenon DEF A!Used
<1>6. \A u : A!SessionsOf(u) = {}
  BY <1>5, Zenon DEF A!SessionsOf
<1>7. TypeInv
  <2>1. pwds \in Nat
    BY <1>1, SMT
  <2> QED
    BY <1>1, <1>3, <1>5, <2>1, Zenon DEF TypeInv
<1>8. PlaceInv /\ OneEach /\ FreshInv
  BY <1>4, Zenon DEF PlaceInv, Carried, OneEach, FreshInv, Fresh
<1>9. BoundInv
  <2>1. 0 <= 0
    BY SMT
  <2> QED
    BY <1>1, <1>2, <1>3, <2>1, Zenon DEF BoundInv
<1>10. AccountInv
  BY <1>1, <1>6, Zenon DEF AccountInv, Edited, Clean
<1>11. SpentInv
  BY <1>4, <1>5, Zenon DEF SpentInv
<1>12. AdminInv
  BY <1>2, <1>3, <1>4, Zenon DEF AdminInv, A!IsAdmin
<1> QED
  BY <1>7, <1>8, <1>9, <1>10, <1>11, <1>12, Zenon DEF AuthInv

\* Every step keeps AuthInv.
LEMMA AuthStep ==
    ASSUME AuthConstants, AuthInv, [AuthNext]_<<subject, A!vars>>
    PROVE  AuthInv'
<1>1. CASE A!Next
  <2>1. ASSUME NEW p \in Procs, A!Step(p)
        PROVE  AuthInv'
    BY <2>1, ReadKeeps, OpenKeeps, WriteKeeps, RevokeKeeps, RevokeFailsKeeps, RemoveKeeps,
       CountKeeps, InsertKeeps, FindKeeps, RotateKeeps, Zenon DEF A!Step
  <2>2. ASSUME NEW p \in Procs, NEW op \in A!Public \cup A!Manage, NEW u \in Users, NEW actor \in Users,
               NEW r \in A!Roles, A!Begin(p, op, u, actor, r)
        PROVE  AuthInv'
    BY <2>2, BeginKeeps, Zenon DEF Kinds
  <2> QED
    BY <1>1, <2>1, <2>2, SessionStepsKeep, Zenon DEF A!Next
<1>2. CASE UNCHANGED <<subject, A!vars>>
  <2>1. UNCHANGED <<users, sessions, proc, want, spent, mixed, stale, pwds>>
    BY <1>2, Zenon DEF A!vars
  <2>2. sessions \in [DOMAIN sessions -> Sessions]
    BY Zenon DEF AuthInv, TypeInv
  <2> QED
    BY <2>1, <2>2, SessionsGo, Zenon
<1> QED
  BY <1>1, <1>2, Zenon DEF AuthNext

\* What the runs check follows.
LEMMA AuthMeans ==
    ASSUME AuthConstants, AuthInv
    PROVE  SessionsFollowAccount /\ AccountsAreKept
<1>0. TypeInv /\ PlaceInv /\ BoundInv /\ AccountInv /\ SpentInv /\ AdminInv
  BY Zenon DEF AuthInv
<1>1. A!TypeOK
  <2>1. ASSUME NEW u \in Users, users[u] # None
        PROVE  users[u].password \in 0..pwds /\ users[u].role \in A!Roles /\ users[u].active \in BOOLEAN
    <3>1. users[u] \in Rows /\ users[u].password <= pwds /\ pwds \in Nat
      BY <1>0, <2>1, Zenon DEF TypeInv, BoundInv
    <3>2. users[u].password \in Nat /\ users[u].role \in A!Roles /\ users[u].active \in BOOLEAN
      BY <3>1, RowFields, Zenon
    <3>3. users[u].password \in 0..pwds
      BY <3>1, <3>2, SMT
    <3> QED
      BY <3>2, <3>3, Zenon
  <2>2. ASSUME NEW p \in Procs
        PROVE  proc[p].op \in A!Public \cup A!Manage \cup {None}
    BY <1>0, BusyIsRequest, Zenon DEF Busy, Kinds
  <2>3. DOMAIN sessions \subseteq A!Used
    BY <1>0, Zenon DEF TypeInv
  <2> QED
    BY <2>1, <2>2, <2>3, Zenon DEF A!TypeOK
<1>2. \A u \in Users : A!Quiet(u) => u \notin mixed /\ ~Pending(u)
  BY Zenon DEF A!Quiet, A!Active, Pending, Revoking, Busy
<1>3. A!BlockedHasNoSession
  BY <1>0, <1>2, Zenon DEF A!BlockedHasNoSession, AccountInv, Clean
<1>4. A!SessionsFollowPassword
  <2> SUFFICES ASSUME NEW i \in DOMAIN sessions, A!Quiet(sessions[i].user)
               PROVE  /\ users[sessions[i].user] # None
                      /\ sessions[i].password = users[sessions[i].user].password
    BY Zenon DEF A!SessionsFollowPassword
  <2>1. sessions[i] \in Sessions
    BY <1>0, Zenon DEF TypeInv
  <2>2. PICK u \in Users : u = sessions[i].user
    BY <2>1, Zenon DEF Sessions
  <2>3. i \in A!SessionsOf(u) /\ Clean(u)
    BY <1>0, <2>2, Zenon DEF A!SessionsOf, AccountInv
  <2> QED
    BY <1>2, <2>2, <2>3, Zenon DEF Clean
<1>5. A!ExchangedOnce
  <2> SUFFICES ASSUME NEW i \in A!Used, spent[i] > 1, mixed = {}
               PROVE  FALSE
    BY Zenon DEF A!ExchangedOnce
  <2>1. spent[i] <= 1 /\ spent[i] \in Nat
    BY <1>0, Zenon DEF SpentInv, TypeInv, A!Used
  <2> QED
    BY <2>1, SMT
<1>6. A!AccountAsEdited
  BY <1>0, Zenon DEF A!AccountAsEdited, AccountInv, Edited
<1>7. A!AdminRemains
  BY <1>0, Zenon DEF A!AdminRemains, AdminInv
<1> QED
  BY <1>1, <1>3, <1>4, <1>5, <1>6, <1>7, Zenon DEF SessionsFollowAccount, AccountsAreKept

\* AuthInv holds in every reachable state.
LEMMA AuthAlways == AuthConstants => (AuthSpec => []AuthInv)
<1> SUFFICES ASSUME AuthConstants
             PROVE  AuthSpec => []AuthInv
  BY Zenon
<1>1. AuthInit => AuthInv
  BY AuthStart, Zenon DEF AuthInit
<1>2. AuthInv /\ [AuthNext]_<<subject, A!vars>> => AuthInv'
  BY AuthStep, Zenon
<1> QED
  BY <1>1, <1>2, PTL DEF AuthSpec

\* In every behaviour of any number of users, processes and sessions: unless requests
\* on an account overlapped, or a revocation failed, a blocked account has no session,
\* every session was opened with the account's present password and a token is
\* exchanged once (Refresh, SetPassword, SetUserActive, ResetGeneratedPassword).
THEOREM SessionsSound == AuthConstants /\ AuthSpec => []SessionsFollowAccount
<1> SUFFICES ASSUME AuthConstants
             PROVE  AuthSpec => []SessionsFollowAccount
  BY Zenon
<1>1. AuthInv => SessionsFollowAccount
  BY AuthMeans, Zenon
<1> QED
  BY <1>1, AuthAlways, PTL

\* Likewise an account is as its last edit left it although every request writes the
\* whole row back, and an administrator who can sign in remains, unless one acted
\* without the role any more or two acted at once (UpdateUser, DeleteUser).
THEOREM AccountsSound == AuthConstants /\ AuthSpec => []AccountsAreKept
<1> SUFFICES ASSUME AuthConstants
             PROVE  AuthSpec => []AccountsAreKept
  BY Zenon
<1>1. AuthInv => AccountsAreKept
  BY AuthMeans, Zenon
<1> QED
  BY <1>1, AuthAlways, PTL
=============================================================================
