------------------------ MODULE RemoteServersProofs ------------------------
(***************************************************************************)
(* What holds of the inventory of RemoteServers for every set of servers,  *)
(* machines, tasks and tokens, any lifetimes and any number of faults.     *)
(* TableInv gives the tables, the Agents and the requests their types; it  *)
(* needs OneIdentity, because Heartbeat updates the row of a server whose  *)
(* certificate it has found.  The other theorems rest on TableInv and on   *)
(* an invariant of their own.  The actions that leave the variables of an  *)
(* invariant alone go together.                                            *)
(***************************************************************************)
EXTENDS RemotePart, TLAPS

Row   == [status : {"pending", "online", "warning", "offline"},
          health : {"unknown", "healthy", "warning", "critical"},
          hb : Nat \cup {None}, machine : Machines \cup {None}, maint : BOOLEAN]
Token == [server : Servers, exp : Nat, used : BOOLEAN]
Cert  == [machine : Machines, exp : Nat]
Task  == [server : Servers, state : {"pending", "running", "settled", "deleted"}]
Call  == [machine : Machines, server : Servers, pc : {"save", "select", "mark", "reply"},
          results : SUBSET Tasks, picked : SUBSET Tasks, waited : BOOLEAN]

\* None stands for no row, no token, no certificate and no time; the periods are
\* numbers.
RemoteConstants ==
    /\ None \notin Row /\ None \notin Token /\ None \notin Cert /\ None \notin Task
    /\ None \notin Nat
    /\ TokenTTL \in Nat /\ CertTTL \in Nat /\ OffAfter \in Nat /\ MaxFaults \in Nat

TableInv ==
    /\ rows \in [Servers -> Row \cup {None}]
    /\ tokens \in [R!TokenIds -> Token \cup {None}]
    /\ certs \in [Servers -> Cert \cup {None}]
    /\ agent \in [Machines -> [state : {"new", "enrolling", "ready"},
                               server : Servers \cup {None}, results : SUBSET Tasks]]
    /\ \A m \in Machines : agent[m].state # "new" => agent[m].server \in Servers
    /\ \A c \in calls : /\ c \in [machine : Machines, server : Servers,
                                  pc : {"save", "select", "mark", "reply"},
                                  results : SUBSET Tasks, picked : SUBSET Tasks, waited : BOOLEAN]
    /\ now \in Nat
    /\ R!OneIdentity

\* The inventory starts empty.
LEMMA TableInit == R!Init => TableInv
  BY DEF R!Init, TableInv, R!OneIdentity

\* Every step of Core, of an Agent and of the monitor keeps the types.
LEMMA TableNext == RemoteConstants /\ TableInv /\ [R!Next]_(R!vars) => TableInv'
<1> SUFFICES ASSUME RemoteConstants, TableInv, [R!Next]_(R!vars)
             PROVE  TableInv'
  BY Zenon
<1>1. ASSUME NEW s \in Servers, R!Create(s)
      PROVE  TableInv'
  <2> DEFINE new == [status |-> "pending", health |-> "unknown", hb |-> None, machine |-> None,
                     maint |-> FALSE]
  <2>1. new \in Row /\ R!createEnrollment(s) \in Token
    BY DEF Row, Token, R!createEnrollment, RemoteConstants, TableInv
  <2> HIDE DEF new
  <2>2. /\ rows' = [rows EXCEPT ![s] = new]
        /\ \E k \in R!TokenIds : tokens' = [tokens EXCEPT ![k] = R!createEnrollment(s)]
        /\ UNCHANGED <<certs, agent, calls, now>>
    BY <1>1, Zenon DEF R!Create, new
  <2>3. rows' \in [Servers -> Row \cup {None}] /\ tokens' \in [R!TokenIds -> Token \cup {None}]
    BY <2>1, <2>2, Zenon DEF TableInv
  <2>4. certs[s] = None
    BY <1>1, Zenon DEF R!Create, TableInv, R!OneIdentity
  <2>5. R!OneIdentity'
    BY <2>2, <2>4, Zenon DEF TableInv, R!OneIdentity
  <2> QED
    BY <2>2, <2>3, <2>5, Zenon DEF TableInv
<1>2. ASSUME NEW s \in Servers, R!ReissueEnrollment(s)
      PROVE  TableInv'
  <2>1. R!createEnrollment(s) \in Token
    BY DEF Token, R!createEnrollment, RemoteConstants, TableInv
  <2>2. \A k \in R!Issued : tokens[k] \in Token /\ [tokens[k] EXCEPT !.used = TRUE] \in Token
    BY Zenon DEF R!Issued, TableInv, Token
  <2>3. PICK new \in R!TokenIds : tokens' = R!ReplaceToken(s, new)
    BY <1>2, Zenon DEF R!ReissueEnrollment
  <2>4. tokens' \in [R!TokenIds -> Token \cup {None}]
    BY <2>1, <2>2, <2>3, Zenon DEF R!ReplaceToken, TableInv
  <2> QED
    BY <1>2, <2>4, Zenon DEF R!ReissueEnrollment, TableInv, R!OneIdentity
<1>3. ASSUME NEW s \in Servers, R!Delete(s)
      PROVE  TableInv'
  <2>1. \A k \in R!Issued : tokens[k] \in Token /\ [tokens[k] EXCEPT !.used = TRUE] \in Token
    BY Zenon DEF R!Issued, TableInv, Token
  <2>2. tokens' \in [R!TokenIds -> Token \cup {None}]
    BY <1>3, <2>1, Zenon DEF R!Delete, TableInv
  <2>3. /\ rows' = [rows EXCEPT ![s] = None] /\ certs' = [certs EXCEPT ![s] = None]
        /\ UNCHANGED <<agent, calls, now>>
    BY <1>3, Zenon DEF R!Delete
  <2> QED
    BY <2>2, <2>3, Zenon DEF TableInv, R!OneIdentity, RemoteConstants
<1>4. ASSUME NEW s \in Servers, R!SetMaintenance(s)
      PROVE  TableInv'
  <2>1. rows[s] \in Row /\ rows' = [rows EXCEPT ![s] = [rows[s] EXCEPT !.maint = ~rows[s].maint]]
        /\ UNCHANGED <<tokens, certs, agent, calls, now>>
    BY <1>4, Zenon DEF R!SetMaintenance, TableInv
  <2>2. /\ [rows[s] EXCEPT !.maint = ~rows[s].maint] \in Row
        /\ [rows[s] EXCEPT !.maint = ~rows[s].maint].machine = rows[s].machine
    BY <2>1, Zenon DEF Row
  <2> QED
    BY <2>1, <2>2, Zenon DEF TableInv, R!OneIdentity, RemoteConstants
<1>5. ASSUME NEW m \in Machines, NEW k \in R!TokenIds, R!ConsumeToken(m, k)
      PROVE  TableInv'
  <2>1. /\ tokens[k] \in Token
        /\ tokens' = [tokens EXCEPT ![k] = [tokens[k] EXCEPT !.used = TRUE]]
        /\ agent' = [agent EXCEPT ![m] = [agent[m] EXCEPT !.state = "enrolling",
                                                          !.server = tokens[k].server]]
        /\ UNCHANGED <<rows, certs, calls, now>>
    BY <1>5, Zenon DEF R!ConsumeToken, R!Issued, TableInv
  <2>2. [tokens[k] EXCEPT !.used = TRUE] \in Token /\ tokens[k].server \in Servers
    BY <2>1, Zenon DEF Token
  <2>3. tokens' \in [R!TokenIds -> Token \cup {None}]
    BY <2>1, <2>2, Zenon DEF TableInv
  <2>4. /\ agent' \in [Machines -> [state : {"new", "enrolling", "ready"},
                                   server : Servers \cup {None}, results : SUBSET Tasks]]
        /\ \A n \in Machines : agent'[n].state # "new" => agent'[n].server \in Servers
    <3> DEFINE a == [agent[m] EXCEPT !.state = "enrolling", !.server = tokens[k].server]
    <3>1. /\ agent \in [Machines -> [state : {"new", "enrolling", "ready"},
                                     server : Servers \cup {None}, results : SUBSET Tasks]]
          /\ \A n \in Machines : agent[n].state # "new" => agent[n].server \in Servers
      BY Zenon DEF TableInv
    <3>2. /\ a \in [state : {"new", "enrolling", "ready"},
                    server : Servers \cup {None}, results : SUBSET Tasks]
          /\ a.server \in Servers
      BY <2>2, <3>1, Zenon
    <3>3. agent' = [agent EXCEPT ![m] = a]
      BY <2>1, Zenon
    <3> HIDE DEF a
    <3> QED
      BY <3>1, <3>2, <3>3
  <2> QED
    BY <2>1, <2>3, <2>4, Zenon DEF TableInv, R!OneIdentity
<1>6. ASSUME NEW m \in Machines, R!Register(m) \/ R!RegisterFails(m)
      PROVE  TableInv'
  <2> DEFINE s == agent[m].server
  <2>1. agent[m].state = "enrolling" /\ s \in Servers /\ UNCHANGED <<tokens, calls, now>>
    BY <1>6, Zenon DEF R!Register, R!RegisterFails, TableInv
  <2>2. CASE R!Register(m) /\ R!CanRegister(s)
    <3>1. rows[s] \in Row /\ certs[s] = None
      BY <2>1, <2>2 DEF R!CanRegister, TableInv
    <3>2. /\ rows' = [rows EXCEPT ![s] = [rows[s] EXCEPT !.status = "online", !.health = "healthy",
                                                         !.hb = now, !.machine = m]]
          /\ certs' = [certs EXCEPT ![s] = [machine |-> m, exp |-> now + CertTTL]]
          /\ agent' = [agent EXCEPT ![m].state = "ready"]
      BY <2>2, <3>1, Zenon DEF R!Register
    <3> DEFINE r == [rows[s] EXCEPT !.status = "online", !.health = "healthy", !.hb = now, !.machine = m]
    <3>3. r \in Row /\ r.machine = m
      BY <3>1, Zenon DEF Row, TableInv
    <3>4. [machine |-> m, exp |-> now + CertTTL] \in Cert
      BY DEF Cert, RemoteConstants, TableInv
    <3>5. rows' \in [Servers -> Row \cup {None}] /\ certs' \in [Servers -> Cert \cup {None}]
      BY <2>1, <3>2, <3>3, <3>4, Zenon DEF TableInv
    <3>6. R!OneIdentity'
      BY <2>1, <3>2, <3>3, Zenon DEF TableInv, R!OneIdentity, RemoteConstants
    <3>7. /\ agent' \in [Machines -> [state : {"new", "enrolling", "ready"},
                                     server : Servers \cup {None}, results : SUBSET Tasks]]
          /\ \A n \in Machines : agent'[n].state # "new" => agent'[n].server \in Servers
      BY <2>1, <3>2 DEF TableInv
    <3> QED
      BY <2>1, <3>5, <3>6, <3>7, Zenon DEF TableInv
  <2>3. CASE UNCHANGED <<rows, certs>> /\ agent' = [agent EXCEPT ![m].state = "new", ![m].server = None]
    <3>1. /\ agent' \in [Machines -> [state : {"new", "enrolling", "ready"},
                                     server : Servers \cup {None}, results : SUBSET Tasks]]
          /\ \A n \in Machines : agent'[n].state # "new" => agent'[n].server \in Servers
      <4>1. /\ agent \in [Machines -> [state : {"new", "enrolling", "ready"},
                                       server : Servers \cup {None}, results : SUBSET Tasks]]
            /\ \A n \in Machines : agent[n].state # "new" => agent[n].server \in Servers
        BY Zenon DEF TableInv
      <4> DEFINE a == [agent[m] EXCEPT !.state = "new", !.server = None]
      <4>2. /\ a \in [state : {"new", "enrolling", "ready"},
                      server : Servers \cup {None}, results : SUBSET Tasks]
            /\ a.state = "new"
        BY <4>1, Zenon
      <4>3. agent' = [agent EXCEPT ![m] = a]
        BY <2>3, <4>1, Zenon
      <4> HIDE DEF a
      <4> QED
        BY <4>1, <4>2, <4>3
    <3> QED
      BY <2>1, <2>3, <3>1, Zenon DEF TableInv, R!OneIdentity
  <2> QED
    BY <1>6, <2>2, <2>3, Zenon DEF R!Register, R!RegisterFails
<1>7. ASSUME NEW m \in Machines, R!Send(m)
      PROVE  TableInv'
  <2>1. R!Request(m) \in [machine : Machines, server : Servers, pc : {"save", "select", "mark", "reply"},
                        results : SUBSET Tasks, picked : SUBSET Tasks, waited : BOOLEAN]
    BY <1>7, Zenon DEF R!Send, R!Request, TableInv
  <2> QED
    BY <1>7, <2>1, Zenon DEF R!Send, TableInv, R!OneIdentity
<1>8. ASSUME NEW m \in Machines, R!Restart(m)
      PROVE  TableInv'
  <2>1. /\ agent' \in [Machines -> [state : {"new", "enrolling", "ready"},
                                   server : Servers \cup {None}, results : SUBSET Tasks]]
        /\ \A n \in Machines : agent'[n].state # "new" => agent'[n].server \in Servers
    BY <1>8 DEF R!Restart, TableInv
  <2>2. ASSUME NEW c \in calls'
        PROVE  c \in [machine : Machines, server : Servers, pc : {"save", "select", "mark", "reply"},
                      results : SUBSET Tasks, picked : SUBSET Tasks, waited : BOOLEAN]
    <3>1. PICK d \in calls : c = d \/ c = [d EXCEPT !.waited = FALSE]
      BY <1>8, <2>2, Zenon DEF R!Restart
    <3> QED
      BY <3>1, Zenon DEF TableInv
  <2>3. UNCHANGED <<rows, tokens, certs, now>>
    BY <1>8, Zenon DEF R!Restart
  <2> QED
    BY <2>1, <2>2, <2>3, Zenon DEF TableInv, R!OneIdentity
<1>9. ASSUME NEW m \in Machines, R!ControlPlaneHeartbeat(m)
      PROVE  TableInv'
  <2> DEFINE s == agent[m].server
  <2>1. /\ s \in Servers /\ rows[s] \in Row
        /\ rows' = [rows EXCEPT ![s] = [rows[s] EXCEPT !.status = "online", !.health = "healthy",
                                                       !.hb = now]]
        /\ UNCHANGED <<tokens, certs, agent, calls, now>>
    BY <1>9, Zenon DEF R!ControlPlaneHeartbeat, TableInv
  <2> DEFINE r == [rows[s] EXCEPT !.status = "online", !.health = "healthy", !.hb = now]
  <2>2. r \in Row /\ r.machine = rows[s].machine
    BY <2>1, Zenon DEF Row, TableInv
  <2>3. rows' \in [Servers -> Row \cup {None}]
    BY <2>1, <2>2, Zenon DEF TableInv
  <2>4. R!OneIdentity'
    BY <2>1, <2>2, Zenon DEF TableInv, R!OneIdentity, RemoteConstants
  <2> QED
    BY <2>1, <2>3, <2>4, Zenon DEF TableInv
<1>10. ASSUME NEW c \in calls, R!Heartbeat(c)
       PROVE  TableInv'
  <2> DEFINE s == c.server
  <2>1. s \in Servers /\ UNCHANGED <<tokens, certs, agent, now>>
    BY <1>10, Zenon DEF R!Heartbeat, TableInv
  <2>2. \A d \in calls' : d \in Call
    <3>1. \A d \in calls' : d \in calls \/ d = [c EXCEPT !.pc = "select"]
      BY <1>10, Zenon DEF R!Heartbeat, R!Becomes
    <3>2. [c EXCEPT !.pc = "select"] \in Call /\ \A d \in calls : d \in Call
      BY DEF TableInv, Call
    <3> QED
      BY <3>1, <3>2, Zenon
  <2>3. CASE R!VerifyCertificate(c)
    <3>1. certs[s] # None /\ rows[s] \in Row
      BY <2>1, <2>3, Zenon DEF R!VerifyCertificate, TableInv, R!OneIdentity
    <3>2. rows' = [rows EXCEPT ![s] = [rows[s] EXCEPT !.status = "online", !.health = "healthy",
                                                       !.hb = now]]
      BY <1>10, <2>1, <2>3, Zenon DEF R!Heartbeat, TableInv
    <3>3. [rows[s] EXCEPT !.status = "online", !.health = "healthy", !.hb = now] \in Row
      BY <3>1, Zenon DEF Row, TableInv
    <3>4. [rows[s] EXCEPT !.status = "online", !.health = "healthy", !.hb = now].machine = rows[s].machine
      BY <3>1, Zenon DEF Row
    <3>5. R!OneIdentity'
      BY <2>1, <3>2, <3>3, <3>4, Zenon DEF R!OneIdentity, TableInv, RemoteConstants
    <3> QED
      <4>1. rows' \in [Servers -> Row \cup {None}]
        BY <2>1, <3>2, <3>3, Zenon DEF TableInv
      <4> QED
        BY <2>1, <2>2, <3>5, <4>1, Zenon DEF TableInv, Call
  <2>4. CASE ~R!VerifyCertificate(c)
    BY <1>10, <2>1, <2>2, <2>4, Zenon DEF R!Heartbeat, TableInv, Call, R!OneIdentity
  <2> QED
    BY <2>3, <2>4, Zenon
<1>11. ASSUME NEW c \in calls, R!PendingTasks(c)
       PROVE  TableInv'
  <2>1. R!SelectPending(c.server) \subseteq Tasks
    BY Zenon DEF R!SelectPending, R!Oldest
  <2> QED
    <3> DEFINE d == [c EXCEPT !.pc = "mark", !.picked = R!SelectPending(c.server)]
    <3>1. c \in Call /\ \A e \in calls : e \in Call
      BY DEF TableInv, Call
    <3>2. d \in Call
      BY <2>1, <3>1 DEF Call
    <3>3. \A e \in calls' : e \in Call
      BY <1>11, <3>1, <3>2, ZenonT(30) DEF R!PendingTasks, R!Becomes
    <3> QED
      BY <1>11, <3>3, Zenon DEF R!PendingTasks, TableInv, Call, R!OneIdentity
<1>12. ASSUME NEW c \in calls, R!MarkRunning(c) \/ R!GivesUp(c)
       PROVE  TableInv'
  <2>1. /\ \A d \in calls' : d \in calls \/ d = [c EXCEPT !.pc = "reply"]
                               \/ d = [c EXCEPT !.waited = FALSE]
        /\ UNCHANGED <<rows, tokens, certs, agent, now>>
    BY <1>12, Zenon DEF R!MarkRunning, R!GivesUp, R!Becomes
  <2> QED
    BY <2>1, Zenon DEF TableInv, R!OneIdentity
<1>13. ASSUME NEW c \in calls, R!Reply(c)
       PROVE  TableInv'
  BY <1>13 DEF R!Reply, TableInv, R!OneIdentity
<1>14. ASSUME NEW c \in calls, R!Unanswered(c) \/ R!Cancelled(c)
       PROVE  TableInv'
  BY <1>14, Zenon DEF R!Unanswered, R!Cancelled, TableInv, R!OneIdentity
<1>15. CASE R!MarkStale
  <2>1. \A s \in Servers : rows[s] # None =>
          /\ [rows[s] EXCEPT !.status = "offline", !.health = "critical"] \in Row
          /\ [rows[s] EXCEPT !.status = "offline", !.health = "critical"].machine = rows[s].machine
          /\ [rows[s] EXCEPT !.status = "warning", !.health = "warning"] \in Row
          /\ [rows[s] EXCEPT !.status = "warning", !.health = "warning"].machine = rows[s].machine
    BY ZenonT(30) DEF Row, TableInv
  <2>2. \A s \in Servers : rows[s] # None => rows'[s] \in Row /\ rows'[s].machine = rows[s].machine
    BY <1>15, <2>1, Zenon DEF R!MarkStale, TableInv
  <2>3. \A s \in Servers : rows[s] = None => rows'[s] = None
    BY <1>15, Zenon DEF R!MarkStale
  <2>4. rows' = [s \in Servers |-> rows'[s]]
    BY <1>15, Zenon DEF R!MarkStale
  <2>5. rows' \in [Servers -> Row \cup {None}]
    BY <2>2, <2>3, <2>4, Zenon
  <2> QED
    BY <1>15, <2>2, <2>5, Zenon DEF R!MarkStale, TableInv, R!OneIdentity, RemoteConstants
<1>16. CASE R!Tick \/ UNCHANGED R!vars
  BY <1>16 DEF R!Tick, R!vars, TableInv, R!OneIdentity
<1>17. ASSUME NEW s \in Servers, R!CreateTask(s)
       PROVE  TableInv'
  BY <1>17, Zenon DEF R!CreateTask, TableInv, R!OneIdentity
<1> QED
  BY <1>1, <1>2, <1>3, <1>4, <1>5, <1>6, <1>7, <1>8, <1>9, <1>10, <1>11, <1>12, <1>13, <1>14, <1>15,
     <1>16, <1>17 DEF R!Next, R!Serve

-----------------------------------------------------------------------------

\* A server that is called offline has sent a heartbeat, more than OffAfter ago.
SilentInv ==
    \A s \in Servers : rows[s] # None /\ rows[s].status = "offline" =>
        rows[s].hb \in Nat /\ now - rows[s].hb > OffAfter

\* A step that calls no server offline and refreshes no offline row.
LEMMA SilentStays ==
    ASSUME RemoteConstants, TableInv, SilentInv, now' \in Nat, now <= now',
           \A s \in Servers : rows'[s] # None /\ rows'[s].status = "offline" =>
               rows[s] # None /\ rows[s].status = "offline" /\ rows'[s].hb = rows[s].hb
    PROVE  SilentInv'
  BY DEF SilentInv, TableInv, RemoteConstants

\* Only the monitor calls a server offline.
LEMMA SilentNext == RemoteConstants /\ TableInv /\ SilentInv /\ [R!Next]_(R!vars) => SilentInv'
<1> SUFFICES ASSUME RemoteConstants, TableInv, SilentInv, [R!Next]_(R!vars)
             PROVE  SilentInv'
  BY Zenon
<1>0. now \in Nat /\ rows \in [Servers -> Row \cup {None}]
  BY Zenon DEF TableInv
<1>1. ASSUME NEW s \in Servers, R!Create(s) \/ R!Delete(s) \/ R!SetMaintenance(s)
      PROVE  SilentInv'
  <2>1. now' = now /\ \A t \in Servers : t # s => rows'[t] = rows[t]
    BY <1>0, <1>1, Zenon DEF R!Create, R!Delete, R!SetMaintenance
  <2>2. CASE R!SetMaintenance(s)
    <3>1. rows[s] \in Row /\ rows'[s] = [rows[s] EXCEPT !.maint = ~rows[s].maint]
      BY <1>0, <2>2 DEF R!SetMaintenance
    <3>2. rows'[s].status = rows[s].status /\ rows'[s].hb = rows[s].hb /\ rows[s] # None
      BY <3>1, Zenon DEF Row, RemoteConstants
    <3> QED
      BY <1>0, <2>1, <3>2, SilentStays
  <2>3. CASE R!Create(s) \/ R!Delete(s)
    <3>1. rows'[s] = None \/ rows'[s].status = "pending"
      BY <1>0, <2>3 DEF R!Create, R!Delete
    <3> QED
      BY <1>0, <2>1, <3>1, SilentStays
  <2> QED
    BY <1>1, <2>2, <2>3, Zenon
<1>2. ASSUME NEW m \in Machines, R!Register(m) \/ R!ControlPlaneHeartbeat(m)
      PROVE  SilentInv'
  <2> DEFINE s == agent[m].server
  <2>1. now' = now /\ s \in Servers
    BY <1>2, Zenon DEF R!Register, R!ControlPlaneHeartbeat, TableInv
  <2>2. CASE rows' = rows
    BY <1>0, <2>1, <2>2, SilentStays
  <2>3. CASE rows' # rows
    <3>1. rows[s] \in Row /\ \A t \in Servers : t # s => rows'[t] = rows[t]
      BY <1>0, <1>2, <2>1, <2>3, Zenon DEF R!Register, R!CanRegister, R!ControlPlaneHeartbeat
    <3>2. \/ rows'[s] = [rows[s] EXCEPT !.status = "online", !.health = "healthy", !.hb = now]
          \/ rows'[s] = [rows[s] EXCEPT !.status = "online", !.health = "healthy", !.hb = now,
                                        !.machine = m]
      BY <1>0, <1>2, <2>1, <2>3, Zenon DEF R!Register, R!ControlPlaneHeartbeat
    <3>3. rows'[s].status = "online"
      BY <3>1, <3>2, Zenon DEF Row
    <3> QED
      BY <1>0, <2>1, <3>1, <3>3, SilentStays
  <2> QED
    BY <2>2, <2>3, Zenon
<1>3. ASSUME NEW c \in calls, R!Heartbeat(c)
      PROVE  SilentInv'
  <2> DEFINE s == c.server
  <2>1. now' = now /\ s \in Servers
    BY <1>3, Zenon DEF R!Heartbeat, TableInv
  <2>2. CASE R!VerifyCertificate(c)
    <3>1. rows[s] \in Row
      BY <2>1, <2>2 DEF R!VerifyCertificate, TableInv, R!OneIdentity
    <3>2. rows'[s].status = "online" /\ \A t \in Servers : t # s => rows'[t] = rows[t]
      BY <1>0, <1>3, <2>1, <2>2, <3>1 DEF R!Heartbeat, Row
    <3> QED
      BY <1>0, <2>1, <3>2, SilentStays
  <2>3. CASE ~R!VerifyCertificate(c)
    BY <1>0, <1>3, <2>1, <2>3, SilentStays DEF R!Heartbeat
  <2> QED
    BY <2>2, <2>3, Zenon
<1>4. CASE R!MarkStale
  <2> SUFFICES ASSUME NEW s \in Servers, rows'[s] # None, rows'[s].status = "offline"
               PROVE  rows'[s].hb \in Nat /\ now' - rows'[s].hb > OffAfter
    BY Zenon DEF SilentInv
  <2>1. now' = now /\ rows[s] # None /\ rows[s] \in Row
    BY <1>0, <1>4, Zenon DEF R!MarkStale
  <2>2. CASE rows'[s] = rows[s]
    BY <2>1, <2>2, Zenon DEF SilentInv
  <2>3. CASE R!Silent(s, OffAfter) /\ rows'[s] = [rows[s] EXCEPT !.status = "offline", !.health = "critical"]
    BY <2>1, <2>3, Zenon DEF R!Silent, Row
  <2>4. CASE rows'[s] = [rows[s] EXCEPT !.status = "warning", !.health = "warning"]
    BY <2>1, <2>4, Zenon DEF Row
  <2> QED
    BY <1>4, <2>2, <2>3, <2>4, Zenon DEF R!MarkStale
<1>5. CASE R!Tick
  BY <1>0, <1>5, SilentStays DEF R!Tick
<1>6. CASE rows' = rows /\ now' = now
  BY <1>0, <1>6, SilentStays
<1>7. ASSUME NEW s \in Servers, R!ReissueEnrollment(s) \/ R!CreateTask(s)
      PROVE  rows' = rows /\ now' = now
  BY <1>7, Zenon DEF R!ReissueEnrollment, R!CreateTask
<1>8. ASSUME NEW m \in Machines, \/ R!RegisterFails(m) \/ R!Send(m) \/ R!Restart(m)
                                 \/ \E k \in R!TokenIds : R!ConsumeToken(m, k)
      PROVE  rows' = rows /\ now' = now
  BY <1>8, Zenon DEF R!RegisterFails, R!Send, R!Restart, R!ConsumeToken
<1>9. ASSUME NEW c \in calls, \/ R!PendingTasks(c) \/ R!MarkRunning(c) \/ R!Reply(c) \/ R!Unanswered(c)
                              \/ R!Cancelled(c) \/ R!GivesUp(c)
      PROVE  rows' = rows /\ now' = now
  BY <1>9, Zenon DEF R!PendingTasks, R!MarkRunning, R!Reply, R!Unanswered, R!Cancelled, R!GivesUp
<1>10. CASE UNCHANGED R!vars
  BY <1>6, <1>10, Zenon DEF R!vars
<1> QED
  BY <1>1, <1>2, <1>3, <1>4, <1>5, <1>6, <1>7, <1>8, <1>9, <1>10, Zenon DEF R!Next, R!Serve

-----------------------------------------------------------------------------

\* A step that issues no token and makes no spent one usable again.
LEMMA TokenStays ==
    ASSUME R!OneLiveToken,
           \A k \in R!TokenIds : tokens'[k] # None =>
               /\ tokens[k] # None
               /\ tokens'[k].server = tokens[k].server
               /\ ~tokens'[k].used => ~tokens[k].used
    PROVE  R!OneLiveToken'
<1> SUFFICES ASSUME NEW j \in R!TokenIds, NEW k \in R!TokenIds, tokens'[j] # None, tokens'[k] # None,
                    tokens'[j].server = tokens'[k].server, ~tokens'[j].used, ~tokens'[k].used
             PROVE  j = k
  BY Zenon DEF R!OneLiveToken, R!Issued, R!TokenIds
<1>1. j \in R!Issued /\ k \in R!Issued
  BY Zenon DEF R!Issued
<1>2. tokens[j].server = tokens[k].server /\ ~tokens[j].used /\ ~tokens[k].used
  BY Zenon
<1> QED
  BY <1>1, <1>2, Zenon DEF R!OneLiveToken

\* A new token is the only usable one of its server.
LEMMA TokenNext == RemoteConstants /\ TableInv /\ R!OneLiveToken /\ [R!Next]_(R!vars) => R!OneLiveToken'
<1> SUFFICES ASSUME RemoteConstants, TableInv, R!OneLiveToken, [R!Next]_(R!vars)
             PROVE  R!OneLiveToken'
  BY Zenon
<1>0. tokens \in [R!TokenIds -> Token \cup {None}]
  BY Zenon DEF TableInv
<1>1. ASSUME NEW s \in Servers, R!Create(s)
      PROVE  R!OneLiveToken'
  <2>1. PICK k \in R!TokenIds : tokens' = [tokens EXCEPT ![k] = R!createEnrollment(s)]
    BY <1>1, Zenon DEF R!Create
  <2>2. \A j \in R!TokenIds : tokens[j] # None => tokens[j].server # s
    BY <1>1, Zenon DEF R!Create, R!Issued
  <2>3. tokens'[k].server = s /\ \A j \in R!TokenIds : j # k => tokens'[j] = tokens[j]
    BY <1>0, <2>1, Zenon DEF R!createEnrollment
  <2> QED
    BY <2>2, <2>3 DEF R!OneLiveToken, R!Issued
<1>2. ASSUME NEW s \in Servers, R!ReissueEnrollment(s)
      PROVE  R!OneLiveToken'
  <2>1. PICK k \in R!TokenIds : tokens' = R!ReplaceToken(s, k)
    BY <1>2, Zenon DEF R!ReissueEnrollment
  <2>2. \A j \in R!TokenIds : j # k /\ tokens[j] # None /\ tokens[j].server = s =>
          tokens'[j] = [tokens[j] EXCEPT !.used = TRUE]
    BY <2>1, Zenon DEF R!ReplaceToken, R!Issued
  <2>3. \A j \in R!TokenIds : j # k /\ ~(tokens[j] # None /\ tokens[j].server = s) => tokens'[j] = tokens[j]
    BY <2>1, Zenon DEF R!ReplaceToken, R!Issued
  <2>4. \A j \in R!TokenIds : j # k /\ tokens[j] # None /\ tokens[j].server = s => tokens'[j].used
    BY <1>0, <2>2, Zenon DEF Token
  <2>5. tokens'[k].server = s
    BY <2>1 DEF R!ReplaceToken, R!createEnrollment
  <2> QED
    BY <2>3, <2>4, <2>5, Zenon DEF R!OneLiveToken, R!Issued
<1>3. ASSUME NEW s \in Servers, R!Delete(s)
      PROVE  R!OneLiveToken'
  <2>1. \A k \in R!TokenIds : \/ tokens'[k] = tokens[k]
                              \/ tokens[k] # None /\ tokens'[k] = [tokens[k] EXCEPT !.used = TRUE]
    BY <1>3, Zenon DEF R!Delete, R!Issued
  <2>2. \A k \in R!TokenIds : tokens[k] # None =>
          /\ [tokens[k] EXCEPT !.used = TRUE].server = tokens[k].server
          /\ [tokens[k] EXCEPT !.used = TRUE].used
    BY <1>0, Zenon DEF Token
  <2> QED
    BY <2>1, <2>2, TokenStays, Zenon
<1>4. ASSUME NEW m \in Machines, NEW k \in R!TokenIds, R!ConsumeToken(m, k)
      PROVE  R!OneLiveToken'
  <2>1. tokens[k] \in Token /\ tokens[k] # None /\ tokens' = [tokens EXCEPT ![k].used = TRUE]
    BY <1>0, <1>4, Zenon DEF R!ConsumeToken, R!Issued
  <2>2. /\ tokens'[k].server = tokens[k].server /\ tokens'[k].used
        /\ \A j \in R!TokenIds : j # k => tokens'[j] = tokens[j]
    BY <1>0, <2>1, Zenon DEF Token
  <2> QED
    BY <2>1, <2>2, TokenStays, Zenon
<1>5. CASE tokens' = tokens
  BY <1>5, Zenon DEF R!OneLiveToken, R!Issued
<1>6. ASSUME NEW s \in Servers, R!SetMaintenance(s) \/ R!CreateTask(s)
      PROVE  tokens' = tokens
  BY <1>6, Zenon DEF R!SetMaintenance, R!CreateTask
<1>7. ASSUME NEW m \in Machines, \/ R!Register(m) \/ R!RegisterFails(m) \/ R!Send(m) \/ R!Restart(m)
                                 \/ R!ControlPlaneHeartbeat(m)
      PROVE  tokens' = tokens
  BY <1>7, Zenon DEF R!Register, R!RegisterFails, R!Send, R!Restart, R!ControlPlaneHeartbeat
<1>8. ASSUME NEW c \in calls, R!Serve(c) \/ R!GivesUp(c)
      PROVE  tokens' = tokens
  BY <1>8, Zenon DEF R!Serve, R!Heartbeat, R!PendingTasks, R!MarkRunning, R!Reply, R!Unanswered, R!Cancelled, R!GivesUp
<1>9. CASE R!MarkStale \/ R!Tick \/ UNCHANGED R!vars
  BY <1>5, <1>9, Zenon DEF R!MarkStale, R!Tick, R!vars
<1> QED
  BY <1>1, <1>2, <1>3, <1>4, <1>5, <1>6, <1>7, <1>8, <1>9, Zenon DEF R!Next

-----------------------------------------------------------------------------
(* Tasks.                                                                  *)

TaskType ==
    /\ tasks \in [Tasks -> Task \cup {None}]
    /\ ran \in [Tasks -> Nat]
    /\ faults \in 0..MaxFaults

\* The id of a server is used once, because its tokens stay, and so at most one
\* machine is ever ready as that server.
OneReady ==
    /\ \A m \in Machines : agent[m].state # "new" =>
         \E k \in R!Issued : tokens[k].server = agent[m].server
    /\ \A m \in Machines : agent[m].state = "ready" =>
         certs[agent[m].server] # None \/ rows[agent[m].server] = None
    /\ \A m, n \in Machines :
         agent[m].state = "ready" /\ agent[n].state = "ready" /\ agent[m].server = agent[n].server => m = n

TaskOf(t, s) == tasks[t] # None /\ tasks[t].server = s

\* The results an Agent keeps are of tasks of its server.
ResultInv ==
    \A m \in Machines : \A t \in agent[m].results :
        agent[m].state = "ready" /\ TaskOf(t, agent[m].server)

\* A request is of a machine that is ready; while the machine waits, it keeps the
\* results that it has sent.
CallInv ==
    \A c \in calls :
        /\ agent[c.machine].state = "ready" /\ agent[c.machine].server = c.server
        /\ c.waited => c.results = agent[c.machine].results
        /\ c.pc \in {"save", "select"} => c.picked = {}
        /\ \A t \in c.picked \cup c.results : TaskOf(t, c.server)

OneWait == \A c, d \in calls : c.waited /\ d.waited /\ c.machine = d.machine => c = d

\* A task that has run is not pending any more, and what a machine waits for has
\* not run, except for tasks that Core could not mark.
RunInv ==
    /\ \A t \in Tasks : t \notin again /\ ran[t] # 0 => tasks[t] # None /\ tasks[t].state # "pending"
    /\ \A c \in calls : c.waited => \A t \in c.picked :
         t \in again \/ (ran[t] = 0 /\ (c.pc = "reply" => tasks[t].state # "pending"))
    /\ R!RunsOnce

Running(t) == tasks[t] # None /\ tasks[t].state = "running"
Kept(t)    == t \in lost \/ \E c \in calls : t \in c.picked

\* A running task is in a response or with an Agent, and the response that replaces
\* the results of an Agent comes after those results were saved.
WhereInv ==
    /\ \A t \in Tasks : Running(t) => Kept(t) \/ \E m \in Machines : t \in agent[m].results
    /\ \A c \in calls : c.waited /\ c.pc # "save" =>
         \A t \in agent[c.machine].results : Running(t) => Kept(t)

Delivery == ResultInv /\ CallInv /\ OneWait /\ RunInv /\ WhereInv

TaskInv == TaskType /\ OneReady /\ Delivery

\* The inventory starts without tasks and requests.
LEMMA TaskInit == RemoteConstants /\ R!Init => TaskInv
<1> SUFFICES ASSUME RemoteConstants, R!Init
             PROVE  TaskInv
  BY Zenon
<1>1. TaskType
  BY DEF R!Init, TaskType, RemoteConstants
<1>2. OneReady /\ ResultInv /\ CallInv /\ OneWait
  BY Zenon DEF R!Init, OneReady, ResultInv, CallInv, OneWait
<1>3. RunInv
  BY DEF R!Init, RunInv, R!RunsOnce
<1>4. WhereInv
  BY Zenon DEF R!Init, WhereInv, Running
<1> QED
  BY <1>1, <1>2, <1>3, <1>4, Zenon DEF TaskInv, Delivery

\* A token that is spent is still a token of its server.
LEMMA SpentToken ==
    \A x \in Token : /\ [x EXCEPT !.used = TRUE] \in Token
                     /\ [x EXCEPT !.used = TRUE].server = x.server
                     /\ [x EXCEPT !.used = TRUE].used
  BY Zenon DEF Token

\* A step that at most spends tokens keeps them.
LEMMA TokensKept ==
    ASSUME RemoteConstants, tokens \in [R!TokenIds -> Token \cup {None}],
           \A k \in R!TokenIds : tokens[k] # None =>
               tokens'[k] = tokens[k] \/ tokens'[k] = [tokens[k] EXCEPT !.used = TRUE]
    PROVE  \A k \in R!TokenIds : tokens[k] # None =>
               tokens'[k] # None /\ tokens'[k].server = tokens[k].server
<1> SUFFICES ASSUME NEW k \in R!TokenIds, tokens[k] # None
             PROVE  tokens'[k] # None /\ tokens'[k].server = tokens[k].server
  BY Zenon
<1> DEFINE y == [tokens[k] EXCEPT !.used = TRUE]
<1>1. y \in Token /\ y.server = tokens[k].server
  BY SpentToken, Zenon
<1>2. y # None /\ (tokens'[k] = tokens[k] \/ tokens'[k] = y)
  BY <1>1, Zenon DEF RemoteConstants
<1> HIDE DEF y
<1> QED
  BY <1>1, <1>2, Zenon

\* A step that makes no machine ready, keeps the tokens and gives no new row to a
\* server that is gone.
LEMMA ReadyStays ==
    ASSUME TableInv, OneReady,
           \A m \in Machines : agent'[m].state = "ready" =>
               agent[m].state = "ready" /\ agent'[m].server = agent[m].server,
           \A m \in Machines : agent'[m].state # "new" =>
               \E k \in R!TokenIds : tokens[k] # None /\ tokens[k].server = agent'[m].server,
           \A k \in R!TokenIds : tokens[k] # None => tokens'[k] # None /\ tokens'[k].server = tokens[k].server,
           \A s \in Servers : /\ certs[s] # None => certs'[s] # None \/ rows'[s] = None
                              /\ rows[s] = None => rows'[s] = None
    PROVE  OneReady'
<1>1. ASSUME NEW m \in Machines, agent'[m].state # "new"
      PROVE  \E k \in R!TokenIds : tokens'[k] # None /\ tokens'[k].server = agent'[m].server
  <2>1. PICK k \in R!TokenIds : tokens[k] # None /\ tokens[k].server = agent'[m].server
    BY <1>1, Zenon
  <2> QED
    BY <2>1, Zenon
<1>2. \A m \in Machines : agent'[m].state = "ready" =>
        certs'[agent'[m].server] # None \/ rows'[agent'[m].server] = None
  <2> SUFFICES ASSUME NEW m \in Machines, agent'[m].state = "ready"
               PROVE  certs'[agent'[m].server] # None \/ rows'[agent'[m].server] = None
    BY Zenon
  <2>1. agent[m].server \in Servers /\ agent'[m].server = agent[m].server
    BY Zenon DEF TableInv
  <2> QED
    BY <2>1 DEF OneReady
<1>3. \A m, n \in Machines :
        agent'[m].state = "ready" /\ agent'[n].state = "ready" /\ agent'[m].server = agent'[n].server => m = n
  BY DEF OneReady
<1> QED
  BY <1>1, <1>2, <1>3, Zenon DEF OneReady, R!Issued

\* Every step keeps the machines of different servers apart.
LEMMA ReadyNext == RemoteConstants /\ TableInv /\ OneReady /\ [R!Next]_(R!vars) => OneReady'
<1> SUFFICES ASSUME RemoteConstants, TableInv, OneReady, [R!Next]_(R!vars)
             PROVE  OneReady'
  BY Zenon
<1>0. /\ tokens \in [R!TokenIds -> Token \cup {None}] /\ rows \in [Servers -> Row \cup {None}]
      /\ certs \in [Servers -> Cert \cup {None}]
      /\ agent \in [Machines -> [state : {"new", "enrolling", "ready"},
                                 server : Servers \cup {None}, results : SUBSET Tasks]]
      /\ None \notin Row /\ None \notin Token /\ None \notin Cert
      /\ \A m \in Machines : agent[m].state # "new" =>
           \E k \in R!TokenIds : tokens[k] # None /\ tokens[k].server = agent[m].server
  BY Zenon DEF TableInv, RemoteConstants, OneReady, R!Issued
<1>1. CASE UNCHANGED <<agent, tokens, certs>> /\ \A s \in Servers : rows[s] = None => rows'[s] = None
  BY <1>0, <1>1, ReadyStays, Zenon
<1>2. ASSUME NEW s \in Servers, R!Create(s)
      PROVE  OneReady'
  <2>1. /\ rows' = [rows EXCEPT ![s] = [status |-> "pending", health |-> "unknown",
                                        hb |-> None, machine |-> None, maint |-> FALSE]]
        /\ UNCHANGED <<certs, agent>>
        /\ \A k \in R!Issued : tokens[k].server # s
        /\ \E k \in R!TokenIds : k \notin R!Issued /\ tokens' = [tokens EXCEPT ![k] = R!createEnrollment(s)]
    BY <1>2, Zenon DEF R!Create, R!Fresh
  <2>2. \A k \in R!TokenIds : tokens[k] # None => tokens'[k] = tokens[k]
    BY <1>0, <2>1, Zenon DEF R!Issued
  <2>3. \A m \in Machines : agent[m].state # "new" => agent[m].server # s
    BY <2>1, Zenon DEF OneReady
  <2>4. \A x \in Servers : x # s => rows'[x] = rows[x]
    BY <1>0, <2>1, Zenon
  <2>5. \A m \in Machines : agent'[m].state = "ready" =>
          certs'[agent'[m].server] # None \/ rows'[agent'[m].server] = None
    BY <2>1, <2>3, <2>4, Zenon DEF OneReady, TableInv
  <2>6. \A m \in Machines : agent'[m].state # "new" =>
          \E k \in R!Issued' : tokens'[k].server = agent'[m].server
    BY <2>1, <2>2 DEF OneReady, R!Issued
  <2> QED
    BY <2>1, <2>5, <2>6, Zenon DEF OneReady, R!Issued
<1>3. ASSUME NEW s \in Servers, R!ReissueEnrollment(s)
      PROVE  OneReady'
  <2>1. PICK new \in R!TokenIds : tokens' = R!ReplaceToken(s, new) /\ R!Fresh(new)
    BY <1>3, Zenon DEF R!ReissueEnrollment
  <2>2. \A k \in R!TokenIds : tokens[k] # None =>
          tokens'[k] = tokens[k] \/ tokens'[k] = [tokens[k] EXCEPT !.used = TRUE]
    BY <2>1, Zenon DEF R!ReplaceToken, R!Fresh, R!Issued
  <2>3. \A k \in R!TokenIds : tokens[k] # None => tokens'[k] # None /\ tokens'[k].server = tokens[k].server
    BY <1>0, <2>2, TokensKept, Zenon
  <2> QED
    BY <1>0, <1>3, <2>3, ReadyStays, Zenon DEF R!ReissueEnrollment
<1>4. ASSUME NEW s \in Servers, R!Delete(s)
      PROVE  OneReady'
  <2>1. \A k \in R!TokenIds : tokens[k] # None =>
          tokens'[k] = tokens[k] \/ tokens'[k] = [tokens[k] EXCEPT !.used = TRUE]
    BY <1>4, Zenon DEF R!Delete
  <2>2. \A k \in R!TokenIds : tokens[k] # None => tokens'[k] # None /\ tokens'[k].server = tokens[k].server
    BY <1>0, <2>1, TokensKept, Zenon
  <2>3. /\ rows' = [rows EXCEPT ![s] = None] /\ certs' = [certs EXCEPT ![s] = None] /\ agent' = agent
    BY <1>4, Zenon DEF R!Delete
  <2>4. \A x \in Servers : /\ certs[x] # None => certs'[x] # None \/ rows'[x] = None
                           /\ rows[x] = None => rows'[x] = None
    BY <1>0, <2>3, Zenon
  <2> QED
    BY <1>0, <2>2, <2>3, <2>4, ReadyStays, Zenon
<1>5. ASSUME NEW m \in Machines, NEW k \in R!TokenIds, R!ConsumeToken(m, k)
      PROVE  OneReady'
  <2>1. /\ k \in R!Issued /\ tokens' = [tokens EXCEPT ![k].used = TRUE] /\ UNCHANGED <<rows, certs>>
        /\ agent' = [agent EXCEPT ![m].state = "enrolling", ![m].server = tokens[k].server]
    BY <1>5, Zenon DEF R!ConsumeToken
  <2>2. /\ tokens[k] \in Token /\ tokens'[k] = [tokens[k] EXCEPT !.used = TRUE]
        /\ \A j \in R!TokenIds : j # k => tokens'[j] = tokens[j]
    <3>1. tokens[k] \in Token /\ tokens' = [tokens EXCEPT ![k] = [tokens[k] EXCEPT !.used = TRUE]]
      BY <1>0, <2>1, Zenon DEF R!Issued
    <3> QED
      BY <1>0, <3>1, Zenon
  <2>3. /\ agent'[m].state = "enrolling" /\ agent'[m].server = tokens[k].server
        /\ \A n \in Machines : n # m => agent'[n] = agent[n]
    BY <1>0, <2>1
  <2>4. \A j \in R!TokenIds : tokens[j] # None => tokens'[j] # None /\ tokens'[j].server = tokens[j].server
    <3>1. \A j \in R!TokenIds : tokens[j] # None =>
            tokens'[j] = tokens[j] \/ tokens'[j] = [tokens[j] EXCEPT !.used = TRUE]
      BY <2>2, Zenon
    <3> QED
      BY <1>0, <3>1, TokensKept, Zenon
  <2>5. \A n \in Machines : agent'[n].state # "new" =>
          \E j \in R!TokenIds : tokens[j] # None /\ tokens[j].server = agent'[n].server
    BY <1>0, <2>1, <2>3 DEF R!Issued
  <2>6. \A n \in Machines : agent'[n].state = "ready" =>
          agent[n].state = "ready" /\ agent'[n].server = agent[n].server
    BY <2>3, Zenon
  <2> QED
    BY <2>1, <2>4, <2>5, <2>6, ReadyStays, Zenon
<1>6. ASSUME NEW m \in Machines, R!Register(m)
      PROVE  OneReady'
  <2> DEFINE s == agent[m].server
  <2>1. agent[m].state = "enrolling" /\ s \in Servers /\ tokens' = tokens
    BY <1>6, Zenon DEF R!Register, TableInv
  <2>2. CASE R!CanRegister(s)
    <3>1. /\ rows[s] # None /\ certs[s] = None
          /\ certs' = [certs EXCEPT ![s] = IF @ = None THEN [machine |-> m, exp |-> now + CertTTL] ELSE @]
          /\ rows' = [rows EXCEPT ![s] = [@ EXCEPT !.status = "online", !.health = "healthy",
                                                   !.hb = now, !.machine = m]]
          /\ agent' = [agent EXCEPT ![m].state = "ready"]
      BY <1>6, <2>2, Zenon DEF R!Register, R!CanRegister
    <3>2. /\ agent'[m].state = "ready" /\ agent'[m].server = s
          /\ \A n \in Machines : n # m => agent'[n] = agent[n]
      BY <1>0, <3>1
    <3>3. certs'[s] # None /\ \A x \in Servers : x # s => certs'[x] = certs[x] /\ rows'[x] = rows[x]
      <4>1. [machine |-> m, exp |-> now + CertTTL] \in Cert
        BY DEF Cert, RemoteConstants, TableInv
      <4> QED
        BY <1>0, <2>1, <3>1, <4>1, Zenon
    <3>4. \A n \in Machines : agent[n].state = "ready" => agent[n].server # s
      BY <3>1, Zenon DEF OneReady
    <3>5. \A n \in Machines : agent'[n].state = "ready" =>
            certs'[agent'[n].server] # None \/ rows'[agent'[n].server] = None
      BY <3>2, <3>3, <3>4 DEF OneReady, TableInv
    <3>6. \A n, o \in Machines : agent'[n].state = "ready" /\ agent'[o].state = "ready"
                                 /\ agent'[n].server = agent'[o].server => n = o
      BY <3>2, <3>4 DEF OneReady
    <3>7. \A n \in Machines : agent'[n].state # "new" =>
            \E j \in R!Issued' : tokens'[j].server = agent'[n].server
      BY <2>1, <3>2 DEF OneReady, R!Issued
    <3> QED
      BY <3>5, <3>6, <3>7, Zenon DEF OneReady
  <2>3. CASE ~R!CanRegister(s)
    <3>1. /\ agent' = [agent EXCEPT ![m].state = "new", ![m].server = None]
          /\ UNCHANGED <<rows, certs>>
      BY <1>6, <2>3, Zenon DEF R!Register
    <3>2. agent'[m].state = "new" /\ \A n \in Machines : n # m => agent'[n] = agent[n]
      BY <1>0, <3>1, Zenon
    <3>3. \A n \in Machines : agent'[n].state # "new" => agent'[n] = agent[n]
      BY <3>2, Zenon
    <3> QED
      BY <1>0, <2>1, <3>1, <3>3, ReadyStays
  <2> QED
    BY <2>2, <2>3, Zenon
<1>7. ASSUME NEW m \in Machines, R!RegisterFails(m)
      PROVE  OneReady'
  <2>1. agent' = [agent EXCEPT ![m].state = "new", ![m].server = None] /\ UNCHANGED <<rows, certs, tokens>>
    BY <1>7, Zenon DEF R!RegisterFails
  <2>2. agent'[m].state = "new" /\ \A n \in Machines : n # m => agent'[n] = agent[n]
    BY <1>0, <2>1, Zenon
  <2>3. \A n \in Machines : agent'[n].state # "new" => agent'[n] = agent[n]
    BY <2>2, Zenon
  <2> QED
    BY <1>0, <2>1, <2>3, ReadyStays
<1>8. ASSUME NEW m \in Machines, R!Restart(m) \/ \E c \in calls : c.machine = m /\ R!Reply(c)
      PROVE  OneReady'
  <2>1. UNCHANGED <<rows, certs, tokens>> /\ \E S : agent' = [agent EXCEPT ![m].results = S]
    BY <1>8, Zenon DEF R!Restart, R!Reply
  <2>2. \A n \in Machines : agent'[n].state = agent[n].state /\ agent'[n].server = agent[n].server
    BY <1>0, <2>1
  <2> QED
    BY <1>0, <2>1, <2>2, ReadyStays
<1>9. ASSUME NEW s \in Servers, R!SetMaintenance(s) \/ R!CreateTask(s)
      PROVE  OneReady'
  BY <1>0, <1>1, <1>9, Zenon DEF R!SetMaintenance, R!CreateTask
<1>10. ASSUME NEW m \in Machines, R!Send(m) \/ R!ControlPlaneHeartbeat(m)
       PROVE  OneReady'
  BY <1>0, <1>1, <1>10, Zenon DEF R!Send, R!ControlPlaneHeartbeat
<1>11. ASSUME NEW c \in calls, \/ R!Heartbeat(c) \/ R!PendingTasks(c) \/ R!MarkRunning(c)
                               \/ R!Unanswered(c) \/ R!Cancelled(c) \/ R!GivesUp(c)
       PROVE  OneReady'
  <2>1. CASE R!Heartbeat(c) /\ R!VerifyCertificate(c)
    <3>1. rows[c.server] # None /\ c.server \in Servers
      BY <2>1, Zenon DEF R!VerifyCertificate, TableInv, R!OneIdentity
    <3> QED
      BY <1>0, <1>1, <2>1, <3>1, Zenon DEF R!Heartbeat
  <2>2. CASE R!Heartbeat(c) /\ ~R!VerifyCertificate(c)
    BY <1>1, <2>2, Zenon DEF R!Heartbeat
  <2>3. CASE \/ R!PendingTasks(c) \/ R!MarkRunning(c) \/ R!Unanswered(c) \/ R!Cancelled(c) \/ R!GivesUp(c)
    BY <1>1, <2>3, Zenon DEF R!PendingTasks, R!MarkRunning, R!Unanswered, R!Cancelled, R!GivesUp
  <2> QED
    BY <1>11, <2>1, <2>2, <2>3, Zenon
<1>12. CASE R!MarkStale
  BY <1>1, <1>12, Zenon DEF R!MarkStale
<1>13. CASE R!Tick \/ UNCHANGED R!vars
  BY <1>1, <1>13, Zenon DEF R!Tick, R!vars
<1>14. ASSUME NEW c \in calls, R!Reply(c)
       PROVE  OneReady'
  BY <1>8, <1>14, Zenon DEF TableInv
<1> QED
  BY <1>2, <1>3, <1>4, <1>5, <1>6, <1>7, <1>8, <1>9, <1>10, <1>11, <1>12, <1>13, <1>14, Zenon
     DEF R!Next, R!Serve

\* A step that leaves the tasks, the requests and the results alone.
LEMMA DeliveryStays ==
    ASSUME TableInv, Delivery, UNCHANGED <<tasks, calls, ran, lost, again>>,
           \A m \in Machines : /\ agent'[m].results = agent[m].results
                               /\ agent[m].state = "ready" =>
                                    agent'[m].state = "ready" /\ agent'[m].server = agent[m].server
    PROVE  Delivery'
<1>0. \A c \in calls : c.machine \in Machines
  BY Zenon DEF TableInv, Call
<1>1. ResultInv'
  BY Zenon DEF Delivery, ResultInv, TaskOf
<1>2. CallInv'
  BY <1>0 DEF Delivery, CallInv, TaskOf
<1>3. OneWait' /\ RunInv'
  BY Zenon DEF Delivery, OneWait, RunInv, R!RunsOnce
<1>4. WhereInv'
  BY <1>0, Zenon DEF Delivery, WhereInv, Running, Kept
<1> QED
  BY <1>1, <1>2, <1>3, <1>4, Zenon DEF Delivery

\* Tasks are created and deleted.
LEMMA DeliveryTables ==
    ASSUME TableInv, Delivery, UNCHANGED <<agent, calls, ran, lost, again>>,
           \A t \in Tasks : tasks[t] # None =>
               /\ tasks'[t] # None /\ tasks'[t].server = tasks[t].server
               /\ tasks'[t].state = tasks[t].state \/ tasks'[t].state = "deleted",
           \A t \in Tasks : tasks[t] = None => tasks'[t] = None \/ tasks'[t].state = "pending"
    PROVE  Delivery'
<1>0. /\ \A c \in calls : c.machine \in Machines /\ c.picked \subseteq Tasks /\ c.results \subseteq Tasks
      /\ \A m \in Machines : agent[m].results \subseteq Tasks
  BY Zenon DEF TableInv, Call
<1>1. ResultInv'
  BY <1>0 DEF Delivery, ResultInv, TaskOf
<1>2. CallInv'
  BY <1>0 DEF Delivery, CallInv, TaskOf
<1>3. RunInv'
  <2>1. \A t \in Tasks : t \notin again /\ ran[t] # 0 => tasks'[t] # None /\ tasks'[t].state # "pending"
    BY Zenon DEF Delivery, RunInv
  <2>2. \A c \in calls : c.waited => \A t \in c.picked :
          t \in again \/ (ran[t] = 0 /\ (c.pc = "reply" => tasks'[t].state # "pending"))
    <3> SUFFICES ASSUME NEW c \in calls, c.waited, NEW t \in c.picked, t \notin again
                 PROVE  ran[t] = 0 /\ (c.pc = "reply" => tasks'[t].state # "pending")
      BY Zenon
    <3>1. t \in Tasks /\ tasks[t] # None
      BY <1>0 DEF Delivery, CallInv, TaskOf
    <3> QED
      BY <3>1 DEF Delivery, RunInv
  <2> QED
    BY <2>1, <2>2, Zenon DEF Delivery, RunInv, R!RunsOnce
<1>4. WhereInv'
  <2>1. \A t \in Tasks : Running(t)' => Running(t)
    BY Zenon DEF Running
  <2> QED
    BY <1>0, <2>1, Zenon DEF Delivery, WhereInv, Kept
<1> QED
  BY <1>1, <1>2, <1>3, <1>4, Zenon DEF Delivery, OneWait

\* A request that was answered with nothing, or whose answer is lost, ends.
LEMMA DeliveryEnds ==
    ASSUME TableInv, Delivery, NEW c \in calls, UNCHANGED <<tasks, agent, ran, again>>,
           calls' = calls \ {c}, lost \subseteq lost', c.picked \subseteq lost'
    PROVE  Delivery'
<1>0. \A e \in calls' : e \in calls
  BY Zenon
<1>1. ResultInv' /\ CallInv' /\ OneWait'
  BY <1>0 DEF Delivery, ResultInv, CallInv, OneWait, TaskOf
<1>2. RunInv'
  BY <1>0, Zenon DEF Delivery, RunInv, R!RunsOnce
<1>3. WhereInv'
  <2>1. \A t : Kept(t) => Kept(t)'
    BY Zenon DEF Kept
  <2> QED
    BY <1>0, <2>1, Zenon DEF Delivery, WhereInv, Running
<1> QED
  BY <1>1, <1>2, <1>3, Zenon DEF Delivery

\* An Agent sends its results.
LEMMA DeliverySend ==
    ASSUME RemoteConstants, TableInv, Delivery, NEW m \in Machines, R!Send(m)
    PROVE  Delivery'
<1> DEFINE d == R!Request(m)
<1>0. /\ agent[m].state = "ready" /\ calls' = calls \cup {d}
      /\ UNCHANGED <<tasks, agent, ran, lost, again>>
      /\ \A c \in calls : c.machine = m => ~c.waited
  BY Zenon DEF R!Send, R!Waits
<1>1. /\ d.machine = m /\ d.server = agent[m].server /\ d.pc = "save" /\ d.results = agent[m].results
      /\ d.picked = {} /\ d.waited
  BY Zenon DEF R!Request
<1> HIDE DEF d
<1>2. ResultInv'
  BY <1>0, Zenon DEF Delivery, ResultInv, TaskOf
<1>3. CallInv'
  BY <1>0, <1>1 DEF Delivery, CallInv, ResultInv, TaskOf
<1>4. OneWait'
  BY <1>0, <1>1 DEF Delivery, OneWait
<1>5. RunInv'
  BY <1>0, <1>1 DEF Delivery, RunInv, R!RunsOnce
<1>6. WhereInv'
  BY <1>0, <1>1, Zenon DEF Delivery, WhereInv, Running, Kept
<1> QED
  BY <1>2, <1>3, <1>4, <1>5, <1>6, Zenon DEF Delivery

\* Core saves the results of a request.
LEMMA DeliverySave ==
    ASSUME RemoteConstants, TableInv, TaskType, Delivery, NEW c \in calls, R!Heartbeat(c)
    PROVE  Delivery' /\ TaskType'
<1>0. /\ c \in Call /\ c.pc = "save" /\ c.picked = {} /\ UNCHANGED <<agent, ran, lost, again, faults>>
      /\ \A e \in calls : e \in Call
  BY Zenon DEF R!Heartbeat, TableInv, Call, Delivery, CallInv
<1>1. CASE ~R!VerifyCertificate(c)
  <2>1. calls' = calls \ {c} /\ tasks' = tasks
    BY <1>1, Zenon DEF R!Heartbeat
  <2> QED
    BY <1>0, <2>1, DeliveryEnds, Zenon DEF TaskType
<1>2. CASE R!VerifyCertificate(c)
  <2> DEFINE d == [c EXCEPT !.pc = "select"]
  <2>1. /\ calls' = (calls \ {c}) \cup {d}
        /\ tasks' = [t \in Tasks |->
             IF t \in c.results /\ tasks[t].server = c.server /\ tasks[t].state # "deleted"
             THEN [tasks[t] EXCEPT !.state = "settled"] ELSE tasks[t]]
    BY <1>2, Zenon DEF R!Heartbeat, R!Becomes
  <2>2. /\ d.machine = c.machine /\ d.server = c.server /\ d.pc = "select" /\ d.results = c.results
        /\ d.picked = {} /\ d.waited = c.waited
    BY <1>0, Zenon DEF Call
  <2> HIDE DEF d
  <2>3. \A e \in calls' : e = d \/ e \in calls
    BY <2>1, Zenon
  <2>4. \A t \in c.results : tasks[t] \in Task /\ tasks[t].server = c.server
    BY <1>0 DEF Delivery, CallInv, TaskOf, TaskType, Call
  <2>5. \A t \in Tasks : tasks'[t] = tasks[t] \/ /\ tasks[t] \in Task
                                                 /\ tasks'[t] = [tasks[t] EXCEPT !.state = "settled"]
    BY <2>1, <2>4, Zenon
  <2>6. \A x \in Task : LET y == [x EXCEPT !.state = "settled"]
                        IN  y \in Task /\ y.server = x.server /\ y.state = "settled"
    BY Zenon DEF Task
  <2>7. \A t \in Tasks : tasks[t] # None =>
          /\ tasks'[t] \in Task /\ tasks'[t] # None /\ tasks'[t].server = tasks[t].server
          /\ tasks'[t].state = tasks[t].state \/ tasks'[t].state = "settled"
    <3> SUFFICES ASSUME NEW t \in Tasks, tasks[t] # None
                 PROVE  /\ tasks'[t] \in Task /\ tasks'[t] # None /\ tasks'[t].server = tasks[t].server
                        /\ tasks'[t].state = tasks[t].state \/ tasks'[t].state = "settled"
      BY Zenon
    <3> DEFINE y == [tasks[t] EXCEPT !.state = "settled"]
    <3>1. tasks[t] \in Task /\ None \notin Task
      BY Zenon DEF TaskType, RemoteConstants
    <3>2. y \in Task /\ y.server = tasks[t].server /\ y.state = "settled"
      BY <2>6, <3>1, Zenon
    <3>3. tasks'[t] = tasks[t] \/ tasks'[t] = y
      BY <2>5, Zenon
    <3> HIDE DEF y
    <3> QED
      BY <3>1, <3>2, <3>3, Zenon
  <2>8. \A t \in Tasks : tasks[t] = None => tasks'[t] = None
    BY <2>5, Zenon DEF RemoteConstants
  <2>9. TaskType'
    <3>1. tasks' \in [Tasks -> Task \cup {None}]
      BY <2>1, <2>7, <2>8
    <3> QED
      BY <1>0, <3>1, Zenon DEF TaskType
  <2>10. \A t \in c.results : ~Running(t)'
    BY <1>0, <2>1, <2>4, <2>6, Zenon DEF Running, Call
  <2>11. ResultInv'
    BY <1>0, <2>7 DEF Delivery, ResultInv, TaskOf, TableInv
  <2>12. CallInv'
    BY <1>0, <2>2, <2>3, <2>7 DEF Delivery, CallInv, TaskOf, Call
  <2>13. OneWait'
    BY <2>1, <2>2 DEF Delivery, OneWait
  <2>14. RunInv'
    <3>1. \A t \in Tasks : t \notin again /\ ran[t] # 0 => tasks'[t] # None /\ tasks'[t].state # "pending"
      BY <2>7, Zenon DEF Delivery, RunInv
    <3>2. \A e \in calls' : e.waited => \A t \in e.picked :
            t \in again \/ (ran[t] = 0 /\ (e.pc = "reply" => tasks'[t].state # "pending"))
      <4> SUFFICES ASSUME NEW e \in calls, e.waited, NEW t \in e.picked, t \notin again
                   PROVE  ran[t] = 0 /\ (e.pc = "reply" => tasks'[t].state # "pending")
        BY <2>2, <2>3, Zenon
      <4>1. t \in Tasks /\ tasks[t] # None
        BY <1>0, Zenon DEF Delivery, CallInv, TaskOf, Call
      <4> QED
        BY <2>7, <4>1 DEF Delivery, RunInv
    <3> QED
      BY <1>0, <3>1, <3>2, Zenon DEF Delivery, RunInv, R!RunsOnce
  <2>15. WhereInv'
    <3>1. \A t \in Tasks : Running(t)' => Running(t)
      BY <2>7, <2>8, Zenon DEF Running
    <3>2. \A t : Kept(t) => Kept(t)'
      BY <1>0, <2>1 DEF Kept
    <3>3. \A t \in Tasks : Running(t)' => Kept(t)' \/ \E m \in Machines : t \in agent'[m].results
      BY <1>0, <3>1, <3>2, Zenon DEF Delivery, WhereInv
    <3>4. ASSUME NEW e \in calls', e.waited, e.pc # "save", NEW t \in agent'[e.machine].results, Running(t)'
          PROVE  Kept(t)'
      <4>1. CASE e = d
        BY <1>0, <2>2, <2>10, <3>4, <4>1 DEF Delivery, CallInv
      <4>2. CASE e \in calls
        <5>1. t \in Tasks
          BY <1>0, <3>4, <4>2, Zenon DEF TableInv, Call
        <5> QED
          BY <1>0, <3>1, <3>2, <3>4, <4>2, <5>1 DEF Delivery, WhereInv
      <4> QED
        BY <2>3, <4>1, <4>2, Zenon
    <3> QED
      BY <3>3, <3>4, Zenon DEF WhereInv
  <2> QED
    BY <2>9, <2>11, <2>12, <2>13, <2>14, <2>15, Zenon DEF Delivery
<1> QED
  BY <1>1, <1>2, Zenon

\* Core selects the pending tasks of the server.
LEMMA DeliverySelect ==
    ASSUME RemoteConstants, TableInv, Delivery, NEW c \in calls, R!PendingTasks(c)
    PROVE  Delivery'
<1> DEFINE P == R!SelectPending(c.server)
           d == [c EXCEPT !.pc = "mark", !.picked = P]
<1>0. /\ c \in Call /\ c.pc = "select" /\ c.picked = {} /\ UNCHANGED <<tasks, agent, ran, lost, again>>
      /\ calls' = (calls \ {c}) \cup {d}
  <2>1. c \in Call
    BY Zenon DEF TableInv, Call
  <2>2. c.pc = "select" /\ calls' = (calls \ {c}) \cup {d} /\ UNCHANGED <<tasks, agent, ran, lost, again>>
    BY Zenon DEF R!PendingTasks, R!Becomes
  <2> QED
    BY <2>1, <2>2, Zenon DEF Delivery, CallInv
<1>1. \A t \in P : t \in Tasks /\ TaskOf(t, c.server) /\ tasks[t].state = "pending"
  BY Zenon DEF R!SelectPending, R!Oldest, TaskOf
<1>2. /\ d.machine = c.machine /\ d.server = c.server /\ d.pc = "mark" /\ d.results = c.results
      /\ d.picked = P /\ d.waited = c.waited
  BY <1>0, Zenon DEF Call
<1> HIDE DEF d, P
<1>3. \A e \in calls' : e = d \/ e \in calls
  BY <1>0, Zenon
<1>4. ResultInv'
  BY <1>0, Zenon DEF Delivery, ResultInv, TaskOf
<1>5. CallInv'
  BY <1>0, <1>1, <1>2, <1>3 DEF Delivery, CallInv, TaskOf
<1>6. OneWait'
  BY <1>0, <1>2 DEF Delivery, OneWait
<1>7. RunInv'
  <2>1. \A t \in P : t \in again \/ ran[t] = 0
    BY <1>1, Zenon DEF Delivery, RunInv
  <2> QED
    BY <1>0, <1>2, <1>3, <2>1 DEF Delivery, RunInv, R!RunsOnce
<1>8. WhereInv'
  <2>1. \A t : Kept(t) => Kept(t)'
    BY <1>0, Zenon DEF Kept
  <2> QED
    BY <1>0, <1>2, <1>3, <2>1 DEF Delivery, WhereInv, Running
<1> QED
  BY <1>4, <1>5, <1>6, <1>7, <1>8, Zenon DEF Delivery

\* Core marks the selected tasks as running, but for those it fails to mark.
LEMMA DeliveryMark ==
    ASSUME RemoteConstants, TableInv, TaskType, Delivery, NEW c \in calls, R!MarkRunning(c)
    PROVE  Delivery' /\ TaskType'
<1>1. PICK failed \in SUBSET c.picked :
        /\ failed # {} /\ c.waited => faults < MaxFaults
        /\ faults' = IF failed # {} /\ c.waited THEN faults + 1 ELSE faults
        /\ tasks' = [t \in Tasks |-> IF t \in c.picked \ failed /\ tasks[t].state # "deleted"
                                     THEN [tasks[t] EXCEPT !.state = "running"] ELSE tasks[t]]
        /\ again' = IF c.waited THEN again \cup failed ELSE again
  BY Zenon DEF R!MarkRunning
<1> DEFINE d == [c EXCEPT !.pc = "reply"]
<1>2. /\ c \in Call /\ c.pc = "mark" /\ calls' = (calls \ {c}) \cup {d}
      /\ UNCHANGED <<agent, ran, lost>> /\ \A e \in calls : e \in Call
  <2>1. c \in Call /\ \A e \in calls : e \in Call
    BY Zenon DEF TableInv, Call
  <2> QED
    BY <2>1, Zenon DEF R!MarkRunning, R!Becomes
<1>3. /\ d.machine = c.machine /\ d.server = c.server /\ d.pc = "reply" /\ d.results = c.results
      /\ d.picked = c.picked /\ d.waited = c.waited
  BY <1>2, Zenon DEF Call
<1> HIDE DEF d
<1>4. \A e \in calls' : e = d \/ e \in calls
  BY <1>2, Zenon
<1>5. \A t \in c.picked : t \in Tasks /\ tasks[t] \in Task /\ tasks[t] # None
  BY <1>2, Zenon DEF Delivery, CallInv, TaskOf, TaskType, Call
<1>6. \A x \in Task : LET y == [x EXCEPT !.state = "running"]
                      IN  y \in Task /\ y.server = x.server /\ y.state = "running"
  BY Zenon DEF Task
<1>7. \A t \in Tasks :
        /\ tasks[t] = None => tasks'[t] = None
        /\ tasks[t] # None =>
             /\ tasks'[t] \in Task /\ tasks'[t] # None /\ tasks'[t].server = tasks[t].server
             /\ \/ tasks'[t].state = tasks[t].state
                \/ t \in c.picked /\ tasks'[t].state = "running"
             /\ t \in c.picked \ failed => tasks'[t].state # "pending"
  <2> SUFFICES ASSUME NEW t \in Tasks
               PROVE  /\ tasks[t] = None => tasks'[t] = None
                      /\ tasks[t] # None =>
                           /\ tasks'[t] \in Task /\ tasks'[t] # None /\ tasks'[t].server = tasks[t].server
                           /\ \/ tasks'[t].state = tasks[t].state
                              \/ t \in c.picked /\ tasks'[t].state = "running"
                           /\ t \in c.picked \ failed => tasks'[t].state # "pending"
    BY Zenon
  <2>0. None \notin Task /\ (tasks[t] # None => tasks[t] \in Task)
    BY Zenon DEF TaskType, RemoteConstants
  <2>1. CASE t \in c.picked \ failed /\ tasks[t].state # "deleted"
    <3> DEFINE y == [tasks[t] EXCEPT !.state = "running"]
    <3>1. y \in Task /\ y.server = tasks[t].server /\ y.state = "running"
      BY <1>5, <1>6, <2>1, Zenon
    <3>2. tasks'[t] = y
      BY <1>1, <2>1, Zenon
    <3> HIDE DEF y
    <3> QED
      BY <1>5, <2>0, <2>1, <3>1, <3>2, Zenon
  <2>2. CASE ~(t \in c.picked \ failed /\ tasks[t].state # "deleted")
    <3>1. tasks'[t] = tasks[t]
      BY <1>1, <2>2, Zenon
    <3> QED
      BY <2>0, <2>2, <3>1, Zenon
  <2> QED
    BY <2>1, <2>2, Zenon
<1>8. TaskType'
  <2>1. tasks' \in [Tasks -> Task \cup {None}]
    BY <1>1, <1>7, Zenon
  <2>2. faults' \in 0..MaxFaults
    BY <1>1 DEF TaskType, RemoteConstants
  <2> QED
    BY <1>2, <2>1, <2>2, Zenon DEF TaskType
<1>9. ResultInv'
  BY <1>2, <1>7 DEF Delivery, ResultInv, TaskOf, TableInv
<1>10. CallInv'
  BY <1>2, <1>3, <1>4, <1>7 DEF Delivery, CallInv, TaskOf, Call
<1>11. OneWait'
  BY <1>2, <1>3 DEF Delivery, OneWait
<1>12. RunInv'
  <2>1. \A t \in Tasks : t \notin again' /\ ran'[t] # 0 => tasks'[t] # None /\ tasks'[t].state # "pending"
    BY <1>1, <1>2, <1>7, Zenon DEF Delivery, RunInv
  <2>2. ASSUME NEW e \in calls', e.waited, NEW t \in e.picked
        PROVE  t \in again' \/ (ran'[t] = 0 /\ (e.pc = "reply" => tasks'[t].state # "pending"))
    <3>1. CASE e = d
      <4>1. t \in c.picked /\ c.waited
        BY <1>3, <2>2, <3>1, Zenon
      <4>2. t \in again \/ ran[t] = 0
        BY <4>1, Zenon DEF Delivery, RunInv
      <4>3. t \in failed => t \in again'
        BY <1>1, <4>1, Zenon
      <4>4. t \notin failed => tasks'[t].state # "pending"
        BY <1>5, <1>7, <4>1, Zenon
      <4> QED
        BY <1>1, <1>2, <4>2, <4>3, <4>4, Zenon
    <3>2. CASE e \in calls
      <4>1. t \in Tasks /\ tasks[t] # None
        BY <1>2, <2>2, <3>2 DEF Delivery, CallInv, TaskOf, Call
      <4> QED
        BY <1>1, <1>2, <1>7, <2>2, <3>2, <4>1 DEF Delivery, RunInv
    <3> QED
      BY <1>4, <3>1, <3>2
  <2>3. R!RunsOnce'
    BY <1>1, <1>2, Zenon DEF Delivery, RunInv, R!RunsOnce
  <2> QED
    BY <2>1, <2>2, <2>3, Zenon DEF RunInv
<1>13. WhereInv'
  <2>1. \A t : Kept(t) => Kept(t)'
    BY <1>2, <1>3, Zenon DEF Kept
  <2>2. \A t \in Tasks : Running(t)' => Running(t) \/ t \in c.picked
    BY <1>7 DEF Running
  <2>3. \A t \in c.picked : Kept(t)'
    BY <1>2, <1>3, Zenon DEF Kept
  <2>4. \A t \in Tasks : Running(t)' => Kept(t)' \/ \E m \in Machines : t \in agent'[m].results
    BY <1>2, <2>1, <2>2, <2>3, Zenon DEF Delivery, WhereInv
  <2>5. ASSUME NEW e \in calls', e.waited, e.pc # "save", NEW t \in agent'[e.machine].results, Running(t)'
        PROVE  Kept(t)'
    <3>1. \E f \in calls : f.machine = e.machine /\ f.waited /\ f.pc # "save"
      BY <1>2, <1>3, <1>4, <2>5, Zenon
    <3>2. t \in Tasks /\ t \in agent[e.machine].results
      BY <1>2, <2>5, <3>1, Zenon DEF TableInv, Call
    <3> QED
      BY <2>1, <2>2, <2>3, <2>5, <3>1, <3>2 DEF Delivery, WhereInv
  <2> QED
    BY <2>4, <2>5, Zenon DEF WhereInv
<1> QED
  BY <1>8, <1>9, <1>10, <1>11, <1>12, <1>13, Zenon DEF Delivery

\* The response reaches the Agent, which runs what is in it.
LEMMA DeliveryReply ==
    ASSUME RemoteConstants, TableInv, TaskType, OneReady, Delivery, NEW c \in calls, R!Reply(c)
    PROVE  Delivery' /\ TaskType'
<1> DEFINE m == c.machine
<1>0. /\ c \in Call /\ c.pc = "reply" /\ c.waited /\ calls' = calls \ {c}
      /\ agent' = [agent EXCEPT ![m].results = c.picked]
      /\ ran' = [t \in Tasks |-> IF t \in c.picked THEN ran[t] + 1 ELSE ran[t]]
      /\ UNCHANGED <<tasks, lost, again, faults>> /\ \A e \in calls : e \in Call
  <2>1. c \in Call /\ \A e \in calls : e \in Call
    BY Zenon DEF TableInv, Call
  <2> QED
    BY <2>1, Zenon DEF R!Reply
<1>1. /\ m \in Machines /\ agent[m].state = "ready" /\ agent[m].server = c.server
      /\ c.picked \subseteq Tasks /\ \A t \in c.picked : TaskOf(t, c.server)
  BY <1>0, Zenon DEF Delivery, CallInv, Call
<1>2. /\ \A n \in Machines : agent'[n].state = agent[n].state /\ agent'[n].server = agent[n].server
      /\ agent'[m].results = c.picked
      /\ \A n \in Machines : n # m => agent'[n].results = agent[n].results
  BY <1>0, <1>1 DEF TableInv
<1>3. ASSUME NEW e \in calls', e.waited
      PROVE  /\ e \in calls /\ e.machine \in Machines /\ e.machine # m
             /\ \A t \in c.picked : ~TaskOf(t, e.server)
             /\ agent[e.machine].server = e.server
  <2>1. e \in calls /\ e.machine \in Machines /\ e.machine # m
    BY <1>0, <1>3, Zenon DEF Delivery, OneWait, Call
  <2>2. agent[e.machine].state = "ready" /\ agent[e.machine].server = e.server
    BY <2>1, Zenon DEF Delivery, CallInv
  <2>3. e.server # c.server
    BY <1>1, <2>1, <2>2, Zenon DEF OneReady
  <2> QED
    BY <1>1, <2>1, <2>2, <2>3, Zenon DEF TaskOf
<1> HIDE DEF m
<1>4. TaskType'
  BY <1>0 DEF TaskType
<1>5. ResultInv'
  BY <1>0, <1>1, <1>2 DEF Delivery, ResultInv, TaskOf
<1>6. CallInv'
  BY <1>0, <1>2, <1>3 DEF Delivery, CallInv, TaskOf, Call
<1>7. OneWait'
  BY <1>0, Zenon DEF Delivery, OneWait
<1>8. RunInv'
  <2>1. \A t \in c.picked : t \in again \/ (ran[t] = 0 /\ tasks[t] # None /\ tasks[t].state # "pending")
    BY <1>0, <1>1, Zenon DEF Delivery, RunInv, TaskOf
  <2>2. \A t \in Tasks : t \notin again' /\ ran'[t] # 0 => tasks'[t] # None /\ tasks'[t].state # "pending"
    BY <1>0, <2>1, Zenon DEF Delivery, RunInv
  <2>3. ASSUME NEW e \in calls', e.waited, NEW t \in e.picked
        PROVE  t \in again' \/ (ran'[t] = 0 /\ (e.pc = "reply" => tasks'[t].state # "pending"))
    <3>1. e \in calls /\ t \in Tasks /\ TaskOf(t, e.server)
      BY <1>0, <2>3, Zenon DEF Delivery, CallInv, Call
    <3>2. ran'[t] = ran[t]
      BY <1>0, <1>3, <2>3, <3>1, Zenon
    <3> QED
      BY <1>0, <2>3, <3>1, <3>2 DEF Delivery, RunInv
  <2>4. R!RunsOnce'
    BY <1>0, <2>1 DEF Delivery, RunInv, R!RunsOnce, TaskType
  <2> QED
    BY <2>2, <2>3, <2>4, Zenon DEF RunInv
<1>9. WhereInv'
  <2>1. \A t : Kept(t) => Kept(t)' \/ t \in c.picked
    BY <1>0, Zenon DEF Kept
  <2>2. \A t : Running(t)' <=> Running(t)
    BY <1>0, Zenon DEF Running
  <2>3. ASSUME NEW t \in Tasks, Running(t)'
        PROVE  Kept(t)' \/ \E n \in Machines : t \in agent'[n].results
    <3>1. Kept(t) \/ \E n \in Machines : n # m /\ t \in agent[n].results
      BY <1>0, <2>2, <2>3, Zenon DEF Delivery, WhereInv, m
    <3> QED
      BY <1>1, <1>2, <2>1, <3>1, Zenon
  <2>4. ASSUME NEW e \in calls', e.waited, e.pc # "save", NEW t \in agent'[e.machine].results, Running(t)'
        PROVE  Kept(t)'
    <3>1. e \in calls /\ t \in agent[e.machine].results /\ t \notin c.picked
      BY <1>2, <1>3, <2>4 DEF Delivery, ResultInv
    <3>2. Kept(t)
      BY <2>2, <2>4, <3>1, Zenon DEF Delivery, WhereInv
    <3> QED
      BY <2>1, <3>1, <3>2, Zenon
  <2> QED
    BY <2>3, <2>4, Zenon DEF WhereInv
<1> QED
  BY <1>4, <1>5, <1>6, <1>7, <1>8, <1>9, Zenon DEF Delivery

\* The client gives a request up, or its process restarts: what it was to run, or has
\* run and not reported, is lost.
LEMMA DeliveryLost ==
    ASSUME TableInv, Delivery, UNCHANGED <<tasks, ran, again>>, lost \subseteq lost',
           \A n \in Machines : agent'[n].state = agent[n].state /\ agent'[n].server = agent[n].server,
           \A n \in Machines : \/ agent'[n].results = agent[n].results
                               \/ agent'[n].results = {} /\ agent[n].results \subseteq lost',
           \A e \in calls' : \E c \in calls :
               /\ e.machine = c.machine /\ e.server = c.server /\ e.pc = c.pc
               /\ e.results = c.results /\ e.picked = c.picked
               /\ e.waited => e = c /\ agent'[c.machine].results = agent[c.machine].results,
           \A c \in calls : c \in calls' \/ c.picked \subseteq lost'
    PROVE  Delivery'
<1>0. \A c \in calls : c.machine \in Machines
  BY Zenon DEF TableInv, Call
<1>1. ResultInv'
  BY DEF Delivery, ResultInv, TaskOf
<1>2. CallInv'
  BY <1>0 DEF Delivery, CallInv, TaskOf
<1>3. OneWait'
  BY Zenon DEF Delivery, OneWait
<1>4. RunInv'
  BY DEF Delivery, RunInv, R!RunsOnce
<1>5. WhereInv'
  <2>1. \A t : Kept(t) => Kept(t)'
    BY Zenon DEF Kept
  <2>2. \A t \in Tasks : Running(t)' => Kept(t)' \/ \E n \in Machines : t \in agent'[n].results
    BY <2>1 DEF Delivery, WhereInv, Running, Kept
  <2> QED
    BY <2>1, <2>2 DEF Delivery, WhereInv, Running
<1> QED
  BY <1>1, <1>2, <1>3, <1>4, <1>5, Zenon DEF Delivery

\* Every step of Core, of an Agent and of the monitor keeps the tasks accounted for.
LEMMA TaskNext == RemoteConstants /\ TableInv /\ TaskInv /\ [R!Next]_(R!vars) => TaskType' /\ Delivery'
<1> SUFFICES ASSUME RemoteConstants, TableInv, TaskInv, [R!Next]_(R!vars)
             PROVE  TaskType' /\ Delivery'
  BY Zenon
<1>0. /\ tasks \in [Tasks -> Task \cup {None}] /\ ran \in [Tasks -> Nat] /\ faults \in 0..MaxFaults
      /\ TaskType /\ OneReady /\ Delivery /\ None \notin Task
      /\ agent \in [Machines -> [state : {"new", "enrolling", "ready"},
                                 server : Servers \cup {None}, results : SUBSET Tasks]]
      /\ \A c \in calls : c \in Call
  BY Zenon DEF TaskInv, TaskType, TableInv, RemoteConstants, Call
<1>f. faults < MaxFaults /\ faults' = faults + 1 => faults' \in 0..MaxFaults
  BY <1>0 DEF RemoteConstants
<1>1. CASE UNCHANGED <<tasks, calls, ran, lost, again, agent, faults>>
  BY <1>0, <1>1, DeliveryStays, Zenon DEF TaskType
<1>2. ASSUME NEW s \in Servers,
             R!Create(s) \/ R!ReissueEnrollment(s) \/ R!SetMaintenance(s)
      PROVE  TaskType' /\ Delivery'
  BY <1>1, <1>2, Zenon DEF R!Create, R!ReissueEnrollment, R!SetMaintenance
<1>3. ASSUME NEW s \in Servers, R!Delete(s)
      PROVE  TaskType' /\ Delivery'
  <2>1. /\ UNCHANGED <<agent, calls, ran, lost, again, faults>>
        /\ tasks' = [t \in Tasks |-> IF tasks[t] # None /\ tasks[t].server = s
                                     THEN [tasks[t] EXCEPT !.state = "deleted"] ELSE tasks[t]]
    BY <1>3, Zenon DEF R!Delete
  <2>2. \A x \in Task : LET y == [x EXCEPT !.state = "deleted"]
                        IN  y \in Task /\ y.server = x.server /\ y.state = "deleted"
    BY Zenon DEF Task
  <2>3. ASSUME NEW t \in Tasks, tasks[t] # None
        PROVE  /\ tasks'[t] \in Task /\ tasks'[t] # None /\ tasks'[t].server = tasks[t].server
               /\ tasks'[t].state = tasks[t].state \/ tasks'[t].state = "deleted"
    <3> DEFINE y == [tasks[t] EXCEPT !.state = "deleted"]
    <3>1. tasks[t] \in Task
      BY <1>0, <2>3, Zenon
    <3>2. y \in Task /\ y.server = tasks[t].server /\ y.state = "deleted"
      BY <2>2, <3>1, Zenon
    <3>3. tasks'[t] = tasks[t] \/ tasks'[t] = y
      BY <2>1, Zenon
    <3> HIDE DEF y
    <3> QED
      BY <1>0, <3>1, <3>2, <3>3, Zenon
  <2>4. \A t \in Tasks : tasks[t] = None => tasks'[t] = None
    BY <2>1, Zenon
  <2>5. TaskType'
    <3>1. tasks' \in [Tasks -> Task \cup {None}]
      BY <2>1, <2>3, <2>4, Zenon
    <3> QED
      BY <1>0, <2>1, <3>1, Zenon DEF TaskType
  <2> QED
    BY <1>0, <2>1, <2>3, <2>4, <2>5, DeliveryTables, Zenon
<1>4. ASSUME NEW s \in Servers, R!CreateTask(s)
      PROVE  TaskType' /\ Delivery'
  <2>1. /\ UNCHANGED <<agent, calls, ran, lost, again, faults>>
        /\ \E t \in Tasks : tasks[t] = None /\ tasks' = [tasks EXCEPT ![t] = [server |-> s, state |-> "pending"]]
    BY <1>4, Zenon DEF R!CreateTask
  <2>2. PICK t \in Tasks : tasks[t] = None /\ tasks' = [tasks EXCEPT ![t] = [server |-> s, state |-> "pending"]]
    BY <2>1, Zenon
  <2>3. tasks'[t] \in Task /\ tasks'[t].state = "pending" /\ \A u \in Tasks : u # t => tasks'[u] = tasks[u]
    BY <1>0, <2>2, Zenon DEF Task
  <2>4. TaskType'
    <3>1. tasks' \in [Tasks -> Task \cup {None}]
      BY <1>0, <2>2, <2>3, Zenon
    <3> QED
      BY <1>0, <2>1, <3>1, Zenon DEF TaskType
  <2> QED
    BY <1>0, <2>1, <2>2, <2>3, <2>4, DeliveryTables, Zenon
<1>5. ASSUME NEW m \in Machines, \/ R!Register(m) \/ R!RegisterFails(m)
                                 \/ \E k \in R!TokenIds : R!ConsumeToken(m, k)
      PROVE  TaskType' /\ Delivery'
  <2>1. UNCHANGED <<tasks, calls, ran, lost, again>> /\ faults' \in 0..MaxFaults /\ agent[m].state # "ready"
    BY <1>0, <1>f, <1>5, Zenon DEF R!Register, R!RegisterFails, R!ConsumeToken
  <2>2. \A n \in Machines : /\ agent'[n].results = agent[n].results
                            /\ agent[n].state = "ready" =>
                                 agent'[n].state = "ready" /\ agent'[n].server = agent[n].server
    <3>1. CASE agent' = [agent EXCEPT ![m].state = "ready"]
      BY <1>0, <2>1, <3>1, Zenon
    <3>2. CASE \E st, sv : agent' = [agent EXCEPT ![m].state = st, ![m].server = sv]
      BY <1>0, <2>1, <3>2
    <3>3. \/ agent' = [agent EXCEPT ![m].state = "ready"]
          \/ agent' = [agent EXCEPT ![m].state = "new", ![m].server = None]
          \/ \E k \in R!TokenIds :
               agent' = [agent EXCEPT ![m].state = "enrolling", ![m].server = tokens[k].server]
      BY <1>5, Zenon DEF R!Register, R!RegisterFails, R!ConsumeToken
    <3> QED
      BY <3>1, <3>2, <3>3, Zenon
  <2>3. TaskType'
    BY <1>0, <2>1, Zenon DEF TaskType
  <2> QED
    BY <1>0, <2>1, <2>2, <2>3, DeliveryStays, Zenon
<1>6. ASSUME NEW m \in Machines, R!Send(m)
      PROVE  TaskType' /\ Delivery'
  <2>1. TaskType'
    BY <1>0, <1>6, Zenon DEF R!Send, TaskType
  <2> QED
    BY <1>0, <1>6, <2>1, DeliverySend, Zenon
<1>7. ASSUME NEW m \in Machines, R!ControlPlaneHeartbeat(m)
      PROVE  TaskType' /\ Delivery'
  BY <1>1, <1>7, Zenon DEF R!ControlPlaneHeartbeat
<1>8. ASSUME NEW m \in Machines, R!Restart(m)
      PROVE  TaskType' /\ Delivery'
  <2>1. /\ UNCHANGED <<tasks, ran, again>> /\ agent[m].state = "ready"
        /\ agent' = [agent EXCEPT ![m].results = {}]
        /\ lost' = lost \cup agent[m].results \cup UNION {c.picked : c \in {d \in calls : d.machine = m}}
        /\ calls' = {IF c.machine = m THEN [c EXCEPT !.waited = FALSE] ELSE c : c \in calls}
        /\ faults' \in 0..MaxFaults
    BY <1>f, <1>8, Zenon DEF R!Restart
  <2>2. TaskType'
    BY <1>0, <2>1, Zenon DEF TaskType
  <2>3. /\ \A n \in Machines : agent'[n].state = agent[n].state /\ agent'[n].server = agent[n].server
        /\ \A n \in Machines : n # m => agent'[n].results = agent[n].results
        /\ agent'[m].results = {}
    BY <1>0, <2>1, Zenon
  <2>4. /\ lost \subseteq lost' /\ agent[m].results \subseteq lost'
        /\ \A c \in calls : c.machine = m => c.picked \subseteq lost'
    BY <2>1, Zenon
  <2>5. \A n \in Machines : \/ agent'[n].results = agent[n].results
                            \/ agent'[n].results = {} /\ agent[n].results \subseteq lost'
    BY <2>3, <2>4, Zenon
  <2>6. ASSUME NEW e \in calls'
        PROVE  \E c \in calls :
                 /\ e.machine = c.machine /\ e.server = c.server /\ e.pc = c.pc
                 /\ e.results = c.results /\ e.picked = c.picked
                 /\ e.waited => e = c /\ agent'[c.machine].results = agent[c.machine].results
    <3>1. PICK c \in calls : e = IF c.machine = m THEN [c EXCEPT !.waited = FALSE] ELSE c
      BY <2>1, <2>6, Zenon
    <3>2. CASE c.machine = m
      <4>1. c \in Call /\ e = [c EXCEPT !.waited = FALSE]
        BY <1>0, <3>1, <3>2, Zenon
      <4>2. /\ e.machine = c.machine /\ e.server = c.server /\ e.pc = c.pc
            /\ e.results = c.results /\ e.picked = c.picked /\ ~e.waited
        BY <4>1, Zenon DEF Call
      <4> QED
        BY <4>2, Zenon
    <3>3. CASE c.machine # m
      <4>1. e = c /\ c.machine \in Machines
        BY <1>0, <3>1, <3>3 DEF Call
      <4> QED
        BY <2>3, <3>3, <4>1, Zenon
    <3> QED
      BY <3>2, <3>3, Zenon
  <2>7. \A c \in calls : c \in calls' \/ c.picked \subseteq lost'
    BY <2>1, <2>4
  <2> QED
    BY <1>0, <2>1, <2>2, <2>3, <2>4, <2>5, <2>6, <2>7, DeliveryLost, Zenon
<1>9. ASSUME NEW c \in calls, R!GivesUp(c)
      PROVE  TaskType' /\ Delivery'
  <2> DEFINE d == [c EXCEPT !.waited = FALSE]
  <2>1. /\ UNCHANGED <<tasks, ran, again, agent>> /\ lost' = lost \cup c.picked
        /\ calls' = (calls \ {c}) \cup {d} /\ faults' \in 0..MaxFaults
    BY <1>f, <1>9, Zenon DEF R!GivesUp, R!Becomes
  <2>2. /\ d.machine = c.machine /\ d.server = c.server /\ d.pc = c.pc
        /\ d.results = c.results /\ d.picked = c.picked /\ ~d.waited
    BY <1>0, Zenon DEF Call
  <2> HIDE DEF d
  <2>3. TaskType'
    BY <1>0, <2>1, Zenon DEF TaskType
  <2>4. \A e \in calls' : \E f \in calls :
          /\ e.machine = f.machine /\ e.server = f.server /\ e.pc = f.pc
          /\ e.results = f.results /\ e.picked = f.picked
          /\ e.waited => e = f /\ agent'[f.machine].results = agent[f.machine].results
    BY <2>1, <2>2, Zenon
  <2>5. lost \subseteq lost' /\ \A e \in calls : e \in calls' \/ e.picked \subseteq lost'
    BY <2>1, Zenon
  <2> QED
    BY <1>0, <2>1, <2>3, <2>4, <2>5, DeliveryLost, Zenon
<1>10. ASSUME NEW c \in calls, R!Cancelled(c) \/ R!Unanswered(c)
       PROVE  TaskType' /\ Delivery'
  <2>1. /\ UNCHANGED <<tasks, agent, ran, again, faults>> /\ calls' = calls \ {c}
        /\ (lost' = lost /\ c.pc \in {"save", "select"}) \/ lost' = lost \cup c.picked
    BY <1>10, Zenon DEF R!Cancelled, R!Unanswered
  <2>2. c.pc \in {"save", "select"} => c.picked = {}
    BY <1>0, Zenon DEF Delivery, CallInv
  <2>3. lost \subseteq lost' /\ c.picked \subseteq lost'
    BY <2>1, <2>2, Zenon
  <2>4. TaskType'
    BY <1>0, <2>1, Zenon DEF TaskType
  <2> QED
    BY <1>0, <2>1, <2>3, <2>4, DeliveryEnds, Zenon
<1>11. ASSUME NEW c \in calls, R!Heartbeat(c) \/ R!MarkRunning(c) \/ R!Reply(c)
       PROVE  TaskType' /\ Delivery'
  BY <1>0, <1>11, DeliverySave, DeliveryMark, DeliveryReply, Zenon
<1>12. ASSUME NEW c \in calls, R!PendingTasks(c)
       PROVE  TaskType' /\ Delivery'
  <2>1. TaskType'
    BY <1>0, <1>12, Zenon DEF R!PendingTasks, TaskType
  <2> QED
    BY <1>0, <1>12, <2>1, DeliverySelect, Zenon
<1>13. CASE R!MarkStale \/ R!Tick \/ UNCHANGED R!vars
  BY <1>1, <1>13, Zenon DEF R!MarkStale, R!Tick, R!vars
<1> QED
  BY <1>2, <1>3, <1>4, <1>5, <1>6, <1>7, <1>8, <1>9, <1>10, <1>11, <1>12, <1>13, Zenon DEF R!Next, R!Serve

-----------------------------------------------------------------------------

RemoteInv == TableInv /\ SilentInv /\ R!OneLiveToken /\ TaskInv

\* The inventory starts empty.
LEMMA RemoteStart == RemoteConstants /\ R!Init => RemoteInv
<1> SUFFICES ASSUME RemoteConstants, R!Init
             PROVE  RemoteInv
  BY Zenon
<1>1. SilentInv /\ R!OneLiveToken
  BY DEF R!Init, SilentInv, R!OneLiveToken, R!Issued
<1> QED
  BY <1>1, TableInit, TaskInit, Zenon DEF RemoteInv

\* Every step keeps the rows, the tokens and the tasks as they should be.
LEMMA RemoteStep == RemoteConstants /\ RemoteInv /\ [R!Next]_(R!vars) => RemoteInv'
  BY TableNext, SilentNext, TokenNext, ReadyNext, TaskNext, Zenon DEF RemoteInv, TaskInv

\* What the two theorems say follows from the inductive invariant.
LEMMA RemoteMeans == RemoteConstants /\ RemoteInv => OneMachinePerServer /\ TasksAreKept
<1> SUFFICES ASSUME RemoteConstants, RemoteInv
             PROVE  OneMachinePerServer /\ TasksAreKept
  BY Zenon
<1>1. R!TypeOK
  <2>1. \A s \in Servers : rows[s] # None => rows[s].status \in {"pending", "online", "warning", "offline"}
    BY Zenon DEF RemoteInv, TableInv, Row
  <2>2. \A t \in Tasks : tasks[t] # None => tasks[t].state \in {"pending", "running", "settled", "deleted"}
    BY Zenon DEF RemoteInv, TaskInv, TaskType, Task
  <2>3. \A c \in calls : c.pc \in {"save", "select", "mark", "reply"}
    BY Zenon DEF RemoteInv, TableInv
  <2> QED
    BY <2>1, <2>2, <2>3, Zenon DEF RemoteInv, TaskInv, TaskType, R!TypeOK
<1>2. R!RunningIsSomewhere
  BY Zenon DEF RemoteInv, TaskInv, Delivery, WhereInv, Running, Kept, R!RunningIsSomewhere
<1>3. R!OfflineIsSilent
  BY Zenon DEF RemoteInv, SilentInv, R!OfflineIsSilent
<1> QED
  BY <1>1, <1>2, <1>3, Zenon
     DEF RemoteInv, TableInv, TaskInv, Delivery, RunInv, OneMachinePerServer, TasksAreKept

\* For any numbers of servers, machines and tokens, and any periods: two machines
\* never hold the certificate of one server, the row names the machine that does,
\* and a reissued enrollment voids the tokens before it, in every interleaving of the
\* two transactions of Register with Delete and ReissueEnrollment.
THEOREM MachinesSound == RemoteConstants /\ RemoteSpec => []OneMachinePerServer
<1> SUFFICES ASSUME RemoteConstants PROVE RemoteSpec => []OneMachinePerServer
  BY Zenon
<1>1. RemoteInit => RemoteInv
  BY RemoteStart, Zenon DEF RemoteInit
<1>2. RemoteInv /\ [RemoteNext]_<<subject, R!vars>> => RemoteInv'
  BY RemoteStep, Zenon DEF RemoteNext
<1>3. RemoteInv => OneMachinePerServer
  BY RemoteMeans, Zenon
<1> QED
  BY <1>1, <1>2, <1>3, PTL DEF RemoteSpec

\* For any number of tasks, of servers and of overlapping heartbeats: an Agent runs a
\* task once unless Core failed to mark it, a task marked running is in a response,
\* with an Agent or named as lost, and a server called offline has been silent for
\* longer than the period (Heartbeat, PendingTasks and MarkStale of
\* internal/core/remote and the Agent's loop).
THEOREM TasksSound == RemoteConstants /\ RemoteSpec => []TasksAreKept
<1> SUFFICES ASSUME RemoteConstants PROVE RemoteSpec => []TasksAreKept
  BY Zenon
<1>1. RemoteInit => RemoteInv
  BY RemoteStart, Zenon DEF RemoteInit
<1>2. RemoteInv /\ [RemoteNext]_<<subject, R!vars>> => RemoteInv'
  BY RemoteStep, Zenon DEF RemoteNext
<1>3. RemoteInv => TasksAreKept
  BY RemoteMeans, Zenon
<1> QED
  BY <1>1, <1>2, <1>3, PTL DEF RemoteSpec

\* The row of a server describes the machine that holds its certificate, whichever
\* machine with a token of the server registers first and whatever heartbeats,
\* deletions and the monitor do meanwhile (Register and Heartbeat of core/remote).
THEOREM RowMatchesCertificate == RemoteConstants /\ R!Spec => []R!OneIdentity
<1> SUFFICES ASSUME RemoteConstants PROVE R!Spec => []R!OneIdentity
  BY Zenon
<1>1. R!Init => RemoteInv
  BY RemoteStart, Zenon
<1>2. RemoteInv /\ [R!Next]_(R!vars) => RemoteInv'
  BY RemoteStep, Zenon
<1>3. RemoteInv => R!OneIdentity
  BY Zenon DEF RemoteInv, TableInv
<1> QED
  BY <1>1, <1>2, <1>3, PTL DEF R!Spec

\* What the inventory calls offline has been silent for OffAfter: a heartbeat, over
\* REST or over the control plane, takes the server out of that state in the same
\* write that records it (Heartbeat, MarkStale of core/remote/repository.go).
THEOREM OfflineWasSilent == RemoteConstants /\ R!Spec => []R!OfflineIsSilent
<1> SUFFICES ASSUME RemoteConstants PROVE R!Spec => []R!OfflineIsSilent
  BY Zenon
<1>1. R!Init => RemoteInv
  BY RemoteStart, Zenon
<1>2. RemoteInv /\ [R!Next]_(R!vars) => RemoteInv'
  BY RemoteStep, Zenon
<1>3. RemoteInv => R!OfflineIsSilent
  BY Zenon DEF RemoteInv, SilentInv, R!OfflineIsSilent
<1> QED
  BY <1>1, <1>2, <1>3, PTL DEF R!Spec

\* An enrollment that ReissueEnrollment replaces is void: of all the tokens of a
\* server at most one can still be spent (Create, ReplaceToken, ConsumeToken of
\* core/remote/repository.go).
THEOREM TokensReplaceEachOther == RemoteConstants /\ R!Spec => []R!OneLiveToken
<1> SUFFICES ASSUME RemoteConstants PROVE R!Spec => []R!OneLiveToken
  BY Zenon
<1>1. R!Init => RemoteInv
  BY RemoteStart, Zenon
<1>2. RemoteInv /\ [R!Next]_(R!vars) => RemoteInv'
  BY RemoteStep, Zenon
<1>3. RemoteInv => R!OneLiveToken
  BY Zenon DEF RemoteInv
<1> QED
  BY <1>1, <1>2, <1>3, PTL DEF R!Spec
=============================================================================
