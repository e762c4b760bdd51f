--------------------------- MODULE SiteLifecycle ---------------------------
(***************************************************************************)
(* internal/core/site: Create, Update, Delete, Enable, Disable and         *)
(* ReconcileActive of the site Service.  None of them holds a lock, and    *)
(* each is a series of calls (backup guard, Agent, web server plugin, app  *)
(* server plugin, certificate, database) any of which may fail and has its *)
(* own compensation, whose errors are ignored.                             *)
(*                                                                         *)
(* A request carries the calls it has yet to make.  A call of the web      *)
(* server plugin that fails changes nothing, as NginxConfig shows of it.   *)
(* A failing call of the PHP plugin may have written or deleted the pool   *)
(* before the restart failed.                                              *)
(***************************************************************************)
EXTENDS Naturals, Sequences, FiniteSets, SequencesExt

CONSTANTS
    Procs,      \* requests that run at the same time
    Sites,      \* site ids
    DomainOf,   \* the primary domain of each, which names its files
    Versions,   \* PHP versions
    None,
    MaxOps      \* bound: requests

VARIABLES
    rows,       \* the sites table with its relations
    web,        \* per domain: the vhost file, and whether it is enabled
    pools,      \* the PHP-FPM pools, by domain and version
    certs,      \* the domains certbot has a certificate for
    roots,      \* the document roots
    req,        \* the requests
    ops,
    harm        \* ghost: per domain, what left the host and the table apart

vars == <<rows, web, pools, certs, roots, req, ops, harm>>

Domains == {DomainOf[s] : s \in Sites}
Specs   == [app : {"static"} \cup Versions, ssl : {"none", "custom", "certbot"}]
Kinds   == {"create", "update", "delete", "enable", "disable", "reconcile"}

managesAppServer(spec) == spec.app \in Versions
appConfigurationChanged(a, b) == a.app # b.app

\* A call; what follows if it fails; whether its error only counts; how many of
\* the calls after it are then skipped.
Call(name, d, spec, undo) == [call |-> name, d |-> d, spec |-> spec, undo |-> undo,
                              ignore |-> FALSE, skip |-> 0]
Try(name, d, spec) == [call |-> name, d |-> d, spec |-> spec, undo |-> <<>>,
                       ignore |-> TRUE, skip |-> 0]
\* The calls with a name of their own: the backup before a critical change, the
\* certificate, and the request that shows whether the site answers.
backupCritical(d, spec) == Call("guard", d, spec, <<>>)
obtainCertbotSSL(d, spec, undo) == Call("cert", d, spec, undo)
verifySiteHealth(d, spec, undo) == Call("health", d, spec, undo)

AppTry(name, d, spec) == IF managesAppServer(spec) THEN <<Try(name, d, spec)>> ELSE <<>>
App(name, d, spec, undo) ==
    IF managesAppServer(spec) THEN <<Call(name, d, spec, undo)>> ELSE <<>>

NoReq == [kind |-> "idle", site |-> None, spec |-> None, todo |-> <<>>, undoing |-> FALSE,
          clean |-> TRUE, loaded |-> FALSE]

\* A panel with no site, or with one that was created and has been served since.
Init ==
    /\ \E s \in Sites, spec \in Specs \cup {None} :
         LET d == DomainOf[s] IN
         /\ rows = [t \in Sites |-> IF t = s /\ spec # None THEN [on |-> TRUE, spec |-> spec] ELSE None]
         /\ web = [e \in Domains |-> [spec |-> IF e = d THEN spec ELSE None,
                                      on |-> e = d /\ spec # None]]
         /\ pools = {<<d, v>> : v \in {w \in Versions : spec # None /\ spec.app = w}}
         /\ certs = {e \in {d} : spec # None /\ spec.ssl = "certbot"}
         /\ roots = {e \in {d} : spec # None}
    /\ req = [p \in Procs |-> NoReq]
    /\ ops = 0
    /\ harm = [d \in Domains |-> {}]

-----------------------------------------------------------------------------
(* The operations as the calls they make.                                  *)

Plain(spec) == [spec EXCEPT !.ssl = "none"]

\* Mutant: nothing is taken back when the row cannot be stored.
CreateUndoNothing(d, spec) == <<>>

CreateUndo(d, spec) == <<Try("web-", d, spec)>> \o AppTry("app-", d, spec)

\* Create, after the validation.
CreateCalls(s, spec) ==
    LET d == DomainOf[s]
        rm == <<Try("rmroot", d, spec)>>
    IN <<backupCritical(d, spec), Call("root", d, spec, <<>>), Call("chown", d, spec, rm)>>
       \o (IF spec.ssl = "certbot"
           THEN <<Call("web+", d, Plain(spec), <<>>),
                  obtainCertbotSSL(d, spec, <<Try("web-", d, spec)>>)>> ELSE <<>>)
       \o App("app+", d, spec, rm)
       \o <<Call("web+", d, spec, AppTry("app-", d, spec) \o rm),
            verifySiteHealth(d, spec, CreateUndo(d, spec) \o rm),
            Call("insert", d, spec, CreateUndo(d, spec))>>

\* previous is a shallow copy of the row: where both have SSL settings they are the
\* same ones, and hold what the request has put there.
Previous(old, new) ==
    IF old.ssl # "none" /\ new.ssl # "none" THEN [old EXCEPT !.ssl = new.ssl] ELSE old

\* Mutant: a failing health check leaves the new configuration in place.
UpdateUndoNothing(d, prev) == <<>>

UpdateUndo(d, prev) == <<Try("web+", d, prev)>> \o AppTry("app+", d, prev)

\* Update, after the row was read.  It writes back the whole row, the state as read.
\* A move of the document root is left out: the new one is made and nothing else.
UpdateCalls(s, row, new) ==
    LET d == DomainOf[s]
        prev == Previous(row.spec, new)
        save == IF row.on THEN "rowon" ELSE "rowoff"
        dropNew == IF appConfigurationChanged(prev, new) THEN AppTry("app-", d, new) ELSE <<>>
    IN (IF new.ssl = "certbot" /\ prev.ssl # "certbot"
        THEN <<Call("web+", d, Plain(new), <<>>),
               obtainCertbotSSL(d, new, <<Try("web+", d, prev)>>)>> ELSE <<>>)
       \o App("app+", d, new, <<>>)
       \o <<Call("web+", d, new, AppTry("app+", d, prev)),
            verifySiteHealth(d, new, UpdateUndo(d, prev))>>
       \o (IF appConfigurationChanged(prev, new)
           THEN App("app-", d, prev, UpdateUndo(d, prev) \o AppTry("app-", d, new)) ELSE <<>>)
       \o <<Call(save, d, new, UpdateUndo(d, prev) \o dropNew)>>

\* Delete: failures on the host are logged.
DeleteCalls(s, spec) ==
    LET d == DomainOf[s] IN
    AppTry("app-", d, spec) \o <<Try("web-", d, spec),
        Call("delete", d, spec, <<Try("web+", d, spec)>> \o AppTry("app+", d, spec))>>

\* setState: the row first, then the host, and everything back if that fails.
SetStateCalls(s, row, on) ==
    LET d == DomainOf[s]
        Names(b) == IF b THEN [row |-> "rowon", web |-> "webon", app |-> "app+"]
                    ELSE [row |-> "rowoff", web |-> "weboff", app |-> "app-"]
        back == <<Try(Names(row.on).row, d, row.spec), Try(Names(row.on).web, d, row.spec)>>
                   \o AppTry(Names(row.on).app, d, row.spec)
    IN <<Call(Names(on).row, d, row.spec, <<>>)>>
       \o App(Names(on).app, d, row.spec, back)
       \o <<Call(Names(on).web, d, row.spec, back)>>
       \o (IF on THEN <<verifySiteHealth(d, row.spec, back)>> ELSE <<>>)

\* Mutant: only the vhost is repaired.
RepairVhost(s) == <<Try("web+", DomainOf[s], rows[s].spec)>>

RepairCalls(s) ==
    [i \in 1..Len(AppTry("app+", DomainOf[s], rows[s].spec)) |->
        [Try("app+", DomainOf[s], rows[s].spec) EXCEPT !.skip = 1]]
    \o <<Try("web+", DomainOf[s], rows[s].spec)>>

\* ReconcileActive repairs what it can and collects the errors.
ReconcileCalls ==
    LET active == SetToSeq({s \in Sites : rows[s] # None /\ rows[s].on})
    IN FlattenSeq([i \in 1..Len(active) |-> RepairCalls(active[i])])

-----------------------------------------------------------------------------
(* Requests                                                                *)

Busy(d) == \E p \in Procs : req[p].site # None /\ DomainOf[req[p].site] = d
Mark(d, why) == harm' = [harm EXCEPT ![d] = @ \cup why]

\* Mutant: the domain of a site is not unique in the table.
NotTaken(s) == {}

Taken(s) == {t \in Sites \ {s} : DomainOf[t] = DomainOf[s] /\ rows[t] # None}

\* A request begins.  Nothing keeps a second one on the same domain out.
Begin(p, kind, s, spec) ==
    /\ req[p].kind = "idle"
    /\ \A q \in Procs : req[q].kind # "reconcile"
    /\ ops < MaxOps
    /\ ops' = ops + 1
    /\ req' = [req EXCEPT ![p] = [NoReq EXCEPT !.kind = kind, !.site = s, !.spec = spec,
                 !.loaded = kind = "create",
                 !.todo = IF kind = "create" THEN CreateCalls(s, spec)
                          ELSE <<backupCritical(DomainOf[s], spec)>>]]
    /\ Mark(DomainOf[s], {c \in {"overlap"} : Busy(DomainOf[s])}
                         \cup {c \in {"collision"} : kind = "create" /\ Taken(s) # {}})
    /\ UNCHANGED <<rows, web, pools, certs, roots>>

\* Create, once the request was validated.
Create(p, s, spec) == rows[s] = None /\ Begin(p, "create", s, spec)

Update(p, s, spec) == rows[s] # None /\ Begin(p, "update", s, spec)

Delete(p, s) == rows[s] # None /\ Begin(p, "delete", s, rows[s].spec)

Enable(p, s) == rows[s] # None /\ Begin(p, "enable", s, rows[s].spec)

Disable(p, s) == rows[s] # None /\ Begin(p, "disable", s, rows[s].spec)

\* findSite and loadRelations: the row with its domains, application and SSL.
findSite(s) == rows[s]

\* After the guard the row is read, and the calls follow from it.
Load(p) ==
    LET r == req[p]
        row == findSite(r.site)
    IN
    /\ r.kind \in Kinds \ {"create", "reconcile"}
    /\ r.todo = <<>> /\ ~r.loaded
    /\ req' = [req EXCEPT ![p] =
         IF row = None THEN NoReq
         ELSE [r EXCEPT !.loaded = TRUE, !.todo =
                 CASE r.kind = "update"  -> UpdateCalls(r.site, row, r.spec)
                   [] r.kind = "delete"  -> DeleteCalls(r.site, row.spec)
                   [] r.kind = "enable"  -> SetStateCalls(r.site, row, TRUE)
                   [] r.kind = "disable" -> SetStateCalls(r.site, row, FALSE)]]
    /\ UNCHANGED <<rows, web, pools, certs, roots, ops, harm>>

\* At the start of the Core, before it serves requests.
Reconcile(p) ==
    /\ \A q \in Procs : req[q].kind = "idle"
    /\ ops < MaxOps
    /\ ops' = ops + 1
    /\ req' = [req EXCEPT ![p] = [NoReq EXCEPT !.kind = "reconcile", !.loaded = TRUE,
                 !.todo = ReconcileCalls]]
    /\ UNCHANGED <<rows, web, pools, certs, roots, harm>>

\* The certificate file must be there for nginx -t to accept the vhost.
Accepts(c) == c.spec.ssl = "certbot" => c.d \in certs

\* The web server plugin: upsert writes the vhost and enables it, enable and
\* disable keep what was written, delete removes it.
ApplySite(c) ==
    LET Vhost(spec, on) == web' = [web EXCEPT ![c.d] = [spec |-> spec, on |-> on]] IN
    CASE c.call = "web+"   -> Accepts(c) /\ Vhost(c.spec, TRUE)
      [] c.call = "webon"  -> web[c.d].spec # None /\ Vhost(web[c.d].spec, TRUE)
      [] c.call = "weboff" -> Vhost(web[c.d].spec, FALSE)
      [] c.call = "web-"   -> Vhost(None, FALSE)
      [] OTHER -> UNCHANGED web

\* The PHP plugin: upsert and enable write the pool, disable and delete remove it.
ApplyApp(c) ==
    CASE c.call = "app+" -> pools \cup {<<c.d, c.spec.app>>}
      [] c.call = "app-" -> pools \ {<<c.d, c.spec.app>>}
      [] OTHER -> pools

\* The Agent makes the document root, and removes it again in a compensation.
Roots(c) == CASE c.call = "root" -> roots \cup {c.d}
              [] c.call = "rmroot" -> roots \ {c.d}
              [] OTHER -> roots

SetRow(s, row) == rows' = [rows EXCEPT ![s] = row]

\* The repository: one transaction each.  Domains are unique in the table.
InsertRow(s, spec) == Taken(s) = {} /\ SetRow(s, [on |-> TRUE, spec |-> spec])

UpdateRow(s, row) == rows[s] # None /\ SetRow(s, row)

DeleteRow(s) == SetRow(s, None)

\* What a call does when it succeeds.
Effect(c, s) ==
    /\ ApplySite(c)
    /\ pools' = ApplyApp(c)
    /\ roots' = Roots(c)
    /\ certs' = IF c.call = "cert" THEN certs \cup {c.d} ELSE certs
    /\ CASE c.call = "insert" -> InsertRow(s, c.spec)
         [] c.call = "rowon"  -> UpdateRow(s, [on |-> TRUE, spec |-> c.spec])
         [] c.call = "rowoff" -> UpdateRow(s, [on |-> FALSE, spec |-> c.spec])
         [] c.call = "delete" -> DeleteRow(s)
         [] OTHER -> UNCHANGED rows

\* A disabled site's vhost is enabled by every upsert.
Revives(c, s) == c.call = "web+" /\ s # None /\ rows[s] # None /\ ~rows[s].on

Succeeds(p) ==
    LET r == req[p]
        c == Head(r.todo)
    IN /\ r.todo # <<>>
       /\ Effect(c, r.site)
       /\ req' = [req EXCEPT ![p].todo = Tail(@)]
       /\ Mark(c.d, {w \in {"revived"} : Revives(c, r.site)})
       /\ UNCHANGED ops

SpecOf(s) == IF s = None \/ rows[s] = None THEN None ELSE rows[s].spec

\* A failure that is not compensated, or whose compensation is not what was there.
Leaves(r, c) ==
    LET first == ~r.undoing /\ r.kind \in {"create", "update"} IN
    {w \in {"temp"}  : first /\ c.call \in {"app+", "web+"} /\ web[c.d].spec # SpecOf(r.site)}
    \cup {w \in {"alias"} : first /\ c.undo # <<>> /\ SpecOf(r.site) # None
                              /\ Previous(SpecOf(r.site), r.spec) # SpecOf(r.site)}
    \cup {w \in {"undo"} : r.undoing /\ c.call # "rmroot"}
    \cup {w \in {"leftover"} : r.kind = "delete" /\ c.call = "web-"}

\* CreatePool and DeletePool change the file before they restart PHP-FPM.
PoolsAfterFailure(c) == {pools, ApplyApp(c)}

\* A call fails: the compensation replaces what was left to do, or the error is
\* noted and the request goes on.
Fails(p) ==
    LET r == req[p]
        c == Head(r.todo)
        next == IF c.ignore THEN SubSeq(r.todo, 2 + c.skip, Len(r.todo)) ELSE c.undo
    IN /\ r.todo # <<>>
       /\ pools' \in PoolsAfterFailure(c)
       /\ req' = [req EXCEPT ![p] = [r EXCEPT !.todo = next, !.clean = FALSE, !.loaded = TRUE,
                                              !.undoing = @ \/ ~c.ignore]]
       /\ Mark(c.d, Leaves(r, c))
       /\ UNCHANGED <<rows, web, certs, roots, ops>>

\* The request has made its calls; publishLifecycle only tells others.  A clean reconciliation has repaired the active
\* sites.
End(p) ==
    LET r == req[p] IN
    /\ r.kind # "idle" /\ r.todo = <<>> /\ r.loaded
    /\ req' = [req EXCEPT ![p] = NoReq]
    /\ harm' = [d \in Domains |->
         IF /\ r.kind = "reconcile" /\ r.clean
            /\ \E s \in Sites : rows[s] # None /\ rows[s].on /\ DomainOf[s] = d
         THEN {} ELSE harm[d]]
    /\ UNCHANGED <<rows, web, pools, certs, roots, ops>>

\* The Core dies.
Crash ==
    /\ \E p \in Procs : req[p].kind # "idle"
    /\ req' = [p \in Procs |-> NoReq]
    /\ harm' = [d \in Domains |-> IF Busy(d) THEN harm[d] \cup {"crash"} ELSE harm[d]]
    /\ UNCHANGED <<rows, web, pools, certs, roots, ops>>

-----------------------------------------------------------------------------

Next ==
    \/ \E p \in Procs :
         \/ \E s \in Sites : \/ \E spec \in Specs : Create(p, s, spec) \/ Update(p, s, spec)
                            \/ Delete(p, s) \/ Enable(p, s) \/ Disable(p, s)
         \/ Load(p) \/ Reconcile(p) \/ Succeeds(p) \/ Fails(p) \/ End(p)
    \/ Crash

Spec == Init /\ [][Next]_vars

-----------------------------------------------------------------------------

TypeOK ==
    /\ rows \in [Sites -> [on : BOOLEAN, spec : Specs] \cup {None}]
    /\ web \in [Domains -> [spec : Specs \cup {None}, on : BOOLEAN]]
    /\ pools \subseteq (Domains \X Versions)
    /\ certs \subseteq Domains /\ roots \subseteq Domains
    /\ \A p \in Procs : req[p].kind \in Kinds \cup {"idle"}
    /\ harm \in [Domains -> SUBSET {"overlap", "collision", "revived", "temp", "alias", "undo",
                                    "leftover", "crash"}]

Quiet(d) == ~Busy(d) /\ ~\E p \in Procs : req[p].kind = "reconcile"
Owners(d) == {s \in Sites : DomainOf[s] = d /\ rows[s] # None}

Served(s) ==
    /\ web[DomainOf[s]] = [spec |-> rows[s].spec, on |-> TRUE]
    /\ managesAppServer(rows[s].spec) => <<DomainOf[s], rows[s].spec.app>> \in pools

\* Between requests the table and the host agree: an active site is served exactly
\* as its row says and has its pool, a disabled one is not served, a domain without
\* a site has no vhost.  The ways out are those in harm: two requests on a domain
\* at once, a second Create for a domain that has a site, a compensation that
\* failed, an Update that cannot go back (temp, alias), an upsert of a disabled site,
\* a vhost Delete could not remove, a crash.
TableMatchesHost ==
    \A d \in Domains : Quiet(d) /\ harm[d] = {} =>
        IF Owners(d) = {} THEN web[d].spec = None
        ELSE \A s \in Owners(d) : IF rows[s].on THEN Served(s) ELSE ~web[d].on

\* Whatever went wrong before, a reconciliation without errors leaves every active
\* site served as its row says.
ReconcileRepairs ==
    \A p \in Procs :
        (req[p].kind = "reconcile" /\ req[p].todo = <<>> /\ req[p].clean) =>
            \A s \in Sites : rows[s] # None /\ rows[s].on => Served(s)

\* One row per domain, however many requests create it at once.
OneSitePerDomain == \A d \in Domains : Cardinality(Owners(d)) <= 1
=============================================================================
