--------------------------- MODULE ModulePackages --------------------------
(***************************************************************************)
(* What the lifecycle methods of the modules do to the host: Install,      *)
(* Uninstall, Enable, Disable, Restart and HealthCheck of modules/nginx,   *)
(* apache, mysql, php, postgresql, nodejs, git, certbot, cron and          *)
(* fail2ban, and the managed services page (internal/core/service),        *)
(* as sequences of calls to the Agent (internal/agent/server/server.go,    *)
(* internal/agent/systemd/manager.go, internal/agent/packages).            *)
(*                                                                         *)
(* A behaviour is about one module.  Its package and its systemd unit have *)
(* one name here; PHP has one per version.  Each call is a step, so two    *)
(* requests interleave between the calls.  Two outcomes of a call are easy *)
(* to forget: a package command that fails looks like one that succeeded   *)
(* (its output is only drained), and some methods drop the error.          *)
(***************************************************************************)
EXTENDS Naturals, Sequences, Functions

CONSTANTS Modules,    \* the modules explored
          Versions,   \* PHP: sequence of supported versions
          Default,    \* PHP: the version Install installs
          Procs,      \* concurrent requests
          None,
          MaxOps,     \* bound: requests in a behaviour
          MaxFaults   \* bound: failed calls in a behaviour

VARIABLES mod,        \* the module of this behaviour
          installed,  \* units whose package is installed
          enabled,    \* units systemd starts at boot
          active,     \* units that run
          stored,     \* the managed service's state column
          req,        \* request of each process
          foreign,    \* two requests were mixed, or one only started the unit
          ops, faults

host == <<installed, enabled, active>>
vars == <<mod, host, stored, req, foreign, ops, faults>>

-----------------------------------------------------------------------------
(* The methods: the calls in their order; Must returns the error of the    *)
(* call, May drops it.                                                     *)

Must(call, unit) == [call |-> call, unit |-> unit, strict |-> TRUE]
May(call, unit) == [call |-> call, unit |-> unit, strict |-> FALSE]

\* Mutant: Disable removes the unit from the boot sequence before stopping it.
DisableFirst(u) == [install   |-> <<Must("install", u)>>,
                    uninstall |-> <<Must("remove", u)>>,
                    enable    |-> <<Must("enable", u), Must("start", u)>>,
                    disable   |-> <<Must("disable", u), Must("stop", u)>>,
                    restart   |-> <<Must("restart", u)>>,
                    health    |-> <<May("package", u), May("service", u)>>]

mysql(u) == [install   |-> <<Must("install", u)>>,
             uninstall |-> <<Must("remove", u)>>,
             enable    |-> <<Must("enable", u), Must("start", u)>>,
             disable   |-> <<Must("stop", u), Must("disable", u)>>,
             restart   |-> <<Must("restart", u)>>,
             health    |-> <<May("package", u), May("service", u)>>]

apache(u) == [install   |-> <<Must("install", u)>>,
              uninstall |-> <<Must("remove", u)>>,
              enable    |-> <<Must("enable", u), Must("start", u)>>,
              disable   |-> <<Must("stop", u), Must("disable", u)>>,
              restart   |-> <<Must("restart", u)>>,
              health    |-> <<May("service", u)>>]

nginx(u) == [install   |-> <<Must("install", u), Must("enable", u)>>,
             uninstall |-> <<May("stop", u), Must("remove", u)>>,
             enable    |-> <<Must("enable", u), Must("start", u)>>,
             disable   |-> <<Must("stop", u), Must("disable", u)>>,
             restart   |-> <<Must("restart", u)>>,
             health    |-> <<May("service", u), May("package", u)>>]

certbot(u) == [install   |-> <<Must("install", u)>>,
               uninstall |-> <<Must("remove", u)>>,
               enable    |-> <<Must("enable", u), Must("start", u)>>,
               disable   |-> <<Must("stop", u), Must("disable", u)>>,
               restart   |-> <<Must("restart", u)>>,
               health    |-> <<May("package", u), May("service", u)>>]

postgresql(u) == [install   |-> <<Must("install", u)>>,
                  uninstall |-> <<Must("remove", u)>>,
                  enable    |-> <<Must("enable", u), Must("start", u)>>,
                  disable   |-> <<May("stop", u), May("disable", u)>>,
                  restart   |-> <<Must("restart", u)>>,
                  health    |-> <<May("package", u), May("service", u)>>]

\* Node.js and Git have no service.
nodejs(u) == [install   |-> <<Must("install", u)>>,
              uninstall |-> <<Must("remove", u)>>,
              enable    |-> <<>>, disable |-> <<>>, restart |-> <<>>,
              health    |-> <<May("package", u)>>]

git(u) == [install   |-> <<Must("install", u)>>,
           uninstall |-> <<Must("remove", u)>>,
           enable    |-> <<>>, disable |-> <<>>, restart |-> <<>>,
           health    |-> <<May("package", u)>>]

\* Cron and Fail2Ban neither start nor stop the daemon.
cron(u) == [install   |-> <<Must("install", u)>>,
            uninstall |-> <<Must("remove", u)>>,
            enable    |-> <<Must("enable", u)>>,
            disable   |-> <<Must("disable", u)>>,
            restart   |-> <<Must("restart", u)>>,
            health    |-> <<May("service", u), May("service", u)>>]

fail2ban(u) == [install   |-> <<Must("install", u)>>,
                uninstall |-> <<Must("remove", u)>>,
                enable    |-> <<Must("enable", u)>>,
                disable   |-> <<Must("disable", u)>>,
                restart   |-> <<Must("restart", u)>>,
                health    |-> <<May("service", u)>>]

Each(calls) == [i \in 1..Len(calls) * Len(Versions) |->
                  May(calls[((i - 1) % Len(calls)) + 1], Versions[((i - 1) \div Len(calls)) + 1])]

php(u) == [install   |-> <<Must("install", Default)>>,
           uninstall |-> Each(<<"remove">>),
           enable    |-> <<Must("enable", Default), Must("start", Default)>>,
           disable   |-> Each(<<"stop", "disable">>),
           restart   |-> <<Must("restart", Default)>>,
           health    |-> Each(<<"service">>)]

Methods(m) ==
    CASE m = "nginx" -> nginx(m) [] m = "apache" -> apache(m) [] m = "mysql" -> mysql(m)
      [] m = "postgresql" -> postgresql(m) [] m = "certbot" -> certbot(m)
      [] m = "nodejs" -> nodejs(m) [] m = "git" -> git(m) [] m = "cron" -> cron(m)
      [] m = "fail2ban" -> fail2ban(m) [] m = "php" -> php(m)

Units(m) == IF m = "php" THEN Range(Versions) ELSE {m}
Main(m) == IF m = "php" THEN Default ELSE m
HasService(m) == m \notin {"nodejs", "git"}
LeavesDaemon(m) == m \in {"cron", "fail2ban"}

-----------------------------------------------------------------------------
(* HealthCheck: the verdict from what the calls answered.  An answer is    *)
(* "yes", "no" or "err".  A query that an early return of the code skips   *)
(* is asked here and not looked at.                                        *)

Idle == [op |-> None, todo |-> <<>>, seen |-> <<>>, res |-> None,
         mixed |-> FALSE, dropped |-> FALSE]

aggregateHealth(checks) ==
    IF "error" \in checks THEN "error" ELSE IF "warning" \in checks THEN "warning" ELSE "ok"

\* The rest of nginx's checks (configuration, ports, processes, certificates)
\* can only lower the verdict.
nginxHealth(seen) ==
    LET service == IF seen[1] = "yes" THEN "ok" ELSE "error"
        package == CASE seen[2] = "yes" -> "ok" [] seen[2] = "no" -> "error" [] OTHER -> "warning"
    IN  {aggregateHealth({service, package} \cup rest) : rest \in SUBSET {"warning", "error"}}

apacheHealth(seen) == IF seen[1] = "yes" THEN "ok" ELSE "error"

mysqlHealth(seen) == CASE seen[1] = "err" -> "error"
                       [] seen[1] = "no" -> "warning"
                       [] seen[2] = "yes" -> "ok"
                       [] OTHER -> "error"

postgresqlHealth(seen) == CASE seen[1] = "err" -> "error"
                            [] seen[1] = "yes" /\ seen[2] = "yes" -> "ok"
                            [] OTHER -> "warning"

certbotHealth(seen) == IF seen[1] = "yes" /\ seen[2] = "yes" THEN "ok" ELSE "warning"

packageHealth(seen) == CASE seen[1] = "err" -> "error" [] seen[1] = "yes" -> "ok"
                         [] OTHER -> "warning"

\* Mutant: a version that could not be asked counts as running.
phpHealthOptimist(seen) ==
    IF \E i \in DOMAIN seen : seen[i] # "no" THEN "ok" ELSE "warning"

phpHealth(seen) == IF \E i \in DOMAIN seen : seen[i] = "yes" THEN "ok" ELSE "warning"

\* The unit is asked under its second name when the first answer is an error.
cronHealth(seen) == LET answer == IF seen[1] = "err" THEN seen[2] ELSE seen[1]
                    IN  IF answer = "yes" THEN "ok" ELSE "warning"

fail2banHealth(seen) == CASE seen[1] = "err" -> "error" [] seen[1] = "yes" -> "ok"
                          [] OTHER -> "warning"

HealthCheck(m, seen) ==
    IF m = "nginx" THEN nginxHealth(seen)
    ELSE {CASE m = "apache" -> apacheHealth(seen) [] m = "mysql" -> mysqlHealth(seen)
            [] m = "postgresql" -> postgresqlHealth(seen) [] m = "certbot" -> certbotHealth(seen)
            [] m \in {"nodejs", "git"} -> packageHealth(seen) [] m = "cron" -> cronHealth(seen)
            [] m = "fail2ban" -> fail2banHealth(seen) [] m = "php" -> phpHealth(seen)}

-----------------------------------------------------------------------------

LifecycleOps == {"install", "uninstall", "enable", "disable", "restart", "health"}
ServiceOps == {"svcStart", "svcStop", "svcRestart"}

\* SvcService.Start, Stop and Restart: one call, then the state column.
ServiceCalls(op, u) == CASE op = "svcStart" -> <<Must("start", u)>>
                         [] op = "svcStop" -> <<Must("stop", u)>>
                         [] op = "svcRestart" -> <<Must("restart", u)>>

TypeOK ==
    /\ mod \in Modules
    /\ installed \subseteq Units(mod) /\ enabled \subseteq Units(mod) /\ active \subseteq Units(mod)
    /\ stored \in {"absent", "unknown", "running", "stopped", "failed"}
    /\ \A p \in Procs : req[p].op \in LifecycleOps \cup ServiceOps \cup {None}
    /\ ops \in 0..MaxOps /\ faults \in 0..MaxFaults

Init ==
    /\ mod \in Modules
    /\ installed \in SUBSET Units(mod)
    /\ enabled = IF HasService(mod) THEN installed ELSE {}
    /\ active = enabled
    /\ stored = "absent"
    /\ req = [p \in Procs |-> Idle]
    /\ foreign = FALSE
    /\ ops = 0 /\ faults = 0

Running(p) == req[p].op # None /\ req[p].res = None

\* A request arrives; requests in progress at the same time are mixed.
Begin(p, op) ==
    /\ ops < MaxOps /\ ~Running(p)
    /\ op \in ServiceOps => stored # "absent"
    /\ ops' = ops + 1
    /\ LET others == \E q \in Procs \ {p} : Running(q)
           calls == IF op \in ServiceOps THEN ServiceCalls(op, Main(mod)) ELSE Methods(mod)[op]
       IN  /\ req' = [q \in Procs |->
                     IF q = p THEN [Idle EXCEPT !.op = op, !.todo = calls, !.mixed = others]
                     ELSE IF Running(q) THEN [req[q] EXCEPT !.mixed = TRUE]
                     ELSE Idle]
           /\ foreign' = (foreign \/ others \/ op \in ServiceOps \cup {"restart"})
    /\ UNCHANGED <<mod, host, stored, faults>>

\* A unit becomes a managed service, or is one no longer; neither touches it.
Add == /\ stored = "absent" /\ ops < MaxOps
       /\ stored' = "unknown" /\ ops' = ops + 1
       /\ UNCHANGED <<mod, foreign, host, req, faults>>

Remove == /\ stored # "absent"
          /\ stored' = "absent"
          /\ UNCHANGED <<mod, foreign, host, req, ops, faults>>

\* The host after a call that worked.  A package starts and enables its unit
\* on Debian and does neither on Fedora.
Worked(call, u) ==
    CASE call = "install" ->
           IF u \in installed THEN UNCHANGED host
           ELSE /\ installed' = installed \cup {u}
                /\ \E started \in IF HasService(mod) THEN BOOLEAN ELSE {FALSE} :
                      /\ enabled' = IF started THEN enabled \cup {u} ELSE enabled
                      /\ active' = IF started THEN active \cup {u} ELSE active
      [] call = "remove" -> /\ installed' = installed \ {u}
                            /\ enabled' = enabled \ {u} /\ active' = active \ {u}
      [] call \in {"start", "restart"} -> active' = active \cup {u} /\ UNCHANGED <<installed, enabled>>
      [] call = "stop" -> active' = active \ {u} /\ UNCHANGED <<installed, enabled>>
      [] call = "enable" -> enabled' = enabled \cup {u} /\ UNCHANGED <<installed, active>>
      [] call = "disable" -> enabled' = enabled \ {u} /\ UNCHANGED <<installed, active>>

Changes == {"install", "remove", "start", "stop", "restart", "enable", "disable"}
Retried == {"start", "restart", "enable"}

\* The state column after a managed service's call: Start records both
\* outcomes, Stop only success, Restart nothing.
UpdateState(op, ok) ==
    stored' = CASE stored = "absent" -> stored
                [] op = "svcStart" -> IF ok THEN "running" ELSE "failed"
                [] op = "svcStop" /\ ok -> "stopped"
                [] OTHER -> stored

\* The call returned without an error; the method goes on or is done.
Continue(p, dropped) ==
    LET rest == Tail(req[p].todo) IN
    /\ req' = [req EXCEPT ![p].todo = rest,
                          ![p].res = IF rest = <<>> THEN "ok" ELSE None,
                          ![p].dropped = @ \/ dropped]
    /\ UpdateState(req[p].op, TRUE)

Fail(p) ==
    LET step == Head(req[p].todo) IN
    IF step.strict
      THEN /\ req' = [req EXCEPT ![p].todo = <<>>, ![p].res = "failed"]
           /\ UpdateState(req[p].op, FALSE)
      ELSE Continue(p, TRUE)

CallWorks(p) ==
    /\ Running(p) /\ req[p].todo # <<>>
    /\ LET step == Head(req[p].todo) IN
       /\ step.call \in Changes
       /\ step.call \in {"install", "remove"} \/ step.unit \in installed
       /\ Worked(step.call, step.unit)
    /\ Continue(p, FALSE)
    /\ UNCHANGED <<mod, foreign, ops, faults>>

\* The call fails: systemd does not know the unit, or something went wrong.
\* start, restart and enable are tried again after a daemon-reload.
CallFails(p) ==
    /\ Running(p) /\ req[p].todo # <<>>
    /\ LET step == Head(req[p].todo)
           cost == IF step.call \in Retried THEN 2 ELSE 1
           unknown == step.call \notin {"install", "remove"} /\ step.unit \notin installed
       IN  /\ step.call \in Changes
           /\ IF unknown THEN UNCHANGED faults
              ELSE faults + cost <= MaxFaults /\ faults' = faults + cost
    /\ Fail(p)
    /\ UNCHANGED <<mod, foreign, host, ops>>

\* The package command exits with an error: the stream just ends.
PackageFails(p) ==
    /\ Running(p) /\ req[p].todo # <<>> /\ Head(req[p].todo).call \in {"install", "remove"}
    /\ faults < MaxFaults /\ faults' = faults + 1
    /\ Continue(p, TRUE)
    /\ UNCHANGED <<mod, foreign, host, ops>>

\* A query: the Agent cannot be reached, or the status command fails and the
\* unit is reported as not active.
Ask(p) ==
    /\ Running(p) /\ req[p].todo # <<>> /\ Head(req[p].todo).call \in {"package", "service"}
    /\ LET step == Head(req[p].todo)
           units == IF step.call = "package" THEN installed ELSE active
           truth == IF step.unit \in units THEN "yes" ELSE "no"
       IN  \E answer \in {truth, "no", "err"} :
             /\ IF answer = truth THEN UNCHANGED faults
                ELSE faults < MaxFaults /\ faults' = faults + 1
             /\ req' = [req EXCEPT ![p].todo = Tail(@), ![p].seen = Append(@, answer)]
    /\ UNCHANGED <<mod, foreign, host, stored, ops>>

\* HealthCheck returns its report; a method without calls returns nil.
Return(p) ==
    /\ Running(p) /\ req[p].todo = <<>>
    /\ \E res \in IF req[p].op = "health" THEN HealthCheck(mod, req[p].seen) ELSE {"ok"} :
          req' = [req EXCEPT ![p].res = res]
    /\ UNCHANGED <<mod, foreign, host, stored, ops, faults>>

Next ==
    \/ Add \/ Remove
    \/ \E p \in Procs :
          \/ \E op \in LifecycleOps \cup ServiceOps : Begin(p, op)
          \/ CallWorks(p) \/ CallFails(p) \/ PackageFails(p) \/ Ask(p) \/ Return(p)

Spec == Init /\ [][Next]_vars

-----------------------------------------------------------------------------
(* Properties.                                                             *)

\* The last request ran alone, and no error of it was dropped.
Clean(p) == /\ req[p].res = "ok" /\ ~req[p].mixed /\ ~req[p].dropped
            /\ \A q \in Procs \ {p} : ~Running(q)

\* A lifecycle method that returned nil did its work: the package is there
\* after Install and no version of it after Uninstall, Enable leaves a unit
\* that runs now and at boot and Disable one that does neither (except cron
\* and Fail2Ban, which keep the daemon as it is), and a health check that
\* answers "ok" saw a unit that runs.  Excused are requests mixed with others
\* and errors the method drops (PHP, PostgreSQL, a failed package command).
LifecycleIsTrue ==
    \A p \in Procs : Clean(p) =>
       LET u == Main(mod) op == req[p].op IN
       /\ op = "install" => u \in installed
       /\ op = "uninstall" => installed = {}
       /\ op = "enable" /\ HasService(mod) =>
             u \in enabled /\ (LeavesDaemon(mod) \/ u \in active)
       /\ op = "disable" => enabled = {} /\ (LeavesDaemon(mod) \/ active = {})
       /\ op = "restart" /\ HasService(mod) => u \in active
       /\ op = "health" => IF HasService(mod) THEN active # {} ELSE u \in installed

\* The operations of the lifecycle never leave a unit running that systemd
\* would not start again at boot: Enable enables before it starts and Disable
\* stops before it disables, so a call that fails between the two errs on the
\* other side.  PHP and PostgreSQL drop the error of the stop, cron and
\* Fail2Ban do not stop, and the managed services page may start anything.
RunningIsEnabled ==
    \/ mod \in {"php", "postgresql"} \/ LeavesDaemon(mod)
    \/ foreign
    \/ active \subseteq enabled
=============================================================================
