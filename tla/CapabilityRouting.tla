------------------------- MODULE CapabilityRouting -------------------------
(***************************************************************************)
(* One contract, two transports: how an operation on a host is routed to   *)
(* the server a request selected.                                          *)
(*                                                                         *)
(*   X-Server-ID -> servercontext.Middleware -> RequireMigratedCapability  *)
(*     -> handler -> capability.Client                                     *)
(*          local:  agentclient.Client -> gRPC -> agent/server.Service     *)
(*          remote: controlplane.Dispatch -> stream                        *)
(*                  -> agent/app executeStreamCommand                      *)
(*     -> subsystem of the Agent (systemd, files, packages, ufw, cron ...) *)
(*                                                                         *)
(* (internal/core/servercontext/context.go, internal/core/capability,      *)
(* internal/agentclient, internal/agent/server, internal/agent/app/app.go, *)
(* pkg/controlcapabilities/registry.go.)  Both chains are tables kept in   *)
(* different files with vocabularies of their own: RPC names and enums on  *)
(* one side, command kinds and JSON fields on the other.  Both end in a    *)
(* call of the same subsystem functions, and that call is what is compared.*)
(* Names, paths and contents are abstracted to one value; an argument is   *)
(* kept where one of the two chains converts, checks or branches on it.    *)
(***************************************************************************)
EXTENDS Naturals, TLC

CONSTANTS Requests,   \* requests in progress
          Servers,    \* remote servers
          Releases,   \* the capability sets an Agent's hello may advertise
          None,
          MaxSessions \* bound: sessions opened

VARIABLES req,        \* request -> its record
          session,    \* server -> advertised capabilities, or None
          wire,       \* commands sent to an Agent and not executed yet
          ran,        \* host calls made: [by, host, call, value, shown]
          opened      \* number of sessions opened

vars == <<req, session, wire, ran, opened>>

LocalID == "local"
Plain == "plain"      \* the argument no conversion looks at

---------------------------------------------------------------------------
(* capability.Client: the command kind of every method of the contract, as *)
(* its family and verb.  The verb of service.action is the action in the   *)
(* payload; site.root.prepare, site.socket.exists and site.http.probe are  *)
(* told apart by their middle word.                                        *)

serviceKinds ==
    [ServiceStart |-> <<"service", "start">>,
     ServiceStop |-> <<"service", "stop">>,
     ServiceRestart |-> <<"service", "restart">>,
     ServiceEnable |-> <<"service", "enable">>,
     ServiceDisable |-> <<"service", "disable">>,
     ServiceReload |-> <<"service", "reload">>,
     ServiceStatus |-> <<"service", "status">>,
     ServiceLogs |-> <<"service", "logs">>]

commandKinds ==
    [FileLogs |-> <<"file", "logs">>, CommandExecute |-> <<"command", "execute">>]

siteKinds ==
    [NginxSiteApply |-> <<"nginx.site", "apply">>,
     SiteRootPrepare |-> <<"site", "root">>,
     UnixSocketExists |-> <<"site", "socket">>,
     SiteHTTPProbe |-> <<"site", "http">>,
     CertificateObtain |-> <<"certificate", "obtain">>]

packageKinds ==
    [PackageInstall |-> <<"package", "install">>, PackageRemove |-> <<"package", "remove">>,
     PackageUpdate |-> <<"package", "update">>, PackageInstalled |-> <<"package", "status">>]

fileKinds ==
    [FileRead |-> <<"file", "read">>, FileWrite |-> <<"file", "write">>,
     FileDelete |-> <<"file", "delete">>, FileRename |-> <<"file", "rename">>,
     FileCopy |-> <<"file", "copy">>, FileChmod |-> <<"file", "chmod">>,
     FileChown |-> <<"file", "chown">>, DirCreate |-> <<"directory", "create">>,
     DirList |-> <<"directory", "list">>, ArchiveCreate |-> <<"archive", "create">>,
     ArchiveExtract |-> <<"archive", "extract">>]

firewallKinds ==
    [FirewallStatus |-> <<"firewall", "status">>, FirewallRule |-> <<"firewall", "rule">>,
     FirewallDelete |-> <<"firewall", "delete">>, FirewallList |-> <<"firewall", "list">>,
     FirewallToggle |-> <<"firewall", "toggle">>, FirewallReset |-> <<"firewall", "reset">>]

statKinds ==
    [SystemStats |-> <<"system", "stats">>, ProcessList |-> <<"process", "list">>,
     ProcessKill |-> <<"process", "kill">>]

cronKinds ==
    [CronList |-> <<"cron", "list">>, CronGet |-> <<"cron", "get">>,
     CronCreate |-> <<"cron", "create">>, CronUpdate |-> <<"cron", "update">>,
     CronDelete |-> <<"cron", "delete">>, CronEnable |-> <<"cron", "enable">>,
     CronDisable |-> <<"cron", "disable">>, CronRun |-> <<"cron", "run">>,
     CronHistory |-> <<"cron", "history">>, CronValidate |-> <<"cron", "validate">>]

Kinds == serviceKinds @@ commandKinds @@ siteKinds @@ packageKinds @@ fileKinds
         @@ firewallKinds @@ statKinds @@ cronKinds
Operations == DOMAIN Kinds

\* The arguments that decide something: a number that is zero, small or beyond
\* int32 for the lines of a log and a process ID, the extension of an archive, a rule's action and address family,
\* the type of a cron job.
ArgumentsOf(op) ==
    CASE op \in {"ServiceLogs", "FileLogs"} -> {"zero", "few", "wide"}
      [] op = "ProcessKill" -> {"few", "wide"}
      [] op = "ArchiveCreate" -> {"zip", "tgz", "txz", "rar"}
      [] op = "FirewallRule" -> {"allow", "deny", "reject"} \X {"", "ipv4", "both"}
      [] op \in {"CronCreate", "CronUpdate"} -> {"", "USER", "SYSTEM"}
      [] OTHER -> {Plain}

\* The values on the host that a listing converts.
ValuesOf(op) ==
    CASE op \in {"CronGet", "CronList"} -> {"USER", "SYSTEM", "UNKNOWN"}
      [] op = "FirewallList" -> {"ALLOW", "DENY", "REJECT"} \X {"V4", "V6", "BOTH"}
      [] op = "DirList" -> {<<"file", "owner">>}
      [] op = "CronRun" -> {"done", "failed"}
      [] OTHER -> {Plain}

---------------------------------------------------------------------------
(* The local chain: agentclient.Client and agent/server.Service.           *)

\* agentclient: the RPC of every method, the action of ServiceAction apart.
serviceAction ==
    [ServiceStart |-> "START", ServiceStop |-> "STOP", ServiceRestart |-> "RESTART",
     ServiceEnable |-> "ENABLE", ServiceDisable |-> "DISABLE", ServiceReload |-> "RELOAD"]
logRPCs == [ServiceStatus |-> "ServiceStatus", ServiceLogs |-> "ServiceLogs", FileLogs |-> "FileLogs"]
packageRPCs ==
    [CommandExecute |-> "CommandExecute", PackageInstall |-> "PackageInstall",
     PackageRemove |-> "PackageRemove", PackageUpdate |-> "PackageUpdate",
     PackageInstalled |-> "PackageStatus"]
fileRPCs == [method \in DOMAIN fileKinds |-> method]
firewallRPCs == [method \in DOMAIN firewallKinds |-> method]
statRPCs == [method \in DOMAIN statKinds |-> method]
cronRPCs == [method \in DOMAIN cronKinds |-> method]
RPCs == logRPCs @@ packageRPCs @@ fileRPCs @@ firewallRPCs @@ statRPCs @@ cronRPCs

\* agent/server: the subsystem call of every RPC.
ServiceAction ==
    [START |-> "systemd.Start", STOP |-> "systemd.Stop", RESTART |-> "systemd.Restart",
     ENABLE |-> "systemd.Enable", DISABLE |-> "systemd.Disable", RELOAD |-> "systemd.Reload"]

serveServices == [ServiceStatus |-> "systemd.Status"]
serveLogs == [ServiceLogs |-> "systemd.Logs", FileLogs |-> "tail"]
serveCommand == [CommandExecute |-> "shell.Run"]

servePackages ==
    [PackageInstall |-> "pkgs.Install", PackageRemove |-> "pkgs.Remove",
     PackageUpdate |-> "pkgs.Update", PackageStatus |-> "pkgs.Installed"]

serveFiles ==
    [FileRead |-> "fs.Read", FileWrite |-> "fs.Write", FileDelete |-> "fs.Delete",
     FileRename |-> "fs.Rename", FileCopy |-> "fs.Copy", FileChmod |-> "fs.Chmod",
     FileChown |-> "fs.Chown", DirCreate |-> "fs.MkdirAll", DirList |-> "fs.List"]

serveArchives == [ArchiveCreate |-> "archive.Create", ArchiveExtract |-> "archive.Extract"]

serveFirewall ==
    [FirewallStatus |-> "fw.Status", FirewallRule |-> "fw.AddRule",
     FirewallDelete |-> "fw.DeleteRule", FirewallList |-> "fw.List",
     FirewallToggle |-> "fw.Toggle", FirewallReset |-> "fw.Reset"]

serveStats ==
    [SystemStats |-> "stats.Collect", ProcessList |-> "stats.CollectProcesses",
     ProcessKill |-> "stats.KillProcess"]

serveCron ==
    [CronList |-> "cron.List", CronGet |-> "cron.Get", CronCreate |-> "cron.Create",
     CronUpdate |-> "cron.Update", CronDelete |-> "cron.Delete",
     CronEnable |-> "cron.SetEnabled true", CronDisable |-> "cron.SetEnabled false",
     CronRun |-> "cron.Run", CronHistory |-> "cron.History",
     CronValidate |-> "cron.ValidateJob"]

Handlers == serveServices @@ serveLogs @@ serveCommand @@ servePackages @@ serveFiles
            @@ serveArchives @@ serveFirewall @@ serveStats @@ serveCron

\* NginxSiteApply and the site runtime are no methods of agentclient.Client:
\* the type assertion on the local client fails.
Typed == {"NginxSiteApply", "SiteRootPrepare", "UnixSocketExists", "SiteHTTPProbe",
          "CertificateObtain"}

checkedInt32(value) == value # "wide"
LinesAccepted(lines) == lines # "zero"

\* ArchiveCreate of agent/server: the format by the destination's extension.
ArchiveFormat(ext) ==
    CASE ext = "zip" -> "zip" [] ext = "tgz" -> "tar.gz" [] ext = "txz" -> "tar.xz"
      [] OTHER -> None

\* cronJobToProto of the client and cronJobFromProto of the server: a type
\* that is no member of the enum is UNKNOWN.
cronJobToProto(type) == IF type \in {"SYSTEM", "PACKAGE", "OPENDEPLOY", "USER"}
                        THEN type ELSE "TYPE_UNKNOWN"
cronJobFromProto(proto) == IF proto = "TYPE_UNKNOWN" THEN "UNKNOWN" ELSE proto

\* FirewallRule of agentclient: strings to enums.
FirewallRule(rule) ==
    <<IF rule[1] \in {"deny", "reject"} THEN rule[1] ELSE "allow",
      IF rule[2] \in {"ipv4", "ipv6", "both"} THEN rule[2] ELSE "unspecified">>

LocalAccepts(op, arg) ==
    /\ op \notin Typed
    /\ op \in {"ServiceLogs", "FileLogs"} => checkedInt32(arg) /\ LinesAccepted(arg)
    /\ op = "ProcessKill" => checkedInt32(arg)
    /\ op = "ArchiveCreate" => ArchiveFormat(arg) # None

LocalArgument(op, arg) ==
    CASE op = "ArchiveCreate" -> ArchiveFormat(arg)
      [] op = "FirewallRule" -> FirewallRule(arg)
      [] op \in {"CronCreate", "CronUpdate"} -> cronJobFromProto(cronJobToProto(arg))
      [] OTHER -> arg

\* What a listing shows of a value on the host: the server's conversion to the
\* wire, and the client's from it.  The client drops a file's owner and group;
\* a run of a job that failed is a record, not an error.
jobToProto(type) == IF type = "UNKNOWN" THEN "TYPE_UNKNOWN" ELSE type
jobFromProto(proto) == IF proto \in {"SYSTEM", "PACKAGE", "OPENDEPLOY", "USER"}
                       THEN proto ELSE "UNKNOWN"
FirewallList(entry) ==
    <<IF entry[1] \in {"DENY", "REJECT"} THEN entry[1] ELSE "ALLOW",
      IF entry[2] \in {"V4", "V6"} THEN entry[2] ELSE "BOTH">>
DirList(entry) == <<entry[1], "no owner">>
CronRun(run) == run

LocalResult(op, value) ==
    CASE op \in {"CronGet", "CronList"} -> jobFromProto(jobToProto(value))
      [] op = "FirewallList" -> FirewallList(value)
      [] op = "DirList" -> DirList(value)
      [] op = "CronRun" -> CronRun(value)
      [] OTHER -> value

LocalCall(op, arg) ==
    <<IF op \in DOMAIN serviceAction THEN ServiceAction[serviceAction[op]] ELSE Handlers[RPCs[op]],
      LocalArgument(op, arg)>>

---------------------------------------------------------------------------
(* The remote chain: registry.go, Manager.Dispatch, executeStreamCommand.  *)

streamStats == [stats |-> "stats.Collect"]
streamProcesses == [list |-> "stats.CollectProcesses", kill |-> "stats.KillProcess"]

streamServices ==
    [status |-> "systemd.Status", start |-> "systemd.Start", stop |-> "systemd.Stop",
     restart |-> "systemd.Restart", enable |-> "systemd.Enable",
     disable |-> "systemd.Disable", reload |-> "systemd.Reload", logs |-> "systemd.Logs"]

streamNginx == [apply |-> "nginx.Apply"]
streamSites == [root |-> "sites.PrepareRoot", socket |-> "sites.SocketExists",
                http |-> "sites.HTTPProbe"]
streamCertificates == [obtain |-> "sites.ObtainCertificate"]

\* Mutant: file.copy moves the file.
streamFilesMoving ==
    [read |-> "fs.Read", write |-> "fs.Write", delete |-> "fs.Delete",
     rename |-> "fs.Rename", copy |-> "fs.Rename", chmod |-> "fs.Chmod",
     chown |-> "fs.Chown", list |-> "fs.List", logs |-> "fs.Read"]

streamFiles ==
    [read |-> "fs.Read", write |-> "fs.Write", delete |-> "fs.Delete",
     rename |-> "fs.Rename", copy |-> "fs.Copy", chmod |-> "fs.Chmod",
     chown |-> "fs.Chown", list |-> "fs.List", logs |-> "fs.Read"]

streamDirectories == [create |-> "fs.MkdirAll", list |-> "fs.List"]
streamArchives == [create |-> "archive.Create", extract |-> "archive.Extract"]

streamFirewall ==
    [status |-> "fw.Status", list |-> "fw.List", delete |-> "fw.DeleteRule",
     toggle |-> "fw.Toggle", reset |-> "fw.Reset", rule |-> "fw.AddRule"]

streamCron ==
    [list |-> "cron.List", get |-> "cron.Get", create |-> "cron.Create",
     update |-> "cron.Update", validate |-> "cron.ValidateJob", delete |-> "cron.Delete",
     enable |-> "cron.SetEnabled true", disable |-> "cron.SetEnabled false",
     run |-> "cron.Run", history |-> "cron.History"]

streamCommand == [execute |-> "shell.Run"]
streamPackages ==
    [status |-> "pkgs.Installed", install |-> "pkgs.Install", remove |-> "pkgs.Remove",
     update |-> "pkgs.Update"]

Commands ==
    [system |-> streamStats, process |-> streamProcesses, service |-> streamServices,
     site |-> streamSites, certificate |-> streamCertificates, file |-> streamFiles,
     directory |-> streamDirectories, archive |-> streamArchives,
     firewall |-> streamFirewall, cron |-> streamCron, command |-> streamCommand,
     package |-> streamPackages] @@ ("nginx.site" :> streamNginx)

\* archiveFormat of app.go knows no short extension and falls back to tar.gz.
archiveFormat(ext) == IF ext = "zip" THEN "zip" ELSE "tar.gz"

\* The firewall.rule case: an absent family is BOTH.
streamRule(rule) ==
    <<IF rule[1] \in {"deny", "reject"} THEN rule[1] ELSE "allow",
      IF rule[2] \in {"ipv4", "ipv6"} THEN rule[2] ELSE "both">>

\* json.Unmarshal into the request struct: PID is an int32.
Decodes(op, arg) == op = "ProcessKill" => arg # "wide"

StreamArgument(op, arg) ==
    CASE op = "ArchiveCreate" -> archiveFormat(arg)
      [] op = "FirewallRule" -> streamRule(arg)
      [] OTHER -> arg

\* Mutant: a denying rule is shown as an allowing one.
contractRuleAllow(entry) ==
    <<IF entry[1] = "REJECT" THEN "REJECT" ELSE "ALLOW",
      IF entry[2] \in {"V4", "V6"} THEN entry[2] ELSE "BOTH">>

firewallContractRule(entry) ==
    <<IF entry[1] \in {"DENY", "REJECT"} THEN entry[1] ELSE "ALLOW",
      IF entry[2] \in {"V4", "V6"} THEN entry[2] ELSE "BOTH">>

\* What the stream's result carries: the JSON of the value, of the converted
\* rule for a listing of the firewall, nothing when the run of a job failed.
StreamResult(op, value) ==
    CASE op = "FirewallList" -> firewallContractRule(value)
      [] op = "CronRun" /\ value = "failed" -> "error"
      [] OTHER -> value

\* executeStreamCommand; None is "unsupported control-plane command".
executeStreamCommand(kind, op, arg) ==
    IF kind[1] \in DOMAIN Commands /\ kind[2] \in DOMAIN Commands[kind[1]]
    THEN <<Commands[kind[1]][kind[2]], StreamArgument(op, arg)>> ELSE None

Names == {"dashboard", "processes", "services", "files", "firewall", "cron", "packages",
          "nginx_sites", "site_runtime", "certificates"}

\* RequiredForCommand: None for a kind that no case of the registry matches.
RequiredForCommand(kind) ==
    CASE kind = <<"system", "stats">> -> "dashboard"
      [] kind[1] = "process" -> "processes"
      [] kind[1] = "service" -> "services"
      [] kind[1] \in {"file", "directory", "archive"} -> "files"
      [] kind[1] = "firewall" -> "firewall"
      [] kind[1] = "cron" -> "cron"
      [] kind[1] = "package" -> "packages"
      [] kind[1] = "nginx.site" -> "nginx_sites"
      [] kind[1] = "site" -> "site_runtime"
      [] kind[1] = "certificate" -> "certificates"
      [] OTHER -> None

---------------------------------------------------------------------------
(* A request: the selected server, the routes open to a remote one, and    *)
(* the operations the handlers behind a route call.                        *)

\* Mutant: the header is taken as the local server when its Agent is offline.
SelectOnline(header) ==
    IF header = "" \/ session[header] = None THEN LocalID ELSE header

\* Middleware
Selected(header) == IF header = "" THEN LocalID ELSE header

IsLocal(server) == server = LocalID

remotePathAvailable(route) ==
    route \in {"/servers", "/auth", "/dashboard", "/system/processes", "/services",
               "/modules/firewall", "/modules/cron"}

\* The operations behind a route ("/dashboard" is the GET of that path alone;
\* a path below an open prefix is open with it); what works on the Core itself, without an
\* Agent, is "core": accounts, settings, updates, backups, site files.
Reaches ==
    ("/servers" :> {}) @@ ("/auth" :> {}) @@ ("/dashboard" :> {"SystemStats"})
    @@ ("/system/processes" :> {"ProcessList", "ProcessKill"})
    @@ ("/services" :> {"ServiceStart", "ServiceStop", "ServiceRestart", "ServiceStatus",
                        "ServiceLogs"})
    @@ ("/modules/firewall" :> DOMAIN firewallKinds \cup {"PackageInstalled", "CommandExecute"})
    @@ ("/modules/cron" :> DOMAIN cronKinds \cup {"PackageInstall", "PackageRemove",
              "ServiceEnable", "ServiceDisable", "ServiceRestart", "ServiceStatus"})
    @@ ("/modules" :> Operations \cup {"core"}) @@ ("/sites" :> Operations \cup {"core"})
    @@ ("/updates" :> {"core"})

\* The work of a request that is no request itself: a module job or a site
\* operation run with servercontext.WithID.
Job == "job"

Idle == [pc |-> "idle", header |-> "", server |-> None, op |-> None, arg |-> None,
         route |-> None, answer |-> None]

TypeOK ==
    /\ \A r \in Requests : /\ req[r].pc \in {"idle", "call", "wait", "done"}
                           /\ req[r].server \in Servers \cup {LocalID, None}
    /\ \A v \in Servers : session[v] = None \/ session[v] \in Releases
    /\ \A c \in wire : c.by \in Requests /\ c.to \in Servers
    /\ \A e \in ran : e.by \in Requests /\ e.host \in Servers \cup {LocalID}

Init ==
    /\ req = [r \in Requests |-> Idle]
    /\ session = [v \in Servers |-> None]
    /\ wire = {} /\ ran = {} /\ opened = 0

Answer(r, a) == req' = [req EXCEPT ![r].pc = "done", ![r].answer = a]

\* Middleware and RequireMigratedCapability, then the handler.
Receive(r) ==
    /\ req[r].pc = "idle"
    /\ \E header \in Servers \cup {""}, route \in DOMAIN Reaches :
         \E op \in Reaches[route] \cup {None} : \E arg \in ArgumentsOf(op) :
           LET new == [pc |-> "call", header |-> header, server |-> Selected(header),
                       op |-> op, arg |-> arg, route |-> route, answer |-> None]
               open == IsLocal(Selected(header)) \/ remotePathAvailable(route)
           IN /\ req' = [req EXCEPT ![r] =
                   CASE ~open -> [new EXCEPT !.pc = "done", !.answer = "501"]
                     [] open /\ op \in {None, "core"} -> [new EXCEPT !.pc = "done", !.answer = "ok"]
                     [] OTHER -> new]
              /\ ran' = IF open /\ op = "core"
                        THEN ran \cup {[by |-> r, host |-> LocalID, call |-> "core",
                                       value |-> None, shown |-> None]} ELSE ran
    /\ UNCHANGED <<session, wire, opened>>

\* A caller that holds the context of a server: WithID.
StartJob(r) ==
    /\ req[r].pc = "idle"
    /\ \E server \in Servers, op \in Operations : \E arg \in ArgumentsOf(op) :
         req' = [req EXCEPT ![r] = [pc |-> "call", header |-> server, server |-> server,
                                    op |-> op, arg |-> arg, route |-> Job, answer |-> None]]
    /\ UNCHANGED <<session, wire, ran, opened>>

\* The local branch of every method of capability.Client.
CallLocal(r) ==
    /\ req[r].pc = "call" /\ IsLocal(req[r].server)
    /\ IF LocalAccepts(req[r].op, req[r].arg)
       THEN /\ \E value \in ValuesOf(req[r].op) :
                 ran' = ran \cup {[by |-> r, host |-> LocalID,
                                  call |-> LocalCall(req[r].op, req[r].arg), value |-> value,
                                  shown |-> LocalResult(req[r].op, value)]}
            /\ \E works \in BOOLEAN : Answer(r, IF works THEN "ok" ELSE "error")
       ELSE ran' = ran /\ Answer(r, IF req[r].op \in Typed THEN "501" ELSE "error")
    /\ UNCHANGED <<session, wire, opened>>

\* Client.call and the checks of Manager.Dispatch; remoteError gives an
\* absent session 503 and an absent capability 501.
Dispatch(r) ==
    /\ req[r].pc = "call" /\ ~IsLocal(req[r].server)
    /\ LET v == req[r].server  kind == Kinds[req[r].op]
       IN CASE session[v] = None -> Answer(r, "503") /\ wire' = wire
            [] session[v] # None /\ RequiredForCommand(kind) \notin session[v] ->
                 Answer(r, "501") /\ wire' = wire
            [] OTHER -> /\ req' = [req EXCEPT ![r].pc = "wait"]
                        /\ wire' = wire \cup {[by |-> r, to |-> v, kind |-> kind]}
    /\ UNCHANGED <<session, ran, opened>>

\* The Agent executes a command; its answer finds the caller, or the caller
\* has left.
Execute(c) ==
    /\ c \in wire /\ wire' = wire \ {c}
    /\ LET r == c.by
           call == executeStreamCommand(c.kind, req[r].op, req[r].arg)
           runs == Decodes(req[r].op, req[r].arg) /\ call # None
       IN /\ \E value \in ValuesOf(req[r].op) :
               ran' = IF runs THEN ran \cup {[by |-> r, host |-> c.to, call |-> call, value |-> value,
                                              shown |-> StreamResult(req[r].op, value)]}
                      ELSE ran
          /\ \/ \E works \in BOOLEAN :
                  /\ req[r].pc = "wait"
                  /\ Answer(r, CASE ~runs -> "unsupported" [] works -> "ok" [] OTHER -> "error")
             \/ req[r].pc = "done" /\ req' = req
    /\ UNCHANGED <<session, opened>>

\* ctx.Done() of Dispatch: remoteError gives the deadline 504.
Deadline(r) ==
    /\ req[r].pc = "wait" /\ Answer(r, "504")
    /\ UNCHANGED <<session, wire, ran, opened>>

\* An Agent connects; an Agent of another release advertises other capabilities.
Connect(v) ==
    /\ session[v] = None /\ opened < MaxSessions
    /\ \E caps \in Releases : session' = [session EXCEPT ![v] = caps]
    /\ opened' = opened + 1
    /\ UNCHANGED <<req, wire, ran>>

\* The session ends: every caller waiting on it gets ErrConnectionClosed, 503.
\* A command the Agent has already received may still be executed.
Disconnect(v) ==
    /\ session[v] # None
    /\ session' = [session EXCEPT ![v] = None]
    /\ req' = [r \in Requests |->
                 IF req[r].pc = "wait" /\ req[r].server = v
                 THEN [req[r] EXCEPT !.pc = "done", !.answer = "503"] ELSE req[r]]
    /\ UNCHANGED <<wire, ran, opened>>

Next ==
    \/ \E r \in Requests : Receive(r) \/ StartJob(r) \/ CallLocal(r) \/ Dispatch(r) \/ Deadline(r)
    \/ \E c \in wire : Execute(c)
    \/ \E v \in Servers : Connect(v) \/ Disconnect(v)

Spec == Init /\ [][Next]_vars

---------------------------------------------------------------------------

Mine(r) == {e \in ran : e.by = r}

\* What a request asked for happens on the server its header names and on no
\* other, through either transport and whatever the session did meanwhile; a
\* request that selected a remote server on a route that was not migrated does
\* nothing anywhere (RequireMigratedCapability: "prevents a remote selection
\* from ever leaking local data").
RunsWhereSelected ==
    \A r \in Requests : \A e \in Mine(r) :
        /\ e.host = IF req[r].header = "" THEN LocalID ELSE req[r].header
        /\ req[r].header # "" =>
             req[r].route \notin {"/modules", "/sites", "/updates"} /\ e.call # "core"

\* The arguments for which the two transports are known to differ: an archive
\* extension only one of them recognises, a rule without address family, a
\* cron job without type, the lines of a file (tail against a read of the
\* whole file), a directory's owners, the record of a job that failed.
Diverges(op, arg) ==
    \/ op = "ArchiveCreate" /\ arg = "txz"
    \/ op = "FirewallRule" /\ arg[2] = ""
    \/ op \in {"CronCreate", "CronUpdate"} /\ arg = ""
    \/ op \in {"FileLogs", "DirList", "CronRun"}

\* Both transports end in the same call of the same subsystem: what an Agent
\* runs for a command of the stream, and what the caller is shown of it, is what
\* the local Agent runs and shows for the same method (tables of capability/client.go, app.go, agentclient and agent/server).
SameCall ==
    \A r \in Requests : \A e \in Mine(r) :
        /\ ~IsLocal(e.host) /\ LocalAccepts(req[r].op, req[r].arg)
        /\ ~Diverges(req[r].op, req[r].arg)
        => /\ e.call = LocalCall(req[r].op, req[r].arg)
           /\ e.shown = LocalResult(req[r].op, e.value)

\* An answer says what happened: success only after the call ran on the host,
\* 501 only when nothing ran, and an Agent of a release whose capabilities the
\* registry knows is never sent a command it does not support.
AnswerIsTrue ==
    \A r \in Requests :
        /\ req[r].answer = "ok" /\ req[r].op # None => Mine(r) # {}
        /\ req[r].answer = "501" => Mine(r) = {}
        /\ req[r].answer = "unsupported" => ~Decodes(req[r].op, req[r].arg)
====
