------------------------------ MODULE MCHost -------------------------------
(***************************************************************************)
(* What the panel manages on a host through its Agent, together in one     *)
(* run: the sites and their files, the crontab, the firewall, fail2ban's   *)
(* presets and the packages and services of the modules. A behaviour is of *)
(* one of them, the subject, and the variables of the others stay None.    *)
(***************************************************************************)
EXTENDS Naturals, Sequences, FiniteSets, TLC

CONSTANTS p1, p2, s1, s2, c1, None, Absent, Down, Dir, Empty, Cut

VARIABLES subject,  \* the component of this behaviour
          rows, web, pools, certs, roots, req, ops, harm, jobs, hist, crontab,
          mutex, th, invalid, want, runs, raced, apart, faults, rules, active, pr,
          shown, moved, last, waived, jail, off, filter, loaded, on, unsure,
          overlap, lag, mod, installed, enabled, stored, foreign,
          disk, proc, streamed, outside

vars == <<subject, rows, web, pools, certs, roots, req, ops, harm, jobs, hist,
          crontab, mutex, th, invalid, want, runs, raced, apart, faults, rules,
          active, pr, shown, moved, last, waived, jail, off, filter, loaded, on,
          unsure, overlap, lag, mod, installed, enabled, stored, foreign, disk, proc,
          streamed, outside>>

\* Rules a request may ask for: for either port, for one source or for any, for
\* one family or for both.
Rules == {[port |-> "app", act |-> "allow", src |-> "any", fam |-> "both"],
          [port |-> "app", act |-> "deny", src |-> "any", fam |-> "v4"],
          [port |-> "panel", act |-> "allow", src |-> "v4", fam |-> "v4"],
          [port |-> "panel", act |-> "deny", src |-> "any", fam |-> "both"]}

Managed == {"mysql", "apache", "nginx", "php", "postgresql", "certbot", "nodejs",
            "git", "cron", "fail2ban"}

Swap == Permutations({p1, p2}) \cup Permutations({s1, s2})

T == INSTANCE SiteLifecycle WITH Procs <- {p1, p2}, Sites <- {s1, s2},
              DomainOf <- [s \in {s1, s2} |-> "d1"], Versions <- {"8.3"},
              MaxOps <- 2
C == INSTANCE AgentCron WITH Requests <- {p1, p2}, Crons <- {c1},
              Jobs <- {"j", "k"}, System <- {"k"}, CopyOf <- [j \in {"k"} |-> "j"],
              Retention <- 1, MaxOps <- 3, MaxFaults <- 2
W == INSTANCE Firewall WITH Procs <- {p1, p2}, Ports <- {"panel", "app"},
              Critical <- {"panel"}, Guarded <- {"panel"}, Requested <- Rules,
              MaxOps <- 3, MaxFaults <- 1
J == INSTANCE Fail2banPresets WITH Presets <- {"web"}, Manual <- "manual",
              Procs <- {p1, p2}, MaxOps <- 2, MaxFaults <- 1
M == INSTANCE ModulePackages WITH Modules <- Managed, Versions <- <<"8.3", "8.4">>,
              Default <- "8.3", Procs <- {p1, p2}, MaxOps <- 2, MaxFaults <- 2
F == INSTANCE SiteFiles WITH Procs <- {p1, p2}, Values <- {"u", "v"}, First <- "u",
              MaxEntries <- 2, MaxOps <- 2, MaxFaults <- 1

sitesRest == <<jobs, hist, crontab, mutex, th, invalid, want, runs, raced, apart,
               faults, rules, active, pr, shown, moved, last, waived, jail, off,
               filter, loaded, on, unsure, overlap, lag, mod, installed, enabled,
               stored, foreign,
               disk, proc, streamed, outside>>
cronRest == <<rows, web, pools, certs, roots, req, harm, rules, active, pr, shown,
              moved, last, waived, jail, off, filter, loaded, on, unsure, overlap,
              lag, mod, installed, enabled, stored, foreign,
              disk, proc, streamed, outside>>
firewallRest == <<rows, web, pools, certs, roots, req, harm, jobs, hist, crontab,
                  mutex, th, invalid, want, runs, raced, apart, jail, off, filter,
                  loaded, on, unsure, overlap, lag, mod, installed, enabled, stored,
                  foreign,
                  disk, proc, streamed, outside>>
fail2banRest == <<rows, web, pools, certs, roots, harm, jobs, hist, crontab, mutex,
                  th, invalid, runs, apart, rules, active, pr, shown, moved, last,
                  waived, mod, installed, enabled, stored, foreign,
                  disk, proc, streamed, outside>>
packagesRest == <<rows, web, pools, certs, roots, harm, jobs, hist, crontab, mutex,
                  th, invalid, want, runs, raced, apart, rules, pr, shown, moved,
                  last, waived, jail, off, filter, loaded, on, unsure, overlap, lag,
                  disk, proc, streamed, outside>>
filesRest == <<rows, web, pools, certs, roots, req, harm, jobs, hist, crontab,
              mutex, th, invalid, want, runs, raced, apart, rules, active, pr,
              shown, moved, last, waived, jail, off, filter, loaded, on, unsure,
              overlap, lag, mod, installed, enabled, stored, foreign>>

Init ==
    \/ subject = "sites" /\ T!Init /\ jobs = None /\ hist = None /\
       crontab = None /\ mutex = None /\ th = None /\ invalid = None /\
       want = None /\ runs = None /\ raced = None /\ apart = None /\
       faults = None /\ rules = None /\ active = None /\ pr = None /\
       shown = None /\ moved = None /\ last = None /\ waived = None /\
       jail = None /\ off = None /\ filter = None /\ loaded = None /\ on = None /\
       unsure = None /\ overlap = None /\ lag = None /\ mod = None /\
       installed = None /\ enabled = None /\ stored = None /\ foreign = None /\
       disk = None /\ proc = None /\ streamed = None /\ outside = None
    \/ subject = "cron" /\ C!Init /\ rows = None /\ web = None /\ pools = None /\
       certs = None /\ roots = None /\ req = None /\ harm = None /\ rules = None /\
       active = None /\ pr = None /\ shown = None /\ moved = None /\ last = None /\
       waived = None /\ jail = None /\ off = None /\ filter = None /\
       loaded = None /\ on = None /\ unsure = None /\ overlap = None /\
       lag = None /\ mod = None /\ installed = None /\ enabled = None /\
       stored = None /\ foreign = None /\
       disk = None /\ proc = None /\ streamed = None /\ outside = None
    \/ subject = "firewall" /\ W!Init /\ rows = None /\ web = None /\
       pools = None /\ certs = None /\ roots = None /\ req = None /\ harm = None /\
       jobs = None /\ hist = None /\ crontab = None /\ mutex = None /\ th = None /\
       invalid = None /\ want = None /\ runs = None /\ raced = None /\
       apart = None /\ jail = None /\ off = None /\ filter = None /\
       loaded = None /\ on = None /\ unsure = None /\ overlap = None /\
       lag = None /\ mod = None /\ installed = None /\ enabled = None /\
       stored = None /\ foreign = None /\
       disk = None /\ proc = None /\ streamed = None /\ outside = None
    \/ subject = "fail2ban" /\ J!Init /\ rows = None /\ web = None /\
       pools = None /\ certs = None /\ roots = None /\ harm = None /\ jobs = None /\
       hist = None /\ crontab = None /\ mutex = None /\ th = None /\
       invalid = None /\ runs = None /\ apart = None /\ rules = None /\
       active = None /\ pr = None /\ shown = None /\ moved = None /\ last = None /\
       waived = None /\ mod = None /\ installed = None /\ enabled = None /\
       stored = None /\ foreign = None /\
       disk = None /\ proc = None /\ streamed = None /\ outside = None
    \/ subject = "packages" /\ M!Init /\ rows = None /\ web = None /\
       pools = None /\ certs = None /\ roots = None /\ harm = None /\ jobs = None /\
       hist = None /\ crontab = None /\ mutex = None /\ th = None /\
       invalid = None /\ want = None /\ runs = None /\ raced = None /\
       apart = None /\ rules = None /\ pr = None /\ shown = None /\ moved = None /\
       last = None /\ waived = None /\ jail = None /\ off = None /\ filter = None /\
       loaded = None /\ on = None /\ unsure = None /\ overlap = None /\ lag = None /\
       disk = None /\ proc = None /\ streamed = None /\ outside = None
    \/ subject = "files" /\ F!Init /\ rows = None /\ web = None /\ pools = None /\
       certs = None /\ roots = None /\ req = None /\ harm = None /\ jobs = None /\
       hist = None /\ crontab = None /\ mutex = None /\ th = None /\
       invalid = None /\ want = None /\ runs = None /\ raced = None /\
       apart = None /\ rules = None /\ active = None /\ pr = None /\
       shown = None /\ moved = None /\ last = None /\ waived = None /\
       jail = None /\ off = None /\ filter = None /\ loaded = None /\ on = None /\
       unsure = None /\ overlap = None /\ lag = None /\ mod = None /\
       installed = None /\ enabled = None /\ stored = None /\ foreign = None

Next ==
    /\ subject' = subject
    /\ \/ subject = "sites" /\ T!Next /\ UNCHANGED sitesRest
       \/ subject = "cron" /\ C!Next /\ UNCHANGED cronRest
       \/ subject = "firewall" /\ W!Next /\ UNCHANGED firewallRest
       \/ subject = "fail2ban" /\ J!Next /\ UNCHANGED fail2banRest
       \/ subject = "packages" /\ M!Next /\ UNCHANGED packagesRest
       \/ subject = "files" /\ F!Next /\ UNCHANGED filesRest

Spec == Init /\ [][Next]_vars

---------------------------------------------------------------------------

\* Between requests the table and the host agree on every site, and two sites never
\* hold one domain, with two requests at once and any call to the Agent or the
\* database failing (Create, Update, Delete, Enable and Disable of core/site).
\* The exceptions are those the properties of SiteLifecycle name.
SitesAreSound ==
    subject = "sites" => T!TypeOK /\ T!TableMatchesHost /\ T!OneSitePerDomain

\* Whatever went wrong before, a reconciliation without errors leaves every active
\* site served as its row says (ReconcileActive of internal/core/site/reconcile.go).
ReconcileRepairs == subject = "sites" => T!ReconcileRepairs

\* An upload is whole whenever somebody looks, no request of a site touches a
\* file outside of it, and a batch that answered is a prefix of its items applied in
\* order (the Agent's file and archive managers, BatchOperations).
FilesAreSound ==
    subject = "files" => F!TypeOK /\ F!UploadIsWhole /\ F!StaysInSite /\ F!BatchIsPrefix

\* After a change of the cron jobs that was acknowledged, the crontab runs what the
\* store says, and the store holds what the requests asked for, whatever write
\* failed and whatever run of a job was recorded meanwhile (the Agent's cron
\* manager).  The exceptions are those the properties of AgentCron name.
CronIsSound == subject = "cron" => C!TypeOK /\ C!CrontabFollowsStore /\ C!StoreIsAsEdited

\* While the firewall is on the panel's port is reachable, and a rule is removed
\* only if it is the one the request was shown, whose number may have moved since
\* (modules/firewall/module.go and the Agent's ufw manager).  The
\* exceptions are those the properties of Firewall name.
FirewallIsSound ==
    subject = "firewall" => W!TypeOK /\ W!PanelStaysReachable /\ W!RemovesWhatWasShown

\* A preset is as the last acknowledged change left it, and the server runs the
\* files it has, through failed writes, failed restarts and the undo of both
\* (modules/fail2ban/presets.go, preset_api.go).  The exceptions are those the
\* properties of Fail2banPresets name.
JailsAreSound ==
    subject = "fail2ban" => J!TypeOK /\ J!PresetAsAcknowledged /\ J!ServerFollowsFiles

\* What install, uninstall, enable and disable of a module answer is true of the
\* packages and services of the host, and a service a module enabled is enabled for
\* the next boot too (the module.go of each of the ten modules).  The exceptions are
\* those the properties of ModulePackages name.
PackagesAreSound ==
    subject = "packages" => M!TypeOK /\ M!LifecycleIsTrue /\ M!RunningIsEnabled
=============================================================================
