----------------------------- MODULE NginxConfig -----------------------------
(***************************************************************************)
(* The guarded edits of the nginx configuration: ApplySite for a vhost     *)
(* (modules/nginx/sites.go, and internal/agent/nginxsite/manager.go when   *)
(* the server is remote), SaveSettings for nginx.conf and the managed      *)
(* settings file (settings.go), saveConfigurationFile for any one file     *)
(* (configuration.go) and a plain reload.  Each one reads snapshots,       *)
(* writes, asks `nginx -t`, reloads, and on a failure puts its snapshots   *)
(* back.  Nothing serialises them: `nginx -t` and the reload see the files *)
(* of every operation in progress.                                         *)
(***************************************************************************)
EXTENDS Naturals, Sequences, FiniteSets

CONSTANTS Procs,      \* requests that may be in progress together
          Domains,
          Good, Bad,  \* contents nginx accepts, and does not
          Absent, Cut,\* no file; what an interrupted FileCopy leaves
          None,
          MaxOps      \* bound on the operations of a behaviour

VARIABLES disk,       \* the configuration files
          running,    \* the loaded files as nginx last read them
          req,        \* per process, the operation it executes
          harm,       \* ghost: per group of files, what was ever done to it
          fault,      \* ghost: per group, the last operation ended by a fault
          ops         \* ghost: operations begun

vars == <<disk, running, req, harm, fault, ops>>

Content == Good \cup Bad \cup {Absent, Cut}
Main    == <<"main", None>>
Managed == <<"managed", None>>
Conf(d) == <<"conf", d>>     \* sites-available, which nginx does not read
Live(d) == <<"live", d>>     \* sites-enabled
Groups  == Domains \cup {None}
Files(g) == IF g = None THEN {Main, Managed} ELSE {Conf(g), Live(g)}
Cells   == UNION {Files(g) : g \in Groups}
Loaded  == {c \in Cells : c[1] # "conf"}

Idle(p) == req[p] = None
At(p, pc) == ~Idle(p) /\ req[p].pc = pc
Active(g) == {p \in Procs : ~Idle(p) /\ req[p].group = g /\ req[p].writes # <<>>}

\* nginx -t reads every loaded file, whoever wrote it.
Accepted == \A c \in Loaded : disk[c] \notin Bad \cup {Cut}

-----------------------------------------------------------------------------
(* The operations: the files each one writes, in order, with what. *)

Put(c, v)  == [cell |-> c, to |-> v, how |-> "write"]
Copy(c, v) == [cell |-> c, to |-> v, how |-> "copy"]
Remove(c)  == [cell |-> c, to |-> Absent, how |-> "delete"]

Operation(kind, g, writes, again) ==
    [kind |-> kind, group |-> g, writes |-> writes, again |-> again]

ApplySite(d) ==
    {Operation("upsert", d, <<Put(Conf(d), v), Put(Live(d), v)>>, FALSE) : v \in Good \cup Bad}
    \cup {Operation("disable", d, <<Remove(Live(d))>>, FALSE),
          Operation("delete", d, <<Remove(Live(d)), Remove(Conf(d))>>, FALSE)}
    \cup {Operation("enable", d, <<Copy(Live(d), disk[Conf(d)])>>, FALSE) :
            x \in {y \in {1} : disk[Conf(d)] # Absent}}

\* On a remote server the Agent enables a vhost with a whole-file write, and
\* always restores both files.
AgentApply(d) ==
    {Operation("enable", d, <<Put(Live(d), disk[Conf(d)])>>, FALSE) :
        x \in {y \in {1} : disk[Conf(d)] # Absent}}
    \cup {Operation("agent-disable", d, <<Remove(Live(d))>>, FALSE)}

SaveSettings ==
    {Operation("settings", None, <<Put(Main, v), Put(Managed, w)>>, TRUE) :
        v \in Good, w \in Good \cup Bad}

saveConfigurationFile(c, g) ==
    {Operation("edit", g, <<Put(c, v)>>, TRUE) : v \in {w \in Good \cup Bad : disk[c] # Absent}}

Reloads == {Operation("reload", None, <<>>, FALSE)}

\* The grid of the module's pages and the site service reach the same operations.
Action ==
    UNION {ApplySite(d) \cup AgentApply(d) \cup saveConfigurationFile(Conf(d), d) : d \in Domains}
    \cup SaveSettings \cup saveConfigurationFile(Main, None)
    \cup saveConfigurationFile(Managed, None) \cup Reloads

\* Mutant: the snapshot of the file that is written first is not kept.
SavedButFirst(o) == {o.writes[i].cell : i \in 2..Len(o.writes)}

\* The files whose snapshot is put back when the test or the reload fails.
Saved(o) ==
    IF o.kind \in {"enable", "agent-disable"} THEN Files(o.group)
    ELSE {o.writes[i].cell : i \in 1..Len(o.writes)}

\* Mutant: a failed write undoes nothing.
UndoneByNone(o, i) == {}

\* What is put back when write i fails: the first file, when the second fails.
UndoneBy(o, i) == IF i = 2 THEN {o.writes[1].cell} ELSE {}

-----------------------------------------------------------------------------

Harm(g, what) == harm' = [harm EXCEPT ![g] = @ \cup what]

\* readSnapshot: the files as they are when the operation starts.
Begin(p, o) ==
    /\ Idle(p) /\ ops < MaxOps
    /\ ops' = ops + 1
    /\ req' = [req EXCEPT ![p] =
          [kind |-> o.kind, group |-> o.group, writes |-> o.writes, again |-> o.again,
           pc |-> IF o.writes = <<>> THEN "test" ELSE "write", i |-> 1,
           saved |-> [c \in Files(o.group) |-> disk[c]], undo |-> {}]]
    /\ IF o.writes # <<>> /\ Active(o.group) # {}
       THEN Harm(o.group, {"overlap"}) /\ fault' = [fault EXCEPT ![o.group] = TRUE]
       ELSE /\ UNCHANGED harm
            /\ fault' = [fault EXCEPT ![o.group] = o.writes = <<>> /\ @]
    /\ UNCHANGED <<disk, running>>

WriteOne(p) ==
    /\ At(p, "write")
    /\ LET w == req[p].writes[req[p].i]
       IN disk' = [disk EXCEPT ![w.cell] = w.to]
    /\ req' = [req EXCEPT ![p].i = @ + 1,
                          ![p].pc = IF req[p].i = Len(req[p].writes) THEN "test" ELSE "write"]
    /\ UNCHANGED <<running, harm, fault, ops>>

\* A write that fails may still have replaced the file (its directory is synced
\* after the rename); a FileCopy truncates its target first.
Leftovers(w) ==
    {disk[w.cell]} \cup CASE w.how = "write"  -> {w.to}
                          [] w.how = "copy"   -> {Cut}
                          [] w.how = "delete" -> {}

WriteFails(p) ==
    /\ At(p, "write")
    /\ LET w == req[p].writes[req[p].i] IN
       \E left \in Leftovers(w) :
          /\ disk' = [disk EXCEPT ![w.cell] = left]
          /\ IF left # disk[w.cell]
             THEN Harm(req[p].group, {"half"}) /\ fault' = [fault EXCEPT ![req[p].group] = TRUE]
             ELSE UNCHANGED <<harm, fault>>
    /\ req' = [req EXCEPT ![p].pc = "undo", ![p].undo = UndoneBy(req[p], req[p].i),
                          ![p].again = FALSE]
    /\ UNCHANGED <<running, ops>>

Test(p) ==
    /\ At(p, "test")
    /\ req' = IF Accepted THEN [req EXCEPT ![p].pc = "reload"]
              ELSE [req EXCEPT ![p].pc = "undo", ![p].undo = Saved(req[p])]
    /\ UNCHANGED <<disk, running, harm, fault, ops>>

\* The test could not be run, or the reload failed.
GateFails(p) ==
    /\ At(p, "test") \/ At(p, "reload")
    /\ req' = [req EXCEPT ![p].pc = "undo", ![p].undo = Saved(req[p])]
    /\ UNCHANGED <<disk, running, harm, fault, ops>>

\* nginx re-reads every loaded file; those of an operation still in progress with it.
Loads(p) ==
    /\ Accepted
    /\ running' = [c \in Loaded |-> disk[c]]
    /\ harm' = [g \in Groups |->
                  harm[g] \cup (IF Active(g) \subseteq {p} THEN {} ELSE {"loaded"})]

Reload(p) ==
    /\ At(p, "reload")
    /\ Loads(p)
    /\ req' = [req EXCEPT ![p] = None]
    /\ UNCHANGED <<disk, fault, ops>>

\* Mutant: a file that did not exist before is left in place.
RestoreExisting(p, c) ==
    disk' = [disk EXCEPT ![c] = IF req[p].saved[c] = Absent THEN @ ELSE req[p].saved[c]]

restoreSnapshot(p, c) == disk' = [disk EXCEPT ![c] = req[p].saved[c]]

Restore(p) ==
    /\ At(p, "undo")
    /\ \E c \in req[p].undo :
         /\ restoreSnapshot(p, c)
         /\ req' = [req EXCEPT ![p].undo = @ \ {c}]
    /\ UNCHANGED <<running, harm, fault, ops>>

\* The errors of restoreSnapshot are dropped.
RestoreFails(p) ==
    /\ At(p, "undo")
    /\ \E c \in req[p].undo : req' = [req EXCEPT ![p].undo = @ \ {c}]
    /\ Harm(req[p].group, {"undo"})
    /\ fault' = [fault EXCEPT ![req[p].group] = TRUE]
    /\ UNCHANGED <<disk, running, ops>>

\* SaveSettings and saveConfigurationFile reload once more, which may fail too;
\* ApplySite does not.
Finish(p) ==
    /\ At(p, "undo") /\ req[p].undo = {}
    /\ req' = [req EXCEPT ![p] = None]
    /\ \/ req[p].again /\ Loads(p)
       \/ UNCHANGED <<running, harm>>
    /\ UNCHANGED <<disk, fault, ops>>

Crash ==
    /\ \E p \in Procs : ~Idle(p)
    /\ req' = [p \in Procs |-> None]
    /\ harm' = [g \in Groups |-> harm[g] \cup (IF Active(g) # {} THEN {"crash"} ELSE {})]
    /\ fault' = [g \in Groups |-> Active(g) # {} \/ fault[g]]
    /\ UNCHANGED <<disk, running, ops>>

-----------------------------------------------------------------------------

\* nginx as installed, with every vhost missing, disabled or enabled.
Init ==
    /\ \E v \in Good, conf, live \in {Absent} \cup Good :
         /\ live \in {Absent, conf}
         /\ disk = [c \in Cells |-> CASE c = Main    -> v
                                     [] c = Managed -> Absent
                                     [] c[1] = "conf" -> conf
                                     [] OTHER       -> live]
    /\ running = [c \in Loaded |-> disk[c]]
    /\ req = [p \in Procs |-> None]
    /\ harm = [g \in Groups |-> {}]
    /\ fault = [g \in Groups |-> FALSE]
    /\ ops = 0

Next ==
    \/ \E p \in Procs :
         \/ \E o \in Action : Begin(p, o)
         \/ WriteOne(p) \/ WriteFails(p) \/ Test(p) \/ GateFails(p) \/ Reload(p)
         \/ Restore(p) \/ RestoreFails(p) \/ Finish(p)
    \/ Crash

Spec == Init /\ [][Next]_vars

-----------------------------------------------------------------------------

Quiet == \A p \in Procs : Idle(p)

TypeOK ==
    /\ disk \in [Cells -> Content] /\ running \in [Loaded -> Content]
    /\ \A p \in Procs : ~Idle(p) => req[p].pc \in {"write", "test", "reload", "undo"}
    /\ \A g \in Groups : harm[g] \subseteq {"overlap", "half", "undo", "crash", "loaded"}

\* Once every request is over nginx accepts its configuration, although operations
\* on other files were tested, reloaded and undone in between; the ways to lose it
\* are the four faults: two operations on the same files, a write that half
\* happened, an undo that failed, a crash.
ConfigurationAccepted ==
    Quiet /\ (\A g \in Groups : harm[g] \subseteq {"loaded"}) => Accepted

\* Once every request is over nginx runs what the files say.  The one way besides
\* the four faults is a reload by another request in the middle of an operation
\* that then undoes its files: ApplySite does not reload after restoreSnapshot.
RunningIsOnDisk ==
    Quiet /\ (\A g \in Groups : harm[g] = {}) => \A c \in Loaded : running[c] = disk[c]

Alone(g) == Cardinality(Active(g)) = 1 /\ ~fault[g]
Only(g)  == req[CHOOSE p \in Active(g) : TRUE]
Goal(o)  == [c \in Files(o.group) |->
               IF \E i \in 1..Len(o.writes) : o.writes[i].cell = c
               THEN o.writes[CHOOSE i \in 1..Len(o.writes) : o.writes[i].cell = c].to
               ELSE o.saved[c]]

\* The refinement of AllOrNothing for the files of one group, as seen while no
\* request works on them.
Transaction(g) == INSTANCE AllOrNothing WITH
    Cells    <- Files(g),
    Contents <- Content,
    NoGoal   <- None,
    Shared   <- TRUE,
    content  <- IF Alone(g) THEN Only(g).saved ELSE [c \in Files(g) |-> disk[c]],
    goal     <- IF Alone(g) THEN Goal(Only(g)) ELSE None,
    fault    <- fault[g]
=============================================================================
