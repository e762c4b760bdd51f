----------------------------- MODULE NginxPart ------------------------------
(***************************************************************************)
(* nginx's configuration as the subject of a behaviour of FileParts.       *)
(***************************************************************************)
EXTENDS FileState

N == INSTANCE NginxConfig

nginxRest == <<live, lock, snaps, history, run, tx, promised, cause, archives,
               units, op, edits>>

NginxInit ==
    subject = "nginx" /\ N!Init /\ live = None /\ lock = None /\ snaps = None /\
    history = None /\ run = None /\ tx = None /\ promised = None /\
    cause = None /\ archives = None /\ units = None /\ op = None /\ edits = None

NginxNext == subject = "nginx" /\ subject' = subject /\ N!Next /\ UNCHANGED nginxRest

NginxSpec == NginxInit /\ [][NginxNext]_vars

-----------------------------------------------------------------------------

\* Once every request is over nginx accepts its configuration and runs the one on
\* disk, although two edits were tested, reloaded and undone at once, up to the
\* faults NginxConfig names: two edits of the same files, a write that half
\* happened, an undo that failed, a crash (modules/nginx/sites.go, settings.go).
NginxIsSound == subject = "nginx" => N!TypeOK /\ N!ConfigurationAccepted /\ N!RunningIsOnDisk
=============================================================================
