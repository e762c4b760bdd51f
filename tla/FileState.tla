----------------------------- MODULE FileState ------------------------------
(***************************************************************************)
(* The state of the parts that replace several files as one: the update    *)
(* engine, backup and restore, and nginx's configuration.  They share      *)
(* no state here, so a behaviour is of one of them, the subject, and the   *)
(* variables of the others stay None.                                      *)
(***************************************************************************)
EXTENDS Naturals, Sequences, FiniteSets

CONSTANTS Procs,                        \* runs of the updater, or requests
          Installed, Tags,              \* UpdateEngine
          Count, Source, Required,      \* BackupRestore: its N, its sources
          Brought, Odd,
          Domains, Good, Bad,           \* NginxConfig
          Values, Absent, Cut, None,
          MaxTx, MaxEdits, MaxOps       \* bounds

VARIABLES subject,  \* the component of this behaviour
          live, running, lock, snaps, history, run, tx, promised, cause, disk,
          archives, units, op, edits, ops, req, harm, fault

vars == <<subject, live, running, lock, snaps, history, run, tx, promised, cause,
          disk, archives, units, op, edits, ops, req, harm, fault>>
=============================================================================
