----------------------------- MODULE EnginePart -----------------------------
(***************************************************************************)
(* The update engine as the subject of a behaviour of FileParts.           *)
(***************************************************************************)
EXTENDS FileState

E == INSTANCE UpdateEngine

engineRest == <<disk, archives, units, op, edits, ops, req, harm, fault>>

EngineInit ==
    subject = "engine" /\ E!Init /\ disk = None /\ archives = None /\
    units = None /\ op = None /\ edits = None /\ ops = None /\ req = None /\
    harm = None /\ fault = None

EngineNext == subject = "engine" /\ subject' = subject /\ E!Next /\ UNCHANGED engineRest

EngineSpec == EngineInit /\ [][EngineNext]_vars

-----------------------------------------------------------------------------

\* What the update engine reports is what is installed: a transaction that
\* succeeded left the whole verified release, one that rolled back what was there
\* before; a release that succeeded can be undone from a complete snapshot; and
\* the health gate lets only a release pass that the restarted services run
\* (install, restore, Apply and Rollback of internal/update/engine.go).  The
\* exceptions are those the properties of UpdateEngine name.
UpdateIsSound ==
    subject = "engine" =>
        E!TypeOK /\ E!ReportIsTrue /\ E!SucceededCanBeUndone /\ E!PassedGateIsRunning
=============================================================================
