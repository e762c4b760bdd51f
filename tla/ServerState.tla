---------------------------- MODULE ServerState -----------------------------
(***************************************************************************)
(* What the parts of Core that a browser or a remote machine talks to have *)
(* in common when they are put together: a behaviour is of one of them,    *)
(* the subject.                                                            *)
(***************************************************************************)
EXTENDS Naturals, Sequences, FiniteSets

CONSTANTS None, MaxFaults

VARIABLES subject,  \* the component of this behaviour
          faults
=============================================================================
