---------------------------- MODULE AllOrNothing ----------------------------
(***************************************************************************)
(* What the operations that replace several files promise to whoever looks *)
(* at the files before and after, never during: an operation installs all  *)
(* of its goal or leaves everything as it found it.  The one way out is a  *)
(* fault, and then the operation says so.  UpdateEngine, BackupRestore and *)
(* NginxConfig are shown to implement this specification.                   *)
(***************************************************************************)
CONSTANTS Cells,        \* what is replaced together
          Contents,     \* what a cell can hold
          NoGoal,
          Shared        \* others write to the cells between operations

VARIABLES content,      \* what the cells hold, as seen between operations
          goal,         \* what the operation in progress is to install
          fault         \* the last operation ended by a fault

aonVars == <<content, goal, fault>>

Holding == [Cells -> Contents]

AONInit ==
    /\ content \in Holding
    /\ goal = NoGoal
    /\ fault = FALSE

Begin ==
    /\ goal = NoGoal
    /\ goal' \in Holding
    /\ fault' = FALSE
    /\ UNCHANGED content

Commit ==
    /\ goal # NoGoal
    /\ goal' = NoGoal
    /\ content' = goal
    /\ UNCHANGED fault

Abort ==
    /\ goal # NoGoal
    /\ goal' = NoGoal
    /\ UNCHANGED <<content, fault>>

Break ==
    /\ goal # NoGoal
    /\ goal' = NoGoal
    /\ content' \in Holding
    /\ fault' = TRUE

Edit ==
    /\ Shared
    /\ goal = NoGoal
    /\ content' \in Holding
    /\ UNCHANGED <<goal, fault>>

AONNext == Edit \/ Begin \/ Commit \/ Abort \/ Break
AONSpec == AONInit /\ [][AONNext]_aonVars
=============================================================================
