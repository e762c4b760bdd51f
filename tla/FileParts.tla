----------------------------- MODULE FileParts ------------------------------
(***************************************************************************)
(* The parts that replace several files as one, together: a behaviour is   *)
(* of the update engine, of backup and restore, or of nginx.               *)
(***************************************************************************)
EXTENDS EnginePart, BackupPart, NginxPart

Init == EngineInit \/ BackupInit \/ NginxInit
Next == EngineNext \/ BackupNext \/ NginxNext
Spec == Init /\ [][Next]_vars

-----------------------------------------------------------------------------

\* Updates, restores and edits of nginx's files implement AllOrNothing: seen
\* between operations, everything that belongs together was replaced or is what it
\* was, except after a fault the component names (Apply, Restore, ApplySite).
AllOrNothing ==
    /\ subject = "engine" => E!Transaction!AONInit
    /\ subject = "backup" => B!Transaction!AONInit
    /\ subject = "nginx" => \A g \in N!Groups : N!Transaction(g)!AONInit
    /\ [][/\ subject = "engine" => [E!Transaction!AONNext]_(E!Transaction!aonVars)
          /\ subject = "backup" => [B!Transaction!AONNext]_(B!Transaction!aonVars)
          /\ subject = "nginx" => \A g \in N!Groups :
                [N!Transaction(g)!AONNext]_(N!Transaction(g)!aonVars)]_vars
=============================================================================
