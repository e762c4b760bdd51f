---------------------------- MODULE StartupPart ----------------------------
(***************************************************************************)
(* The start of Core as the subject of a behaviour.                        *)
(***************************************************************************)
EXTENDS ProgressState

CONSTANTS Latest, LegacyAt, MaxGens, MaxCrashes, MaxLost

VARIABLES meta, legacy, applied, exists, admin, files, left, gen, clients, pc, at,
          start, backups, reran, torn, hurt, crashes

S == INSTANCE CoreStartup

StartupInit == subject = "startup" /\ S!Init
StartupNext == subject = "startup" /\ subject' = subject /\ S!Next
StartupSpec == StartupInit /\ [][StartupNext]_<<subject, S!vars>>

-----------------------------------------------------------------------------

\* Core serves with a whole schema, an administrator and one set of certificates
\* after whatever crashes, migrates no schema twice or without a backup of it, and
\* keeps the authority its Agents trust, except where CoreStartup says what a crash
\* or a lost file spoils (sqlite.Open, migrations, Ensure of core/pki).
StartsWhole ==
    subject = "startup" => S!TypeOK /\ S!ServingIsWhole /\ S!MigratedOnce
                           /\ S!AgentsStayTrusted /\ S!MigrationIsBackedUp
=============================================================================
