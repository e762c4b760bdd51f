----------------------------- MODULE CoreStartup -----------------------------
(***************************************************************************)
(* How Core comes up: it opens the database (platform/database/sqlite),    *)
(* takes the backup a pending migration asks for, converts or repairs the  *)
(* migration table of early releases and applies the migrations            *)
(* (platform/database/migrations), seeds the first administrator, makes    *)
(* sure of the control plane's certificates (core/pki) and only then       *)
(* serves (core/app/fx.go).  The process may die between any two writes    *)
(* and is started again.                                                   *)
(***************************************************************************)
EXTENDS Naturals, Sequences

CONSTANTS Latest,      \* number of the newest embedded migration
          LegacyAt,    \* versions an early release may have left behind; 0: none
          None,
          MaxGens, MaxCrashes, MaxLost     \* bounds

VARIABLES meta,        \* schema_migrations
          legacy,      \* version preserved in schema_migrations_legacy, 0 if there is none
          applied,     \* external: migrations whose statements are in the schema
          exists,      \* the database file exists
          admin,       \* the users table is not empty
          files,       \* PKI files: generation of their content, or None
          left,        \* PKI files whose .tmp is lying about
          gen,         \* the generation of keys being written
          clients,     \* generations of CA that signed enrolled Agents
          pc, at,      \* where the start is; the file or migration it is at
          start, backups,     \* ghost: schema when the database was opened; snapshots
          reran,       \* ghost: migrations applied to a schema that had them
          torn,        \* ghost: an existing identity was being replaced at a crash
          hurt,        \* ghost: a migration was interrupted
          crashes, lost

vars == <<meta, legacy, applied, exists, admin, files, left, gen, clients, pc, at,
          start, backups, reran, torn, hurt, crashes, lost>>
db   == <<meta, legacy, applied, exists, admin, backups, reran, hurt>>
pki  == <<files, left, gen, clients, torn>>

NoTable   == [form |-> "none", version |-> 0, dirty |-> FALSE]
Legacy(v) == [form |-> "name", version |-> v, dirty |-> FALSE]
Table(v, d) == [form |-> "version", version |-> v, dirty |-> d]

Files == <<"ca", "cakey", "cert", "key">>
FileSet == {"ca", "cakey", "cert", "key"}

-----------------------------------------------------------------------------
(* sqlite.Open *)

\* Mutant: legacy metadata is not counted as pending.
NeedsNewOnly == meta.form = "version" /\ meta.version < Latest

\* Only a table with a version column is compared with the newest migration.
NeedsMigration == meta.form = "name" \/ (meta.form = "version" /\ meta.version < Latest)

Open ==
    /\ pc = "down"
    /\ start' = applied
    /\ exists' = TRUE
    /\ pc' = IF exists /\ NeedsMigration THEN "backup" ELSE "metadata"
    /\ UNCHANGED <<meta, legacy, applied, admin, backups, reran, hurt, at, crashes, lost>> /\ UNCHANGED pki

\* The snapshot of the database; when it fails the start does.
Backup ==
    /\ pc = "backup"
    /\ \/ backups' = backups \cup {applied} /\ pc' = "metadata"
       \/ crashes < MaxCrashes /\ pc' = "down" /\ UNCHANGED backups
    /\ crashes' = IF pc' = "down" THEN crashes + 1 ELSE crashes
    /\ UNCHANGED <<meta, legacy, applied, exists, admin, reran, hurt, at, start, lost>> /\ UNCHANGED pki

\* Mutant: a dirty table is set clean where it stands.
RepairInPlace == Table(meta.version, FALSE)

\* A converted table that is dirty or behind goes back to the legacy version.
repairConvertedMetadata ==
    IF legacy = 0 \/ (meta.version >= legacy /\ ~meta.dirty) THEN meta ELSE Table(legacy, FALSE)

\* The conversion is one transaction; WithInstance then creates a missing table.
migrateLegacyMetadata ==
    /\ pc = "metadata"
    /\ meta' = CASE meta.form = "version" -> repairConvertedMetadata
                 [] meta.form = "name"    -> Table(meta.version, FALSE)
                 [] OTHER                 -> Table(0, FALSE)
    /\ legacy' = IF meta.form = "name" THEN meta.version ELSE legacy
    /\ pc' = "up"
    /\ UNCHANGED <<applied, exists, admin, backups, reran, hurt, at, start, crashes, lost>> /\ UNCHANGED pki

\* migrate.Up: a dirty version stops it; otherwise the next migration is marked.
Up ==
    /\ pc = "up"
    /\ IF meta.dirty THEN pc' = "failed" /\ UNCHANGED <<meta, at>>
       ELSE IF meta.version = Latest THEN pc' = "seed" /\ UNCHANGED <<meta, at>>
       ELSE /\ meta' = Table(meta.version + 1, TRUE)
            /\ at' = meta.version + 1 /\ pc' = "run"
    /\ UNCHANGED <<legacy, applied, exists, admin, backups, reran, hurt, start, crashes, lost>> /\ UNCHANGED pki

\* The statements, in a transaction.  On a schema that has them they fail.
RunMigration ==
    /\ pc = "run"
    /\ IF at \in applied
       THEN reran' = reran \cup {at} /\ pc' = "failed" /\ UNCHANGED applied
       ELSE applied' = applied \cup {at} /\ pc' = "clean" /\ UNCHANGED reran
    /\ UNCHANGED <<meta, legacy, exists, admin, backups, hurt, at, start, crashes, lost>> /\ UNCHANGED pki

Clean ==
    /\ pc = "clean"
    /\ meta' = Table(at, FALSE) /\ pc' = "up"
    /\ UNCHANGED <<legacy, applied, exists, admin, backups, reran, hurt, at, start, crashes, lost>> /\ UNCHANGED pki

\* Mutant: the users are not counted; the name of the administrator is taken.
SeedUncounted ==
    /\ pc = "seed"
    /\ admin' = TRUE /\ pc' = IF admin THEN "failed" ELSE "ensure"
    /\ UNCHANGED <<meta, legacy, applied, exists, backups, reran, hurt, at, start, crashes, lost>>
    /\ UNCHANGED pki

\* SeedAdminIfEmpty, with OD_ADMIN_PASSWORD set as the installer sets it.
seedAdmin ==
    /\ pc = "seed"
    /\ admin' = TRUE /\ pc' = "ensure"
    /\ UNCHANGED <<meta, legacy, applied, exists, backups, reran, hurt, at, start, crashes, lost>>
    /\ UNCHANGED pki

-----------------------------------------------------------------------------
(* pki.Ensure *)

\* Mutant: the authority alone decides.
AllOfTheCA == files["ca"] # None /\ files["cakey"] # None

\* Mutant: the certificates are made anew at every start.
NeverThere == FALSE

allExist == \A f \in FileSet : files[f] # None

\* Keys unlike any in use; generations no file or Agent has any more are numbered anew.
Unused  == (1..MaxGens) \ (clients \cup {files[f] : f \in FileSet})
NewKeys == CHOOSE g \in Unused : TRUE

Ensure ==
    /\ pc = "ensure"
    /\ IF allExist THEN pc' = "serving" /\ UNCHANGED <<gen, at>>
       ELSE Unused # {} /\ gen' = NewKeys /\ at' = 1 /\ pc' = "open"
    /\ UNCHANGED <<files, left, clients, torn, start, crashes, lost>> /\ UNCHANGED db

\* writePEM: the temporary file must not exist, then it is renamed.
OpenPEM ==
    /\ pc = "open"
    /\ IF Files[at] \in left THEN pc' = "failed" /\ UNCHANGED left
       ELSE left' = left \cup {Files[at]} /\ pc' = "rename"
    /\ UNCHANGED <<files, gen, clients, torn, at, start, crashes, lost>> /\ UNCHANGED db

RenamePEM ==
    /\ pc = "rename"
    /\ files' = [files EXCEPT ![Files[at]] = gen]
    /\ left' = left \ {Files[at]}
    /\ IF at = Len(Files) THEN pc' = "serving" /\ UNCHANGED at
       ELSE at' = at + 1 /\ pc' = "open"
    /\ UNCHANGED <<gen, clients, torn, start, crashes, lost>> /\ UNCHANGED db

\* An Agent registers: signed with the CA key, told the CA certificate.
IssueClient ==
    /\ pc = "serving"
    /\ clients' = clients \cup {files["cakey"]}
    /\ UNCHANGED <<files, left, gen, torn, pc, at, start, crashes, lost>> /\ UNCHANGED db

-----------------------------------------------------------------------------

\* The process dies, or is stopped, wherever it is.
Crash ==
    /\ pc # "down" /\ crashes < MaxCrashes
    /\ crashes' = crashes + 1
    /\ pc' = "down"
    /\ torn' = (torn \/ (pc \in {"open", "rename"} /\ lost > 0))
    /\ hurt' = (hurt \/ pc \in {"run", "clean"})
    /\ UNCHANGED <<files, left, gen, clients, at, start, lost,
                   meta, legacy, applied, exists, admin, backups, reran>>

\* systemd starts a process that could not start again.
Retry ==
    /\ pc = "failed"
    /\ pc' = "down"
    /\ UNCHANGED <<at, start, crashes, lost>> /\ UNCHANGED db /\ UNCHANGED pki

\* External: a certificate or key disappears while Core is down.
FileLost ==
    /\ pc = "down" /\ lost < MaxLost
    /\ lost' = lost + 1
    /\ \E f \in FileSet : files[f] # None /\ files' = [files EXCEPT ![f] = None]
    /\ UNCHANGED <<left, gen, clients, torn, pc, at, start, crashes>> /\ UNCHANGED db

\* External: an installation is new, or an early release's, or up to some version.
Init ==
    /\ \/ meta = NoTable /\ applied = {} /\ exists = FALSE
       \/ \E v \in LegacyAt \ {0} : meta = Legacy(v) /\ applied = 1..v /\ exists = TRUE
       \/ \E v \in 1..Latest : meta = Table(v, FALSE) /\ applied = 1..v /\ exists = TRUE
    /\ admin = exists
    /\ legacy = 0 /\ files = [f \in FileSet |-> None] /\ left = {} /\ gen = 0 /\ clients = {}
    /\ pc = "down" /\ at = 0 /\ start = applied /\ backups = {} /\ reran = {}
    /\ torn = FALSE /\ hurt = FALSE /\ crashes = 0 /\ lost = 0

Advance == Open \/ Backup \/ migrateLegacyMetadata \/ Up \/ RunMigration \/ Clean \/ seedAdmin
           \/ Ensure \/ OpenPEM \/ RenamePEM \/ Retry

Next == Advance \/ IssueClient \/ Crash \/ FileLost

\* The start-up is sequential code, and systemd restarts the service.
Spec == Init /\ [][Next]_vars /\ WF_vars(Advance)

-----------------------------------------------------------------------------

TypeOK ==
    /\ meta.version \in 0..Latest /\ meta.dirty \in BOOLEAN /\ legacy \in LegacyAt \cup {0}
    /\ applied \subseteq 1..Latest /\ left \subseteq FileSet
    /\ \A f \in FileSet : files[f] = None \/ files[f] \in Nat

\* Core serves with every migration in the schema, an administrator and one
\* matching set of certificates and keys, after whatever crashes: what a crash may
\* spoil is a set that was being replaced because one of its files was lost.
ServingIsWhole ==
    pc = "serving" =>
        /\ applied = 1..Latest /\ ~meta.dirty /\ admin
        /\ torn \/ \A f, g \in FileSet : files[f] = files[g]

\* A migration is never applied to a schema that already has it, except where a
\* converted table was found dirty and taken back to the legacy version.
MigratedOnce == reran # {} => legacy # 0 /\ hurt

\* Agents that enrolled are still signed by the authority in force, unless a file
\* of it was lost.
AgentsStayTrusted == lost = 0 => \A c \in clients : files["ca"] = c

\* "An existing SQLite database is backed up before an embedded schema migration
\* is applied" (BACKUP_RECOVERY.md): also by the start that finds a converted table
\* dirty at the newest version, takes it back and migrates without a backup of its
\* own, because the interrupted start made one of the same schema.
MigrationIsBackedUp == pc = "clean" /\ start # {} => start \in backups

Blocked == left # {} \/ hurt

\* Where a start ends: Core serves, unless a crash left a temporary certificate
\* file or a half-recorded migration behind.
Started == pc = "serving" \/ Blocked
=============================================================================
