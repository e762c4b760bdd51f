---------------------------- MODULE MCModuleJobs ----------------------------
EXTENDS ModuleJobs, TLC

\* Bound: a second job is a retry, and runs without a crash, a loader or another
\* lifecycle request beside it.
RetryApart ==
    \A j \in Jobs : row[j].state # "none" /\ j > 1 =>
        /\ row[j].kind \in {"retryInstall", "retryUninstall"}
        /\ \A r \in Reqs : req[r].pc = "idle"
        /\ \A m \in Modules : sync[m].pc = "idle"
        /\ crashes = 0
=============================================================================
