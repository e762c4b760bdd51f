-------------------------- MODULE Fail2banPresets --------------------------
(***************************************************************************)
(* The protection presets of the Fail2Ban module                           *)
(* (modules/fail2ban/presets.go, preset_api.go and the ban action of       *)
(* module.go; internal/core/module/dynamic.go passes the requests on).     *)
(*                                                                         *)
(* A preset is a jail file, its copy named ".disabled" while the preset is *)
(* off, and a filter file.  Saving, resetting, switching on and switching  *)
(* off take a snapshot, write, let fail2ban-server test the files, restart *)
(* it and enable it at boot; every failure restores the snapshot.  A       *)
(* snapshot whose read fails counts as "the file did not exist".           *)
(*                                                                         *)
(* A setting is a record of two keys, of which a save sends one: the other *)
(* comes from the file.  Each Agent call is a step, except that the two    *)
(* snapshots and the two restores are one: the filter has one content, so  *)
(* nothing can be told apart between them.                                 *)
(***************************************************************************)
EXTENDS Naturals

CONSTANTS Presets,    \* presets with settings
          Manual,     \* the preset behind the "block permanently" action
          Procs, Absent, Down, None,
          MaxOps,     \* bound: requests in a behaviour
          MaxFaults   \* bound: failed Agent calls in a behaviour

VARIABLES jail, off, filter,   \* the files of each preset
          loaded,     \* jails the server has loaded, or Down
          req,        \* request of each process
          want, on,   \* ghosts: settings and switch as last acknowledged
          raced,      \* ghost: presets two requests worked on at once
          unsure,     \* ghost: presets with a misread or a failed restore
          overlap,    \* ghost: two requests were in progress at once
          lag,        \* ghost: saved without reload, or the undo's restart failed
          ops, faults

files == <<jail, off, filter>>
ghosts == <<want, on, raced, unsure, overlap, lag>>
vars == <<files, loaded, req, ghosts, ops, faults>>

All == Presets \cup {Manual}
Settings == [a : {0, 1}, b : {0, 1}]
jailContent == [a |-> 0, b |-> 0]
Rejected == {[a |-> 1, b |-> 1]}     \* settings the server's own test refuses

Idle == [op |-> None, id |-> None, at |-> "idle"]

TypeOK ==
    /\ \A i \in All : /\ jail[i] \in Settings \cup {Absent} /\ off[i] \in Settings \cup {Absent}
                      /\ filter[i] \in {"current", "old", Absent}
                      /\ want[i] \in Settings /\ on[i] \in BOOLEAN
    /\ raced \subseteq All /\ unsure \subseteq All
    /\ ops \in 0..MaxOps /\ faults \in 0..MaxFaults

Init ==
    /\ jail = [i \in All |-> Absent] /\ off = jail
    /\ filter \in [All -> {"old", Absent}]
    /\ loaded = jail
    /\ req = [p \in Procs |-> Idle]
    /\ want = [i \in All |-> jailContent] /\ on = [i \in All |-> FALSE]
    /\ raced = {} /\ unsure = {} /\ overlap = FALSE /\ lag = FALSE
    /\ ops = 0 /\ faults = 0

Fault == faults < MaxFaults /\ faults' = faults + 1
At(p, label) == req[p].at = label
Goto(p, label) == req' = [req EXCEPT ![p].at = label]

-----------------------------------------------------------------------------
(* Requests.                                                               *)

Busy(p) == req[p].at # "idle"

Begin(p, r) ==
    /\ ops < MaxOps /\ ~Busy(p)
    /\ ops' = ops + 1
    /\ req' = [req EXCEPT ![p] = r]
    /\ raced' = IF \E q \in Procs \ {p} : Busy(q) /\ req[q].id = r.id
                  THEN raced \cup {r.id} ELSE raced
    /\ overlap' = (overlap \/ \E q \in Procs \ {p} : Busy(q))
    /\ UNCHANGED <<files, loaded, want, on, unsure, lag, faults>>

Request(op, i, label) == [op |-> op, id |-> i, at |-> label, key |-> None, val |-> None, auto |-> TRUE,
                          target |-> "jail", content |-> jailContent, reload |-> TRUE, snap |-> None]

SaveProtectionPreset(p) ==
    \E i \in Presets, k \in {"a", "b"}, v \in {0, 1}, auto \in BOOLEAN :
       Begin(p, [Request("save", i, "current") EXCEPT !.key = k, !.val = v, !.auto = auto])

ResetProtectionPreset(p) == \E i \in Presets : Begin(p, Request("reset", i, "current"))

SetProtectionPresetEnabled(p) ==
    \E i \in Presets, op \in {"enable", "disable"} : Begin(p, Request(op, i, "current"))

\* The module's disable actions skip the comparison with the present state.
DisableAction(p) == \E i \in Presets : Begin(p, Request("disable", i, "keep"))

\* ban_permanently brings its jail up to date before it bans.
presetNeedsUpdate == jail[Manual] # jailContent \/ filter[Manual] # "current"

BanPermanently(p) == presetNeedsUpdate /\ Begin(p, Request("manual", Manual, "snapshot"))

\* The request is over.  The ghosts follow what was acknowledged.
Return(p, ok) ==
    /\ req' = [req EXCEPT ![p] = Idle]
    /\ LET r == req[p] IN
       IF ~ok THEN UNCHANGED <<want, on>>
       ELSE /\ want' = CASE r.op = "save" -> [want EXCEPT ![r.id][r.key] = r.val]
                         [] r.op = "reset" -> [want EXCEPT ![r.id] = jailContent]
                         [] OTHER -> want
            /\ on' = CASE r.op \in {"enable", "manual"} -> [on EXCEPT ![r.id] = TRUE]
                       [] r.op = "disable" -> [on EXCEPT ![r.id] = FALSE]
                       [] OTHER -> on

\* Mutant: the keys that were not sent come from the shipped defaults.
FromDefaults(current, r) ==
    IF r.op = "save" THEN [jailContent EXCEPT ![r.key] = r.val] ELSE current

\* normalizedPresetSettings: the present settings, overridden by the input.
normalizedPresetSettings(current, r) ==
    IF r.op = "save" THEN [current EXCEPT ![r.key] = r.val] ELSE current

\* currentPreset, and what the operation makes of it.
Decide(p, current, enabled) ==
    LET r == req[p] IN
    \/ /\ r.op \in {"enable", "disable"} /\ (r.op = "enable") = enabled
       /\ Return(p, TRUE)
    \/ /\ r.op = "disable" /\ enabled
       /\ Goto(p, "keep") /\ UNCHANGED <<want, on>>
    \/ /\ r.op \in {"save", "reset"} \/ (r.op = "enable" /\ ~enabled)
       /\ req' = [req EXCEPT ![p] = [r EXCEPT
                    !.at = "snapshot",
                    !.target = IF r.op = "enable" \/ enabled THEN "jail" ELSE "off",
                    !.content = IF r.op = "reset" THEN jailContent
                                ELSE normalizedPresetSettings(current, r),
                    !.reload = (r.op = "enable" \/ enabled)]]
       /\ UNCHANGED <<want, on>>

ReadJail(p) ==
    /\ At(p, "current")
    /\ LET i == req[p].id IN
       \/ /\ jail[i] # Absent /\ Decide(p, jail[i], TRUE)
          /\ UNCHANGED <<unsure, faults>>
       \/ /\ jail[i] = Absent /\ Goto(p, "copy")
          /\ UNCHANGED <<want, on, unsure, faults>>
       \/ /\ jail[i] # Absent /\ Fault /\ unsure' = unsure \cup {i} /\ Goto(p, "copy")
          /\ UNCHANGED <<want, on>>
    /\ UNCHANGED <<files, loaded, raced, overlap, lag, ops>>

ReadDisabled(p) ==
    /\ At(p, "copy")
    /\ LET i == req[p].id IN
       \/ /\ Decide(p, IF off[i] = Absent THEN jailContent ELSE off[i], FALSE)
          /\ UNCHANGED <<unsure, faults>>
       \/ /\ off[i] # Absent /\ Fault /\ unsure' = unsure \cup {i}
          /\ Decide(p, jailContent, FALSE)
    /\ UNCHANGED <<files, loaded, raced, overlap, lag, ops>>

-----------------------------------------------------------------------------
(* applyPresetFiles and enableProtectionPreset of the manual preset.       *)

Content(target, i) == IF target = "jail" THEN jail[i] ELSE off[i]

\* Mutant: the snapshot of the jail is what is about to be written.
SnapshotOfNew(r) == [jail |-> r.content, filter |-> filter[r.id]]

snapshotConfig(r) == [jail |-> Content(r.target, r.id), filter |-> filter[r.id]]

Snapshot(p) ==
    /\ At(p, "snapshot")
    /\ LET r == req[p] s == snapshotConfig(r) IN
       \/ /\ req' = [req EXCEPT ![p].snap = s, ![p].at = "filter"]
          /\ UNCHANGED <<unsure, faults>>
       \/ /\ Fault /\ unsure' = unsure \cup {r.id}
          /\ req' = [req EXCEPT ![p].snap = [s EXCEPT !.jail = Absent], ![p].at = "filter"]
    /\ UNCHANGED <<files, loaded, want, on, raced, overlap, lag, ops>>

WriteFilter(p) ==
    /\ At(p, "filter")
    /\ \/ /\ filter' = [filter EXCEPT ![req[p].id] = "current"]
          /\ Goto(p, "write") /\ UNCHANGED <<want, on, faults>>
       \/ Fault /\ Return(p, FALSE) /\ UNCHANGED filter
    /\ UNCHANGED <<jail, off, loaded, raced, unsure, overlap, lag, ops>>

Put(target, i, content) ==
    IF target = "jail" THEN jail' = [jail EXCEPT ![i] = content] /\ UNCHANGED off
                       ELSE off' = [off EXCEPT ![i] = content] /\ UNCHANGED jail

\* A jail that cannot be written restores the filter only.
WriteJail(p) ==
    /\ At(p, "write")
    /\ LET r == req[p] IN
       \/ /\ Put(r.target, r.id, r.content)
          /\ IF r.reload
               THEN Goto(p, IF r.op = "manual" THEN "restart" ELSE "test") /\ UNCHANGED <<want, on>>
               ELSE Return(p, TRUE)
          /\ UNCHANGED <<filter, faults>>
       \/ /\ Fault /\ Return(p, FALSE)
          /\ filter' = [filter EXCEPT ![r.id] = r.snap.filter]
          /\ UNCHANGED <<jail, off>>
    /\ UNCHANGED <<loaded, raced, unsure, overlap, lag, ops>>

\* fail2ban-server -t, and the server's start: external.
Acceptable == \A i \in All : jail[i] # Absent => jail[i] \notin Rejected /\ filter[i] # Absent

Test(p) ==
    /\ At(p, "test")
    /\ \/ Acceptable /\ Goto(p, IF req[p].auto THEN "restart" ELSE "boot") /\ UNCHANGED faults
       \/ ~Acceptable /\ Goto(p, "undoOnly") /\ UNCHANGED faults
       \/ Acceptable /\ Fault /\ Goto(p, "undoOnly")
    /\ UNCHANGED <<files, loaded, ghosts, ops>>

\* The result of restarting the server now.
Restarted == loaded' = IF Acceptable THEN jail ELSE Down

Restart(p) ==
    /\ At(p, "restart")
    /\ \/ /\ Acceptable /\ Restarted /\ Goto(p, "boot")
          /\ lag' = FALSE /\ UNCHANGED faults
       \/ /\ ~Acceptable /\ Restarted /\ Goto(p, "undo") /\ UNCHANGED <<lag, faults>>
       \/ /\ Acceptable /\ Fault /\ Goto(p, "undo") /\ UNCHANGED <<loaded, lag>>
    /\ UNCHANGED <<files, want, on, raced, unsure, overlap, ops>>

EnableAtBoot(p) ==
    /\ At(p, "boot")
    /\ \/ /\ Return(p, TRUE) /\ UNCHANGED faults
          /\ lag' = (lag \/ ~req[p].auto)
       \/ Fault /\ Goto(p, "undo") /\ UNCHANGED <<want, on, lag>>
    /\ UNCHANGED <<files, loaded, raced, unsure, overlap, ops>>

\* Mutant: the files are restored but the server keeps what it has loaded.
NoRestart(p) == UNCHANGED <<loaded, lag, faults>>

\* The restart that ends an undo; its error is dropped.
RestartAfterUndo(p) ==
    \/ /\ loaded' = IF \A i \in All : jail'[i] # Absent => jail'[i] \notin Rejected /\ filter'[i] # Absent
                      THEN jail' ELSE Down
       /\ lag' = FALSE /\ UNCHANGED faults
    \/ Fault /\ lag' = TRUE /\ UNCHANGED loaded

\* Both files are restored; a restore's error is dropped too.
Undo(p) ==
    /\ At(p, "undo") \/ At(p, "undoOnly")
    /\ LET r == req[p] IN
       /\ filter' = [filter EXCEPT ![r.id] = r.snap.filter]
       /\ Put(r.target, r.id, r.snap.jail)
    /\ IF At(p, "undo") THEN RestartAfterUndo(p) ELSE UNCHANGED <<loaded, lag, faults>>
    /\ Return(p, FALSE)
    /\ UNCHANGED <<raced, unsure, overlap, ops>>

RestoreFails(p) ==
    /\ At(p, "undo") \/ At(p, "undoOnly")
    /\ Fault /\ unsure' = unsure \cup {req[p].id} /\ lag' = TRUE
    /\ Return(p, FALSE)
    /\ UNCHANGED <<files, loaded, raced, overlap, ops>>

-----------------------------------------------------------------------------
(* disableProtectionPreset.                                                *)

\* The jail's settings move to the copy.
Kept(i) == IF jail[i] = Absent THEN off ELSE [off EXCEPT ![i] = jail[i]]

Keep(p) ==
    /\ At(p, "keep")
    /\ LET i == req[p].id IN
       \/ /\ off' = Kept(i)
          /\ req' = [req EXCEPT ![p].snap = [jail |-> jail[i], off |-> off[i]], ![p].at = "delete"]
          /\ UNCHANGED <<want, on, unsure, faults>>
       \/ /\ jail[i] # Absent /\ Fault      \* the jail cannot be read
          /\ req' = [req EXCEPT ![p].snap = [jail |-> Absent, off |-> off[i]], ![p].at = "delete"]
          /\ unsure' = unsure \cup {i} /\ UNCHANGED <<off, want, on>>
       \/ jail[i] # Absent /\ Fault /\ Return(p, FALSE) /\ UNCHANGED <<off, unsure>>
    /\ UNCHANGED <<jail, filter, loaded, raced, overlap, lag, ops>>

DeleteJail(p) ==
    /\ At(p, "delete")
    /\ LET r == req[p] IN
       \/ /\ jail' = [jail EXCEPT ![r.id] = Absent]
          /\ Goto(p, "stop") /\ UNCHANGED <<off, want, on, faults>>
       \/ /\ Fault /\ off' = [off EXCEPT ![r.id] = r.snap.off]
          /\ Return(p, FALSE) /\ UNCHANGED jail
    /\ UNCHANGED <<filter, loaded, raced, unsure, overlap, lag, ops>>

RestartWithout(p) ==
    /\ At(p, "stop")
    /\ \/ /\ Acceptable /\ Restarted /\ lag' = FALSE
          /\ Return(p, TRUE) /\ UNCHANGED faults
       \/ /\ ~Acceptable /\ Restarted /\ Goto(p, "undoStop")
          /\ UNCHANGED <<want, on, lag, faults>>
       \/ Acceptable /\ Fault /\ Goto(p, "undoStop") /\ UNCHANGED <<loaded, want, on, lag>>
    /\ UNCHANGED <<files, raced, unsure, overlap, ops>>

UndoDisable(p) ==
    /\ At(p, "undoStop")
    /\ LET r == req[p] IN
       /\ jail' = [jail EXCEPT ![r.id] = r.snap.jail]
       /\ off' = [off EXCEPT ![r.id] = r.snap.off]
    /\ UNCHANGED filter
    /\ RestartAfterUndo(p)
    /\ Return(p, FALSE)
    /\ UNCHANGED <<raced, unsure, overlap, ops>>

Next == \E p \in Procs :
    \/ SaveProtectionPreset(p) \/ ResetProtectionPreset(p) \/ SetProtectionPresetEnabled(p)
    \/ DisableAction(p) \/ BanPermanently(p)
    \/ ReadJail(p) \/ ReadDisabled(p) \/ Snapshot(p) \/ WriteFilter(p) \/ WriteJail(p)
    \/ Test(p) \/ Restart(p) \/ EnableAtBoot(p) \/ Undo(p) \/ RestoreFails(p)
    \/ Keep(p) \/ DeleteJail(p) \/ RestartWithout(p) \/ UndoDisable(p)

Spec == Init /\ [][Next]_vars

-----------------------------------------------------------------------------
(* Properties.                                                             *)

\* What currentPreset shows of a preset.
Shown(i) == IF jail[i] # Absent THEN jail[i] ELSE IF off[i] # Absent THEN off[i] ELSE jailContent

\* A preset is as its acknowledged requests left it: a request that failed at
\* any call has changed nothing, settings survive being switched off and on,
\* and a save keeps the keys it did not send.  Requests on other presets may
\* interleave; excused are two requests on the same preset, a file whose read
\* failed and a restore that failed.
PresetAsAcknowledged ==
    \A i \in All \ (raced \cup unsure) :
       (\A p \in Procs : ~(Busy(p) /\ req[p].id = i)) =>
          Shown(i) = want[i] /\ (jail[i] # Absent) = on[i]

\* Between requests the server runs exactly the jails that are on disk: what
\* it refuses never stays, and undoing brings it back.  Excused are requests
\* in progress together, a save that asked for no reload, and an undo whose
\* restore or restart failed.
ServerFollowsFiles ==
    (\A p \in Procs : ~Busy(p)) /\ ~overlap /\ ~lag /\ unsure = {} => loaded = jail
=============================================================================
