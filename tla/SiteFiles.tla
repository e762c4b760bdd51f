----------------------------- MODULE SiteFiles -----------------------------
(***************************************************************************)
(* The file manager of a site: reads, uploads, directories and batches of  *)
(* file operations, from the HTTP handler to the Agent's disk              *)
(* (internal/core/site/handler.go and filesystem_service.go,               *)
(* internal/agent/filesystem, internal/agent/archive/manager.go).          *)
(*                                                                         *)
(* The disk is the tree below /var/www: a path is the sequence of its      *)
(* names, a node is a directory, a whole file, a file that was truncated   *)
(* and not filled (Empty), or one that was cut short (Cut).  No lock is    *)
(* held by a request, a batch is one call of the Agent per item, and the   *)
(* Agent may die between two system calls.  An upload goes through a       *)
(* temporary file and a rename; a copy, an extracted entry and an archive  *)
(* are written in place.                                                   *)
(***************************************************************************)
EXTENDS Naturals, Sequences, SequencesExt

CONSTANTS Procs,      \* requests in progress
          Values,     \* whole contents of a file
          First,      \* the content a file has before
          Absent, Dir, Empty, Cut, \* the other nodes
          MaxEntries, \* maxArchiveEntries
          None,
          MaxOps,     \* bound: requests
          MaxFaults   \* bound: failing system calls and deaths of the Agent

VARIABLES disk,       \* path -> node
          proc,       \* request -> its record
          streamed,   \* paths holding what a copy, an extraction or an archiver wrote
          outside,    \* a path outside the site's root was changed
          ops, faults

vars == <<disk, proc, streamed, outside, ops, faults>>

Root == <<"site">>
Paths == {<<>>, Root, <<"site", "a">>, <<"site", "b">>, <<"site", "d">>, <<"site", "d", "a">>, <<"a">>}
Files == Values \cup {Empty, Cut}

\* What the panel sends: the root, two names, and a path that climbs.
Inputs == {<<>>, <<"a">>, <<"d">>, <<"..", "a">>}

Parent(path) == Front(path)
Below(path, root) == IsPrefix(root, path)
Subtree(path) == {q \in Paths : Below(q, path)}

---------------------------------------------------------------------------
(* FileService.resolvePath and the Agent's securePath.                     *)

\* path.Clean of a rooted path: a step up from the root stays at the root.
Clean(relative) ==
    FoldLeft(LAMBDA path, name : IF name # ".." THEN Append(path, name)
                                 ELSE IF path = <<>> THEN <<>> ELSE Front(path),
             <<>>, relative)

\* Mutant: the path is joined before it is cleaned.
resolveJoined(relative) == Clean(Root \o relative)

resolvePath(relative) == Root \o Clean(relative)

\* securePath: absolute, below an allowed root, its existing part free of links.
securePath(path) == path \in Paths

---------------------------------------------------------------------------
(* The system calls of the Agent, as changes of the disk.  A call that     *)
(* cannot be made yields None.                                             *)

IsFile(d, path) == d[path] \in Files

\* os.MkdirAll
MkdirAll(d, path) ==
    IF \E q \in Paths : Below(path, q) /\ IsFile(d, q) THEN None
    ELSE [q \in Paths |-> IF Below(path, q) THEN Dir ELSE d[q]]

\* os.RemoveAll, after FileService.Delete has refused the site's root.
RemoveAll(d, path) ==
    IF path = Root THEN None ELSE [q \in Paths |-> IF Below(q, path) THEN Absent ELSE d[q]]

\* os.Rename: a directory moves with what is below it.
Moved(d, old, new) ==
    CASE d[old] = Absent \/ d[Parent(new)] # Dir -> None
      [] old = new -> d
      [] Below(new, old) -> None
      [] IsFile(d, old) /\ d[new] = Dir -> None
      [] IsFile(d, old) -> [d EXCEPT ![new] = d[old], ![old] = Absent]
      [] d[old] = Dir /\ IsFile(d, new) -> None
      [] \E q \in Subtree(new) \ {new} : d[q] # Absent -> None
      [] OTHER -> [q \in Paths |->
            IF Below(q, old) THEN Absent
            ELSE IF Below(q, new) /\ (old \o SubSeq(q, Len(new) + 1, Len(q))) \in Paths
                 THEN d[old \o SubSeq(q, Len(new) + 1, Len(q))]
                 ELSE d[q]]

\* OpenFile with O_CREATE and O_TRUNC.
Truncated(d, path) ==
    IF d[Parent(path)] # Dir \/ d[path] = Dir THEN None ELSE [d EXCEPT ![path] = Empty]

---------------------------------------------------------------------------
(* Requests.  An item of a request is [op, src, dst, value], with the      *)
(* entries of an archive to extract; a batch has one item per path, and    *)
(* stops at the first that fails.                                          *)

Item(op, src, dst, value) ==
    [op |-> op, src |-> src, dst |-> dst, value |-> value, entries |-> <<>>]

\* The entries of an archive: names below the destination, or one that climbs.
Archives == {<<<<"a">>>>, <<<<"a">>, <<"b">>>>, <<<<"a">>, <<"..", "a">>>>,
             <<<<"a">>, <<"b">>, <<"a">>>>}

\* Handlers of single files: WriteFile, DeleteFile, CreateDirectory.
SingleItems(path) ==
    {<<Item("write", None, path, v)>> : v \in Values}
    \cup {<<Item("mkdir", None, path, None)>>, <<Item("delete", None, path, None)>>}

\* BatchOperations: one destination, or one directory for all.
BatchItems(p1, p2, dst) ==
    {<<Item("move", p1, dst, None)>>, <<Item("copy", p1, dst, None)>>,
     <<Item("copy", p1, dst, None), Item("copy", p2, dst, None)>>,
     <<Item("chmod", None, p1, None), Item("chmod", None, p2, None)>>,
     <<Item("delete", None, p2, None), Item("delete", None, p1, None)>>}

ArchiveItems(p1, dst) ==
    {<<Item("archive", p1, dst, None)>>}
    \cup {<<[Item("extract", None, dst, None) EXCEPT !.entries = e]>> : e \in Archives}

\* A zip's entries are counted before the first is written, a tar's as they come.
Formats == {"zip", "tar"}

Idle == [pc |-> "idle", todo |-> <<>>, done |-> <<>>, step |-> "start", format |-> None,
         before |-> None, answer |-> None]

\* The sites a request may find: a file and a directory of one file, or two files
\* where a batch expects a directory.
Trees ==
    {d \in [Paths -> {First, Absent, Dir}] :
        /\ d[<<>>] = Dir /\ d[Root] = Dir /\ d[<<"a">>] = First /\ d[<<"site", "a">>] = First
        /\ \/ d[<<"site", "d">>] = Dir /\ d[<<"site", "d", "a">>] = First /\ d[<<"site", "b">>] = Absent
           \/ d[<<"site", "d">>] = First /\ d[<<"site", "d", "a">>] = Absent /\ d[<<"site", "b">>] = First}

TypeOK ==
    /\ \A q \in Paths : disk[q] \in Files \cup {Absent, Dir}
    /\ \A p \in Procs : proc[p].pc \in {"idle", "busy"} /\ Len(proc[p].todo) <= 3
    /\ streamed \subseteq Paths /\ outside \in BOOLEAN
    /\ ops \in 0..MaxOps /\ faults \in 0..MaxFaults

Init ==
    /\ disk \in Trees
    /\ proc = [p \in Procs |-> Idle]
    /\ streamed = {} /\ outside = FALSE /\ ops = 0 /\ faults = 0

Busy == {p \in Procs : proc[p].pc = "busy"}

\* A request: the site is looked up, every path resolved, then the Agent called.
Begin(p) ==
    /\ proc[p].pc = "idle" /\ ops < MaxOps
    /\ \E i1 \in Inputs, i2 \in {<<"b">>, <<"d">>} :
         LET one == resolvePath(i1)  two == resolvePath(<<"d", "a">>)  dst == resolvePath(i2) IN
         /\ securePath(one)
         /\ \E items \in SingleItems(one) \cup BatchItems(one, two, dst) \cup ArchiveItems(one, dst) :
              \E f \in IF items[1].op = "extract" THEN Formats ELSE {None} :
                proc' = [q \in Procs |->
                   IF q = p THEN [Idle EXCEPT !.pc = "busy", !.todo = items, !.format = f,
                                              !.before = IF Busy = {} THEN disk ELSE None]
                   ELSE IF proc[q].pc = "idle" THEN Idle
                   ELSE [proc[q] EXCEPT !.before = None]]
    /\ ops' = ops + 1
    /\ UNCHANGED <<disk, streamed, outside, faults>>

Change(d) ==
    /\ disk' = d
    /\ outside' = (outside \/ \E q \in Paths : d[q] # disk[q] /\ ~Below(q, Root))

Return(p, answer) == proc' = [proc EXCEPT ![p].pc = "idle", ![p].answer = answer, ![p].step = "start"]

\* The item is done: the next one, or the answer.
Done(p) ==
    IF Len(proc[p].todo) = 1
    THEN proc' = [proc EXCEPT ![p].pc = "idle", ![p].answer = "ok", ![p].todo = <<>>,
                              ![p].step = "start", ![p].done = Append(@, Head(proc[p].todo))]
    ELSE proc' = [proc EXCEPT ![p].todo = Tail(@), ![p].step = "start",
                              ![p].done = Append(@, Head(proc[p].todo))]

GoTo(p, step) == proc' = [proc EXCEPT ![p].step = step]

At(p, op, step) == proc[p].pc = "busy" /\ Head(proc[p].todo).op = op /\ proc[p].step = step
Src(p) == Head(proc[p].todo).src
Dst(p) == Head(proc[p].todo).dst
Value(p) == Head(proc[p].todo).value
Entries(p) == Head(proc[p].todo).entries

\* One system call with its error path.
Try(p, d, then) ==
    IF d = None THEN Return(p, "error") /\ UNCHANGED <<disk, outside>>
    ELSE Change(d) /\ then

\* Mutant: the target itself is opened and truncated.
WriteTruncates(p) ==
    /\ At(p, "write", "start")
    /\ LET d == MkdirAll(disk, Parent(Dst(p))) IN
       Try(p, IF d = None THEN None ELSE Truncated(d, Dst(p)), GoTo(p, "rename"))
    /\ UNCHANGED <<streamed, ops, faults>>

\* Manager.Write: the parent is made, the temporary file filled and synced
\* beside the target, and renamed over it.
WriteParent(p) ==
    /\ At(p, "write", "start")
    /\ Try(p, MkdirAll(disk, Parent(Dst(p))), GoTo(p, "rename"))
    /\ UNCHANGED <<streamed, ops, faults>>

\* The node the rename leaves.
Replaced(p) == IF disk[Dst(p)] = Dir \/ disk[Parent(Dst(p))] # Dir THEN None
               ELSE [disk EXCEPT ![Dst(p)] = Value(p)]

WriteRename(p) ==
    /\ At(p, "write", "rename")
    /\ Try(p, Replaced(p), Done(p))
    /\ streamed' = IF Replaced(p) = None THEN streamed ELSE streamed \ {Dst(p)}
    /\ UNCHANGED <<ops, faults>>

\* Manager.MkdirAll, Manager.Delete, Manager.Rename, Manager.Chmod and Chown
Mkdir(p) ==
    /\ At(p, "mkdir", "start") /\ Try(p, MkdirAll(disk, Dst(p)), Done(p))
    /\ UNCHANGED <<streamed, ops, faults>>

Delete(p) ==
    /\ At(p, "delete", "start") /\ Try(p, RemoveAll(disk, Dst(p)), Done(p))
    /\ streamed' = IF Dst(p) = Root THEN streamed ELSE streamed \ Subtree(Dst(p))
    /\ UNCHANGED <<ops, faults>>

Rename(p) ==
    /\ At(p, "move", "start") /\ Try(p, Moved(disk, Src(p), Dst(p)), Done(p))
    /\ streamed' = IF streamed \cap Subtree(Src(p)) = {} THEN streamed
                   ELSE streamed \cup Subtree(Dst(p))
    /\ UNCHANGED <<ops, faults>>

Chmod(p) ==
    /\ At(p, "chmod", "start")
    /\ Try(p, IF disk[Dst(p)] = Absent THEN None ELSE disk, Done(p))
    /\ UNCHANGED <<streamed, ops, faults>>

\* Manager.Copy: the source is opened, the destination's parent made and the
\* destination truncated, then the bytes are copied.  A source that is the
\* destination, or a directory, is only noticed after the truncation.
CopyOpen(p) ==
    /\ At(p, "copy", "start")
    /\ LET d == IF disk[Src(p)] = Absent THEN None ELSE MkdirAll(disk, Parent(Dst(p)))
           t == IF d = None THEN None ELSE Truncated(d, Dst(p))
       IN /\ IF d # None /\ t = None THEN Return(p, "error") /\ Change(d)
             ELSE Try(p, t, GoTo(p, "bytes"))
          /\ streamed' = IF t = None THEN streamed ELSE streamed \cup {Dst(p)}
    /\ UNCHANGED <<ops, faults>>

CopyBytes(p) ==
    /\ At(p, "copy", "bytes")
    /\ IF ~IsFile(disk, Src(p)) THEN Return(p, "error") /\ UNCHANGED <<disk, outside>>
       ELSE /\ Change(IF disk[Dst(p)] = Empty THEN [disk EXCEPT ![Dst(p)] = disk[Src(p)]] ELSE disk)
            /\ Done(p)
    /\ UNCHANGED <<streamed, ops, faults>>

\* archive.Create: one run of the archiver, which writes the destination.
Archive(p) ==
    /\ At(p, "archive", "start")
    /\ \E v \in Values :
         Try(p, IF disk[Src(p)] = Absent \/ Truncated(disk, Dst(p)) = None THEN None
                ELSE [disk EXCEPT ![Dst(p)] = v], Done(p))
    /\ streamed' = streamed \cup {Dst(p)}
    /\ UNCHANGED <<ops, faults>>

\* Mutant: the target is not compared with the destination.
AnyTarget(root, name) == IF name[1] = ".." THEN <<"a">> ELSE root \o name

\* safeTarget: None when the joined path leaves the destination.
safeTarget(root, name) == IF name[1] = ".." THEN None ELSE root \o name

\* archive.Extract: the destination is made, a zip's entries counted.
ExtractOpen(p) ==
    /\ At(p, "extract", "start")
    /\ LET d == MkdirAll(disk, Dst(p)) IN
       IF d # None /\ proc[p].format = "zip" /\ Len(Entries(p)) > MaxEntries
       THEN Return(p, "error") /\ Change(d)
       ELSE Try(p, d, GoTo(p, "entries"))
    /\ UNCHANGED <<streamed, ops, faults>>

\* The file the next entry is written to.  A tar of too many entries is refused
\* at the first that is too many.
Target(p) ==
    LET target == safeTarget(Dst(p), Head(Entries(p)))
        tooMany == proc[p].format = "tar" /\ Len(proc[p].done) >= MaxEntries
    IN IF tooMany \/ target = None \/ target \notin Paths THEN None ELSE target

\* extractZIP and extractTAR: one entry, its parent made and its file filled.
ExtractEntry(p) ==
    /\ At(p, "extract", "entries")
    /\ LET target == Target(p)
           d == IF target = None THEN None
                ELSE IF MkdirAll(disk, Parent(target)) = None THEN None
                ELSE Truncated(MkdirAll(disk, Parent(target)), target)
       IN /\ \E v \in Values :
               Try(p, IF d = None THEN None ELSE [d EXCEPT ![target] = v],
                   IF Len(Entries(p)) = 1 THEN Done(p)
                   ELSE proc' = [proc EXCEPT ![p].todo[1].entries = Tail(@),
                                             ![p].done = Append(@, Head(proc[p].todo))])
          /\ streamed' = IF d = None THEN streamed ELSE streamed \cup {target}
    /\ UNCHANGED <<ops, faults>>

\* The file a write call is filling in place.
Filling(p) ==
    CASE At(p, "copy", "bytes") -> {Dst(p)}
      [] At(p, "archive", "start") /\ disk[Src(p)] # Absent -> {Dst(p)}
      [] At(p, "extract", "entries") -> {Target(p)} \ {None}
      [] OTHER -> {}

\* A write call fails in the middle: what is written in place stays cut, and
\* the temporary file of an upload is removed.
CallFails(p) ==
    /\ proc[p].pc = "busy" /\ faults < MaxFaults
    /\ \/ \E file \in Filling(p) :
            /\ Truncated(disk, file) # None /\ Change([disk EXCEPT ![file] = Cut])
            /\ streamed' = streamed \cup {file}
       \/ At(p, "write", "rename") /\ UNCHANGED <<disk, outside, streamed>>
    /\ Return(p, "error") /\ faults' = faults + 1
    /\ UNCHANGED ops

\* The Agent dies: every request ends without an answer.
Crash ==
    /\ faults < MaxFaults /\ Busy # {}
    /\ proc' = [p \in Procs |-> IF p \in Busy THEN [Idle EXCEPT !.answer = "lost"] ELSE proc[p]]
    /\ faults' = faults + 1
    /\ UNCHANGED <<disk, streamed, outside, ops>>

Step(p) ==
    \/ WriteParent(p) \/ WriteRename(p) \/ Mkdir(p) \/ Delete(p) \/ Rename(p) \/ Chmod(p)
    \/ CopyOpen(p) \/ CopyBytes(p) \/ Archive(p) \/ ExtractOpen(p) \/ ExtractEntry(p)

Next == (\E p \in Procs : Begin(p) \/ Step(p) \/ CallFails(p)) \/ Crash

Spec == Init /\ [][Next]_vars

---------------------------------------------------------------------------

\* An upload is all or nothing: a file that is empty or cut short at any time,
\* the death of the Agent and two requests on one path included, was written by
\* a copy, an extraction or an archiver (Manager.Write renames a synced
\* temporary file over the target).
UploadIsWhole == \A q \in Paths : disk[q] \in {Empty, Cut} => q \in streamed

\* Nothing outside the site's root is changed by a request for the site,
\* whatever path or archive entry it names (resolvePath, safeTarget).
StaysInSite == ~outside

\* What one item leaves when it works.
Applied(d, i) ==
    CASE i.op = "write" -> [MkdirAll(d, Parent(i.dst)) EXCEPT ![i.dst] = i.value]
      [] i.op = "mkdir" -> MkdirAll(d, i.dst)
      [] i.op = "delete" -> RemoveAll(d, i.dst)
      [] i.op = "move" -> Moved(d, i.src, i.dst)
      [] i.op = "copy" -> [MkdirAll(d, Parent(i.dst)) EXCEPT ![i.dst] = d[i.src]]
      [] OTHER -> d

\* A batch that answered is its items one after the other: on success all of
\* them were applied, and after an error the ones before the failing item were
\* and stay so (BatchOperations returns at the first error and undoes nothing).
\* Only the target of a failing copy may differ: it is truncated before the
\* source is found to be a directory.  A copy of a file onto itself is left out:
\* it empties the file.
BatchIsPrefix ==
    \A p \in Procs :
        LET r == proc[p]
            want == FoldLeft(Applied, r.before, r.done)
        IN (/\ r.pc = "idle" /\ r.answer \in {"ok", "error"} /\ r.before # None
            /\ \A i \in Range(r.done \o r.todo) :
                 i.op \notin {"archive", "extract"} /\ (i.op = "copy" => i.src # i.dst))
           => \A q \in Paths :
                \/ disk[q] = want[q]
                \/ /\ r.answer = "error"
                   /\ \/ disk[q] = Dir /\ want[q] = Absent
                      \/ Head(r.todo).op = "copy" /\ q = Head(r.todo).dst
====
