----------------------------- MODULE StoreFile -----------------------------
(***************************************************************************)
(* The store file: how PendingStore replaces the file at a path while      *)
(* other processes open, compact, rebuild, unlink and relink it.  Every    *)
(* await of the code is a step of its own, so another process, a dropped   *)
(* future or a crash may come between any two.                             *)
(*                                                                         *)
(* The path is a link that ends at one of Names, all in one directory.  An *)
(* inode number is free again once no name, temporary file or mapping      *)
(* holds its file.  A store's rows are abstracted to the set of tasks      *)
(* whose batch they include.                                               *)
(***************************************************************************)
EXTENDS FiniteSets

CONSTANTS Tasks,         \* tasks that hold a store and write stores at the path
          Names,         \* the names the path's link may end at
          Inodes,        \* the filesystem's inode numbers
          None,          \* no inode
          SpecialKinds,  \* what may stand at a name besides a regular file
          Others,        \* what others may do to the path: see below
          Building       \* the tasks that may build a fresh store at the path

ASSUME NamesAssumption == Names # {}
ASSUME InodesAssumption == Inodes # {} /\ None \notin Inodes
ASSUME SpecialAssumption == SpecialKinds \subseteq {"device", "pipe", "dir"}
ASSUME OthersAssumption == Others \subseteq {"unlink", "relink", "permissions"}
ASSUME BuildingAssumption == Building \subseteq Tasks

VARIABLES link,        \* the name the path's link ends at
          dir,         \* name -> the inode it names, None if there is none
          files,       \* inode -> its file
          temps,       \* the inodes of the temporary files in the directory
          dirWritable, \* whether the directory takes new files
          pc,          \* task -> the step its write is at
          handle,      \* task -> the store it holds
          job,         \* task -> its write in progress
          orphans,     \* the temporary files nobody could remove
          late         \* task -> was its target replaced after its last check?

disk == <<link, dir, files, temps, dirWritable>>
vars == <<link, dir, files, temps, dirWritable, pc, handle, job, orphans, late>>

Free == [kind |-> "free", rows |-> {}, complete |-> FALSE, writable |-> FALSE]

Regular(rows, complete) ==
  [kind |-> "regular", rows |-> rows, complete |-> complete, writable |-> TRUE]

Special(kind) == [kind |-> kind, rows |-> {}, complete |-> FALSE, writable |-> TRUE]

(* A character device and a pipe: is_stream.                               *)
Streams == {"device", "pipe"}

(* The steps that hold a TempFile guard; those at which the open of a pipe *)
(* waits for the process at its other end; all the steps of a write; and   *)
(* what the last call of a task came to.                                   *)
Guarded == {"chmod", "write", "check", "rename"}
Waiting == {"feed", "probewait", "reopenwait"}
Working ==
  {"start", "resolve", "inspect", "probe", "temp", "inplace", "reopen"} \cup Guarded \cup Waiting
Resting == {"idle", "failed"}

NoStore == [ino |-> None, tail |-> {}]
NoJob   == [opened |-> None, target |-> CHOOSE n \in Names : TRUE, temp |-> None,
            permissions |-> "none", rows |-> {}, batch |-> {}, auto |-> FALSE]

At(n) == IF dir[n] = None THEN Free ELSE files[dir[n]]

(* What a store shows: the file it mapped and its tail.                    *)
Shows(s) == files[s.ino].rows \cup s.tail

-----------------------------------------------------------------------------
Init ==
  /\ link \in Names
  /\ \E i \in Inodes :
       /\ dir = [n \in Names |-> IF n = link THEN i ELSE None]
       /\ files = [x \in Inodes |-> IF x = i THEN Regular({}, TRUE) ELSE Free]
  /\ temps = {}
  /\ orphans = {}
  /\ dirWritable \in BOOLEAN
  /\ pc = [t \in Tasks |-> "idle"]
  /\ handle = [t \in Tasks |-> NoStore]
  /\ job = [t \in Tasks |-> NoJob]
  /\ late = [t \in Tasks |-> FALSE]

(* A file nothing holds any more is gone: no name, no temporary file, no   *)
(* mapping.                                                                *)
Held(d, tmps, hs) ==
  {d[n] : n \in Names} \cup tmps \cup {hs[t].ino : t \in Tasks}

Release(f, d, tmps, hs) == [i \in Inodes |-> IF i \in Held(d, tmps, hs) THEN f[i] ELSE Free]

FreeInodes == {i \in Inodes : files[i] = Free}

Goto(t, step) == pc' = [pc EXCEPT ![t] = step]

(* A name is given another inode: every task between its last check and    *)
(* its rename over that name is late.                                      *)
Entry(n, i, renamer) ==
  /\ dir' = [dir EXCEPT ![n] = i]
  /\ late' = [t \in Tasks |->
                /\ t \notin renamer
                /\ late[t] \/ (pc[t] = "rename" /\ job[t].target = n)]

(* Mutant of Abandon: the guard forgets its file.                          *)
AbandonKeepsTemp(t) ==
  /\ Goto(t, "failed")
  /\ job' = [job EXCEPT ![t] = NoJob]
  /\ late' = [late EXCEPT ![t] = FALSE]
  /\ UNCHANGED <<disk, handle, orphans>>

(* The end of a write that renames nothing: the TempFile guard removes the *)
(* temporary file, and does not learn that the directory refused.          *)
Abandon(t) ==
  LET tmp == {job[t].temp} \ {None} IN
  /\ Goto(t, "failed")
  /\ temps' = IF dirWritable THEN temps \ tmp ELSE temps
  /\ orphans' = IF dirWritable THEN orphans ELSE orphans \cup tmp
  /\ files' = Release(files, dir, temps', handle)
  /\ job' = [job EXCEPT ![t] = NoJob]
  /\ late' = [late EXCEPT ![t] = FALSE]
  /\ UNCHANGED <<link, dir, dirWritable, handle>>

(* An error is returned: add_quads drops the batch, the caller keeps the   *)
(* store it had.                                                           *)
Fail(t) == Abandon(t)

(* Mutant of Refuse: the store an add_quads returns lacks the batch.       *)
RefuseDropsBatch(t) ==
  IF job[t].auto
  THEN /\ Goto(t, "idle")
       /\ job' = [job EXCEPT ![t] = NoJob]
       /\ UNCHANGED <<disk, handle, orphans, late>>
  ELSE Fail(t)

(* The writer's own refusal (StoreNotWritable): nothing was built.  An     *)
(* add_quads keeps its batch in the tail, an explicit call fails.          *)
Refuse(t) ==
  IF job[t].auto
  THEN /\ Goto(t, "idle")
       /\ handle' = [handle EXCEPT ![t].tail = @ \cup job[t].batch]
       /\ job' = [job EXCEPT ![t] = NoJob]
       /\ UNCHANGED <<disk, orphans, late>>
  ELSE Fail(t)

-----------------------------------------------------------------------------
(* Holding a store                                                         *)

(* from_file: the path is opened and mapped.                               *)
Mapped(t) ==
  /\ At(link).kind = "regular"
  /\ At(link).complete
  /\ handle' = [handle EXCEPT ![t] = [ino |-> dir[link], tail |-> {}]]
  /\ files' = Release(files, dir, temps, handle')

Open(t) ==
  /\ pc[t] \in Resting
  /\ Mapped(t)
  /\ UNCHANGED <<link, dir, temps, dirWritable, pc, job, orphans, late>>

Close(t) ==
  /\ pc[t] \in Resting /\ handle[t] # NoStore
  /\ handle' = [handle EXCEPT ![t] = NoStore]
  /\ files' = Release(files, dir, temps, handle')
  /\ UNCHANGED <<link, dir, temps, dirWritable, pc, job, orphans, late>>

(* An add_quads that ends in a compaction, an explicit compact, and a      *)
(* build of a fresh store at the path.                                     *)
Begin(t, opened, rows, batch, auto) ==
  /\ pc[t] \in Resting
  /\ Goto(t, "start")
  /\ job' = [job EXCEPT ![t] = [NoJob EXCEPT !.opened = opened, !.rows = rows,
                                            !.batch = batch, !.auto = auto]]
  /\ UNCHANGED <<disk, handle, orphans, late>>

BeginAdd(t) ==
  handle[t] # NoStore /\ Begin(t, handle[t].ino, Shows(handle[t]) \cup {t}, {t}, TRUE)

BeginCompact(t) ==
  handle[t] # NoStore /\ Begin(t, handle[t].ino, Shows(handle[t]), {}, FALSE)

BeginBuild(t) == t \in Building /\ Begin(t, None, {t}, {}, FALSE)

-----------------------------------------------------------------------------
(* PendingStore::create_over                                               *)

Advance(t, step, j) ==
  /\ Goto(t, step)
  /\ job' = [job EXCEPT ![t] = j]
  /\ UNCHANGED <<disk, handle, orphans, late>>

(* A stream takes the bytes in place; no store was opened from one.        *)
Start(t) ==
  /\ pc[t] = "start"
  /\ CASE At(link).kind \notin Streams -> Advance(t, "resolve", job[t])
       [] At(link).kind \in Streams /\ job[t].opened = None -> Advance(t, "inplace", job[t])
       [] At(link).kind \in Streams /\ job[t].opened # None -> Fail(t)

(* The call returns what it was asked for.                                 *)
Return(t) == Advance(t, "idle", NoJob)

(* A regular file opened for writing is not truncated: the bytes go over   *)
(* its own, which may leave no whole store, and an error may still come.   *)
Overwrite(t) ==
  /\ \E complete \in BOOLEAN :
       files' = [files EXCEPT ![dir[link]].rows = IF complete THEN job[t].rows ELSE {},
                              ![dir[link]].complete = complete]
  /\ \E end \in Resting : Goto(t, end)
  /\ job' = [job EXCEPT ![t] = NoJob]
  /\ UNCHANGED <<link, dir, temps, dirWritable, handle, orphans, late>>

(* The path is opened, whatever it names by now, and takes the bytes; a    *)
(* pipe takes them once its reader comes.                                  *)
InPlace(t) ==
  LET f == At(link)
  IN /\ pc[t] = "inplace"
     /\ CASE f.kind \in {"free", "dir"} \/ ~f.writable -> Fail(t)
          [] f.kind = "device" /\ f.writable -> Return(t)
          [] f.kind = "pipe" /\ f.writable -> Advance(t, "feed", job[t])
          [] f.kind = "regular" /\ f.writable -> Overwrite(t)

(* replacement_target: the links are followed once, here.                  *)
Resolve(t) ==
  pc[t] = "resolve" /\ Advance(t, "inspect", [job[t] EXCEPT !.target = link])

Inspect(t) ==
  LET n == job[t].target
      f == At(n)
      permissions == IF f.writable THEN "rw" ELSE "ro"
  IN /\ pc[t] = "inspect"
     /\ CASE f.kind = "free" -> Advance(t, "temp", job[t])
          [] f.kind \in Streams \cup {"dir"} -> Fail(t)
          [] f.kind = "regular" /\ job[t].opened \notin {None, dir[n]} -> Fail(t)
          [] f.kind = "regular" /\ job[t].opened \in {None, dir[n]} ->
               Advance(t, "probe", [job[t] EXCEPT !.permissions = permissions])

(* Mutant of Probe: a file that cannot be written is waited for.           *)
ProbeWaits(t) ==
  /\ pc[t] = "probe"
  /\ At(job[t].target).writable
  /\ Advance(t, "temp", job[t])

(* The old file opened for writing, nothing written; a pipe that has taken *)
(* its place since keeps the open waiting.                                 *)
Probe(t) ==
  LET f == At(job[t].target)
  IN /\ pc[t] = "probe"
     /\ CASE f.kind = "dir" -> Fail(t)
          [] f.kind = "free" -> Advance(t, "temp", job[t])
          [] f.kind \in Streams \cup {"regular"} /\ ~f.writable -> Refuse(t)
          [] f.kind \in {"regular", "device"} /\ f.writable -> Advance(t, "temp", job[t])
          [] f.kind = "pipe" /\ f.writable -> Advance(t, "probewait", job[t])

(* create_temp; a filesystem with no inode left is an I/O error.           *)
CreateTemp(t) ==
  /\ pc[t] = "temp"
  /\ IF ~dirWritable THEN Refuse(t)
     ELSE IF FreeInodes = {} THEN Fail(t)
     ELSE \E i \in FreeInodes :
            /\ files' = [files EXCEPT ![i] = Regular({}, FALSE)]
            /\ temps' = temps \cup {i}
            /\ job' = [job EXCEPT ![t].temp = i]
            /\ Goto(t, IF job[t].permissions = "none" THEN "write" ELSE "chmod")
            /\ UNCHANGED <<link, dir, dirWritable, handle, orphans, late>>

CopyPermissions(t) ==
  /\ pc[t] = "chmod"
  /\ files' = [files EXCEPT ![job[t].temp].writable = (job[t].permissions = "rw")]
  /\ Goto(t, "write")
  /\ UNCHANGED <<link, dir, temps, dirWritable, handle, job, orphans, late>>

-----------------------------------------------------------------------------
(* PendingStore::write, and the reopening                                  *)

(* Mutant of WriteTemp: a short write goes unnoticed.                      *)
WriteTempUnchecked(t) ==
  /\ pc[t] = "write"
  /\ \E complete \in BOOLEAN :
       files' = [files EXCEPT ![job[t].temp].rows = job[t].rows,
                              ![job[t].temp].complete = complete]
  /\ Goto(t, "check")
  /\ UNCHANGED <<link, dir, temps, dirWritable, handle, job, orphans, late>>

(* The rows are gathered, built and written into the temporary file.       *)
WriteTemp(t) ==
  /\ pc[t] = "write"
  /\ files' = [files EXCEPT ![job[t].temp].rows = job[t].rows,
                            ![job[t].temp].complete = TRUE]
  /\ Goto(t, "check")
  /\ UNCHANGED <<link, dir, temps, dirWritable, handle, job, orphans, late>>

(* Mutant of EnsureUnreplaced: the look at create time is trusted.         *)
EnsureUnreplacedSkipped(t) == pc[t] = "check" /\ Advance(t, "rename", job[t])

(* ensure_unreplaced: the resolved target is looked at again.              *)
EnsureUnreplaced(t) ==
  /\ pc[t] = "check"
  /\ IF job[t].opened = None \/ dir[job[t].target] \in {None, job[t].opened}
     THEN Advance(t, "rename", job[t])
     ELSE Fail(t)

(* Mutant of Renamed: the bytes are copied over the file that is there.    *)
RenamedCopies(t) ==
  /\ dir[job[t].target] # None
  /\ temps' = temps \ {job[t].temp}
  /\ files' = Release([files EXCEPT ![dir[job[t].target]] = files[job[t].temp]],
                      dir, temps', handle)
  /\ UNCHANGED <<link, dir, dirWritable, handle, orphans, late>>

(* The rename itself: atomic; over a directory, or in a directory that     *)
(* takes no change, it fails.                                              *)
Renamed(t) ==
  /\ At(job[t].target).kind # "dir" /\ dirWritable
  /\ Entry(job[t].target, job[t].temp, {t})
  /\ temps' = temps \ {job[t].temp}
  /\ files' = Release(files, dir', temps', handle)
  /\ UNCHANGED <<link, dirWritable, handle, orphans>>

Rename(t) ==
  /\ pc[t] = "rename"
  /\ \/ /\ Renamed(t)
        /\ IF job[t].opened # None
           THEN Goto(t, "reopen") /\ job' = [job EXCEPT ![t].temp = None]
           ELSE Goto(t, "idle") /\ job' = [job EXCEPT ![t] = NoJob]
     \/ (At(job[t].target).kind = "dir" \/ ~dirWritable) /\ Fail(t)

(* from_file(path): the path is resolved anew, and a pipe keeps its open   *)
(* waiting too.                                                            *)
Reopen(t) ==
  /\ pc[t] = "reopen"
  /\ \/ /\ Mapped(t)
        /\ Goto(t, "idle")
        /\ job' = [job EXCEPT ![t] = NoJob]
        /\ UNCHANGED <<link, dir, temps, dirWritable, orphans, late>>
     \/ At(link).kind = "pipe" /\ Advance(t, "reopenwait", job[t])
     \/ At(link).kind # "pipe" /\ ~At(link).complete /\ Fail(t)

-----------------------------------------------------------------------------
(* What may go wrong                                                       *)

(* Any other I/O error, at any step that makes a system call.              *)
IoError(t) == pc[t] \in Working \ {"reopenwait"} /\ Fail(t)

(* The future is dropped, but not inside a poll: the reopening opens the   *)
(* path on the task's own thread.  The rename runs on a blocking one:      *)
(* dropped while it is under way, it has happened or it never will.        *)
Cancel(t) ==
  \/ pc[t] \in Working \ {"reopenwait"} /\ Abandon(t)
  \/ /\ pc[t] = "rename"
     /\ Renamed(t)
     /\ Goto(t, "failed")
     /\ job' = [job EXCEPT ![t] = NoJob]

(* The process dies: its mappings go, its temporary file stays.            *)
Crash(t) ==
  /\ pc[t] \in Working
  /\ Goto(t, "failed")
  /\ orphans' = orphans \cup ({job[t].temp} \ {None})
  /\ handle' = [handle EXCEPT ![t] = NoStore]
  /\ files' = Release(files, dir, temps, handle')
  /\ job' = [job EXCEPT ![t] = NoJob]
  /\ late' = [late EXCEPT ![t] = FALSE]
  /\ UNCHANGED <<link, dir, temps, dirWritable>>

-----------------------------------------------------------------------------
(* Everybody else                                                          *)

Unlink(n) ==
  /\ "unlink" \in Others
  /\ dir[n] # None
  /\ Entry(n, None, {})
  /\ files' = Release(files, dir', temps, handle)
  /\ UNCHANGED <<link, temps, dirWritable, pc, handle, job, orphans>>

Relink(n) ==
  /\ "relink" \in Others
  /\ link' = n
  /\ UNCHANGED <<dir, files, temps, dirWritable, pc, handle, job, orphans, late>>

Place(n, kind) ==
  /\ dir[n] = None
  /\ \E i \in FreeInodes :
       /\ files' = [files EXCEPT ![i] = Special(kind)]
       /\ Entry(n, i, {})
  /\ UNCHANGED <<link, temps, dirWritable, pc, handle, job, orphans>>

(* The process at the other end of the pipe a task waits at opens it: the  *)
(* bytes are taken, the probe is closed again, the pipe cannot be mapped.  *)
PipeAnswers(t) ==
  \/ pc[t] = "feed" /\ Return(t)
  \/ pc[t] = "probewait" /\ Advance(t, "temp", job[t])
  \/ pc[t] = "reopenwait" /\ Fail(t)

SetWritable(n) ==
  /\ "permissions" \in Others
  /\ dir[n] # None
  /\ files' = [files EXCEPT ![dir[n]].writable = ~@]
  /\ UNCHANGED <<link, dir, temps, dirWritable, pc, handle, job, orphans, late>>

SetDirWritable ==
  /\ "permissions" \in Others
  /\ dirWritable' = ~dirWritable
  /\ UNCHANGED <<link, dir, files, temps, pc, handle, job, orphans, late>>

-----------------------------------------------------------------------------
Step(t) ==
  \/ Start(t) \/ InPlace(t) \/ Resolve(t) \/ Inspect(t) \/ Probe(t) \/ CreateTemp(t)
  \/ CopyPermissions(t) \/ WriteTemp(t) \/ EnsureUnreplaced(t) \/ Rename(t) \/ Reopen(t)

Next ==
  \/ \E t \in Tasks :
       \/ Open(t) \/ Close(t) \/ BeginAdd(t) \/ BeginCompact(t) \/ BeginBuild(t)
       \/ Step(t) \/ IoError(t) \/ Cancel(t) \/ Crash(t) \/ PipeAnswers(t)
  \/ \E n \in Names :
       \/ Unlink(n) \/ Relink(n) \/ SetWritable(n)
       \/ \E kind \in SpecialKinds : Place(n, kind)
  \/ SetDirWritable

Spec == Init /\ [][Next]_vars

(* A task's executor keeps polling it, and a system call returns, but for  *)
(* the open of a pipe: nobody has to come to its other end.                *)
FairSpec == Spec /\ \A t \in Tasks : WF_vars(Step(t))

-----------------------------------------------------------------------------
(* Properties                                                              *)

TypeOK ==
  /\ link \in Names
  /\ dir \in [Names -> {None} \cup Inodes]
  /\ files \in [Inodes -> [kind : {"free", "regular"} \cup SpecialKinds,
                          rows : SUBSET Tasks, complete : BOOLEAN, writable : BOOLEAN]]
  /\ temps \subseteq Inodes /\ orphans \subseteq temps
  /\ dirWritable \in BOOLEAN
  /\ pc \in [Tasks -> Working \cup Resting]
  /\ handle \in [Tasks -> [ino : {None} \cup Inodes, tail : SUBSET Tasks]]
  /\ job \in [Tasks -> [opened : {None} \cup Inodes, target : Names, temp : {None} \cup Inodes,
                       permissions : {"none", "ro", "rw"}, rows : SUBSET Tasks,
                       batch : SUBSET Tasks, auto : BOOLEAN]]
  /\ late \in [Tasks -> BOOLEAN]

(* Whatever crashes, is dropped, fails or races, a name never shows a      *)
(* half-written store: what is renamed into place is complete.             *)
NameIsComplete == \A n \in Names : At(n).kind = "regular" => At(n).complete

(* The temporary file is removed on every way out that does not rename it: *)
(* the ones in the directory belong to a write under way, to a process     *)
(* that died, or to a write that ended while the directory took no change. *)
NoTempLeftBehind ==
  temps = orphans \cup {job[t].temp : t \in {x \in Tasks : pc[x] \in Guarded}}

(* A reader that mapped a file keeps the rows it mapped, whoever replaces, *)
(* unlinks or rebuilds the path meanwhile, and its inode number is given   *)
(* to no other file: the identity a compaction checks is never another     *)
(* file's.                                                                 *)
MappingsAreStable ==
  [][\A t \in Tasks :
       (handle[t].ino # None /\ handle'[t].ino = handle[t].ino) =>
         /\ files'[handle[t].ino].kind = "regular"
         /\ files'[handle[t].ino].rows = files[handle[t].ino].rows]_vars

(* A compaction about to rename over a file other than the one it opened   *)
(* can only be one whose target changed after its second look at it: every *)
(* earlier replacement, by any number of other writers, is caught.         *)
OnlyLateReplacement ==
  \A t \in Tasks :
    (pc[t] = "rename" /\ job[t].opened # None) =>
      dir[job[t].target] \in {None, job[t].opened} \/ late[t]

(* A store returned by add_quads or compact shows the receiver's rows and  *)
(* the batch, whether the rows went to the file or a refusal kept them in  *)
(* the tail: a call that returns a store leaves its task idle.             *)
AcknowledgedRowsShow ==
  [][\A t \in Tasks :
       (job[t].opened # None /\ pc'[t] = "idle") =>
         /\ handle'[t].ino # None
         /\ job[t].rows \subseteq files'[handle'[t].ino].rows \cup handle'[t].tail]_vars

(* pending.rs: a store written over the file it was opened from replaces   *)
(* only that file.                                                         *)
ReplacesOnlyOpened ==
  [][\A t \in Tasks :
       (pc[t] = "rename" /\ pc'[t] = "reopen") =>
         dir[job[t].target] \in {None, job[t].opened}]_vars

(* Every write ends: an add_quads, compact or build that began returns, is *)
(* refused, fails or is dropped, whatever the others put at the path and   *)
(* take away again, unless the open of a pipe there waits for ever.        *)
WritesEnd ==
  \A t \in Tasks : pc[t] \in Working ~> (pc[t] \in Resting \/ [](pc[t] \in Waiting))
============================================================================
