-------------------------- MODULE StoreFileProofs --------------------------
(***************************************************************************)
(* Proofs about StoreFile, for any number of tasks, names and inodes, and  *)
(* whatever others may do to the path.  IndInv is the inductive invariant: *)
(* what ties a write in progress to its temporary file, and every name,    *)
(* temporary file and mapping to a file that stands.                       *)
(***************************************************************************)
EXTENDS StoreFile, TLAPS

File == [kind : {"free", "regular"} \cup SpecialKinds,
         rows : SUBSET Tasks, complete : BOOLEAN, writable : BOOLEAN]
Handle == [ino : {None} \cup Inodes, tail : SUBSET Tasks]
Job == [opened : {None} \cup Inodes, target : Names, temp : {None} \cup Inodes,
        permissions : {"none", "ro", "rw"}, rows : SUBSET Tasks,
        batch : SUBSET Tasks, auto : BOOLEAN]

-----------------------------------------------------------------------------
(* Values                                                                  *)

(* The constant records are of their types.                                *)
LEMMA ConstantTypes ==
  /\ Free \in File /\ NoStore \in Handle /\ NoJob \in Job
  /\ \A rows \in SUBSET Tasks, complete \in BOOLEAN : Regular(rows, complete) \in File
<1>1. (CHOOSE n \in Names : TRUE) \in Names
  BY NamesAssumption
<1> QED
  BY <1>1 DEF Free, NoStore, NoJob, Regular, File, Handle, Job

(* No write: nothing opened, no temporary file; no store: nothing mapped.  *)
LEMMA NoFields ==
  NoJob.temp = None /\ NoJob.opened = None /\ NoJob.auto = FALSE /\ NoStore.ino = None
BY DEF NoJob, NoStore

(* A release keeps what is held and frees the rest.                        *)
LEMMA ReleaseType ==
  ASSUME NEW f \in [Inodes -> File], NEW d, NEW tmps, NEW hs
  PROVE  Release(f, d, tmps, hs) \in [Inodes -> File]
BY ConstantTypes DEF Release

(* TypeOK in terms of the sets above.                                      *)
LEMMA TypeParts ==
  TypeOK <=>
  /\ link \in Names
  /\ dir \in [Names -> {None} \cup Inodes]
  /\ files \in [Inodes -> File]
  /\ temps \subseteq Inodes /\ orphans \subseteq temps
  /\ dirWritable \in BOOLEAN
  /\ pc \in [Tasks -> Working \cup Resting]
  /\ handle \in [Tasks -> Handle]
  /\ job \in [Tasks -> Job]
  /\ late \in [Tasks -> BOOLEAN]
BY DEF TypeOK, File, Handle, Job

(* The type invariant after a step, part by part.                          *)
LEMMA TypePartsNext ==
  TypeOK' <=>
  /\ link' \in Names
  /\ dir' \in [Names -> {None} \cup Inodes]
  /\ files' \in [Inodes -> File]
  /\ temps' \subseteq Inodes /\ orphans' \subseteq temps'
  /\ dirWritable' \in BOOLEAN
  /\ pc' \in [Tasks -> Working \cup Resting]
  /\ handle' \in [Tasks -> Handle]
  /\ job' \in [Tasks -> Job]
  /\ late' \in [Tasks -> BOOLEAN]
BY DEF TypeOK, File, Handle, Job

-----------------------------------------------------------------------------
(* The inductive invariant                                                 *)

(* A write between create_temp and its rename owns a temporary file that   *)
(* is not an orphan; at every other step it owns none.                     *)
OwnsTemp(t) ==
  IF pc[t] \in Guarded THEN job[t].temp \in temps \ orphans ELSE job[t].temp = None

(* Past its write, a task's temporary file is whole: all its rows.         *)
WroteAll(t) ==
  pc[t] \in {"check", "rename"} =>
    files[job[t].temp].complete /\ files[job[t].temp].rows = job[t].rows

(* A mapping leads to a regular file that is nobody's temporary file.      *)
MapStands(t) ==
  IF handle[t].ino = None THEN handle[t] = NoStore
  ELSE handle[t].ino \notin temps /\ files[handle[t].ino].kind = "regular"

(* The identity a compaction checks is that of the file its store maps; a  *)
(* write in place is over no store.                                        *)
WritesOverItsStore(t) ==
  /\ pc[t] \in Resting => job[t] = NoJob
  /\ job[t].auto => job[t].opened # None
  /\ job[t].opened # None =>
       job[t].opened = handle[t].ino /\ pc[t] \notin {"inplace", "feed"}

(* Only a task at its rename is late, and it is unless its target still is *)
(* what it checked.                                                        *)
LateOrChecked(t) ==
  /\ late[t] => pc[t] = "rename"
  /\ (pc[t] = "rename" /\ job[t].opened # None) =>
       dir[job[t].target] \in {None, job[t].opened} \/ late[t]

TaskInv(t) ==
  OwnsTemp(t) /\ WroteAll(t) /\ MapStands(t) /\ WritesOverItsStore(t) /\ LateOrChecked(t)

(* No two writes own the same temporary file.                              *)
TempsApart ==
  \A t, u \in Tasks :
    (t # u /\ pc[t] \in Guarded /\ pc[u] \in Guarded) => job[t].temp # job[u].temp

(* A temporary file is regular, and an orphan or a write's.                *)
TempsStand ==
  \A i \in temps :
    /\ files[i].kind = "regular"
    /\ i \in orphans \/ \E t \in Tasks : pc[t] \in Guarded /\ job[t].temp = i

(* A name leads to a file that stands and is no temporary file.            *)
NamesStand ==
  \A n \in Names : dir[n] # None =>
    dir[n] \notin temps /\ files[dir[n]].kind # "free"

IndInv ==
  /\ TypeOK
  /\ \A t \in Tasks : TaskInv(t)
  /\ TempsApart /\ TempsStand /\ NamesStand

(* The invariant says what the runs check of a state.                      *)
LEMMA IndInvImplies ==
  IndInv => NoTempLeftBehind /\ OnlyLateReplacement
<1> SUFFICES ASSUME IndInv PROVE NoTempLeftBehind /\ OnlyLateReplacement
  OBVIOUS
<1>1. NoTempLeftBehind
  <2>1. \A i \in temps : i \in orphans \/ \E t \in Tasks : pc[t] \in Guarded /\ job[t].temp = i
    BY DEF IndInv, TempsStand
  <2>2. \A t \in Tasks : pc[t] \in Guarded => job[t].temp \in temps
    BY DEF IndInv, TaskInv, OwnsTemp
  <2>3. orphans \subseteq temps
    BY DEF IndInv, TypeOK
  <2> QED
    BY <2>1, <2>2, <2>3 DEF NoTempLeftBehind
<1>2. OnlyLateReplacement
  BY DEF IndInv, TaskInv, LateOrChecked, OnlyLateReplacement
<1> QED
  BY <1>1, <1>2

(* The invariant holds of a path with one complete store at it.            *)
LEMMA InitIndInv == Init => IndInv
<1> SUFFICES ASSUME Init PROVE IndInv
  OBVIOUS
<1> PICK i \in Inodes :
       /\ dir = [n \in Names |-> IF n = link THEN i ELSE None]
       /\ files = [x \in Inodes |-> IF x = i THEN Regular({}, TRUE) ELSE Free]
  BY DEF Init
<1>1. TypeOK
  BY ConstantTypes, TypeParts DEF Init, Resting
<1>2. \A t \in Tasks : pc[t] = "idle" /\ job[t] = NoJob /\ handle[t] = NoStore /\ late[t] = FALSE
  BY DEF Init
<1>3. temps = {} /\ orphans = {}
  BY DEF Init
<1>4. ASSUME NEW t \in Tasks PROVE TaskInv(t)
  <2>1. OwnsTemp(t) /\ WroteAll(t) /\ LateOrChecked(t)
    BY <1>2, NoFields DEF OwnsTemp, WroteAll, LateOrChecked, Guarded
  <2>2. MapStands(t) /\ WritesOverItsStore(t)
    BY <1>2, NoFields DEF MapStands, WritesOverItsStore
  <2> QED
    BY <2>1, <2>2 DEF TaskInv
<1>5. TempsApart /\ TempsStand
  BY <1>2, <1>3 DEF TempsApart, TempsStand, Guarded
<1>6. NamesStand
  BY <1>3, InodesAssumption DEF NamesStand, Regular
<1> QED
  BY <1>1, <1>4, <1>5, <1>6 DEF IndInv

-----------------------------------------------------------------------------
(* Steps                                                                   *)

(* The file at an inode is the same but for its permissions.               *)
SameStore(i) ==
  /\ files'[i].kind = files[i].kind
  /\ files'[i].rows = files[i].rows
  /\ files'[i].complete = files[i].complete

(* What a name, a temporary file or a mapping leads to survives a release. *)
LEMMA HeldIsKept ==
  ASSUME TypeOK, TypeOK', files' = Release(files, dir', temps', handle')
  PROVE  /\ \A n \in Names : dir'[n] # None => SameStore(dir'[n])
         /\ \A i \in temps' : SameStore(i)
         /\ \A t \in Tasks : handle'[t].ino # None => SameStore(handle'[t].ino)
<1>1. \A i \in Inodes : i \in Held(dir', temps', handle') => files'[i] = files[i]
  BY DEF Release
<1>2. \A n \in Names : dir'[n] # None => dir'[n] \in Inodes
  BY DEF TypeOK
<1>3. \A t \in Tasks : handle'[t].ino # None => handle'[t].ino \in Inodes
  BY TypeParts DEF TypeOK
<1>4. temps' \subseteq Inodes
  BY DEF TypeOK
<1> QED
  BY <1>1, <1>2, <1>3, <1>4 DEF Held, SameStore

(* A step of somebody else keeps a task's part of the invariant when it    *)
(* leaves the task's files alone and does not rename over its target       *)
(* unnoticed.                                                              *)
LEMMA BystanderKept ==
  ASSUME TypeOK, NEW u \in Tasks, TaskInv(u),
         pc'[u] = pc[u], job'[u] = job[u], handle'[u] = handle[u],
         late[u] => late'[u], late'[u] => pc[u] = "rename",
         pc[u] = "rename" => late'[u] \/ dir'[job[u].target] = dir[job[u].target],
         pc[u] \in Guarded => job[u].temp \in temps' \ orphans' /\ SameStore(job[u].temp),
         handle[u].ino # None => handle[u].ino \notin temps' /\ SameStore(handle[u].ino)
  PROVE  TaskInv(u)'
<1>1. OwnsTemp(u)'
  BY DEF TaskInv, OwnsTemp
<1>2. WroteAll(u)'
  BY DEF TaskInv, WroteAll, Guarded, SameStore
<1>3. MapStands(u)'
  BY DEF TaskInv, MapStands, SameStore
<1>4. WritesOverItsStore(u)'
  BY DEF TaskInv, WritesOverItsStore, SameStore, Shows
<1>5. LateOrChecked(u)'
  BY DEF TaskInv, LateOrChecked
<1> QED
  BY <1>1, <1>2, <1>3, <1>4, <1>5 DEF TaskInv

(* A task whose write is over keeps its part when its mapping stands.      *)
LEMMA IdleTaskInv ==
  ASSUME NEW t \in Tasks, pc'[t] \in Resting, job'[t] = NoJob, ~late'[t], MapStands(t)'
  PROVE  TaskInv(t)'
BY NoFields DEF TaskInv, OwnsTemp, WroteAll, WritesOverItsStore, LateOrChecked, Guarded,
   Resting

(* What names lead to stays as it is while they and their files do.        *)
LEMMA NamesKept ==
  ASSUME NamesStand, dir' = dir,
         \A n \in Names : dir[n] # None => dir[n] \notin temps' /\ SameStore(dir[n])
  PROVE  NamesStand'
BY DEF NamesStand, SameStore

(* A write that ends without a rename.                                     *)
LEMMA AbandonKeeps ==
  ASSUME IndInv, NEW t \in Tasks, Abandon(t)
  PROVE  IndInv'
<1> DEFINE tmp == {job[t].temp} \ {None}
<1>1. /\ \A u \in Tasks \ {t} : pc'[u] = pc[u] /\ job'[u] = job[u] /\ late'[u] = late[u]
      /\ pc'[t] = "failed" /\ job'[t] = NoJob /\ late'[t] = FALSE
      /\ dir' = dir /\ handle' = handle
  BY DEF Abandon, Goto, IndInv, TypeOK
<1>2. /\ tmp \subseteq temps \ orphans
      /\ pc[t] \in Guarded => job[t].temp \in tmp
      /\ \A u \in Tasks \ {t} : pc[u] \in Guarded => job[u].temp \notin tmp /\ job[u].temp \in temps \ orphans
  BY InodesAssumption DEF IndInv, TypeOK, TaskInv, OwnsTemp, TempsApart
<1>3. \/ temps' = temps \ tmp /\ orphans' = orphans
      \/ temps' = temps /\ orphans' = orphans \cup tmp
  BY DEF Abandon
<1>4. temps' \subseteq temps /\ orphans' \subseteq temps'
  <2> HIDE DEF tmp
  <2> QED BY <1>2, <1>3 DEF IndInv, TypeOK
<1>5. TypeOK'
  <2>1. files' \in [Inodes -> File]
    BY ReleaseType, TypeParts DEF Abandon, IndInv
  <2>2. job' \in [Tasks -> Job]
    BY ConstantTypes, TypeParts DEF Abandon, IndInv
  <2> QED
    BY <1>4, <2>1, <2>2, TypeParts, TypePartsNext DEF Abandon, Goto, IndInv, Resting
<1>6. /\ \A n \in Names : dir[n] # None => SameStore(dir[n])
      /\ \A i \in temps' : SameStore(i)
      /\ \A u \in Tasks : handle[u].ino # None => SameStore(handle[u].ino)
  BY <1>1, <1>5, HeldIsKept DEF Abandon, IndInv
<1>7. ASSUME NEW u \in Tasks PROVE TaskInv(u)'
  <2>1. CASE u = t
    <3>1. MapStands(t)'
      BY <1>1, <1>4, <1>6 DEF IndInv, TaskInv, MapStands, SameStore
    <3> QED
      BY <2>1, <3>1, <1>1, IdleTaskInv DEF Resting
  <2>2. CASE u # t
    <3>1. pc[u] \in Guarded => job[u].temp \in temps' \ orphans'
      <4> HIDE DEF tmp
      <4> QED BY <1>2, <1>3, <2>2
    <3>2. handle[u].ino # None => handle[u].ino \notin temps'
      BY <1>4 DEF IndInv, TaskInv, MapStands
    <3>3. late'[u] => pc[u] = "rename"
      BY <1>1, <2>2 DEF IndInv, TaskInv, LateOrChecked
    <3> QED
      BY <2>2, <3>1, <3>2, <3>3, <1>1, <1>6, BystanderKept DEF IndInv
  <2> QED
    BY <2>1, <2>2
<1>8. TempsApart'
  BY <1>1 DEF IndInv, TempsApart, Guarded
<1>9. TempsStand'
  <2> SUFFICES ASSUME NEW i \in temps'
               PROVE  files'[i].kind = "regular" /\ (i \in orphans' \/
                        \E u \in Tasks : pc'[u] \in Guarded /\ job'[u].temp = i)
    BY DEF TempsStand
  <2>1. i \in temps /\ files'[i].kind = "regular"
    BY <1>4, <1>6 DEF IndInv, TempsStand, SameStore
  <2>2. CASE i \in orphans
    BY <1>3, <2>1, <2>2
  <2>3. CASE i \notin orphans
    <3>1. PICK u \in Tasks : pc[u] \in Guarded /\ job[u].temp = i
      BY <2>1, <2>3 DEF IndInv, TempsStand
    <3>2. CASE u = t
      <4> HIDE DEF tmp
      <4> QED BY <1>2, <1>3, <2>1, <3>1, <3>2
    <3>3. CASE u # t
      BY <1>1, <2>1, <3>1, <3>3
    <3> QED
      BY <3>2, <3>3
  <2> QED
    BY <2>2, <2>3
<1>10. NamesStand'
  BY <1>1, <1>4, <1>6, NamesKept DEF IndInv, NamesStand
<1> QED
  BY <1>5, <1>7, <1>8, <1>9, <1>10 DEF IndInv

(* A step of one task that creates, renames and removes nothing: what it   *)
(* changes is its own write, store and temporary file.                     *)
LEMMA OwnStepKeeps ==
  ASSUME IndInv, TypeOK', NEW t \in Tasks, TaskInv(t)',
         \A u \in Tasks \ {t} : /\ pc'[u] = pc[u] /\ job'[u] = job[u]
                                /\ handle'[u] = handle[u] /\ late'[u] = late[u],
         dir' = dir, temps' = temps, orphans' = orphans,
         pc'[t] \in Guarded <=> pc[t] \in Guarded,
         pc[t] \in Guarded => job'[t].temp = job[t].temp,
         \A n \in Names : dir[n] # None => SameStore(dir[n]),
         \A i \in temps : files'[i].kind = files[i].kind /\ (i # job[t].temp => SameStore(i)),
         \A u \in Tasks \ {t} : handle[u].ino # None => SameStore(handle[u].ino)
  PROVE  IndInv'
<1>1. ASSUME NEW u \in Tasks PROVE TaskInv(u)'
  <2>1. CASE u = t
    BY <2>1
  <2>2. CASE u # t
    <3>1. pc[u] \in Guarded => job[u].temp \in temps' \ orphans' /\ SameStore(job[u].temp)
      <4>1. pc[u] \in Guarded /\ pc[t] \in Guarded => job[u].temp # job[t].temp
        BY <2>2 DEF IndInv, TempsApart
      <4>2. pc[t] \notin Guarded => job[t].temp = None
        BY DEF IndInv, TaskInv, OwnsTemp
      <4>3. pc[u] \in Guarded => job[u].temp \in temps \ orphans /\ job[u].temp # None
        BY InodesAssumption DEF IndInv, TypeOK, TaskInv, OwnsTemp
      <4> QED
        BY <4>1, <4>2, <4>3
    <3>2. handle[u].ino # None => handle[u].ino \notin temps'
      BY DEF IndInv, TaskInv, MapStands
    <3>3. late'[u] => pc[u] = "rename"
      BY <2>2 DEF IndInv, TaskInv, LateOrChecked
    <3>4. /\ pc'[u] = pc[u] /\ job'[u] = job[u] /\ handle'[u] = handle[u] /\ late'[u] = late[u]
          /\ handle[u].ino # None => SameStore(handle[u].ino)
      BY <2>2
    <3> QED
      BY <3>1, <3>2, <3>3, <3>4, BystanderKept DEF IndInv
  <2> QED
    BY <2>1, <2>2
<1>2. TempsApart'
  BY DEF IndInv, TempsApart
<1>3. TempsStand'
  BY DEF IndInv, TempsStand
<1>4. NamesStand'
  BY NamesKept DEF IndInv, NamesStand
<1> QED
  BY <1>1, <1>2, <1>3, <1>4 DEF IndInv

(* A step of the write that only moves it on: Start, Resolve, Inspect,     *)
(* Probe and EnsureUnreplaced.                                             *)
LEMMA AdvanceKeeps ==
  ASSUME IndInv, NEW t \in Tasks, NEW step \in Working, NEW j \in Job,
         Advance(t, step, j),
         j.temp = job[t].temp, j.opened = job[t].opened, j.rows = job[t].rows,
         j.batch = job[t].batch, j.auto = job[t].auto,
         step \in Guarded <=> pc[t] \in Guarded,
         step \in {"check", "rename"} => pc[t] = "check",
         step # "rename" => pc[t] # "rename",
         step \in {"inplace", "feed"} => j.opened = None,
         step = "rename" => j.opened = None \/ dir[j.target] \in {None, j.opened}
  PROVE  IndInv'
<1>1. /\ \A u \in Tasks \ {t} : pc'[u] = pc[u] /\ job'[u] = job[u]
      /\ pc'[t] = step /\ job'[t] = j
      /\ UNCHANGED <<link, dir, files, temps, dirWritable, handle, orphans, late>>
  BY DEF Advance, Goto, IndInv, TypeOK, disk
<1>2. TypeOK'
  <2>1. job' \in [Tasks -> Job] /\ pc' \in [Tasks -> Working \cup Resting]
    BY TypeParts DEF Advance, Goto, IndInv
  <2> QED
    BY <1>1, <2>1, TypeParts, TypePartsNext DEF IndInv
<1>3. TaskInv(t)'
  <2>1. OwnsTemp(t)' /\ WroteAll(t)' /\ MapStands(t)'
    BY <1>1 DEF IndInv, TaskInv, OwnsTemp, WroteAll, MapStands
  <2>2. WritesOverItsStore(t)'
    BY <1>1 DEF IndInv, TaskInv, WritesOverItsStore, Working, Guarded, Waiting, Resting
  <2>3. LateOrChecked(t)'
    BY <1>1 DEF IndInv, TaskInv, LateOrChecked
  <2> QED
    BY <2>1, <2>2, <2>3 DEF TaskInv
<1>4. \A i : SameStore(i)
  BY <1>1 DEF SameStore
<1> QED
  BY <1>1, <1>2, <1>3, <1>4, OwnStepKeeps

(* The writer's refusal: the batch stays in the tail, or the call fails.   *)
LEMMA RefuseKeeps ==
  ASSUME IndInv, NEW t \in Tasks, pc[t] \in {"probe", "temp"}, Refuse(t)
  PROVE  IndInv'
<1>1. CASE ~job[t].auto
  BY <1>1, AbandonKeeps DEF Refuse, Fail
<1>2. CASE job[t].auto
  <2>1. /\ \A u \in Tasks \ {t} : pc'[u] = pc[u] /\ job'[u] = job[u] /\ handle'[u] = handle[u]
        /\ pc'[t] = "idle" /\ job'[t] = NoJob
        /\ handle'[t].ino = handle[t].ino
        /\ UNCHANGED <<link, dir, files, temps, dirWritable, orphans, late>>
    BY <1>2, TypeParts DEF Refuse, Goto, IndInv, disk, Handle
  <2>2. TypeOK'
    <3>1. job' \in [Tasks -> Job] /\ pc' \in [Tasks -> Working \cup Resting]
      BY <1>2, TypeParts, ConstantTypes DEF Refuse, Goto, IndInv, Resting
    <3>2. handle' \in [Tasks -> Handle]
      BY <1>2, TypeParts DEF Refuse, IndInv, Handle, Job
    <3> QED
      BY <2>1, <3>1, <3>2, TypeParts, TypePartsNext DEF IndInv
  <2>3. MapStands(t)' /\ ~late'[t]
    BY <1>2, <2>1 DEF IndInv, TaskInv, MapStands, WritesOverItsStore, LateOrChecked
  <2>4. \A i : SameStore(i)
    BY <2>1 DEF SameStore
  <2> QED
    BY <2>1, <2>2, <2>3, <2>4, IdleTaskInv, OwnStepKeeps DEF Guarded, Resting
<1> QED
  BY <1>1, <1>2

(* A write in place that is over: nothing was opened, no file created.     *)
LEMMA ReturnKeeps ==
  ASSUME IndInv, NEW t \in Tasks, pc[t] \in {"inplace", "feed"}, Return(t)
  PROVE  IndInv'
<1>1. /\ \A u \in Tasks \ {t} : pc'[u] = pc[u] /\ job'[u] = job[u]
      /\ pc'[t] = "idle" /\ job'[t] = NoJob
      /\ UNCHANGED <<link, dir, files, temps, dirWritable, handle, orphans, late>>
  BY DEF Return, Advance, Goto, IndInv, TypeOK, disk
<1>2. TypeOK'
  <2>1. job' \in [Tasks -> Job] /\ pc' \in [Tasks -> Working \cup Resting]
    BY TypeParts, ConstantTypes DEF Return, Advance, Goto, IndInv, Resting
  <2> QED
    BY <1>1, <2>1, TypeParts, TypePartsNext DEF IndInv
<1>3. MapStands(t)' /\ ~late'[t]
  BY <1>1 DEF IndInv, TaskInv, MapStands, LateOrChecked
<1>4. \A i : SameStore(i)
  BY <1>1 DEF SameStore
<1> QED
  BY <1>1, <1>2, <1>3, <1>4, IdleTaskInv, OwnStepKeeps DEF Guarded, Resting

(* A file overwritten in place stands where it stood, whatever it shows.   *)
LEMMA OverwriteKeeps ==
  ASSUME IndInv, NEW t \in Tasks, pc[t] = "inplace", Overwrite(t), At(link).kind = "regular"
  PROVE  IndInv'
<1> DEFINE i == dir[link]
<1>1. PICK complete \in BOOLEAN, end \in Resting :
        /\ files' = [files EXCEPT ![i].rows = IF complete THEN job[t].rows ELSE {},
                                  ![i].complete = complete]
        /\ Goto(t, end)
        /\ job' = [job EXCEPT ![t] = NoJob]
        /\ UNCHANGED <<link, dir, temps, dirWritable, handle, orphans, late>>
  BY DEF Overwrite
<1>2. i \in Inodes /\ i \notin temps /\ files[i] \in File
  BY TypeParts DEF IndInv, NamesStand, At, Free
<1>3. files' \in [Inodes -> File] /\ \A x \in Inodes \ {i} : SameStore(x)
  <2>1. job[t].rows \in SUBSET Tasks
    BY TypeParts DEF IndInv, Job
  <2>2. files' = [files EXCEPT ![i] = [files[i] EXCEPT
                    !.rows = IF complete THEN job[t].rows ELSE {}, !.complete = complete]]
    BY <1>1, <1>2, TypeParts DEF IndInv
  <2> HIDE DEF i
  <2> QED
    BY <1>2, <2>1, <2>2, TypeParts DEF IndInv, File, SameStore
<1>4. \A x \in Inodes : files'[x].kind = files[x].kind
  <2>1. files' = [files EXCEPT ![i] = [files[i] EXCEPT
                    !.rows = IF complete THEN job[t].rows ELSE {}, !.complete = complete]]
    BY <1>1, <1>2, TypeParts DEF IndInv
  <2> HIDE DEF i
  <2> QED
    BY <1>2, <2>1, TypeParts DEF IndInv, File
<1>5. /\ \A u \in Tasks \ {t} : pc'[u] = pc[u] /\ job'[u] = job[u]
      /\ pc'[t] \in Resting /\ job'[t] = NoJob
      /\ pc' \in [Tasks -> Working \cup Resting] /\ job' \in [Tasks -> Job]
  BY <1>1, TypeParts, ConstantTypes DEF IndInv, Goto
<1> HIDE DEF i
<1>6. TypeOK'
  BY <1>1, <1>3, <1>5, TypeParts, TypePartsNext DEF IndInv
<1>7. ASSUME NEW u \in Tasks PROVE TaskInv(u)'
  <2>1. MapStands(u)'
    BY <1>1, <1>4, TypeParts DEF IndInv, TaskInv, MapStands, Handle
  <2>2. CASE u = t
    <3>1. ~late'[t]
      BY <1>1 DEF IndInv, TaskInv, LateOrChecked
    <3> QED
      BY <1>5, <2>1, <2>2, <3>1, IdleTaskInv
  <2>3. CASE u # t
    <3>1. OwnsTemp(u)' /\ WritesOverItsStore(u)' /\ LateOrChecked(u)'
      BY <1>1, <1>5, <2>3 DEF IndInv, TaskInv, OwnsTemp, WritesOverItsStore, LateOrChecked
    <3>2. pc[u] \in Guarded => SameStore(job[u].temp)
      BY <1>2, <1>3 DEF IndInv, TypeOK, TaskInv, OwnsTemp
    <3>3. WroteAll(u)'
      BY <1>5, <2>3, <3>2 DEF IndInv, TaskInv, WroteAll, SameStore, Guarded
    <3> QED
      BY <2>1, <3>1, <3>3 DEF TaskInv
  <2> QED
    BY <2>2, <2>3
<1>8. TempsApart'
  BY <1>5 DEF IndInv, TempsApart, Guarded, Resting
<1>9. TempsStand'
  <2> SUFFICES ASSUME NEW x \in temps
               PROVE  files'[x].kind = "regular" /\ (x \in orphans \/
                        \E u \in Tasks : pc'[u] \in Guarded /\ job'[u].temp = x)
    BY <1>1 DEF TempsStand
  <2>1. files'[x].kind = "regular"
    BY <1>4 DEF IndInv, TempsStand, TypeOK
  <2>2. x \in orphans \/ \E u \in Tasks \ {t} : pc[u] \in Guarded /\ job[u].temp = x
    BY DEF IndInv, TempsStand, Guarded
  <2> QED
    BY <1>5, <2>1, <2>2
<1>10. NamesStand'
  BY <1>1, <1>4 DEF IndInv, TypeOK, NamesStand
<1> QED
  BY <1>6, <1>7, <1>8, <1>9, <1>10 DEF IndInv

(* A store mapped: from_file, on its own or at the end of a write.         *)
LEMMA MappedKeeps ==
  ASSUME IndInv, NEW t \in Tasks, pc[t] \in Resting \cup {"reopen"}, Mapped(t),
         NEW step \in Resting, pc' = [pc EXCEPT ![t] = step], job' = [job EXCEPT ![t] = NoJob],
         UNCHANGED <<link, dir, temps, dirWritable, orphans, late>>
  PROVE  IndInv'
<1>1. /\ \A u \in Tasks \ {t} : pc'[u] = pc[u] /\ job'[u] = job[u] /\ handle'[u] = handle[u]
      /\ handle'[t].ino = dir[link] /\ pc'[t] \in Resting /\ job'[t] = NoJob
      /\ files' = Release(files, dir', temps', handle')
      /\ UNCHANGED <<link, dir, temps, dirWritable, orphans, late>>
      /\ files[dir[link]].kind = "regular" /\ dir[link] # None
  BY TypeParts DEF Mapped, IndInv, At, Free
<1>2. TypeOK'
  <2>1. handle' \in [Tasks -> Handle]
    BY TypeParts DEF Mapped, IndInv, Handle
  <2>2. files' \in [Inodes -> File]
    BY <1>1, ReleaseType, TypeParts DEF IndInv
  <2>3. job' \in [Tasks -> Job] /\ pc' \in [Tasks -> Working \cup Resting]
    BY TypeParts, ConstantTypes DEF IndInv
  <2> QED
    BY <1>1, <2>1, <2>2, <2>3, TypeParts, TypePartsNext DEF IndInv
<1>3. /\ \A n \in Names : dir[n] # None => SameStore(dir[n])
      /\ \A i \in temps : SameStore(i)
      /\ \A u \in Tasks : handle'[u].ino # None => SameStore(handle'[u].ino)
  BY <1>1, <1>2, HeldIsKept DEF IndInv
<1>4. TaskInv(t)'
  <2>1. MapStands(t)'
    BY <1>1, <1>3 DEF IndInv, TypeOK, NamesStand, MapStands, SameStore
  <2>2. ~late[t]
    BY DEF IndInv, TaskInv, LateOrChecked, Resting
  <2> QED
    BY <1>1, <2>1, <2>2, IdleTaskInv
<1>5. \A u \in Tasks \ {t} : handle[u].ino # None => SameStore(handle[u].ino)
  BY <1>1, <1>3
<1>6. \A i \in temps : files'[i].kind = files[i].kind
  BY <1>3 DEF SameStore
<1> QED
  BY <1>1, <1>2, <1>3, <1>4, <1>5, <1>6, OwnStepKeeps DEF Guarded, Resting

(* Opening a store maps the file its name leads to.                        *)
LEMMA OpenKeeps ==
  ASSUME IndInv, NEW t \in Tasks, Open(t)
  PROVE  IndInv'
<1>1. pc = [pc EXCEPT ![t] = pc[t]] /\ job = [job EXCEPT ![t] = NoJob]
  BY DEF Open, IndInv, TypeOK, TaskInv, WritesOverItsStore
<1> QED
  BY <1>1, MappedKeeps DEF Open

(* A writer reopens by name: it maps what the name leads to now, waits for *)
(* the other end of a pipe, or fails.                                      *)
LEMMA ReopenKeeps ==
  ASSUME IndInv, NEW t \in Tasks, Reopen(t)
  PROVE  IndInv'
<1>1. CASE Abandon(t)
  BY <1>1, AbandonKeeps
<1>2. CASE Advance(t, "reopenwait", job[t])
  <2>1. job[t] \in Job /\ pc[t] = "reopen"
    BY TypeParts DEF IndInv, Reopen
  <2> QED
    BY <1>2, <2>1, AdvanceKeeps DEF Working, Waiting, Guarded
<1>3. CASE /\ Mapped(t) /\ Goto(t, "idle") /\ job' = [job EXCEPT ![t] = NoJob]
           /\ UNCHANGED <<link, dir, temps, dirWritable, orphans, late>>
  <2>1. pc[t] = "reopen"
    BY DEF Reopen
  <2> QED
    BY <1>3, <2>1, MappedKeeps DEF Goto, Resting
<1> QED
  BY <1>1, <1>2, <1>3 DEF Reopen, Fail

(* The process at the other end of a pipe lets the waiting write go on.    *)
LEMMA PipeAnswersKeeps ==
  ASSUME IndInv, NEW t \in Tasks, PipeAnswers(t)
  PROVE  IndInv'
<1>1. job[t] \in Job
  BY TypeParts DEF IndInv
<1>2. CASE pc[t] = "probewait" /\ Advance(t, "temp", job[t])
  BY <1>1, <1>2, AdvanceKeeps DEF Working, Guarded
<1> QED
  BY <1>2, ReturnKeeps, AbandonKeeps DEF PipeAnswers, Fail

(* Dropping a handle releases the inode it alone kept.                     *)
LEMMA CloseKeeps ==
  ASSUME IndInv, NEW t \in Tasks, Close(t)
  PROVE  IndInv'
<1>1. /\ \A u \in Tasks \ {t} : handle'[u] = handle[u]
      /\ handle'[t] = NoStore
      /\ files' = Release(files, dir', temps', handle')
      /\ UNCHANGED <<link, dir, temps, dirWritable, pc, job, orphans, late>>
      /\ pc[t] \in Resting
  BY TypeParts DEF Close, IndInv
<1>2. TypeOK'
  <2>1. handle' \in [Tasks -> Handle]
    BY TypeParts, ConstantTypes DEF Close, IndInv
  <2>2. files' \in [Inodes -> File]
    BY <1>1, ReleaseType, TypeParts DEF IndInv
  <2> QED
    BY <1>1, <2>1, <2>2, TypeParts, TypePartsNext DEF IndInv
<1>3. /\ \A n \in Names : dir[n] # None => SameStore(dir[n])
      /\ \A i \in temps : SameStore(i)
      /\ \A u \in Tasks : handle'[u].ino # None => SameStore(handle'[u].ino)
  BY <1>1, <1>2, HeldIsKept DEF IndInv
<1>4. TaskInv(t)'
  <2>1. MapStands(t)'
    BY <1>1, NoFields DEF MapStands
  <2>2. job[t] = NoJob /\ ~late[t]
    BY <1>1 DEF IndInv, TaskInv, WritesOverItsStore, LateOrChecked, Resting
  <2> QED
    BY <1>1, <2>1, <2>2, IdleTaskInv
<1>5. \A u \in Tasks \ {t} : handle[u].ino # None => SameStore(handle[u].ino)
  BY <1>1, <1>3
<1>6. \A i \in temps : files'[i].kind = files[i].kind
  BY <1>3 DEF SameStore
<1> QED
  BY <1>1, <1>2, <1>3, <1>4, <1>5, <1>6, OwnStepKeeps DEF Guarded

(* A write begins: what it is to write is what the store shows.            *)
LEMMA BeginShows ==
  ASSUME IndInv, NEW t \in Tasks, BeginAdd(t) \/ BeginCompact(t) \/ BeginBuild(t)
  PROVE  \E opened \in {None} \cup Inodes, rows \in SUBSET Tasks, batch \in SUBSET Tasks,
            auto \in BOOLEAN :
           /\ Begin(t, opened, rows, batch, auto)
           /\ auto => opened # None
           /\ opened # None => opened = handle[t].ino /\ rows = Shows(handle[t]) \cup batch
<1>1. handle[t] \in Handle /\ handle[t].tail \in SUBSET Tasks /\ handle[t].ino \in {None} \cup Inodes
  BY TypeParts DEF IndInv, Handle
<1>2. handle[t] # NoStore => handle[t].ino # None /\ Shows(handle[t]) \in SUBSET Tasks
  BY <1>1, TypeParts DEF IndInv, TaskInv, MapStands, Shows, File
<1>3. CASE BeginAdd(t)
  <2>1. Begin(t, handle[t].ino, Shows(handle[t]) \cup {t}, {t}, TRUE) /\ handle[t] # NoStore
    BY <1>3 DEF BeginAdd
  <2>2. Shows(handle[t]) \cup {t} \in SUBSET Tasks /\ {t} \in SUBSET Tasks
    BY <1>2, <2>1
  <2> QED
    BY <1>1, <1>2, <2>1, <2>2
<1>4. CASE BeginCompact(t)
  <2>1. Begin(t, handle[t].ino, Shows(handle[t]), {}, FALSE) /\ handle[t] # NoStore
    BY <1>4 DEF BeginCompact
  <2>2. Shows(handle[t]) = Shows(handle[t]) \cup {} /\ {} \in SUBSET Tasks
    OBVIOUS
  <2> QED
    BY <1>1, <1>2, <2>1, <2>2
<1>5. CASE BeginBuild(t)
  BY <1>5 DEF BeginBuild
<1> QED
  BY <1>3, <1>4, <1>5

(* A write that begins owns nothing yet.                                   *)
LEMMA BeginKeeps ==
  ASSUME IndInv, NEW t \in Tasks, BeginAdd(t) \/ BeginCompact(t) \/ BeginBuild(t)
  PROVE  IndInv'
<1>1. PICK opened \in {None} \cup Inodes, rows \in SUBSET Tasks, batch \in SUBSET Tasks,
           auto \in BOOLEAN :
        /\ Begin(t, opened, rows, batch, auto)
        /\ auto => opened # None
        /\ opened # None => opened = handle[t].ino
  BY BeginShows
<1> DEFINE j == [NoJob EXCEPT !.opened = opened, !.rows = rows, !.batch = batch, !.auto = auto]
<1>2. /\ j \in Job /\ j.opened = opened /\ j.rows = rows /\ j.batch = batch /\ j.auto = auto
      /\ j.temp = None
  BY ConstantTypes, NoFields DEF Job
<1>3. /\ \A u \in Tasks \ {t} : pc'[u] = pc[u] /\ job'[u] = job[u]
      /\ pc'[t] = "start" /\ job'[t] = j /\ pc[t] \in Resting
      /\ UNCHANGED <<link, dir, files, temps, dirWritable, handle, orphans, late>>
  BY <1>1 DEF Begin, Goto, IndInv, TypeOK, disk
<1> HIDE DEF j
<1>4. TypeOK'
  <2>1. pc' \in [Tasks -> Working \cup Resting]
    BY <1>1, TypeParts DEF Begin, Goto, IndInv, Working
  <2>2. job' \in [Tasks -> Job]
    BY <1>1, <1>2, TypeParts DEF Begin, IndInv, j
  <2> QED
    BY <1>3, <2>1, <2>2, TypeParts, TypePartsNext DEF IndInv
<1>5. TaskInv(t)'
  <2>1. OwnsTemp(t)' /\ WroteAll(t)' /\ MapStands(t)' /\ LateOrChecked(t)'
    BY <1>2, <1>3 DEF IndInv, TaskInv, OwnsTemp, WroteAll, MapStands, LateOrChecked, Guarded,
       Resting
  <2>2. WritesOverItsStore(t)'
    BY <1>1, <1>2, <1>3 DEF WritesOverItsStore, Resting
  <2> QED
    BY <2>1, <2>2 DEF TaskInv
<1>6. \A i : SameStore(i)
  BY <1>3 DEF SameStore
<1> QED
  BY <1>3, <1>4, <1>5, <1>6, OwnStepKeeps DEF Guarded, Resting

(* create_temp: a free inode is nobody's.                                  *)
LEMMA CreateTempKeeps ==
  ASSUME IndInv, NEW t \in Tasks, CreateTemp(t)
  PROVE  IndInv'
<1>0. pc[t] = "temp"
  BY DEF CreateTemp
<1>1. CASE ~dirWritable
  BY <1>0, <1>1, RefuseKeeps DEF CreateTemp
<1>2. CASE dirWritable /\ FreeInodes = {}
  BY <1>2, AbandonKeeps DEF CreateTemp, Fail
<1>3. CASE dirWritable /\ FreeInodes # {}
  <2>1. PICK i \in FreeInodes :
          /\ files' = [files EXCEPT ![i] = Regular({}, FALSE)]
          /\ temps' = temps \cup {i}
          /\ job' = [job EXCEPT ![t].temp = i]
          /\ Goto(t, IF job[t].permissions = "none" THEN "write" ELSE "chmod")
          /\ UNCHANGED <<link, dir, dirWritable, handle, orphans, late>>
    BY <1>3 DEF CreateTemp
  <2>2. /\ i \in Inodes /\ files[i].kind = "free" /\ files'[i].kind = "regular"
        /\ \A x \in Inodes \ {i} : SameStore(x)
    BY <2>1, TypeParts DEF FreeInodes, Free, Regular, IndInv, SameStore
  <2>3. /\ i \notin temps /\ \A n \in Names : dir[n] # i
        /\ \A u \in Tasks : handle[u].ino # i
    BY <2>2, InodesAssumption DEF IndInv, TempsStand, NamesStand, TaskInv, MapStands
  <2>4. /\ \A u \in Tasks \ {t} : pc'[u] = pc[u] /\ job'[u] = job[u]
        /\ pc'[t] \in {"write", "chmod"} /\ job'[t] = [job[t] EXCEPT !.temp = i]
        /\ job'[t].temp = i /\ job'[t].opened = job[t].opened /\ job'[t].rows = job[t].rows
        /\ job'[t].batch = job[t].batch /\ job'[t].auto = job[t].auto
    BY <2>1, TypeParts DEF IndInv, Goto, Job
  <2>5. /\ pc'[t] \in Guarded /\ pc'[t] \notin {"check", "rename"} \cup Resting /\ pc[t] \notin Guarded
         /\ i \in temps' \ orphans'
    BY <1>0, <2>1, <2>3, <2>4 DEF Guarded, Resting, IndInv, TypeOK
  <2>6. TypeOK'
    <3>1. files' \in [Inodes -> File]
      BY <2>1, ConstantTypes, TypeParts DEF IndInv
    <3>2. job' \in [Tasks -> Job]
      BY <2>1, <2>2, TypeParts, SMTT(30) DEF IndInv, Job
    <3>3. pc' \in [Tasks -> Working \cup Resting]
      BY <2>1, TypeParts DEF IndInv, Goto, Working, Guarded
    <3> QED
      BY <2>1, <2>2, <3>1, <3>2, <3>3, TypeParts, TypePartsNext DEF IndInv
  <2>7. /\ \A n \in Names : dir[n] # None => SameStore(dir[n])
        /\ \A u \in Tasks : handle[u].ino # None => SameStore(handle[u].ino)
        /\ \A x \in temps : SameStore(x)
    <3>1. /\ \A n \in Names : dir[n] \in {None} \cup Inodes
          /\ \A u \in Tasks : handle[u].ino \in {None} \cup Inodes
          /\ temps \subseteq Inodes
      BY TypeParts DEF IndInv, Handle
    <3> QED
      BY <2>2, <2>3, <3>1
  <2>8. ASSUME NEW u \in Tasks PROVE TaskInv(u)'
    <3>1. CASE u = t
      <4>1. OwnsTemp(t)' /\ WroteAll(t)'
        BY <2>4, <2>5 DEF OwnsTemp, WroteAll
      <4>2. MapStands(t)'
        BY <2>1, <2>3, <2>7 DEF IndInv, TaskInv, MapStands, SameStore
      <4>3. WritesOverItsStore(t)'
        BY <2>1, <2>4, <2>5 DEF IndInv, TaskInv, WritesOverItsStore
      <4>4. LateOrChecked(t)'
        BY <1>0, <2>1, <2>4 DEF IndInv, TaskInv, LateOrChecked
      <4> QED
        BY <3>1, <4>1, <4>2, <4>3, <4>4 DEF TaskInv
    <3>2. CASE u # t
      <4>1. pc[u] \in Guarded => job[u].temp \in temps' \ orphans' /\ SameStore(job[u].temp)
        BY <2>1, <2>7 DEF IndInv, TaskInv, OwnsTemp
      <4>2. handle[u].ino # None => handle[u].ino \notin temps'
        BY <2>1, <2>3 DEF IndInv, TaskInv, MapStands
      <4>3. late'[u] = late[u] /\ (late'[u] => pc[u] = "rename")
        BY <2>1 DEF IndInv, TaskInv, LateOrChecked
      <4> QED
        BY <2>1, <2>4, <2>7, <3>2, <4>1, <4>2, <4>3, BystanderKept DEF IndInv
    <3> QED
      BY <3>1, <3>2
  <2>9. TempsApart'
    <3>1. \A u \in Tasks : pc[u] \in Guarded => job[u].temp # i
      BY <2>3 DEF IndInv, TaskInv, OwnsTemp
    <3>2. ASSUME NEW u \in Tasks, NEW v \in Tasks, u # v, pc'[u] \in Guarded, pc'[v] \in Guarded
          PROVE  job'[u].temp # job'[v].temp
      <4>1. CASE u = t
        BY <2>4, <3>1, <3>2, <4>1
      <4>2. CASE v = t
        BY <2>4, <3>1, <3>2, <4>2
      <4>3. CASE u # t /\ v # t
        BY <2>4, <3>2, <4>3 DEF IndInv, TempsApart
      <4> QED
        BY <4>1, <4>2, <4>3
    <3> QED
      BY <3>2 DEF TempsApart
  <2>10. TempsStand'
    <3> SUFFICES ASSUME NEW x \in temps'
                 PROVE  files'[x].kind = "regular" /\ (x \in orphans' \/
                          \E u \in Tasks : pc'[u] \in Guarded /\ job'[u].temp = x)
      BY DEF TempsStand
    <3>1. CASE x = i
      BY <2>2, <2>4, <2>5, <3>1
    <3>2. CASE x # i
      <4>1. x \in temps /\ files'[x].kind = "regular"
        BY <2>1, <2>7, <3>2 DEF IndInv, TempsStand, SameStore
      <4>2. x \in orphans \/ \E u \in Tasks : pc[u] \in Guarded /\ job[u].temp = x
        BY <4>1 DEF IndInv, TempsStand
      <4> QED
        BY <2>1, <2>4, <2>5, <4>1, <4>2
    <3> QED
      BY <3>1, <3>2
  <2>11. NamesStand'
    BY <2>1, <2>3, <2>7, NamesKept DEF IndInv, NamesStand
  <2> QED
    BY <2>6, <2>8, <2>9, <2>10, <2>11 DEF IndInv
<1> QED
  BY <1>1, <1>2, <1>3

(* The permissions copied and the rows written: the task's own file only.  *)
LEMMA WriteKeeps ==
  ASSUME IndInv, NEW t \in Tasks, CopyPermissions(t) \/ WriteTemp(t)
  PROVE  IndInv'
<1> DEFINE i == job[t].temp
<1>1. i \in temps \ orphans /\ i \in Inodes /\ pc[t] \in {"chmod", "write"}
  BY DEF IndInv, TypeOK, TaskInv, OwnsTemp, CopyPermissions, WriteTemp, Guarded
<1>2. /\ \A u \in Tasks \ {t} : pc'[u] = pc[u]
      /\ pc'[t] \in {"write", "check"}
      /\ UNCHANGED <<link, dir, temps, dirWritable, handle, job, orphans, late>>
  BY DEF CopyPermissions, WriteTemp, Goto, IndInv, TypeOK
<1>3. /\ files' \in [Inodes -> File]
      /\ \A x \in Inodes \ {i} : SameStore(x)
      /\ files'[i].kind = files[i].kind
      /\ pc'[t] = "check" => files'[i].complete /\ files'[i].rows = job[t].rows
  <2>0. job[t].rows \in SUBSET Tasks /\ files[i] \in File
    BY <1>1, TypeParts DEF IndInv, Job
  <2>1. CASE CopyPermissions(t)
    <3>1. files' = [files EXCEPT ![i] = [files[i] EXCEPT !.writable = (job[t].permissions = "rw")]]
          /\ pc'[t] = "write"
      BY <2>1, TypeParts DEF CopyPermissions, Goto, IndInv
    <3> HIDE DEF i
    <3> QED
      BY <1>1, <2>0, <3>1, TypeParts DEF IndInv, File, SameStore
  <2>2. CASE WriteTemp(t)
    <3>1. files' = [files EXCEPT ![i] = [files[i] EXCEPT !.rows = job[t].rows, !.complete = TRUE]]
      BY <1>1, <2>2, TypeParts DEF WriteTemp, IndInv
    <3> HIDE DEF i
    <3> QED
      BY <1>1, <2>0, <3>1, TypeParts DEF IndInv, File, SameStore
  <2> QED
    BY <2>1, <2>2
<1>4. TypeOK'
  <2>1. pc' \in [Tasks -> Working \cup Resting]
    BY TypeParts DEF CopyPermissions, WriteTemp, Goto, IndInv, Working, Guarded
  <2> QED
    BY <1>2, <1>3, <2>1, TypeParts, TypePartsNext DEF IndInv
<1>5. /\ \A n \in Names : dir[n] # None => SameStore(dir[n])
      /\ \A x \in temps : files'[x].kind = files[x].kind /\ (x # i => SameStore(x))
      /\ \A u \in Tasks : handle[u].ino # None => SameStore(handle[u].ino)
  <2>1. /\ \A n \in Names : dir[n] # None => dir[n] \in Inodes \ {i}
        /\ \A u \in Tasks : handle[u].ino # None => handle[u].ino \in Inodes \ {i}
        /\ temps \subseteq Inodes
    BY <1>1, TypeParts DEF IndInv, Handle, NamesStand, TaskInv, MapStands
  <2> HIDE DEF i
  <2> QED
    BY <1>3, <2>1 DEF SameStore
<1>6. TaskInv(t)'
  <2>1. OwnsTemp(t)' /\ LateOrChecked(t)'
    BY <1>1, <1>2 DEF OwnsTemp, LateOrChecked, IndInv, TaskInv, Guarded
  <2>2. WroteAll(t)'
    BY <1>2, <1>3 DEF WroteAll
  <2>3. MapStands(t)'
    BY <1>2, <1>5 DEF IndInv, TaskInv, MapStands, SameStore
  <2>4. WritesOverItsStore(t)'
    BY <1>2 DEF IndInv, TaskInv, WritesOverItsStore, Resting
  <2> QED
    BY <2>1, <2>2, <2>3, <2>4 DEF TaskInv
<1>7. pc[t] \in Guarded /\ pc'[t] \in Guarded
  BY <1>1, <1>2 DEF Guarded
<1> QED
  BY <1>2, <1>4, <1>5, <1>6, <1>7, OwnStepKeeps

(* The rename: the task's temporary file becomes the target's file, and    *)
(* every other task about to rename over the target is late.               *)
LEMMA RenamedKeeps ==
  ASSUME IndInv, NEW t \in Tasks, pc[t] = "rename", Renamed(t),
         NEW step, NEW j \in Job,
         pc' = [pc EXCEPT ![t] = step], job' = [job EXCEPT ![t] = j],
         \/ step \in Resting /\ j = NoJob
         \/ step = "reopen" /\ j = [job[t] EXCEPT !.temp = None]
  PROVE  IndInv'
<1> DEFINE i == job[t].temp
           n == job[t].target
<1>1. /\ i \in temps \ orphans /\ i \in Inodes /\ n \in Names /\ i # None
      /\ files[i].kind = "regular"
  <2>1. i \in temps \ orphans
    BY DEF IndInv, TaskInv, OwnsTemp, Guarded
  <2>2. temps \subseteq Inodes /\ n \in Names
    BY TypeParts DEF IndInv, Job
  <2> QED
    BY <2>1, <2>2, InodesAssumption DEF IndInv, TempsStand
<1>2. /\ dir' = [dir EXCEPT ![n] = i] /\ temps' = temps \ {i}
      /\ files' = Release(files, dir', temps', handle')
      /\ \A u \in Tasks \ {t} : late'[u] = (late[u] \/ (pc[u] = "rename" /\ job[u].target = n))
      /\ late'[t] = FALSE /\ late' \in [Tasks -> BOOLEAN]
      /\ UNCHANGED <<link, dirWritable, handle, orphans>>
  BY DEF Renamed, Entry, IndInv, TypeOK
<1>3. /\ \A u \in Tasks \ {t} : pc'[u] = pc[u] /\ job'[u] = job[u]
      /\ pc'[t] = step /\ job'[t] = j /\ step \in Resting \cup {"reopen"} /\ j.temp = None
      /\ step = "reopen" => /\ j.opened = job[t].opened /\ j.rows = job[t].rows
                            /\ j.batch = job[t].batch /\ j.auto = job[t].auto
  BY TypeParts, NoFields DEF IndInv, Job, Resting
<1> HIDE DEF i, n
<1>4. TypeOK'
  <2>1. files' \in [Inodes -> File]
    BY <1>2, ReleaseType, TypeParts DEF IndInv
  <2>2. job' \in [Tasks -> Job] /\ pc' \in [Tasks -> Working \cup Resting]
    BY <1>3, TypeParts DEF IndInv, Working, Resting
  <2>3. dir' \in [Names -> {None} \cup Inodes]
    BY <1>1, <1>2, TypeParts DEF IndInv
  <2>4. temps' \subseteq Inodes /\ orphans' \subseteq temps'
    BY <1>1, <1>2, TypeParts DEF IndInv
  <2> QED
    BY <1>2, <2>1, <2>2, <2>3, <2>4, TypeParts, TypePartsNext DEF IndInv
<1>5. /\ \A m \in Names : dir'[m] # None => SameStore(dir'[m])
      /\ \A x \in temps' : SameStore(x)
      /\ \A u \in Tasks : handle[u].ino # None => SameStore(handle[u].ino)
  BY <1>2, <1>4, HeldIsKept DEF IndInv
<1>6. ASSUME NEW u \in Tasks PROVE TaskInv(u)'
  <2>1. handle[u].ino # None => handle[u].ino \notin temps'
    BY <1>2 DEF IndInv, TaskInv, MapStands
  <2>2. CASE u = t
    <3>1. OwnsTemp(t)' /\ WroteAll(t)' /\ LateOrChecked(t)'
      BY <1>2, <1>3 DEF OwnsTemp, WroteAll, LateOrChecked, Guarded, Resting
    <3>2. MapStands(t)'
      BY <1>2, <1>5, <2>1, <2>2 DEF IndInv, TaskInv, MapStands, SameStore
    <3>3. WritesOverItsStore(t)'
      BY <1>2, <1>3, NoFields DEF IndInv, TaskInv, WritesOverItsStore, Resting
    <3> QED
      BY <2>2, <3>1, <3>2, <3>3 DEF TaskInv
  <2>3. CASE u # t
    <3>1. pc[u] \in Guarded => job[u].temp \in temps' \ orphans'
      <4>1. pc[u] \in Guarded => job[u].temp # i
        BY <2>3 DEF IndInv, TempsApart, Guarded, i
      <4> QED
        BY <1>2, <4>1 DEF IndInv, TaskInv, OwnsTemp
    <3>2. late[u] => late'[u]
      BY <1>2, <2>3
    <3>3. late'[u] => pc[u] = "rename"
      BY <1>2, <2>3 DEF IndInv, TaskInv, LateOrChecked
    <3>4. pc[u] = "rename" => late'[u] \/ dir'[job[u].target] = dir[job[u].target]
      BY <1>1, <1>2, <2>3, TypeParts DEF IndInv, Job
    <3> QED
      BY <1>2, <1>3, <1>5, <2>1, <2>3, <3>1, <3>2, <3>3, <3>4, BystanderKept DEF IndInv
  <2> QED
    BY <2>2, <2>3
<1>7. TempsApart'
  BY <1>3 DEF IndInv, TempsApart, Guarded, Resting
<1>8. TempsStand'
  <2> SUFFICES ASSUME NEW x \in temps'
               PROVE  files'[x].kind = "regular" /\ (x \in orphans' \/
                        \E u \in Tasks : pc'[u] \in Guarded /\ job'[u].temp = x)
    BY DEF TempsStand
  <2>1. x \in temps /\ x # i
    BY <1>2
  <2>2. files'[x].kind = "regular"
    BY <1>5, <2>1 DEF IndInv, TempsStand, SameStore
  <2>3. x \in orphans \/ \E u \in Tasks \ {t} : pc[u] \in Guarded /\ job[u].temp = x
    BY <2>1 DEF IndInv, TempsStand, i
  <2> QED
    BY <1>2, <1>3, <2>2, <2>3
<1>9. NamesStand'
  <2> SUFFICES ASSUME NEW m \in Names, dir'[m] # None
               PROVE  dir'[m] \notin temps' /\ files'[dir'[m]].kind # "free"
    BY DEF NamesStand
  <2>0. SameStore(dir'[m]) /\ dir'[m] = IF m = n THEN i ELSE dir[m]
    BY <1>2, <1>5, TypeParts DEF IndInv
  <2>1. CASE m = n
    BY <1>1, <1>2, <2>0, <2>1 DEF SameStore
  <2>2. CASE m # n
    <3>1. dir[m] \notin temps /\ files[dir[m]].kind # "free"
      BY <2>0, <2>2 DEF IndInv, NamesStand
    <3> QED
      BY <1>2, <2>0, <2>2, <3>1 DEF SameStore
  <2> QED
    BY <2>1, <2>2
<1> QED
  BY <1>4, <1>6, <1>7, <1>8, <1>9 DEF IndInv

(* The rename over the target: the temp becomes the store, or the rename   *)
(* fails and the temp is removed.                                          *)
LEMMA RenameKeeps ==
  ASSUME IndInv, NEW t \in Tasks, Rename(t)
  PROVE  IndInv'
<1>1. CASE Renamed(t) /\ job[t].opened # None /\ Goto(t, "reopen")
           /\ job' = [job EXCEPT ![t].temp = None]
  <2>1. job[t] \in Job
    BY TypeParts DEF IndInv
  <2>2. [job[t] EXCEPT !.temp = None] \in Job
    BY <2>1 DEF Job
  <2>3. job' = [job EXCEPT ![t] = [job[t] EXCEPT !.temp = None]]
    BY <1>1
  <2> QED
    BY <1>1, <2>2, <2>3, RenamedKeeps DEF Goto, Rename
<1>2. CASE Renamed(t) /\ Goto(t, "idle") /\ job' = [job EXCEPT ![t] = NoJob]
  BY <1>2, ConstantTypes, RenamedKeeps DEF Goto, Rename, Resting
<1>3. CASE Fail(t)
  BY <1>3, AbandonKeeps DEF Fail
<1> QED
  BY <1>1, <1>2, <1>3 DEF Rename

(* A dropped write removes its temp, or is already in the rename and       *)
(* completes it.                                                           *)
LEMMA CancelKeeps ==
  ASSUME IndInv, NEW t \in Tasks, Cancel(t)
  PROVE  IndInv'
BY ConstantTypes, RenamedKeeps, AbandonKeeps DEF Cancel, Goto, Resting

(* A crash: the mapping goes, the temporary file stays.                    *)
LEMMA CrashKeeps ==
  ASSUME IndInv, NEW t \in Tasks, Crash(t)
  PROVE  IndInv'
<1> DEFINE tmp == {job[t].temp} \ {None}
<1>1. /\ \A u \in Tasks \ {t} : /\ pc'[u] = pc[u] /\ job'[u] = job[u]
                                /\ late'[u] = late[u] /\ handle'[u] = handle[u]
      /\ pc'[t] = "failed" /\ job'[t] = NoJob /\ late'[t] = FALSE /\ handle'[t] = NoStore
      /\ orphans' = orphans \cup tmp
      /\ files' = Release(files, dir', temps', handle')
      /\ UNCHANGED <<link, dir, temps, dirWritable>>
  BY DEF Crash, Goto, IndInv, TypeOK
<1>2. /\ tmp \subseteq temps
      /\ pc[t] \in Guarded => job[t].temp \in tmp
      /\ \A u \in Tasks \ {t} : pc[u] \in Guarded => job[u].temp \notin tmp /\ job[u].temp \in temps \ orphans
  BY InodesAssumption DEF IndInv, TypeOK, TaskInv, OwnsTemp, TempsApart
<1> HIDE DEF tmp
<1>3. TypeOK'
  <2>1. files' \in [Inodes -> File]
    BY <1>1, ReleaseType, TypeParts DEF IndInv
  <2>2. job' \in [Tasks -> Job] /\ handle' \in [Tasks -> Handle]
    BY ConstantTypes, TypeParts DEF Crash, IndInv
  <2>3. pc' \in [Tasks -> Working \cup Resting] /\ late' \in [Tasks -> BOOLEAN]
    BY TypeParts DEF Crash, IndInv, Goto, Resting
  <2>4. orphans' \subseteq temps'
    BY <1>1, <1>2, TypeParts DEF IndInv
  <2> QED
    BY <1>1, <2>1, <2>2, <2>3, <2>4, TypeParts, TypePartsNext DEF IndInv
<1>4. /\ \A n \in Names : dir[n] # None => SameStore(dir[n])
      /\ \A i \in temps : SameStore(i)
      /\ \A u \in Tasks : handle'[u].ino # None => SameStore(handle'[u].ino)
  BY <1>1, <1>3, HeldIsKept DEF IndInv
<1>5. ASSUME NEW u \in Tasks PROVE TaskInv(u)'
  <2>1. CASE u = t
    <3>1. MapStands(t)'
      BY <1>1, NoFields DEF MapStands
    <3> QED
      BY <2>1, <3>1, <1>1, IdleTaskInv DEF Resting
  <2>2. CASE u # t
    <3>1. pc[u] \in Guarded => job[u].temp \in temps' \ orphans' /\ SameStore(job[u].temp)
      BY <1>1, <1>2, <1>4, <2>2
    <3>2. handle[u].ino # None => handle[u].ino \notin temps' /\ SameStore(handle[u].ino)
      BY <1>1, <1>4, <2>2 DEF IndInv, TaskInv, MapStands
    <3>3. late'[u] => pc[u] = "rename"
      BY <1>1, <2>2 DEF IndInv, TaskInv, LateOrChecked
    <3> QED
      BY <1>1, <2>2, <3>1, <3>2, <3>3, BystanderKept DEF IndInv
  <2> QED
    BY <2>1, <2>2
<1>6. TempsApart'
  BY <1>1 DEF IndInv, TempsApart, Guarded
<1>7. TempsStand'
  <2> SUFFICES ASSUME NEW i \in temps
               PROVE  files'[i].kind = "regular" /\ (i \in orphans' \/
                        \E u \in Tasks : pc'[u] \in Guarded /\ job'[u].temp = i)
    BY <1>1 DEF TempsStand
  <2>1. files'[i].kind = "regular"
    BY <1>4 DEF IndInv, TempsStand, SameStore
  <2>2. i \in orphans \/ \E u \in Tasks : pc[u] \in Guarded /\ job[u].temp = i
    BY DEF IndInv, TempsStand
  <2> QED
    BY <1>1, <1>2, <2>1, <2>2
<1>8. NamesStand'
  BY <1>1, <1>4, NamesKept DEF IndInv, NamesStand
<1> QED
  BY <1>3, <1>5, <1>6, <1>7, <1>8 DEF IndInv

(* Somebody else gives a name another file, or none: no task's file goes,  *)
(* and every task about to rename over the name is late.                   *)
LEMMA EntryKeeps ==
  ASSUME IndInv, TypeOK', NEW n \in Names, NEW i \in {None} \cup Inodes, Entry(n, i, {}),
         UNCHANGED <<temps, pc, handle, job, orphans>>,
         \A x \in temps : SameStore(x),
         \A u \in Tasks : handle[u].ino # None => SameStore(handle[u].ino),
         \A m \in Names \ {n} : dir[m] # None => SameStore(dir[m]),
         i # None => i \notin temps /\ files'[i].kind \notin {"free", "regular"}
  PROVE  IndInv'
<1>1. /\ \A m \in Names : dir'[m] = IF m = n THEN i ELSE dir[m]
      /\ \A u \in Tasks : late'[u] = (late[u] \/ (pc[u] = "rename" /\ job[u].target = n))
  BY DEF Entry, IndInv, TypeOK
<1>2. ASSUME NEW u \in Tasks PROVE TaskInv(u)'
  <2>1. pc[u] \in Guarded => job[u].temp \in temps' \ orphans' /\ SameStore(job[u].temp)
    BY DEF IndInv, TaskInv, OwnsTemp
  <2>2. handle[u].ino # None => handle[u].ino \notin temps'
    BY DEF IndInv, TaskInv, MapStands
  <2>3. (late[u] => late'[u]) /\ (late'[u] => pc[u] = "rename")
    BY <1>1 DEF IndInv, TaskInv, LateOrChecked
  <2>4. pc[u] = "rename" => late'[u] \/ dir'[job[u].target] = dir[job[u].target]
    BY <1>1, TypeParts DEF IndInv, Job
  <2> QED
    BY <2>1, <2>2, <2>3, <2>4, BystanderKept DEF IndInv
<1>3. TempsApart'
  BY DEF IndInv, TempsApart
<1>4. TempsStand'
  BY DEF IndInv, TempsStand, SameStore
<1>5. NamesStand'
  BY <1>1 DEF IndInv, NamesStand, SameStore
<1> QED
  BY <1>2, <1>3, <1>4, <1>5 DEF IndInv

(* Another process removes a name; inodes that are mapped stay.            *)
LEMMA UnlinkKeeps ==
  ASSUME IndInv, NEW n \in Names, Unlink(n)
  PROVE  IndInv'
<1>1. TypeOK'
  <2>1. files' \in [Inodes -> File]
    BY ReleaseType, TypeParts DEF Unlink, IndInv
  <2>2. dir' \in [Names -> {None} \cup Inodes] /\ late' \in [Tasks -> BOOLEAN]
    BY TypeParts DEF Unlink, Entry, IndInv
  <2> QED
    BY <2>1, <2>2, TypeParts, TypePartsNext DEF Unlink, IndInv
<1>2. /\ \A m \in Names : dir'[m] # None => SameStore(dir'[m])
      /\ \A x \in temps : SameStore(x)
      /\ \A u \in Tasks : handle[u].ino # None => SameStore(handle[u].ino)
  BY <1>1, HeldIsKept DEF Unlink, IndInv
<1>3. \A m \in Names \ {n} : dir'[m] = dir[m]
  BY TypeParts DEF Unlink, Entry, IndInv
<1> QED
  BY <1>1, <1>2, <1>3, EntryKeeps DEF Unlink

(* Another process puts a special file under a name.                       *)
LEMMA PlaceKeeps ==
  ASSUME IndInv, NEW n \in Names, NEW kind \in SpecialKinds, Place(n, kind)
  PROVE  IndInv'
<1>1. PICK i \in FreeInodes :
        files' = [files EXCEPT ![i] = Special(kind)] /\ Entry(n, i, {})
  BY DEF Place
<1>2. /\ i \in Inodes /\ files[i].kind = "free" /\ files'[i].kind = kind
      /\ Special(kind) \in File
      /\ \A x \in Inodes \ {i} : SameStore(x)
  <2>1. Special(kind) \in File /\ Special(kind).kind = kind
    BY DEF Special, File
  <2>2. i \in Inodes /\ files[i].kind = "free"
    BY DEF FreeInodes, Free
  <2>3. \A x \in Inodes : files'[x] = IF x = i THEN Special(kind) ELSE files[x]
    BY <1>1, TypeParts DEF IndInv
  <2> QED
    BY <2>1, <2>2, <2>3 DEF SameStore
<1>3. /\ i \notin temps /\ \A m \in Names : dir[m] # i
      /\ \A u \in Tasks : handle[u].ino # i
  BY <1>2, InodesAssumption DEF IndInv, TempsStand, NamesStand, TaskInv, MapStands
<1>4. TypeOK'
  <2>1. files' \in [Inodes -> File]
    BY <1>1, <1>2, TypeParts DEF IndInv
  <2>2. dir' \in [Names -> {None} \cup Inodes] /\ late' \in [Tasks -> BOOLEAN]
    BY <1>1, <1>2, TypeParts DEF Entry, IndInv
  <2> QED
    BY <2>1, <2>2, TypeParts, TypePartsNext DEF Place, IndInv
<1>5. /\ \A m \in Names : dir[m] # None => SameStore(dir[m])
      /\ \A x \in temps : SameStore(x)
      /\ \A u \in Tasks : handle[u].ino # None => SameStore(handle[u].ino)
  <2>1. /\ \A m \in Names : dir[m] \in {None} \cup Inodes
        /\ \A u \in Tasks : handle[u].ino \in {None} \cup Inodes
        /\ temps \subseteq Inodes
    BY TypeParts DEF IndInv, Handle
  <2> QED
    BY <1>2, <1>3, <2>1
<1>6. kind \notin {"free", "regular"}
  BY SpecialAssumption
<1> QED
  BY <1>1, <1>2, <1>3, <1>4, <1>5, <1>6, EntryKeeps DEF Place

(* A link that moves and permissions that change.                          *)
LEMMA OutsideKeeps ==
  ASSUME IndInv,
         \/ \E n \in Names : Relink(n) \/ SetWritable(n)
         \/ SetDirWritable
  PROVE  IndInv'
<1>1. UNCHANGED <<dir, temps, pc, handle, job, orphans, late>>
  BY DEF Relink, SetWritable, SetDirWritable
<1>2. files' \in [Inodes -> File] /\ \A i \in Inodes : SameStore(i)
  <2>1. CASE files' = files
    BY <2>1, TypeParts DEF IndInv, SameStore
  <2>2. ASSUME NEW n \in Names, SetWritable(n)
        PROVE  files' \in [Inodes -> File] /\ \A i \in Inodes : SameStore(i)
    <3>1. PICK i \in Inodes :
            files' = [files EXCEPT ![i] = [files[i] EXCEPT !.writable = ~files[i].writable]]
      BY <2>2, TypeParts DEF SetWritable, IndInv
    <3>2. files[i] \in File
      BY TypeParts DEF IndInv
    <3> QED
      BY <3>1, <3>2, TypeParts DEF IndInv, File, SameStore
  <2> QED
    BY <2>1, <2>2 DEF Relink, SetDirWritable
<1>3. TypeOK'
  BY <1>1, <1>2, TypeParts, TypePartsNext DEF Relink, SetWritable, SetDirWritable, IndInv
<1>4. /\ \A n \in Names : dir[n] # None => SameStore(dir[n])
      /\ \A i \in temps : SameStore(i)
      /\ \A u \in Tasks : handle[u].ino # None => SameStore(handle[u].ino)
  BY <1>2, TypeParts DEF IndInv, Handle
<1>5. ASSUME NEW u \in Tasks PROVE TaskInv(u)'
  <2>1. pc[u] \in Guarded => job[u].temp \in temps' \ orphans' /\ SameStore(job[u].temp)
    BY <1>1, <1>4 DEF IndInv, TaskInv, OwnsTemp
  <2>2. handle[u].ino # None => handle[u].ino \notin temps'
    BY <1>1 DEF IndInv, TaskInv, MapStands
  <2>3. late'[u] => pc[u] = "rename"
    BY <1>1 DEF IndInv, TaskInv, LateOrChecked
  <2> QED
    BY <1>1, <1>4, <2>1, <2>2, <2>3, BystanderKept DEF IndInv
<1>6. TempsApart' /\ TempsStand'
  BY <1>1, <1>4 DEF IndInv, TempsApart, TempsStand, SameStore
<1>7. NamesStand'
  BY <1>1, <1>4, NamesKept DEF IndInv, NamesStand
<1> QED
  BY <1>3, <1>5, <1>6, <1>7 DEF IndInv

Kinds == {"free", "regular", "device", "pipe", "dir"}

(* What may stand at a name.                                               *)
LEMMA AtKinds ==
  ASSUME TypeOK, NEW n \in Names
  PROVE  /\ At(n).kind \in Kinds /\ At(n).writable \in BOOLEAN
         /\ At(n).kind \in Streams => SpecialKinds \cap Streams # {}
         /\ At(n).kind = "regular" => dir[n] # None /\ At(n) = files[dir[n]]
BY TypeParts, SpecialAssumption DEF At, Free, File, Kinds, Streams

(* The steps of create_over, and of the check before the rename.           *)
LEMMA CheckStepKeeps ==
  ASSUME IndInv, NEW t \in Tasks,
         \/ Start(t) \/ InPlace(t) \/ Resolve(t) \/ Inspect(t) \/ Probe(t)
         \/ EnsureUnreplaced(t)
  PROVE  IndInv'
<1>0. job[t] \in Job /\ link \in Names
  BY TypeParts DEF IndInv
<1>1. \A n \in Names : At(n).kind \in Kinds /\ At(n).writable \in BOOLEAN
  BY AtKinds DEF IndInv
<1>2. CASE Abandon(t)
  BY <1>2, AbandonKeeps
<1>3. CASE Start(t)
  BY <1>0, <1>1, <1>2, <1>3, AdvanceKeeps DEF Start, Fail, Working, Guarded
<1>4. CASE InPlace(t)
  <2>1. \/ Abandon(t) \/ Return(t) \/ Advance(t, "feed", job[t])
        \/ Overwrite(t) /\ At(link).kind = "regular"
    BY <1>0, <1>1, <1>4 DEF InPlace, Fail, Kinds
  <2> QED
    BY <1>0, <1>2, <1>4, <2>1, AdvanceKeeps, ReturnKeeps, OverwriteKeeps
       DEF InPlace, Working, Waiting, Guarded, IndInv, TaskInv, WritesOverItsStore
<1>5. CASE Resolve(t)
  <2>1. [job[t] EXCEPT !.target = link] \in Job
    BY <1>0 DEF Job
  <2> QED
    BY <1>0, <1>5, <2>1, AdvanceKeeps DEF Resolve, Working, Guarded, Job
<1>6. CASE Inspect(t)
  <2>1. \A p \in {"ro", "rw"} : [job[t] EXCEPT !.permissions = p] \in Job
    BY <1>0 DEF Job
  <2>2. PICK p \in {"ro", "rw"} :
          \/ Advance(t, "temp", job[t])
          \/ Advance(t, "probe", [job[t] EXCEPT !.permissions = p])
          \/ Abandon(t)
    <3> DEFINE n == job[t].target
    <3>1. n \in Names
      BY <1>0 DEF Job
    <3>2. CASE At(n).kind = "free"
      BY <1>6, <3>2 DEF Inspect, Streams
    <3>3. CASE At(n).kind \in Streams \cup {"dir"}
      BY <1>6, <3>3 DEF Inspect, Fail, Streams
    <3>4. CASE At(n).kind = "regular"
      BY <1>6, <3>4 DEF Inspect, Fail, Streams
    <3> QED
      BY <1>1, <3>1, <3>2, <3>3, <3>4 DEF Kinds, Streams
  <2> QED
    BY <1>0, <1>2, <1>6, <2>1, <2>2, AdvanceKeeps DEF Inspect, Working, Guarded, Job
<1>7. CASE Probe(t)
  <2>1. job[t].target \in Names
    BY <1>0 DEF Job
  <2>2. /\ pc[t] = "probe"
        /\ \/ Advance(t, "temp", job[t]) \/ Advance(t, "probewait", job[t])
           \/ Abandon(t) \/ Refuse(t)
    BY <1>7, <1>1, <2>1 DEF Probe, Fail, Kinds, Streams
  <2>3. CASE Advance(t, "temp", job[t]) \/ Advance(t, "probewait", job[t])
    BY <1>0, <2>2, <2>3, AdvanceKeeps DEF Working, Waiting, Guarded
  <2>4. CASE Refuse(t)
    BY <2>2, <2>4, RefuseKeeps
  <2> QED
    BY <1>2, <2>2, <2>3, <2>4
<1>8. CASE EnsureUnreplaced(t)
  BY <1>0, <1>2, <1>8, AdvanceKeeps DEF EnsureUnreplaced, Fail, Working, Guarded
<1> QED
  BY <1>3, <1>4, <1>5, <1>6, <1>7, <1>8

(* Every step keeps the invariant.                                         *)
LEMMA NextIndInv == IndInv /\ [Next]_vars => IndInv'
<1> SUFFICES ASSUME IndInv, [Next]_vars PROVE IndInv'
  OBVIOUS
<1>1. CASE UNCHANGED vars
  BY <1>1 DEF vars, IndInv, TypeOK, TaskInv, OwnsTemp, WroteAll, MapStands, WritesOverItsStore,
     LateOrChecked, TempsApart, TempsStand, NamesStand
<1>2. ASSUME NEW t \in Tasks, Open(t) \/ Close(t) \/ BeginAdd(t) \/ BeginCompact(t) \/ BeginBuild(t)
      PROVE  IndInv'
  BY <1>2, OpenKeeps, CloseKeeps, BeginKeeps
<1>3. ASSUME NEW t \in Tasks, Step(t) PROVE IndInv'
  BY <1>3, CheckStepKeeps, CreateTempKeeps, WriteKeeps, RenameKeeps, ReopenKeeps DEF Step
<1>4. ASSUME NEW t \in Tasks, IoError(t) \/ Cancel(t) \/ Crash(t) \/ PipeAnswers(t) PROVE IndInv'
  BY <1>4, AbandonKeeps, CancelKeeps, CrashKeeps, PipeAnswersKeeps DEF IoError, Fail
<1>5. ASSUME NEW n \in Names, Unlink(n) \/ \E kind \in SpecialKinds : Place(n, kind)
      PROVE  IndInv'
  BY <1>5, UnlinkKeeps, PlaceKeeps
<1>6. CASE (\E n \in Names : Relink(n) \/ SetWritable(n)) \/ SetDirWritable
  BY <1>6, OutsideKeeps
<1> QED
  BY <1>1, <1>2, <1>3, <1>4, <1>5, <1>6 DEF Next

(* Every reachable state satisfies the inductive invariant.                *)
LEMMA AlwaysIndInv == Spec => []IndInv
BY InitIndInv, NextIndInv, PTL DEF Spec

-----------------------------------------------------------------------------
(* Theorems                                                                *)

(* The disk, the stores and the writes in progress stay of their types.    *)
THEOREM TypeCorrect == Spec => []TypeOK
<1>1. IndInv => TypeOK
  BY DEF IndInv
<1> QED
  BY <1>1, AlwaysIndInv, PTL

(* The TempFile guard: a temporary file in the directory belongs to a      *)
(* write under way or could not be removed.                                *)
THEOREM TempsAreRemoved == Spec => []NoTempLeftBehind
BY IndInvImplies, AlwaysIndInv, PTL

(* ensure_unreplaced: of any number of writers, one about to rename over   *)
(* another file than it opened had its target changed after its last look. *)
THEOREM ReplacementsAreLate == Spec => []OnlyLateReplacement
BY IndInvImplies, AlwaysIndInv, PTL

-----------------------------------------------------------------------------
(* Files, while streams stay                                               *)

(* What pending.rs takes for granted of a path written in place: it still  *)
(* names no regular file when it is opened.                                *)
StreamsStay == \A t \in Tasks : pc[t] = "inplace" => At(link).kind # "regular"

(* The steps whose target is resolved.                                     *)
Resolved == {"inspect", "probe", "probewait", "temp", "reopen"} \cup Guarded

SameWork(j, k) == j.opened = k.opened /\ j.rows = k.rows /\ j.batch = k.batch

(* A step that looks at the path moves the write on, or ends it.           *)
LEMMA CheckSteps ==
  ASSUME TypeOK, NEW t \in Tasks,
         \/ Start(t) \/ InPlace(t) \/ Resolve(t) \/ Inspect(t) \/ Probe(t)
         \/ EnsureUnreplaced(t)
  PROVE  \/ \E step \in Working, j \in Job :
              /\ Advance(t, step, j) /\ SameWork(j, job[t]) /\ step # "reopen"
              /\ step = "inplace" => pc[t] = "start" /\ At(link).kind \in Streams
              /\ step \in Resolved =>
                   j.target = IF pc[t] \in Resolved THEN job[t].target ELSE link
         \/ Abandon(t) \/ Refuse(t)
         \/ pc[t] = "inplace" /\ Return(t)
         \/ pc[t] = "inplace" /\ At(link).kind = "regular" /\ Overwrite(t)
<1> DEFINE Goal(step, j) ==
              /\ step \in Working /\ j \in Job
              /\ Advance(t, step, j) /\ SameWork(j, job[t]) /\ step # "reopen"
              /\ step = "inplace" => pc[t] = "start" /\ At(link).kind \in Streams
              /\ step \in Resolved =>
                   j.target = IF pc[t] \in Resolved THEN job[t].target ELSE link
<1>1. link \in Names /\ job[t] \in Job /\ job[t].target \in Names
  BY TypeParts DEF Job
<1>2. \A n \in Names : At(n).kind \in Kinds /\ At(n).writable \in BOOLEAN
  BY AtKinds
<1>3. CASE Start(t)
  <2>1. pc[t] = "start" /\ (Goal("resolve", job[t]) \/ Goal("inplace", job[t]) \/ Abandon(t))
    BY <1>1, <1>3 DEF Start, Fail, SameWork, Resolved, Working, Guarded
  <2> QED
    BY <2>1
<1>4. CASE InPlace(t)
  <2>1. /\ pc[t] = "inplace"
        /\ \/ Advance(t, "feed", job[t]) \/ Abandon(t) \/ Return(t)
           \/ At(link).kind = "regular" /\ Overwrite(t)
    BY <1>1, <1>2, <1>4 DEF InPlace, Fail, Kinds
  <2>2. Advance(t, "feed", job[t]) => Goal("feed", job[t])
    BY <1>1 DEF SameWork, Resolved, Working, Waiting, Guarded
  <2> QED
    BY <2>1, <2>2
<1>5. CASE Resolve(t)
  <2> DEFINE j == [job[t] EXCEPT !.target = link]
  <2>1. pc[t] = "resolve" /\ Advance(t, "inspect", j)
    BY <1>5 DEF Resolve
  <2>2. j \in Job /\ j.target = link /\ SameWork(j, job[t])
    BY <1>1 DEF Job, SameWork
  <2> HIDE DEF j
  <2>3. Goal("inspect", j)
    BY <2>1, <2>2 DEF Resolved, Working, Guarded
  <2> QED
    BY <2>3
<1>6. CASE Inspect(t)
  <2>1. PICK p \in {"ro", "rw"} :
          /\ pc[t] = "inspect"
          /\ \/ Advance(t, "temp", job[t]) \/ Abandon(t)
             \/ Advance(t, "probe", [job[t] EXCEPT !.permissions = p])
    BY <1>1, <1>2, <1>6 DEF Inspect, Fail, Kinds, Streams
  <2> DEFINE j == [job[t] EXCEPT !.permissions = p]
  <2>2. j \in Job /\ j.target = job[t].target /\ SameWork(j, job[t])
    BY <1>1 DEF Job, SameWork
  <2> HIDE DEF j
  <2>3. Advance(t, "probe", j) => Goal("probe", j)
    BY <2>1, <2>2 DEF Resolved, Working
  <2>4. Advance(t, "temp", job[t]) => Goal("temp", job[t])
    BY <1>1, <2>1 DEF Resolved, Working, SameWork
  <2> QED
    BY <2>1, <2>3, <2>4 DEF j
<1>7. CASE Probe(t)
  <2>1. /\ pc[t] = "probe"
        /\ \/ Advance(t, "temp", job[t]) \/ Advance(t, "probewait", job[t])
           \/ Abandon(t) \/ Refuse(t)
    BY <1>1, <1>2, <1>7 DEF Probe, Fail, Kinds, Streams
  <2>2. \A step \in {"temp", "probewait"} : Advance(t, step, job[t]) => Goal(step, job[t])
    BY <1>1, <2>1 DEF Resolved, Working, Waiting, SameWork
  <2> QED
    BY <2>1, <2>2
<1>8. CASE EnsureUnreplaced(t)
  <2>1. pc[t] = "check" /\ (Advance(t, "rename", job[t]) \/ Abandon(t))
    BY <1>8 DEF EnsureUnreplaced, Fail
  <2>2. Advance(t, "rename", job[t]) => Goal("rename", job[t])
    BY <1>1, <2>1 DEF Resolved, Working, Guarded, SameWork
  <2> QED
    BY <2>1, <2>2
<1> QED
  BY <1>3, <1>4, <1>5, <1>6, <1>7, <1>8

(* The ways a step changes files: not at all, by a release, at a free      *)
(* inode, at a temporary file, in its permissions, or in place.            *)
LEMMA FileChanges ==
  ASSUME IndInv, IndInv', Next
  PROVE  \/ files' = files
         \/ files' = Release(files, dir', temps', handle')
         \/ \E i \in Inodes : /\ i \in temps \/ files[i] = Free
                              /\ \A x \in Inodes \ {i} : files'[x] = files[x]
         \/ \A i \in Inodes : SameStore(i)
         \/ ~StreamsStay
<1> DEFINE Goal == \/ files' = files
                   \/ files' = Release(files, dir', temps', handle')
                   \/ \E i \in Inodes : /\ i \in temps \/ files[i] = Free
                                        /\ \A x \in Inodes \ {i} : files'[x] = files[x]
                   \/ \A i \in Inodes : SameStore(i)
                   \/ ~StreamsStay
<1>1. ASSUME NEW t \in Tasks, Abandon(t) PROVE Goal
  BY <1>1 DEF Abandon
<1>2. ASSUME NEW t \in Tasks, Refuse(t) PROVE Goal
  BY <1>1, <1>2 DEF Refuse, Fail, disk
<1>3. ASSUME NEW t \in Tasks, Open(t) \/ Close(t) \/ BeginAdd(t) \/ BeginCompact(t) \/ BeginBuild(t)
      PROVE  Goal
  BY <1>3 DEF Open, Mapped, Close, BeginAdd, BeginCompact, BeginBuild, Begin, disk
<1>4. ASSUME NEW t \in Tasks,
             Start(t) \/ InPlace(t) \/ Resolve(t) \/ Inspect(t) \/ Probe(t) \/ EnsureUnreplaced(t)
      PROVE  Goal
  <2>1. (\E step, j : Advance(t, step, j)) \/ Abandon(t) \/ Refuse(t) \/ ~StreamsStay
    BY <1>4, CheckSteps DEF IndInv, StreamsStay, Return
  <2> QED
    BY <1>1, <1>2, <2>1 DEF Advance, disk
<1>5. ASSUME NEW t \in Tasks, CreateTemp(t) PROVE Goal
  <2>1. CASE \E i \in FreeInodes : files' = [files EXCEPT ![i] = Regular({}, FALSE)]
    BY <2>1, TypeParts DEF FreeInodes, IndInv
  <2> QED
    BY <1>1, <1>2, <1>5, <2>1 DEF CreateTemp, Fail
<1>6. ASSUME NEW t \in Tasks, CopyPermissions(t) \/ WriteTemp(t) PROVE Goal
  <2>1. job[t].temp \in temps /\ job[t].temp \in Inodes
    BY <1>6 DEF IndInv, TypeOK, TaskInv, OwnsTemp, CopyPermissions, WriteTemp, Guarded
  <2>2. \A x \in Inodes \ {job[t].temp} : files'[x] = files[x]
    BY <1>6, TypeParts DEF CopyPermissions, WriteTemp, IndInv
  <2> QED
    BY <2>1, <2>2
<1>7. ASSUME NEW t \in Tasks,
             Rename(t) \/ Reopen(t) \/ Cancel(t) \/ Crash(t) \/ IoError(t) \/ PipeAnswers(t)
      PROVE  Goal
  BY <1>1, <1>7 DEF Rename, Renamed, Reopen, Mapped, Cancel, Crash, IoError, PipeAnswers, Return,
     Advance, Fail, disk
<1>8. ASSUME NEW n \in Names,
             Unlink(n) \/ Relink(n) \/ SetWritable(n) \/ \E kind \in SpecialKinds : Place(n, kind)
      PROVE  Goal
  <2>1. CASE Unlink(n) \/ Relink(n)
    BY <2>1 DEF Unlink, Relink
  <2>2. CASE SetWritable(n)
    BY <2>2, TypeParts DEF SetWritable, IndInv, File, SameStore
  <2>3. CASE \E kind \in SpecialKinds : Place(n, kind)
    BY <2>3, TypeParts DEF Place, FreeInodes, IndInv
  <2> QED
    BY <1>8, <2>1, <2>2, <2>3
<1>9. CASE SetDirWritable
  BY <1>9 DEF SetDirWritable
<1> QED
  BY <1>3, <1>4, <1>5, <1>6, <1>7, <1>8, <1>9 DEF Next, Step

(* A reader keeps the rows it mapped, and its inode stays its file's.      *)
LEMMA StepKeepsMappings ==
  ASSUME IndInv, IndInv', StreamsStay, [Next]_vars, NEW t \in Tasks,
         handle[t].ino # None, handle'[t].ino = handle[t].ino
  PROVE  /\ files'[handle[t].ino].kind = "regular"
         /\ files'[handle[t].ino].rows = files[handle[t].ino].rows
<1> DEFINE i == handle[t].ino
<1>1. i \in Inodes /\ i \notin temps /\ files[i].kind = "regular" /\ files'[i].kind = "regular"
  BY TypeParts DEF IndInv, Handle, TaskInv, MapStands
<1>2. CASE files' = files
  BY <1>1, <1>2
<1>3. CASE files' = Release(files, dir', temps', handle')
  BY <1>1, <1>3 DEF Release, Held
<1>4. CASE \E x \in Inodes : (x \in temps \/ files[x] = Free)
                             /\ \A y \in Inodes \ {x} : files'[y] = files[y]
  BY <1>1, <1>4 DEF Free
<1>5. CASE \A x \in Inodes : SameStore(x)
  BY <1>1, <1>5 DEF SameStore
<1> QED
  BY <1>2, <1>3, <1>4, <1>5, FileChanges DEF vars

(* The shared mapping of a store file: for any number of readers and       *)
(* writers, a mapped file keeps its rows until its reader lets it go.      *)
THEOREM MappingsStay == Spec /\ []StreamsStay => MappingsAreStable
<1>1. IndInv /\ IndInv' /\ StreamsStay /\ [Next]_vars =>
        [\A t \in Tasks :
           (handle[t].ino # None /\ handle'[t].ino = handle[t].ino) =>
             /\ files'[handle[t].ino].kind = "regular"
             /\ files'[handle[t].ino].rows = files[handle[t].ino].rows]_vars
  BY StepKeepsMappings
<1> QED
  BY <1>1, AlwaysIndInv, PTL DEF Spec, MappingsAreStable

(* The ways a step changes what names lead to.                             *)
LEMMA DirChanges ==
  ASSUME IndInv, Next
  PROVE  \/ dir' = dir
         \/ \E t \in Tasks : pc[t] = "rename" /\ Renamed(t)
         \/ \E n \in Names : Unlink(n) \/ \E kind \in SpecialKinds : Place(n, kind)
<1> DEFINE Goal == \/ dir' = dir
                   \/ \E t \in Tasks : pc[t] = "rename" /\ Renamed(t)
                   \/ \E n \in Names : Unlink(n) \/ \E kind \in SpecialKinds : Place(n, kind)
<1>1. ASSUME NEW t \in Tasks, Abandon(t) \/ Refuse(t) PROVE dir' = dir
  BY <1>1 DEF Abandon, Refuse, Fail, disk
<1>2. ASSUME NEW t \in Tasks, Open(t) \/ Close(t) \/ BeginAdd(t) \/ BeginCompact(t) \/ BeginBuild(t)
      PROVE  Goal
  BY <1>2 DEF Open, Close, BeginAdd, BeginCompact, BeginBuild, Begin, disk
<1>3. ASSUME NEW t \in Tasks,
             Start(t) \/ InPlace(t) \/ Resolve(t) \/ Inspect(t) \/ Probe(t) \/ EnsureUnreplaced(t)
      PROVE  Goal
  <2>1. (\E step, j : Advance(t, step, j)) \/ Abandon(t) \/ Refuse(t) \/ Overwrite(t)
    BY <1>3, CheckSteps DEF IndInv, Return
  <2> QED
    BY <1>1, <2>1 DEF Advance, Overwrite, disk
<1>4. ASSUME NEW t \in Tasks, CreateTemp(t) \/ CopyPermissions(t) \/ WriteTemp(t) PROVE Goal
  BY <1>1, <1>4 DEF CreateTemp, CopyPermissions, WriteTemp, Fail
<1>5. ASSUME NEW t \in Tasks,
             Rename(t) \/ Reopen(t) \/ Cancel(t) \/ Crash(t) \/ IoError(t) \/ PipeAnswers(t)
      PROVE  Goal
  BY <1>1, <1>5 DEF Rename, Reopen, Cancel, Crash, IoError, PipeAnswers, Return, Advance, Fail, disk
<1>6. CASE (\E n \in Names : Relink(n) \/ SetWritable(n)) \/ SetDirWritable
  BY <1>6 DEF Relink, SetWritable, SetDirWritable
<1> QED
  BY <1>2, <1>3, <1>4, <1>5, <1>6 DEF Next, Step

(* What a rename puts at a name is complete; what others put there is no   *)
(* regular file; and a file at a name is not written again.                *)
LEMMA NamesStayComplete ==
  ASSUME IndInv, IndInv', StreamsStay, NameIsComplete, [Next]_vars
  PROVE  NameIsComplete'
<1> SUFFICES ASSUME NEW n \in Names, dir'[n] # None, files'[dir'[n]].kind = "regular"
             PROVE  files'[dir'[n]].complete
  BY DEF NameIsComplete, At, Free
<1>0. \A m \in Names : dir[m] # None /\ files[dir[m]].kind = "regular" => files[dir[m]].complete
  BY DEF NameIsComplete, At
<1>1. CASE UNCHANGED vars
  BY <1>0, <1>1 DEF vars
<1>2. ASSUME Next, dir' = dir PROVE files'[dir'[n]].complete
  <2> DEFINE i == dir[n]
  <2>1. i \in Inodes /\ i \notin temps /\ files[i] # Free
    BY <1>2 DEF IndInv, TypeOK, NamesStand, Free
  <2>2. files'[i] = files[i] \/ SameStore(i)
    <3>1. CASE files' = Release(files, dir', temps', handle')
      BY <1>2, <2>1, <3>1 DEF Release, Held
    <3> QED
      BY <1>2, <2>1, <3>1, FileChanges
  <2> QED
    BY <1>0, <1>2, <2>2 DEF SameStore
<1>3. ASSUME NEW t \in Tasks, pc[t] = "rename", Renamed(t) PROVE files'[dir'[n]].complete
  <2>1. SameStore(dir'[n])
    BY <1>3, HeldIsKept DEF Renamed, IndInv
  <2>2. dir'[n] = dir[n] \/ dir'[n] = job[t].temp
    BY <1>3 DEF Renamed, Entry, IndInv, TypeOK
  <2>3. files[job[t].temp].complete
    BY <1>3 DEF IndInv, TaskInv, WroteAll
  <2> QED
    BY <1>0, <2>1, <2>2, <2>3 DEF SameStore
<1>4. ASSUME NEW m \in Names, Unlink(m) PROVE files'[dir'[n]].complete
  <2>1. SameStore(dir'[n])
    BY <1>4, HeldIsKept DEF Unlink, IndInv
  <2>2. dir'[n] = dir[n]
    BY <1>4 DEF Unlink, Entry, IndInv, TypeOK
  <2> QED
    BY <1>0, <2>1, <2>2 DEF SameStore
<1>5. ASSUME NEW m \in Names, NEW kind \in SpecialKinds, Place(m, kind)
      PROVE  files'[dir'[n]].complete
  <2>1. PICK i \in FreeInodes :
          files' = [files EXCEPT ![i] = Special(kind)] /\ dir' = [dir EXCEPT ![m] = i]
    BY <1>5 DEF Place, Entry
  <2>2. i \in Inodes /\ files[i].kind = "free" /\ files'[i].kind # "regular"
    BY <2>1, SpecialAssumption, TypeParts DEF FreeInodes, Free, Special, IndInv
  <2>3. dir'[n] = dir[n] /\ dir[n] # i
    BY <2>1, <2>2 DEF IndInv, TypeOK
  <2>4. files'[dir[n]] = files[dir[n]]
    BY <2>1, <2>2, <2>3 DEF IndInv, TypeOK
  <2> QED
    BY <1>0, <2>3, <2>4
<1> QED
  BY <1>1, <1>2, <1>3, <1>4, <1>5, DirChanges

(* pending.rs writes beside the target and renames: whatever crashes, is   *)
(* dropped, fails or races, a name never shows a half-written store.       *)
THEOREM NamesAreComplete == Spec /\ []StreamsStay => []NameIsComplete
<1>1. Init => NameIsComplete
  BY DEF Init, NameIsComplete, At, Free, Regular
<1>2. NameIsComplete /\ IndInv /\ IndInv' /\ StreamsStay /\ [Next]_vars => NameIsComplete'
  BY NamesStayComplete
<1> QED
  BY <1>1, <1>2, AlwaysIndInv, PTL DEF Spec

-----------------------------------------------------------------------------
(* One writing process                                                     *)

(* A step of a task's own.                                                 *)
TaskStep(t) ==
  \/ Open(t) \/ Close(t) \/ BeginAdd(t) \/ BeginCompact(t) \/ BeginBuild(t)
  \/ Step(t) \/ IoError(t) \/ Cancel(t) \/ Crash(t) \/ PipeAnswers(t)

(* A step of the others at the path.                                       *)
PathStep ==
  \/ \E n \in Names :
       Unlink(n) \/ Relink(n) \/ SetWritable(n) \/ \E kind \in SpecialKinds : Place(n, kind)
  \/ SetDirWritable

(* Only Start goes on to open the path in place, at a device or a pipe.    *)
LEMMA StartsInPlace ==
  ASSUME IndInv, NEW u \in Tasks, TaskStep(u), pc'[u] = "inplace"
  PROVE  pc[u] = "start" /\ At(link).kind \in Streams /\ UNCHANGED disk
<1> DEFINE Goal == pc[u] = "start" /\ At(link).kind \in Streams /\ UNCHANGED disk
<1>0. pc \in [Tasks -> Working \cup Resting]
  BY TypeParts DEF IndInv
<1>1. ASSUME Abandon(u) \/ Refuse(u) \/ Return(u) \/ Overwrite(u) PROVE FALSE
  BY <1>0, <1>1 DEF Abandon, Refuse, Return, Advance, Overwrite, Resting, Fail, Goto
<1>2. CASE Open(u) \/ Close(u) \/ BeginAdd(u) \/ BeginCompact(u) \/ BeginBuild(u)
  BY <1>0, <1>2 DEF Open, Close, BeginAdd, BeginCompact, BeginBuild, Begin, Resting, Goto
<1>3. CASE \/ Start(u) \/ InPlace(u) \/ Resolve(u) \/ Inspect(u) \/ Probe(u) \/ EnsureUnreplaced(u)
  BY <1>0, <1>1, <1>3, CheckSteps DEF IndInv, Advance, Goto
<1>4. CASE CreateTemp(u) \/ CopyPermissions(u) \/ WriteTemp(u)
  BY <1>0, <1>1, <1>4 DEF CreateTemp, CopyPermissions, WriteTemp, Fail, Goto
<1>5. CASE Rename(u) \/ Reopen(u) \/ Cancel(u) \/ Crash(u) \/ IoError(u) \/ PipeAnswers(u)
  BY <1>0, <1>1, <1>5 DEF Rename, Reopen, Cancel, Crash, IoError, PipeAnswers, Advance, Fail, Goto
<1> QED
  BY <1>2, <1>3, <1>4, <1>5 DEF TaskStep, Step

(* Another task's step leaves a task where it is.                          *)
LEMMA OthersWait ==
  ASSUME IndInv, NEW u \in Tasks, TaskStep(u), NEW t \in Tasks \ {u}
  PROVE  pc'[t] = pc[t]
<1>0. pc \in [Tasks -> Working \cup Resting]
  BY TypeParts DEF IndInv
<1>1. ASSUME Abandon(u) \/ Refuse(u) \/ Return(u) \/ Overwrite(u) PROVE pc'[t] = pc[t]
  BY <1>0, <1>1 DEF Abandon, Refuse, Return, Advance, Overwrite, Fail, Goto
<1>2. CASE Open(u) \/ Close(u) \/ BeginAdd(u) \/ BeginCompact(u) \/ BeginBuild(u)
  BY <1>0, <1>2 DEF Open, Close, BeginAdd, BeginCompact, BeginBuild, Begin, Goto
<1>3. CASE \/ Start(u) \/ InPlace(u) \/ Resolve(u) \/ Inspect(u) \/ Probe(u) \/ EnsureUnreplaced(u)
  BY <1>0, <1>1, <1>3, CheckSteps DEF IndInv, Advance, Goto
<1>4. CASE CreateTemp(u) \/ CopyPermissions(u) \/ WriteTemp(u)
  BY <1>0, <1>1, <1>4 DEF CreateTemp, CopyPermissions, WriteTemp, Fail, Goto
<1>5. CASE Rename(u) \/ Reopen(u) \/ Cancel(u) \/ Crash(u) \/ IoError(u) \/ PipeAnswers(u)
  BY <1>0, <1>1, <1>5 DEF Rename, Reopen, Cancel, Crash, IoError, PipeAnswers, Advance, Fail, Goto
<1> QED
  BY <1>2, <1>3, <1>4, <1>5 DEF TaskStep, Step

(* The others at the path touch no write and no store; with the link where *)
(* it was, they put no regular file at its end.                            *)
LEMMA PathSteps ==
  ASSUME IndInv, IndInv', "relink" \notin Others, PathStep
  PROVE  /\ pc' = pc /\ job' = job /\ handle' = handle /\ link' = link
         /\ At(link)'.kind = "regular" =>
              At(link).kind = "regular" /\ At(link)'.rows = At(link).rows
<1>1. pc' = pc /\ job' = job /\ handle' = handle /\ link' = link
  BY DEF PathStep, Unlink, Relink, SetWritable, Place, SetDirWritable
<1>2. link \in Names /\ dir[link] \in {None} \cup Inodes /\ dir'[link] \in {None} \cup Inodes
  BY <1>1 DEF IndInv, TypeOK
<1> DEFINE Goal == At(link)'.kind = "regular" =>
                     At(link).kind = "regular" /\ At(link)'.rows = At(link).rows
<1>3. ASSUME NEW n \in Names, Unlink(n) PROVE Goal
  <2>1. dir'[link] # None => SameStore(dir'[link]) /\ dir'[link] = dir[link]
    BY <1>2, <1>3, HeldIsKept DEF Unlink, Entry, IndInv, TypeOK
  <2> QED
    BY <1>1, <2>1 DEF At, Free, SameStore
<1>4. ASSUME NEW n \in Names, SetWritable(n) PROVE Goal
  <2>1. dir' = dir /\ \A i \in Inodes : SameStore(i)
    BY <1>4, TypeParts DEF SetWritable, IndInv, File, SameStore
  <2> QED
    BY <1>1, <1>2, <2>1 DEF At, SameStore
<1>5. ASSUME NEW n \in Names, NEW kind \in SpecialKinds, Place(n, kind) PROVE Goal
  <2>1. PICK i \in FreeInodes :
          /\ files' = [files EXCEPT ![i] = Special(kind)]
          /\ dir' = [dir EXCEPT ![n] = i]
    BY <1>5 DEF Place, Entry
  <2>2. i \in Inodes /\ files[i].kind = "free" /\ files'[i].kind # "regular"
    BY <2>1, SpecialAssumption, TypeParts DEF FreeInodes, Free, Special, IndInv
  <2>3. CASE link = n
    BY <1>1, <1>2, <2>1, <2>2, <2>3, InodesAssumption DEF At, IndInv, TypeOK
  <2>4. CASE link # n
    <3>1. dir'[link] = dir[link] /\ dir[link] # i
      BY <1>2, <2>1, <2>2, <2>4, InodesAssumption DEF IndInv, TypeOK, NamesStand
    <3>2. dir[link] # None => files'[dir[link]] = files[dir[link]]
      BY <1>2, <2>1, <3>1, TypeParts DEF IndInv
    <3> QED
      BY <1>1, <3>1, <3>2 DEF At
  <2> QED
    BY <2>3, <2>4
<1>6. CASE SetDirWritable
  BY <1>6 DEF SetDirWritable, At
<1> QED
  BY <1>1, <1>3, <1>4, <1>5, <1>6 DEF PathStep, Relink

(* Where no device or pipe may stand, no path is written in place.         *)
THEOREM NoStreamsStay ==
  ASSUME SpecialKinds \cap Streams = {}
  PROVE  Spec => []StreamsStay
<1> DEFINE NoneInPlace == \A t \in Tasks : pc[t] # "inplace"
<1>1. Init => NoneInPlace
  BY DEF Init
<1>2. IndInv /\ NoneInPlace /\ [Next]_vars => NoneInPlace'
  <2> SUFFICES ASSUME IndInv, NoneInPlace, [Next]_vars, NEW t \in Tasks, pc'[t] = "inplace"
               PROVE  FALSE
    OBVIOUS
  <2>1. \A n \in Names : At(n).kind \notin Streams
    BY AtKinds DEF IndInv
  <2>2. ASSUME NEW u \in Tasks, TaskStep(u) PROVE FALSE
    BY <2>1, <2>2, StartsInPlace, OthersWait, TypeParts DEF IndInv
  <2>3. CASE PathStep \/ UNCHANGED vars
    BY <2>3 DEF PathStep, Unlink, Relink, SetWritable, Place, SetDirWritable, vars
  <2> QED
    BY <2>2, <2>3 DEF Next, TaskStep, PathStep
<1>3. NoneInPlace => StreamsStay
  BY DEF StreamsStay
<1> HIDE DEF NoneInPlace
<1> QED
  BY <1>1, <1>2, <1>3, AlwaysIndInv, PTL DEF Spec

(* Nor is there anybody to put a regular file there where one process      *)
(* writes and nobody moves the link.                                       *)
THEOREM SoloStreamsStay ==
  ASSUME \A t, u \in Tasks : t = u, "relink" \notin Others
  PROVE  Spec => []StreamsStay
<1>1. Init => StreamsStay
  BY DEF Init, StreamsStay
<1>2. IndInv /\ IndInv' /\ StreamsStay /\ [Next]_vars => StreamsStay'
  <2> SUFFICES ASSUME IndInv, IndInv', StreamsStay, [Next]_vars, NEW t \in Tasks, pc'[t] = "inplace"
               PROVE  At(link)'.kind # "regular"
    BY DEF StreamsStay
  <2>1. CASE TaskStep(t)
    BY <2>1, StartsInPlace DEF disk, At, Streams
  <2>2. CASE PathStep
    BY <2>2, PathSteps DEF StreamsStay
  <2>3. CASE UNCHANGED vars
    BY <2>3 DEF vars, At, StreamsStay
  <2> QED
    BY <2>1, <2>2, <2>3 DEF Next, TaskStep, PathStep
<1> QED
  BY <1>1, <1>2, AlwaysIndInv, PTL DEF Spec

(* While one process writes and the link stays where it is, the write's    *)
(* target is the link's end; after the rename only a special file or none  *)
(* can stand there in place of what was written; and what is written is    *)
(* what the store still shows, and the batch.                              *)
SoloInv ==
  \A t \in Tasks :
    /\ pc[t] \in Resolved => job[t].target = link
    /\ (pc[t] = "reopen" /\ At(link).kind = "regular") => At(link).rows = job[t].rows
    /\ job[t].opened # None => job[t].rows = Shows(handle[t]) \cup job[t].batch

(* A write goes on with the work it began, over the store it began from.   *)
LEMMA WorkIsKept ==
  ASSUME IndInv, NEW t \in Tasks, Step(t) \/ PipeAnswers(t), job'[t].opened # None
  PROVE  handle'[t] = handle[t] /\ SameWork(job'[t], job[t])
<1>0. job[t] \in Job /\ job \in [Tasks -> Job]
  BY TypeParts DEF IndInv
<1>1. ASSUME Abandon(t) \/ Refuse(t) \/ Return(t) \/ Overwrite(t) PROVE FALSE
  BY <1>0, <1>1, NoFields DEF Abandon, Refuse, Return, Advance, Overwrite, Fail
<1>2. ASSUME NEW step, NEW j, Advance(t, step, j), SameWork(j, job[t])
      PROVE  handle'[t] = handle[t] /\ SameWork(job'[t], job[t])
  BY <1>0, <1>2 DEF Advance
<1>3. CASE \/ Start(t) \/ InPlace(t) \/ Resolve(t) \/ Inspect(t) \/ Probe(t) \/ EnsureUnreplaced(t)
  BY <1>1, <1>2, <1>3, CheckSteps DEF IndInv
<1>4. SameWork(job[t], job[t])
  BY DEF SameWork
<1>5. CASE CreateTemp(t) \/ CopyPermissions(t) \/ WriteTemp(t)
  <2>1. CASE CreateTemp(t)
    <3>1. PICK i : job' = [job EXCEPT ![t] = [job[t] EXCEPT !.temp = i]] /\ handle' = handle
      BY <1>1, <2>1 DEF CreateTemp, Fail
    <3> QED
      BY <1>0, <3>1 DEF SameWork, Job
  <2> QED
    BY <1>4, <1>5, <2>1 DEF CopyPermissions, WriteTemp
<1>6. CASE Rename(t)
  <2>1. CASE job' = [job EXCEPT ![t].temp = None] /\ handle' = handle
    <3>1. job'[t] = [job[t] EXCEPT !.temp = None]
      BY <1>0, <2>1
    <3> QED
      BY <1>0, <2>1, <3>1 DEF SameWork, Job
  <2>2. CASE job' = [job EXCEPT ![t] = NoJob]
    BY <1>0, <2>2, NoFields
  <2> QED
    BY <1>1, <1>6, <2>1, <2>2 DEF Rename, Renamed, Fail
<1>7. CASE Reopen(t) \/ PipeAnswers(t)
  <2>1. CASE job' = [job EXCEPT ![t] = NoJob]
    BY <1>0, <2>1, NoFields
  <2> QED
    BY <1>1, <1>2, <1>4, <1>7, <2>1 DEF Reopen, PipeAnswers, Fail
<1> QED
  BY <1>3, <1>5, <1>6, <1>7 DEF Step

(* What a write is to write is what its store shows, as long as it lasts.  *)
LEMMA RowsAreKept ==
  ASSUME \A t, u \in Tasks : t = u, "relink" \notin Others, IndInv, IndInv', StreamsStay, SoloInv,
         [Next]_vars, NEW t \in Tasks, job'[t].opened # None
  PROVE  job'[t].rows = Shows(handle[t])' \cup job'[t].batch
<1>0. job \in [Tasks -> Job]
  BY TypeParts DEF IndInv
<1>1. ASSUME handle'[t] = handle[t], SameWork(job'[t], job[t])
      PROVE  job'[t].rows = Shows(handle[t])' \cup job'[t].batch
  <2>1. job[t].opened # None /\ job[t].opened = handle[t].ino
    BY <1>1 DEF SameWork, IndInv, TaskInv, WritesOverItsStore
  <2>2. files'[handle[t].ino].rows = files[handle[t].ino].rows
    BY <1>1, <2>1, StepKeepsMappings
  <2> QED
    BY <1>1, <2>1, <2>2 DEF SoloInv, SameWork, Shows
<1>2. CASE BeginAdd(t) \/ BeginCompact(t) \/ BeginBuild(t)
  <2>1. PICK opened, rows, batch, auto :
          /\ Begin(t, opened, rows, batch, auto)
          /\ opened # None => rows = Shows(handle[t]) \cup batch
    BY <1>2, BeginShows
  <2>2. job'[t] = [NoJob EXCEPT !.opened = opened, !.rows = rows, !.batch = batch, !.auto = auto]
    BY <1>0, <2>1 DEF Begin
  <2>3. job'[t].opened = opened /\ job'[t].rows = rows /\ job'[t].batch = batch
    BY <2>2 DEF NoJob
  <2> QED
    BY <2>1, <2>3 DEF Begin, disk, Shows
<1>3. CASE Step(t) \/ PipeAnswers(t)
  BY <1>1, <1>3, WorkIsKept
<1>4. CASE Open(t) \/ Close(t)
  <2>1. job'[t] = NoJob
    BY <1>4 DEF Open, Close, IndInv, TaskInv, WritesOverItsStore
  <2> QED
    BY <2>1, NoFields
<1>5. CASE IoError(t) \/ Cancel(t) \/ Crash(t)
  <2>1. job'[t] = NoJob
    BY <1>0, <1>5 DEF IoError, Cancel, Crash, Fail, Abandon
  <2> QED
    BY <2>1, NoFields
<1>6. CASE PathStep \/ UNCHANGED vars
  BY <1>1, <1>6, PathSteps DEF vars, SameWork
<1> QED
  BY <1>2, <1>3, <1>4, <1>5, <1>6 DEF Next, PathStep

(* With one task, and no other process moving the link, every step keeps   *)
(* what the acknowledged rows need.                                        *)
LEMMA SoloInvStep ==
  ASSUME \A t, u \in Tasks : t = u, "relink" \notin Others, IndInv, IndInv', StreamsStay, SoloInv,
         [Next]_vars
  PROVE  SoloInv'
<1> SUFFICES ASSUME NEW t \in Tasks
             PROVE  /\ pc'[t] \in Resolved => job'[t].target = link'
                    /\ (pc'[t] = "reopen" /\ At(link)'.kind = "regular") =>
                         At(link)'.rows = job'[t].rows
  BY RowsAreKept DEF SoloInv
<1> DEFINE Goal == /\ pc'[t] \in Resolved => job'[t].target = link'
                   /\ (pc'[t] = "reopen" /\ At(link)'.kind = "regular") =>
                         At(link)'.rows = job'[t].rows
<1>0. /\ job[t] \in Job /\ link \in Names /\ pc \in [Tasks -> Working \cup Resting]
      /\ job \in [Tasks -> Job]
      /\ pc[t] \in Resolved => job[t].target = link
  BY TypeParts DEF IndInv, SoloInv
<1>1. CASE PathStep \/ UNCHANGED vars
  BY <1>1, PathSteps DEF vars, SoloInv, At
<1>2. CASE pc'[t] \in Resting \cup {"start", "reopenwait"}
  BY <1>2 DEF Resolved, Guarded, Resting
<1>3. CASE Abandon(t) \/ Refuse(t) \/ Return(t) \/ Overwrite(t)
  <2>1. pc'[t] \in Resting
    BY <1>0, <1>3 DEF Abandon, Refuse, Return, Advance, Overwrite, Fail, Goto, Resting
  <2> QED
    BY <1>2, <2>1
<1>4. CASE \/ Open(t) \/ Close(t) \/ BeginAdd(t) \/ BeginCompact(t) \/ BeginBuild(t)
           \/ IoError(t) \/ Cancel(t) \/ Crash(t) \/ Reopen(t)
  <2>1. pc'[t] \in Resting \cup {"start", "reopenwait"}
    BY <1>0, <1>4 DEF Open, Close, BeginAdd, BeginCompact, BeginBuild, Begin, IoError, Cancel,
       Crash, Reopen, Advance, Fail, Abandon, Goto, Resting
  <2> QED
    BY <1>2, <2>1
<1>5. CASE \/ Start(t) \/ InPlace(t) \/ Resolve(t) \/ Inspect(t) \/ Probe(t) \/ EnsureUnreplaced(t)
  BY <1>0, <1>3, <1>5, CheckSteps DEF IndInv, Advance, Goto, disk
<1>6. CASE PipeAnswers(t)
  <2>1. CASE pc[t] = "probewait" /\ Advance(t, "temp", job[t])
    BY <1>0, <2>1 DEF Advance, Goto, disk, Resolved
  <2> QED
    BY <1>3, <1>6, <2>1 DEF PipeAnswers, Fail
<1>7. CASE CreateTemp(t) \/ CopyPermissions(t) \/ WriteTemp(t)
  <2>1. CASE Abandon(t) \/ Refuse(t)
    BY <1>3, <2>1
  <2>2. CASE ~(Abandon(t) \/ Refuse(t))
    <3>1. /\ pc[t] \in Resolved /\ pc'[t] # "reopen" /\ link' = link
          /\ job'[t].target = job[t].target
      <4>1. CASE CreateTemp(t)
        <5>1. PICK i : job' = [job EXCEPT ![t].temp = i]
          BY <2>2, <4>1 DEF CreateTemp, Fail
        <5>2. pc[t] = "temp" /\ pc'[t] \in {"write", "chmod"} /\ link' = link
          BY <1>0, <2>2, <4>1 DEF CreateTemp, Fail, Goto
        <5>3. job'[t] = [job[t] EXCEPT !.temp = i]
          BY <1>0, <5>1
        <5> QED
          BY <1>0, <5>2, <5>3 DEF Job, Resolved
      <4>2. CASE CopyPermissions(t) \/ WriteTemp(t)
        BY <1>0, <4>2 DEF CopyPermissions, WriteTemp, Goto, Guarded, Resolved
      <4> QED
        BY <1>7, <4>1, <4>2
    <3> QED
      BY <1>0, <3>1
  <2> QED
    BY <2>1, <2>2
<1>8. CASE Rename(t)
  <2>1. CASE pc'[t] # "reopen"
    <3>1. pc'[t] \in Resting
      BY <1>0, <1>8, <2>1 DEF Rename, Goto, Fail, Abandon, Resting
    <3> QED
      BY <1>2, <3>1
  <2>2. CASE pc'[t] = "reopen"
    <3>1. /\ pc[t] = "rename" /\ Renamed(t) /\ job' = [job EXCEPT ![t].temp = None]
      BY <1>0, <1>8, <2>2 DEF Rename, Goto, Fail, Abandon
    <3>2. /\ job[t].target = link /\ job'[t].target = link /\ job'[t].rows = job[t].rows
          /\ link' = link
      BY <1>0, <3>1 DEF Guarded, Resolved, Job, Renamed
    <3>3. dir'[link] = job[t].temp /\ job[t].temp # None /\ files[job[t].temp].rows = job[t].rows
      BY <3>1, <3>2, TypeParts, InodesAssumption DEF Renamed, Entry, IndInv, TypeOK, TaskInv,
         OwnsTemp, WroteAll, Guarded
    <3>4. SameStore(dir'[link])
      BY <1>0, <3>1, <3>3, HeldIsKept DEF Renamed, IndInv
    <3> QED
      BY <3>2, <3>3, <3>4 DEF SameStore, At
  <2> QED
    BY <2>1, <2>2
<1> QED
  BY <1>1, <1>4, <1>5, <1>6, <1>7, <1>8 DEF Next, Step, PathStep

(* A call that returned a store: a refusal kept the batch in the tail, or  *)
(* the store was opened anew from what was written.                        *)
LEMMA SoloReturnShows ==
  ASSUME \A t, u \in Tasks : t = u, IndInv, IndInv', SoloInv, [Next]_vars,
         NEW t \in Tasks, job[t].opened # None, pc'[t] = "idle"
  PROVE  /\ handle'[t].ino # None
         /\ job[t].rows \subseteq files'[handle'[t].ino].rows \cup handle'[t].tail
<1> DEFINE Goal == /\ handle'[t].ino # None
                   /\ job[t].rows \subseteq files'[handle'[t].ino].rows \cup handle'[t].tail
<1>0. /\ handle \in [Tasks -> Handle] /\ pc \in [Tasks -> Working \cup Resting]
      /\ pc[t] \notin Resting \cup {"inplace", "feed"} /\ pc[t] # "idle"
      /\ handle[t].ino # None /\ job[t].rows = Shows(handle[t]) \cup job[t].batch
  BY TypeParts, NoFields DEF IndInv, TaskInv, WritesOverItsStore, SoloInv, Resting
<1>1. ASSUME pc' = pc PROVE FALSE
  BY <1>0, <1>1
<1>2. ASSUME Abandon(t) PROVE FALSE
  BY <1>0, <1>2 DEF Abandon, Goto
<1>3. CASE Refuse(t)
  <2>1. CASE ~job[t].auto
    BY <1>2, <1>3, <2>1 DEF Refuse, Fail
  <2>2. CASE job[t].auto
    <3>1. files' = files /\ handle' = [handle EXCEPT ![t].tail = handle[t].tail \cup job[t].batch]
      BY <1>3, <2>2 DEF Refuse, disk
    <3>2. handle'[t] = [handle[t] EXCEPT !.tail = handle[t].tail \cup job[t].batch]
      BY <1>0, <3>1
    <3>3. handle'[t].ino = handle[t].ino /\ handle'[t].tail = handle[t].tail \cup job[t].batch
      BY <1>0, <3>2 DEF Handle
    <3> QED
      BY <1>0, <3>1, <3>3 DEF Shows
  <2> QED
    BY <2>1, <2>2
<1>4. CASE Reopen(t)
  <2>1. CASE Fail(t)
    BY <1>2, <2>1 DEF Fail
  <2>2. CASE Mapped(t) /\ UNCHANGED <<dir, temps>> /\ pc[t] = "reopen"
    <3>1. /\ handle'[t].ino = dir[link] /\ At(link).kind = "regular"
          /\ files' = Release(files, dir', temps', handle')
      BY <1>0, <2>2 DEF Mapped
    <3>2. At(link).rows = job[t].rows
      BY <2>2, <3>1 DEF SoloInv
    <3>3. dir[link] # None /\ At(link) = files[dir[link]]
      BY <3>1 DEF At, Free
    <3>4. SameStore(handle'[t].ino)
      BY <3>1, <3>3, HeldIsKept DEF IndInv
    <3> QED
      BY <3>1, <3>2, <3>3, <3>4 DEF SameStore
  <2>3. CASE Advance(t, "reopenwait", job[t])
    BY <1>0, <2>3 DEF Advance, Goto
  <2> QED
    BY <1>4, <2>1, <2>2, <2>3 DEF Reopen
<1>5. ASSUME Crash(t) \/ Cancel(t) \/ IoError(t) PROVE FALSE
  BY <1>0, <1>2, <1>5 DEF Crash, Cancel, IoError, Fail, Goto
<1>6. ASSUME Open(t) \/ Close(t) \/ BeginAdd(t) \/ BeginCompact(t) \/ BeginBuild(t) PROVE FALSE
  BY <1>0, <1>6 DEF Open, Close, BeginAdd, BeginCompact, BeginBuild, Begin
<1>7. ASSUME NEW step, NEW j, Advance(t, step, j), step # "idle" PROVE FALSE
  BY <1>0, <1>7 DEF Advance, Goto
<1>8. CASE Start(t) \/ InPlace(t) \/ Resolve(t) \/ Inspect(t) \/ Probe(t) \/ EnsureUnreplaced(t)
  <2>1. "idle" \notin Working
    BY DEF Working, Guarded, Waiting
  <2> QED
    BY <1>0, <1>2, <1>3, <1>7, <1>8, <2>1, CheckSteps DEF IndInv
<1>9. CASE CreateTemp(t) \/ CopyPermissions(t) \/ WriteTemp(t)
  BY <1>0, <1>2, <1>3, <1>9 DEF CreateTemp, CopyPermissions, WriteTemp, Fail, Goto
<1>10. CASE Rename(t) \/ PipeAnswers(t)
  BY <1>0, <1>2, <1>7, <1>10 DEF Rename, PipeAnswers, Fail, Goto
<1>11. ASSUME PathStep \/ UNCHANGED vars PROVE FALSE
  BY <1>1, <1>11 DEF PathStep, Unlink, Relink, SetWritable, Place, SetDirWritable, vars
<1> QED
  BY <1>3, <1>4, <1>5, <1>6, <1>8, <1>9, <1>10, <1>11 DEF Next, Step, PathStep

(* add_quads and compact of one process, whatever others unlink, place or  *)
(* forbid at the path: the store a call returns shows the receiver's rows  *)
(* and the batch.                                                          *)
THEOREM AcknowledgedRowsStay ==
  ASSUME \A t, u \in Tasks : t = u, "relink" \notin Others
  PROVE  Spec => AcknowledgedRowsShow
<1>1. Init => SoloInv
  BY NoFields DEF Init, SoloInv, Resolved, Guarded
<1>2. IndInv /\ IndInv' /\ StreamsStay /\ SoloInv /\ [Next]_vars => SoloInv'
  BY SoloInvStep
<1>3. IndInv /\ IndInv' /\ SoloInv /\ [Next]_vars =>
        [\A t \in Tasks :
           (job[t].opened # None /\ pc'[t] = "idle") =>
             /\ handle'[t].ino # None
             /\ job[t].rows \subseteq files'[handle'[t].ino].rows \cup handle'[t].tail]_vars
  BY SoloReturnShows
<1> QED
  BY <1>1, <1>2, <1>3, AlwaysIndInv, SoloStreamsStay, PTL DEF Spec, AcknowledgedRowsShow
============================================================================
