-------------------------- MODULE FileHandleProofs --------------------------
(***************************************************************************)
(* Proofs about FileHandle, for any number of tasks, any file, any queries *)
(* and any caps: what the locks of the expression memo, of the readers and *)
(* of the chunk-probe handles give to the tasks that share them, and that  *)
(* the window cache stays accounted and within its budget.                 *)
(***************************************************************************)
EXTENDS FileHandle, TLAPS, NaturalsInduction, WellFoundedInduction, SequenceTheorems

-----------------------------------------------------------------------------
(* Types                                                                   *)

(* What a task is at is a record, whichever fields its step gives it.      *)
IsRecord(l) == l = [x \in DOMAIN l |-> l[x]] /\ "at" \in DOMAIN l

DictSteps == {"idle", "read", "take", "done", "failed"}
ScanSteps == {"bind", "build", "tree", "load", "swap", "asked"}
Optional == Nat \cup {None}

ScanTask == [at : ScanSteps, shape : Shapes, id : Optional, tree : Optional,
             load : Optional, since : Nat]
MakeTask == [at : {"make"}, column : Columns]
ProbedTask == [at : {"probed"}, column : Columns, handle : Nat]

TaskType(l) ==
  /\ IsRecord(l)
  /\ l.at \in DictSteps \cup ScanSteps \cup {"make", "probed"}
  /\ l.at \in ScanSteps => l \in ScanTask
  /\ l.at = "make" => l \in MakeTask
  /\ l.at = "probed" => l \in ProbedTask

SharedTypes ==
  /\ task = [t \in Threads |-> task[t]]
  /\ \A t \in Threads : TaskType(task[t])
  /\ memo = [map |-> memo.map, lock |-> memo.lock, clears |-> memo.clears]
  /\ memo.clears \in Nat /\ made \in Nat
  /\ tree \in [generation : Nat, lock : Threads \cup {None}]
  /\ bound \subseteq Nat \X Shapes \X Nat
  /\ handles \in [Columns -> Optional]

-----------------------------------------------------------------------------
(* The inductive invariant                                                 *)

(* A miss builds under the memo's lock, and what it builds is still        *)
(* missing; a reader is taken under the readers' lock.                     *)
LocksHeld(t) ==
  /\ At(t, "build") => memo.lock = t /\ task[t].shape \notin DOMAIN memo.map
  /\ task[t].at \in {"load", "swap"} => tree.lock = t

(* What was loaded under the readers' lock is between the tree's           *)
(* generation and the count of clears.                                     *)
LoadIsCurrent(t) ==
  At(t, "swap") =>
    /\ task[t].load \in Nat
    /\ tree.generation <= task[t].load /\ task[t].load <= memo.clears
    /\ task[t].since <= task[t].load

(* While the memo has not cleared since a scan began, the identity and the *)
(* reader it has are of that generation.                                   *)
ScanIsCurrent(t) ==
  task[t].at \in ScanSteps =>
    /\ task[t].since <= memo.clears
    /\ At(t, "asked") => task[t].id # None /\ task[t].tree # None
    /\ task[t].since = memo.clears =>
         /\ task[t].id # None => <<memo.clears, task[t].shape, task[t].id>> \in bound
         /\ task[t].tree # None => task[t].tree = memo.clears

(* A task that has a handle has the column's.                              *)
HandleIsKept(t) ==
  At(t, "probed") => task[t].handle = handles[task[t].column]

TaskInv(t) == LocksHeld(t) /\ LoadIsCurrent(t) /\ ScanIsCurrent(t) /\ HandleIsKept(t)

(* The memo holds the identities of its own generation, and only those.    *)
MemoIsBound ==
  /\ \A s \in DOMAIN memo.map : s \in Shapes /\ <<memo.clears, s, memo.map[s]>> \in bound
  /\ \A b \in bound :
       /\ b[1] <= memo.clears
       /\ b[1] = memo.clears => b[2] \in DOMAIN memo.map /\ memo.map[b[2]] = b[3]

TreeIsBehind == tree.generation <= memo.clears

SharedInv ==
  /\ SharedTypes
  /\ \A t \in Threads : TaskInv(t)
  /\ MemoIsBound /\ TreeIsBehind /\ IdentitiesPinned

(* The invariant holds of a file just opened.                              *)
LEMMA InitSharedInv == Init => SharedInv
<1> SUFFICES ASSUME Init PROVE SharedInv
  OBVIOUS
<1>1. /\ task = [t \in Threads |-> Idle] /\ memo = [map |-> <<>>, lock |-> None, clears |-> 0]
      /\ tree = [generation |-> 0, lock |-> None] /\ bound = {} /\ made = 0
      /\ handles = [c \in Columns |-> None]
  BY DEF Init
<1>2. Idle.at = "idle" /\ TaskType(Idle)
  BY DEF Idle, TaskType, IsRecord, DictSteps, ScanSteps
<1>3. SharedTypes
  BY <1>1, <1>2 DEF SharedTypes, Optional
<1>4. ASSUME NEW t \in Threads PROVE TaskInv(t)
  BY <1>1, <1>2 DEF TaskInv, LocksHeld, LoadIsCurrent, ScanIsCurrent, HandleIsKept, At, ScanSteps
<1>5. MemoIsBound /\ TreeIsBehind /\ IdentitiesPinned
  BY <1>1 DEF MemoIsBound, TreeIsBehind, IdentitiesPinned
<1> QED
  BY <1>3, <1>4, <1>5 DEF SharedInv

-----------------------------------------------------------------------------
(* Steps                                                                   *)

(* A step of one task that leaves the others' locks, identities and        *)
(* handles alone.                                                          *)
LEMMA OwnStepKeeps ==
  ASSUME SharedInv, NEW t \in Threads, NEW l, TaskType(l), Goes(t, l),
         UNCHANGED <<memo, bound>>, made' \in Nat,
         tree' \in [generation : Nat, lock : Threads \cup {None}],
         tree.lock \in {None, t} \/ tree' = tree,
         tree'.generation <= memo.clears,
         handles' \in [Columns -> Optional],
         \A c \in Columns : handles[c] # None => handles'[c] = handles[c],
         TaskInv(t)'
  PROVE  SharedInv'
<1>1. task' = [u \in Threads |-> IF u = t THEN l ELSE task[u]]
  BY DEF Goes, SharedInv, SharedTypes
<1>2. SharedTypes'
  BY <1>1 DEF SharedInv, SharedTypes
<1>3. ASSUME NEW u \in Threads PROVE TaskInv(u)'
  <2>1. CASE u = t
    BY <2>1
  <2>2. CASE u # t
    <3>1. task'[u] = task[u] /\ TaskInv(u)
      BY <1>1, <2>2 DEF SharedInv
    <3>2. LocksHeld(u)' /\ LoadIsCurrent(u)'
      BY <2>2, <3>1, HandleAssumption DEF TaskInv, LocksHeld, LoadIsCurrent, At
    <3>3. ScanIsCurrent(u)'
      BY <3>1 DEF TaskInv, ScanIsCurrent, At
    <3>4. HandleIsKept(u)'
      <4>1. At(u, "probed") => task[u].column \in Columns /\ task[u].handle \in Nat
        BY DEF SharedInv, SharedTypes, TaskType, ProbedTask, At
      <4> QED
        BY <3>1, <4>1, HandleAssumption DEF TaskInv, HandleIsKept, At
    <3> QED
      BY <3>2, <3>3, <3>4 DEF TaskInv
  <2> QED
    BY <2>1, <2>2
<1>4. MemoIsBound' /\ TreeIsBehind' /\ IdentitiesPinned'
  BY DEF SharedInv, MemoIsBound, TreeIsBehind, IdentitiesPinned
<1> QED
  BY <1>2, <1>3, <1>4 DEF SharedInv

(* A step of a dictionary query, or a return.                              *)
LEMMA DictStepKeeps ==
  ASSUME SharedInv, NEW t \in Threads, NEW l, IsRecord(l), l.at \in DictSteps, Goes(t, l),
         UNCHANGED <<memo, tree, bound, handles, made>>
  PROVE  SharedInv'
<1>1. TaskType(l)
  BY DEF TaskType, DictSteps, ScanSteps
<1>2. task'[t] = l
  BY DEF Goes, SharedInv, SharedTypes
<1>3. TaskInv(t)'
  BY <1>2 DEF TaskInv, LocksHeld, LoadIsCurrent, ScanIsCurrent, HandleIsKept, At, DictSteps, ScanSteps
<1> QED
  BY <1>1, <1>3, OwnStepKeeps DEF SharedInv, SharedTypes, TreeIsBehind

(* A record with one more window is still a record, at the same step.      *)
LEMMA GotRecord ==
  ASSUME NEW l, IsRecord(l), NEW w
  PROVE  IsRecord(Got(l, w)) /\ Got(l, w).at = l.at
<1> DEFINE rest == Head(l.stages) \ {w}
           a == IF rest = {} THEN Tail(l.stages) ELSE [l.stages EXCEPT ![1] = rest]
           b == l.fetching \ {w}
           c == [v \in DOMAIN l.got \cup {w} |-> file.leaves[v]]
<1>1. Got(l, w) = [l EXCEPT !.stages = a, !.fetching = b, !.got = c]
  BY DEF Got
<1> HIDE DEF a, b, c
<1> QED
  BY <1>1 DEF IsRecord

(* The steps of a query that asks, looks, arrives or decodes without the   *)
(* locks.                                                                  *)
LEMMA QueryKeeps ==
  ASSUME SharedInv, NEW t \in Threads,
         \/ \E q \in Queries : Ask(t, q)
         \/ \E w \in DOMAIN ws : Look(t, w) \/ Arrive(t, w)
         \/ Fault(t) \/ KeepKinds(t) \/ Finish(t)
         \/ (\E w \in DOMAIN ws : Take(t, w)) \/ DecodeHeld(t) \/ Return(t)
  PROVE  SharedInv'
<1>1. UNCHANGED <<memo, tree, bound, handles, made>>
  <2>1. ASSUME NEW q, Ask(t, q) PROVE UNCHANGED <<memo, tree, bound, handles, made>>
    BY <2>1 DEF Ask
  <2>2. ASSUME NEW w, Look(t, w) \/ Arrive(t, w)
        PROVE  UNCHANGED <<memo, tree, bound, handles, made>>
    BY <2>2 DEF Look, Arrive
  <2>3. CASE Fault(t) \/ KeepKinds(t) \/ Finish(t)
    BY <2>3 DEF Fault, KeepKinds, Finish
  <2>4. CASE \E w \in DOMAIN ws : Take(t, w)
    BY <2>4 DEF Take
  <2>5. CASE DecodeHeld(t) \/ Return(t)
    BY <2>5 DEF DecodeHeld, Return
  <2> QED
    BY <2>1, <2>2, <2>3, <2>4, <2>5
<1>2. IsRecord(task[t])
  BY DEF SharedInv, SharedTypes, TaskType
<1>3. ASSUME NEW l, IsRecord(l), l.at \in DictSteps, Goes(t, l) PROVE SharedInv'
  BY <1>1, <1>3, DictStepKeeps
<1>4. ASSUME NEW q, NEW stages
      PROVE  IsRecord(Reading(q, stages)) /\ Reading(q, stages).at = "read"
  BY DEF Reading, IsRecord
<1>5. ASSUME NEW q \in Queries, Ask(t, q) PROVE SharedInv'
  <2> DEFINE taking == [at |-> "take", q |-> q, order |-> TakeOrder(q), charged |-> 0, got |-> <<>>]
  <2>1. Goes(t, taking) \/ Goes(t, Reading(q, Stages(q)))
    BY <1>5 DEF Ask
  <2>2. IsRecord(taking) /\ taking.at = "take"
    BY DEF IsRecord
  <2> HIDE DEF taking
  <2> QED
    BY <1>3, <1>4, <2>1, <2>2 DEF DictSteps
<1>6. ASSUME NEW w, Look(t, w) \/ Arrive(t, w) PROVE SharedInv'
  <2> DEFINE more == [task[t] EXCEPT !.fetching = task[t].fetching \cup {w}]
  <2>1. task[t].at = "read" /\ (Goes(t, Got(task[t], w)) \/ Goes(t, more))
    BY <1>6 DEF Look, Arrive, At
  <2>2. IsRecord(more) /\ more.at = task[t].at
    BY <1>2 DEF IsRecord
  <2> HIDE DEF more
  <2> QED
    BY <1>2, <1>3, <2>1, <2>2, GotRecord DEF DictSteps
<1>7. CASE Fault(t)
  <2>1. IsRecord([at |-> "failed"]) /\ [at |-> "failed"].at = "failed"
    BY DEF IsRecord
  <2> QED
    BY <1>3, <1>7, <2>1 DEF Fault, DictSteps
<1>8. CASE KeepKinds(t)
  <2> DEFINE l == [task[t] EXCEPT !.stages = Tail(task[t].stages)]
  <2>1. Goes(t, l) /\ task[t].at = "read"
    BY <1>8 DEF KeepKinds, At
  <2>2. IsRecord(l) /\ l.at = task[t].at
    BY <1>2 DEF IsRecord
  <2> HIDE DEF l
  <2> QED
    BY <1>3, <2>1, <2>2 DEF DictSteps
<1>9. CASE Finish(t) \/ DecodeHeld(t)
  <2>1. PICK q, a : Goes(t, [at |-> "done", q |-> q, answer |-> a])
    <3>1. CASE Finish(t)
      BY <3>1 DEF Finish
    <3>2. CASE DecodeHeld(t)
      BY <3>2 DEF DecodeHeld
    <3> QED
      BY <1>9, <3>1, <3>2
  <2>2. IsRecord([at |-> "done", q |-> q, answer |-> a])
        /\ [at |-> "done", q |-> q, answer |-> a].at = "done"
    BY DEF IsRecord
  <2> QED
    BY <1>3, <2>1, <2>2 DEF DictSteps
<1>10. CASE \E w \in DOMAIN ws : Take(t, w)
  <2> DEFINE l == task[t]
             w == Head(l.order)
             charged == l.charged + Charge(w)
             held == [l EXCEPT !.order = Tail(l.order), !.charged = charged,
                               !.got = [v \in DOMAIN l.got \cup {w} |-> file.leaves[v]]]
             resolved == Reading(l.q, Stages(l.q))
  <2>1. task[t].at = "take" /\ (Goes(t, held) \/ Goes(t, resolved))
    BY <1>10 DEF Take, At
  <2>2. IsRecord(held) /\ held.at = task[t].at
    <3> DEFINE a == Tail(l.order)
               c == [v \in DOMAIN l.got \cup {w} |-> file.leaves[v]]
    <3>1. held = [l EXCEPT !.order = a, !.charged = charged, !.got = c]
      OBVIOUS
    <3> HIDE DEF a, c, charged, held
    <3> QED
      BY <1>2, <3>1 DEF IsRecord
  <2>3. IsRecord(resolved) /\ resolved.at = "read"
    BY <1>4
  <2> HIDE DEF held, resolved
  <2> QED
    BY <1>3, <2>1, <2>2, <2>3 DEF DictSteps
<1>11. CASE Return(t)
  <2>1. IsRecord(Idle) /\ Idle.at = "idle"
    BY DEF IsRecord, Idle
  <2> QED
    BY <1>3, <1>11, <2>1 DEF Return, DictSteps
<1> QED
  BY <1>5, <1>6, <1>7, <1>8, <1>9, <1>10, <1>11

(* A scan's task, with the fields a step gives it.                         *)
LEMMA ScanFields ==
  ASSUME NEW l \in ScanTask
  PROVE  /\ IsRecord(l) /\ TaskType(l)
         /\ l.shape \in Shapes /\ l.since \in Nat /\ l.id \in Optional /\ l.tree \in Optional
BY DEF ScanTask, IsRecord, TaskType, ScanSteps, DictSteps

(* A task in a scan carries the scan's fields.                             *)
LEMMA ScanTyped ==
  ASSUME SharedInv, NEW t \in Threads, task[t].at \in ScanSteps
  PROVE  task[t] \in ScanTask
BY DEF SharedInv, SharedTypes, TaskType

(* A scan begins, finds its expression in the memo, or takes and uses the  *)
(* readers' lock.                                                          *)
LEMMA ScanKeeps ==
  ASSUME SharedInv, NEW t \in Threads, NEW s \in Shapes,
         Scan(t, s, "tree") \/ Scan(t, s, "bind")
  PROVE  SharedInv'
<1>1. PICK first \in {"tree", "bind"} :
        Goes(t, [at |-> first, shape |-> s, id |-> None, tree |-> None,
                 load |-> None, since |-> memo.clears])
        /\ UNCHANGED <<memo, tree, bound, handles, made>>
  BY DEF Scan
<1> DEFINE l == [at |-> first, shape |-> s, id |-> None, tree |-> None,
                 load |-> None, since |-> memo.clears]
<1>2. /\ l \in ScanTask /\ l.at = first /\ l.id = None /\ l.tree = None
      /\ l.since = memo.clears
  BY DEF ScanTask, ScanSteps, Optional, SharedInv, SharedTypes
<1> HIDE DEF l
<1>3. task'[t] = l
  BY <1>1 DEF Goes, SharedInv, SharedTypes, l
<1>4. TaskInv(t)'
  BY <1>1, <1>2, <1>3 DEF TaskInv, LocksHeld, LoadIsCurrent, ScanIsCurrent, HandleIsKept, At,
     SharedInv, SharedTypes
<1> QED
  BY <1>1, <1>2, <1>4, ScanFields, OwnStepKeeps DEF SharedInv, SharedTypes, TreeIsBehind, l

(* A reader takes the tree's lock.                                         *)
LEMMA LockReadersKeeps ==
  ASSUME SharedInv, NEW t \in Threads, LockReaders(t)
  PROVE  SharedInv'
<1> DEFINE l == [task[t] EXCEPT !.at = "load"]
<1>1. /\ task[t].at = "tree" /\ tree.lock = None /\ tree' = [tree EXCEPT !.lock = t]
      /\ Goes(t, l) /\ UNCHANGED <<memo, bound, handles, made>>
  BY DEF LockReaders, At
<1>2. task[t] \in ScanTask
  BY <1>1, ScanTyped DEF ScanSteps
<1>3. /\ l \in ScanTask /\ l.at = "load" /\ l.id = task[t].id /\ l.tree = task[t].tree
      /\ l.since = task[t].since /\ l.shape = task[t].shape
  BY <1>2 DEF ScanTask, ScanSteps
<1>4. /\ tree' \in [generation : Nat, lock : Threads \cup {None}]
      /\ tree'.lock = t /\ tree'.generation = tree.generation
  BY <1>1 DEF SharedInv, SharedTypes
<1> HIDE DEF l
<1>5. task'[t] = l
  BY <1>1 DEF Goes, SharedInv, SharedTypes
<1>6. TaskInv(t)'
  BY <1>1, <1>3, <1>4, <1>5 DEF TaskInv, LocksHeld, LoadIsCurrent, ScanIsCurrent, HandleIsKept, At,
     SharedInv, SharedTypes, ScanSteps
<1> QED
  BY <1>1, <1>3, <1>4, <1>6, ScanFields, OwnStepKeeps DEF SharedInv, SharedTypes, TreeIsBehind

(* Under the lock, the generation is read; it is not before the tree's.    *)
LEMMA LoadClearsKeeps ==
  ASSUME SharedInv, NEW t \in Threads, LoadClears(t)
  PROVE  SharedInv'
<1> DEFINE l == [task[t] EXCEPT !.at = "swap", !.load = memo.clears]
<1>1. task[t].at = "load" /\ Goes(t, l) /\ UNCHANGED <<memo, tree, bound, handles, made>>
  BY DEF LoadClears, At
<1>2. task[t] \in ScanTask
  BY <1>1, ScanTyped DEF ScanSteps
<1>3. /\ l \in ScanTask /\ l.at = "swap" /\ l.load = memo.clears /\ l.id = task[t].id
      /\ l.tree = task[t].tree /\ l.since = task[t].since /\ l.shape = task[t].shape
  BY <1>2 DEF ScanTask, ScanSteps, Optional, SharedInv, SharedTypes
<1> HIDE DEF l
<1>4. task'[t] = l
  BY <1>1 DEF Goes, SharedInv, SharedTypes
<1>5. TaskInv(t)'
  <2>1. LocksHeld(t)' /\ HandleIsKept(t)'
    BY <1>1, <1>3, <1>4 DEF TaskInv, LocksHeld, HandleIsKept, At, SharedInv
  <2>2. ScanIsCurrent(t)'
    BY <1>1, <1>3, <1>4 DEF TaskInv, ScanIsCurrent, At, SharedInv, ScanSteps
  <2>3. task[t].since <= memo.clears /\ tree.generation <= memo.clears /\ memo.clears \in Nat
    BY <1>1 DEF TaskInv, ScanIsCurrent, SharedInv, SharedTypes, ScanSteps, TreeIsBehind
  <2>4. memo.clears <= memo.clears
    BY <2>3
  <2>5. LoadIsCurrent(t)'
    BY <1>1, <1>3, <1>4, <2>3, <2>4 DEF LoadIsCurrent, At
  <2> QED
    BY <2>1, <2>2, <2>5 DEF TaskInv
<1> QED
  BY <1>1, <1>3, <1>5, ScanFields, OwnStepKeeps DEF SharedInv, SharedTypes, TreeIsBehind

(* The tree is replaced, under its lock, by that of the clears loaded.     *)
LEMMA TakeReaderKeeps ==
  ASSUME SharedInv, NEW t \in Threads, TakeReader(t)
  PROVE  SharedInv' /\ tree'.generation = task[t].load /\ tree.generation <= task[t].load
<1> DEFINE g == CurrentTree(t)
           l == [task[t] EXCEPT !.tree = g,
                                !.at = IF task[t].id = None THEN "bind" ELSE "asked"]
<1>1. /\ task[t].at = "swap" /\ Goes(t, l) /\ tree' = [generation |-> g, lock |-> None]
      /\ UNCHANGED <<memo, bound, handles, made>>
  BY DEF TakeReader, At
<1>2. task[t] \in ScanTask
  BY <1>1, ScanTyped DEF ScanSteps
<1>3. /\ g = task[t].load /\ g \in Nat /\ tree.generation <= g /\ g <= memo.clears
      /\ task[t].since <= g /\ tree.lock = t
  BY <1>1 DEF CurrentTree, SharedInv, TaskInv, LoadIsCurrent, LocksHeld, At
<1> HIDE DEF g
<1>4. /\ l \in ScanTask /\ l.at \in {"bind", "asked"} /\ l.tree = g /\ l.id = task[t].id
      /\ l.since = task[t].since /\ l.shape = task[t].shape
      /\ l.at = "asked" => l.id # None
  BY <1>2, <1>3 DEF ScanTask, ScanSteps, Optional
<1>5. /\ tree' \in [generation : Nat, lock : Threads \cup {None}] /\ tree'.generation = g
  BY <1>1, <1>3
<1> HIDE DEF l
<1>6. task'[t] = l
  BY <1>1 DEF Goes, SharedInv, SharedTypes
<1>7. TaskInv(t)'
  <2>1. LocksHeld(t)' /\ HandleIsKept(t)' /\ LoadIsCurrent(t)'
    BY <1>4, <1>6 DEF LocksHeld, HandleIsKept, LoadIsCurrent, At
  <2>2. g # None
    BY <1>3, HandleAssumption
  <2>3. task[t].since \in Nat /\ memo.clears \in Nat
    BY <1>2 DEF ScanTask, SharedInv, SharedTypes
  <2>4. ScanIsCurrent(t)'
    BY <1>1, <1>3, <1>4, <1>6, <2>2, <2>3 DEF TaskInv, ScanIsCurrent, At, SharedInv, ScanSteps
  <2> QED
    BY <2>1, <2>4 DEF TaskInv
<1> QED
  BY <1>1, <1>3, <1>4, <1>5, <1>7, ScanFields, OwnStepKeeps DEF SharedInv, SharedTypes

(* A step that only takes or frees the memo's lock.                        *)
LEMMA MemoLockKeeps ==
  ASSUME SharedInv, NEW t \in Threads, NEW l, TaskType(l), Goes(t, l), NEW x,
         memo.lock \in {None, t}, memo' = [memo EXCEPT !.lock = x],
         UNCHANGED <<tree, bound, handles, made>>, TaskInv(t)'
  PROVE  SharedInv'
<1>1. task' = [u \in Threads |-> IF u = t THEN l ELSE task[u]]
  BY DEF Goes, SharedInv, SharedTypes
<1>2. /\ memo' = [map |-> memo.map, lock |-> x, clears |-> memo.clears]
      /\ memo'.map = memo.map /\ memo'.clears = memo.clears /\ memo'.lock = x
  BY DEF SharedInv, SharedTypes
<1>3. SharedTypes'
  BY <1>1, <1>2 DEF SharedInv, SharedTypes
<1>4. ASSUME NEW u \in Threads PROVE TaskInv(u)'
  <2>1. CASE u = t
    BY <2>1
  <2>2. CASE u # t
    <3>1. task'[u] = task[u] /\ TaskInv(u)
      BY <1>1, <2>2 DEF SharedInv
    <3>2. LocksHeld(u)' /\ HandleIsKept(u)'
      BY <2>2, <3>1, HandleAssumption DEF TaskInv, LocksHeld, HandleIsKept, At
    <3>3. LoadIsCurrent(u)' /\ ScanIsCurrent(u)'
      BY <1>2, <3>1 DEF TaskInv, LoadIsCurrent, ScanIsCurrent, At
    <3> QED
      BY <3>2, <3>3 DEF TaskInv
  <2> QED
    BY <2>1, <2>2
<1>5. MemoIsBound' /\ TreeIsBehind' /\ IdentitiesPinned'
  BY <1>2 DEF SharedInv, MemoIsBound, TreeIsBehind, IdentitiesPinned
<1> QED
  BY <1>3, <1>4, <1>5 DEF SharedInv

(* A task that got an identity, and what it then is at.                    *)
LEMMA BoundFields ==
  ASSUME NEW l \in ScanTask, NEW i \in Nat
  PROVE  /\ Bound(l, i) \in ScanTask /\ Bound(l, i).id = i /\ i # None
         /\ Bound(l, i).tree = l.tree /\ Bound(l, i).since = l.since
         /\ Bound(l, i).shape = l.shape /\ Bound(l, i).at \in {"tree", "asked"}
         /\ Bound(l, i).at = "asked" => l.tree # None
<1>1. l.tree \in Optional /\ i # None
  BY HandleAssumption DEF ScanTask
<1> QED
  BY <1>1 DEF Bound, ScanTask, ScanSteps, Optional

(* A lookup of the memo: a hit is an identity of the current generation, a *)
(* miss keeps the lock.                                                    *)
LEMMA BindKeeps ==
  ASSUME SharedInv, NEW t \in Threads, Bind(t)
  PROVE  SharedInv'
<1> DEFINE l == task[t]
<1>1. /\ l.at = "bind" /\ memo.lock = None
      /\ UNCHANGED <<tree, bound, handles, made>>
  BY DEF Bind, At
<1>2. l \in ScanTask
  BY <1>1, ScanTyped DEF ScanSteps
<1>3. CASE l.shape \in DOMAIN memo.map
  <2> DEFINE i == memo.map[l.shape]
             m == Bound(l, i)
  <2>1. Goes(t, m) /\ UNCHANGED memo
    BY <1>3 DEF Bind
  <2>2. <<memo.clears, l.shape, i>> \in bound /\ i \in Nat
    BY <1>3 DEF SharedInv, MemoIsBound, SharedTypes
  <2> HIDE DEF i
  <2>3. /\ m \in ScanTask /\ m.id = i /\ i # None /\ m.tree = l.tree /\ m.since = l.since
        /\ m.shape = l.shape /\ m.at \in {"tree", "asked"}
        /\ m.at = "asked" => l.tree # None
    BY <1>2, <2>2, BoundFields
  <2> HIDE DEF m
  <2>4. task'[t] = m
    BY <2>1 DEF Goes, SharedInv, SharedTypes
  <2>5. TaskInv(t)'
    <3>1. LocksHeld(t)' /\ LoadIsCurrent(t)' /\ HandleIsKept(t)'
      BY <2>3, <2>4 DEF LocksHeld, LoadIsCurrent, HandleIsKept, At
    <3>2. ScanIsCurrent(t)'
      BY <1>1, <2>1, <2>2, <2>3, <2>4 DEF SharedInv, TaskInv, ScanIsCurrent, ScanSteps, At
    <3> QED
      BY <3>1, <3>2 DEF TaskInv
  <2> QED
    BY <1>1, <2>1, <2>3, <2>5, ScanFields, OwnStepKeeps DEF SharedInv, SharedTypes, TreeIsBehind
<1>4. CASE l.shape \notin DOMAIN memo.map
  <2> DEFINE m == [l EXCEPT !.at = "build"]
  <2>1. Goes(t, m) /\ memo' = [memo EXCEPT !.lock = t]
    BY <1>4 DEF Bind
  <2>2. /\ m \in ScanTask /\ m.at = "build" /\ m.id = l.id /\ m.tree = l.tree
        /\ m.since = l.since /\ m.shape = l.shape
    BY <1>2 DEF ScanTask, ScanSteps
  <2> HIDE DEF m
  <2>3. task'[t] = m
    BY <2>1 DEF Goes, SharedInv, SharedTypes
  <2>4. memo'.map = memo.map /\ memo'.clears = memo.clears /\ memo'.lock = t
    BY <2>1 DEF SharedInv, SharedTypes
  <2>5. TaskInv(t)'
    <3>1. LocksHeld(t)' /\ LoadIsCurrent(t)' /\ HandleIsKept(t)'
      BY <1>4, <2>2, <2>3, <2>4 DEF LocksHeld, LoadIsCurrent, HandleIsKept, At
    <3>2. ScanIsCurrent(t)'
      BY <1>1, <2>2, <2>3, <2>4 DEF SharedInv, TaskInv, ScanIsCurrent, ScanSteps, At
    <3> QED
      BY <3>1, <3>2 DEF TaskInv
  <2> QED
    BY <1>1, <2>1, <2>2, <2>5, ScanFields, MemoLockKeeps
<1> QED
  BY <1>3, <1>4

(* A build that fails frees the lock.                                      *)
LEMMA BuildFailsKeeps ==
  ASSUME SharedInv, NEW t \in Threads, BuildFails(t)
  PROVE  SharedInv'
<1> DEFINE l == [at |-> "failed"]
<1>1. /\ task[t].at = "build" /\ Goes(t, l) /\ memo' = [memo EXCEPT !.lock = None]
      /\ UNCHANGED <<tree, bound, handles, made>>
  BY DEF BuildFails, At
<1>2. l.at = "failed" /\ TaskType(l)
  BY DEF TaskType, IsRecord, DictSteps, ScanSteps
<1> HIDE DEF l
<1>3. task'[t] = l
  BY <1>1 DEF Goes, SharedInv, SharedTypes
<1>4. TaskInv(t)'
  BY <1>2, <1>3 DEF TaskInv, LocksHeld, LoadIsCurrent, ScanIsCurrent, HandleIsKept, At, ScanSteps
<1>5. memo.lock = t
  BY <1>1 DEF SharedInv, TaskInv, LocksHeld, At
<1> QED
  BY <1>1, <1>2, <1>4, <1>5, MemoLockKeeps

(* An identity built under the lock, in a map cleared at its cap.  Another *)
(* task's scan either began before the clear or keeps what it had.         *)
LEMMA BuildKeeps ==
  ASSUME SharedInv, NEW t \in Threads, Build(t)
  PROVE  SharedInv'
<1> DEFINE l == task[t]
           full == Cardinality(DOMAIN memo.map) >= MemoCap
           kept == IF full THEN {} ELSE DOMAIN memo.map
           clears == IF full THEN memo.clears + 1 ELSE memo.clears
           map == [s \in kept \cup {l.shape} |-> IF s = l.shape THEN made + 1 ELSE memo.map[s]]
           m == Bound(l, made + 1)
<1>1. /\ l.at = "build" /\ memo' = [map |-> map, lock |-> None, clears |-> clears]
      /\ bound' = bound \cup {<<clears, l.shape, made + 1>>} /\ Goes(t, m)
      /\ made' = made + 1 /\ UNCHANGED <<tree, handles>>
  BY DEF Build, At
<1>2. l \in ScanTask /\ l.shape \in Shapes
  BY <1>1, ScanTyped, ScanFields DEF ScanSteps
<1>3. memo.lock = t /\ l.shape \notin DOMAIN memo.map
  BY <1>1 DEF SharedInv, TaskInv, LocksHeld, At
<1>4. memo.clears \in Nat /\ made \in Nat /\ made + 1 \in Nat
  BY DEF SharedInv, SharedTypes
<1>5. /\ clears \in Nat /\ memo.clears <= clears /\ kept \subseteq DOMAIN memo.map
      /\ clears # memo.clears => kept = {} /\ clears > memo.clears
      /\ clears = memo.clears => kept = DOMAIN memo.map
  BY <1>4
<1>6. /\ DOMAIN map = kept \cup {l.shape} /\ map[l.shape] = made + 1
      /\ \A s \in kept : map[s] = memo.map[s]
  BY <1>3, <1>5
<1> HIDE DEF full, kept, clears, map
<1>7. /\ m \in ScanTask /\ m.id = made + 1 /\ m.id # None /\ m.tree = l.tree
      /\ m.since = l.since /\ m.shape = l.shape /\ m.at \in {"tree", "asked"}
      /\ m.at = "asked" => l.tree # None
  BY <1>2, <1>4, BoundFields
<1> HIDE DEF m
<1>8. task' = [u \in Threads |-> IF u = t THEN m ELSE task[u]]
  BY <1>1 DEF Goes, SharedInv, SharedTypes
<1>9. memo'.map = map /\ memo'.clears = clears /\ memo'.lock = None
  BY <1>1
<1>10. SharedTypes'
  <2>1. memo' = [map |-> memo'.map, lock |-> memo'.lock, clears |-> memo'.clears]
    BY <1>1, <1>9
  <2>2. \A u \in Threads : TaskType(task'[u])
    BY <1>7, <1>8, ScanFields DEF SharedInv, SharedTypes
  <2>3. bound' \subseteq Nat \X Shapes \X Nat
    BY <1>1, <1>2, <1>4, <1>5 DEF SharedInv, SharedTypes
  <2> QED
    BY <1>1, <1>4, <1>5, <1>8, <1>9, <2>1, <2>2, <2>3 DEF SharedInv, SharedTypes
<1>11. ASSUME NEW u \in Threads PROVE TaskInv(u)'
  <2>1. CASE u = t
    <3>1. task'[t] = m
      BY <1>8
    <3>2. LocksHeld(t)' /\ LoadIsCurrent(t)' /\ HandleIsKept(t)'
      BY <1>7, <3>1 DEF LocksHeld, LoadIsCurrent, HandleIsKept, At
    <3>3. /\ l.since <= memo.clears /\ l.since \in Nat
          /\ l.since = memo.clears => (l.tree # None => l.tree = memo.clears)
      BY <1>1, <1>2 DEF SharedInv, TaskInv, ScanIsCurrent, ScanSteps, ScanTask
    <3>4. l.since <= clears
      BY <1>4, <1>5, <3>3
    <3>5. l.since = clears => clears = memo.clears
      BY <1>4, <1>5, <3>3
    <3>6. <<clears, m.shape, m.id>> \in bound'
      BY <1>1, <1>7
    <3>7. ScanIsCurrent(t)'
      BY <1>7, <1>9, <3>1, <3>3, <3>4, <3>5, <3>6 DEF ScanIsCurrent, At, ScanSteps
    <3> QED
      BY <2>1, <3>2, <3>7 DEF TaskInv
  <2>2. CASE u # t
    <3>1. task'[u] = task[u] /\ TaskInv(u)
      BY <1>8, <2>2 DEF SharedInv
    <3>2. LocksHeld(u)' /\ HandleIsKept(u)'
      BY <1>1, <1>3, <2>2, <3>1 DEF TaskInv, LocksHeld, HandleIsKept, At
    <3>3. LoadIsCurrent(u)'
      BY <1>1, <1>4, <1>5, <1>9, <3>1 DEF TaskInv, LoadIsCurrent, At
    <3>4. ScanIsCurrent(u)'
      <4> SUFFICES ASSUME task[u].at \in ScanSteps PROVE ScanIsCurrent(u)'
        BY <3>1 DEF ScanIsCurrent
      <4>1. task[u].since \in Nat /\ task[u].since <= memo.clears
        BY <3>1, ScanTyped, ScanFields DEF TaskInv, ScanIsCurrent
      <4>2. task[u].since <= clears /\ (task[u].since = clears => clears = memo.clears)
        BY <1>4, <1>5, <4>1
      <4> QED
        BY <1>1, <1>9, <3>1, <4>2 DEF TaskInv, ScanIsCurrent, At
    <3> QED
      BY <3>2, <3>3, <3>4 DEF TaskInv
  <2> QED
    BY <2>1, <2>2
<1>12. MemoIsBound'
  <2> DEFINE new == <<clears, l.shape, made + 1>>
  <2>1. new[1] = clears /\ new[2] = l.shape /\ new[3] = made + 1 /\ bound' = bound \cup {new}
    BY <1>1
  <2> HIDE DEF new
  <2>2. \A s \in DOMAIN map : s \in Shapes /\ <<clears, s, map[s]>> \in bound'
    <3> SUFFICES ASSUME NEW s \in DOMAIN map
                 PROVE  s \in Shapes /\ <<clears, s, map[s]>> \in bound'
      OBVIOUS
    <3>1. CASE s = l.shape
      BY <1>2, <1>6, <2>1, <3>1 DEF new
    <3>2. CASE s # l.shape
      <4>1. s \in kept /\ clears = memo.clears /\ map[s] = memo.map[s]
        BY <1>5, <1>6, <3>2
      <4> QED
        BY <1>1, <1>5, <4>1 DEF SharedInv, MemoIsBound
    <3> QED
      BY <3>1, <3>2
  <2>3. ASSUME NEW b \in bound'
        PROVE  /\ b[1] <= clears
               /\ b[1] = clears => b[2] \in DOMAIN map /\ map[b[2]] = b[3]
    <3>1. CASE b = new
      BY <1>5, <1>6, <2>1, <3>1
    <3>2. CASE b \in bound
      <4>1. b[1] \in Nat /\ b[1] <= memo.clears
        BY <3>2 DEF SharedInv, SharedTypes, MemoIsBound
      <4>2. b[1] <= clears /\ (b[1] = clears => clears = memo.clears)
        BY <1>4, <1>5, <4>1
      <4>3. b[1] = memo.clears => b[2] \in DOMAIN memo.map /\ memo.map[b[2]] = b[3]
        BY <3>2 DEF SharedInv, MemoIsBound
      <4> QED
        BY <1>5, <1>6, <4>2, <4>3
    <3> QED
      BY <2>1, <3>1, <3>2
  <2> QED
    BY <1>9, <2>2, <2>3 DEF MemoIsBound
<1>13. TreeIsBehind'
  BY <1>1, <1>4, <1>5, <1>9 DEF SharedInv, SharedTypes, TreeIsBehind
<1>14. IdentitiesPinned'
  <2> DEFINE new == <<clears, l.shape, made + 1>>
  <2>1. new[1] = clears /\ new[2] = l.shape /\ new[3] = made + 1 /\ bound' = bound \cup {new}
    BY <1>1
  <2> HIDE DEF new
  <2>2. ASSUME NEW b \in bound PROVE ~(b[1] = new[1] /\ b[2] = new[2])
    <3>1. b[1] \in Nat /\ b[1] <= memo.clears
      BY DEF SharedInv, SharedTypes, MemoIsBound
    <3>2. b[1] = clears => b[1] = memo.clears
      BY <1>4, <1>5, <3>1
    <3> QED
      BY <1>3, <2>1, <3>2 DEF SharedInv, MemoIsBound
  <2> QED
    BY <2>1, <2>2 DEF SharedInv, IdentitiesPinned
<1> QED
  BY <1>10, <1>11, <1>12, <1>13, <1>14 DEF SharedInv

(* A probe finds the column's handle, or goes to build one.                *)
LEMMA ProbeKeeps ==
  ASSUME SharedInv, NEW t \in Threads, NEW c \in Columns, Probe(t, c)
  PROVE  SharedInv'
<1>1. UNCHANGED <<memo, tree, bound, handles, made>>
  BY DEF Probe
<1>2. CASE handles[c] # None
  <2> DEFINE l == [at |-> "probed", column |-> c, handle |-> handles[c]]
  <2>1. Goes(t, l)
    BY <1>2 DEF Probe
  <2>2. handles[c] \in Nat
    BY <1>2 DEF SharedInv, SharedTypes, Optional
  <2>3. TaskType(l) /\ l.at = "probed" /\ l.column = c /\ l.handle = handles[c]
    BY <2>2 DEF TaskType, IsRecord, ScanSteps, DictSteps, ProbedTask
  <2> HIDE DEF l
  <2>4. task'[t] = l
    BY <2>1 DEF Goes, SharedInv, SharedTypes
  <2>5. TaskInv(t)'
    BY <1>1, <2>3, <2>4 DEF TaskInv, LocksHeld, LoadIsCurrent, ScanIsCurrent, HandleIsKept, At,
       ScanSteps
  <2> QED
    BY <1>1, <2>1, <2>3, <2>5, OwnStepKeeps DEF SharedInv, SharedTypes, TreeIsBehind
<1>3. CASE handles[c] = None
  <2> DEFINE l == [at |-> "make", column |-> c]
  <2>1. Goes(t, l)
    BY <1>3 DEF Probe
  <2>2. TaskType(l) /\ l.at = "make"
    BY DEF TaskType, IsRecord, ScanSteps, DictSteps, MakeTask
  <2> HIDE DEF l
  <2>3. task'[t] = l
    BY <2>1 DEF Goes, SharedInv, SharedTypes
  <2>4. TaskInv(t)'
    BY <2>2, <2>3 DEF TaskInv, LocksHeld, LoadIsCurrent, ScanIsCurrent, HandleIsKept, At, ScanSteps
  <2> QED
    BY <1>1, <2>1, <2>2, <2>4, OwnStepKeeps DEF SharedInv, SharedTypes, TreeIsBehind
<1> QED
  BY <1>2, <1>3

(* The handle of the first of two racing builds is the one both get.       *)
LEMMA MakeHandleKeeps ==
  ASSUME SharedInv, NEW t \in Threads, MakeHandle(t)
  PROVE  SharedInv'
<1> DEFINE c == task[t].column
           h == KeptHandle(c)
           l == [at |-> "probed", column |-> c, handle |-> h]
<1>1. /\ task[t].at = "make" /\ handles' = [handles EXCEPT ![c] = h] /\ Goes(t, l)
      /\ made' = made + 1 /\ UNCHANGED <<memo, tree, bound>>
  BY DEF MakeHandle, At
<1>2. c \in Columns
  BY <1>1 DEF SharedInv, SharedTypes, TaskType, MakeTask
<1>3. h \in Nat /\ (handles[c] # None => h = handles[c])
  BY <1>2 DEF KeptHandle, SharedInv, SharedTypes, Optional
<1> HIDE DEF c, h
<1>4. TaskType(l) /\ l.at = "probed" /\ l.column = c /\ l.handle = h
  BY <1>2, <1>3 DEF TaskType, IsRecord, ScanSteps, DictSteps, ProbedTask
<1> HIDE DEF l
<1>5. task'[t] = l
  BY <1>1 DEF Goes, SharedInv, SharedTypes
<1>6. /\ handles' \in [Columns -> Optional] /\ handles'[c] = h
      /\ \A d \in Columns : handles[d] # None => handles'[d] = handles[d]
  BY <1>1, <1>2, <1>3 DEF SharedInv, SharedTypes, Optional
<1>7. TaskInv(t)'
  BY <1>4, <1>5, <1>6 DEF TaskInv, LocksHeld, LoadIsCurrent, ScanIsCurrent, HandleIsKept, At,
     ScanSteps
<1> QED
  BY <1>1, <1>4, <1>6, <1>7, OwnStepKeeps DEF SharedInv, SharedTypes, TreeIsBehind

-----------------------------------------------------------------------------
(* Theorems                                                                *)

(* Every step of every task keeps the invariant.                           *)
LEMMA NextSharedInv == SharedInv /\ [Next]_vars => SharedInv'
<1> SUFFICES ASSUME SharedInv, [Next]_vars PROVE SharedInv'
  OBVIOUS
<1>1. CASE UNCHANGED vars
  BY <1>1 DEF vars, SharedInv, SharedTypes, TaskInv, LocksHeld, LoadIsCurrent, ScanIsCurrent,
     HandleIsKept, At, MemoIsBound, TreeIsBehind, IdentitiesPinned
<1>2. CASE Next
  <2>1. PICK t \in Threads :
          \/ \E q \in Queries : Ask(t, q)
          \/ \E w \in DOMAIN ws : Look(t, w) \/ Arrive(t, w)
          \/ Fault(t) \/ KeepKinds(t) \/ Finish(t)
          \/ (\E w \in DOMAIN ws : Take(t, w)) \/ DecodeHeld(t) \/ Return(t)
          \/ \E s \in Shapes : Scan(t, s, "tree") \/ Scan(t, s, "bind")
          \/ Bind(t) \/ Build(t) \/ BuildFails(t)
          \/ LockReaders(t) \/ LoadClears(t) \/ TakeReader(t)
          \/ \E c \in Columns : Probe(t, c)
          \/ MakeHandle(t)
    BY <1>2, Zenon DEF Next
  <2> QED
    BY <2>1, QueryKeeps, ScanKeeps, BindKeeps, BuildKeeps, BuildFailsKeeps, LockReadersKeeps,
       LoadClearsKeeps, TakeReaderKeeps, ProbeKeeps, MakeHandleKeeps
<1> QED
  BY <1>1, <1>2

(* Every reachable state satisfies the inductive invariant.                *)
LEMMA AlwaysSharedInv == Spec => []SharedInv
BY InitSharedInv, NextSharedInv, PTL DEF Spec

(* Between two clears of the memo a shape has one identity, however many   *)
(* tasks bind it at once: the readers' caches are keyed by it, so a shape  *)
(* is never cached twice in one generation (BoundExprMemo::bind).          *)
THEOREM IdentitiesStayPinned == Spec => []IdentitiesPinned
<1>1. SharedInv => IdentitiesPinned
  BY DEF SharedInv
<1> QED
  BY <1>1, AlwaysSharedInv, PTL

(* A reader is asked about an identity of another generation than its      *)
(* tree's only by a scan during which the memo cleared, whichever of the   *)
(* reader and the identity the scan took first (ReaderTree, OwnedScan).    *)
THEOREM ScansStayInGeneration == Spec => []AskedInGeneration
<1>1. SharedInv => AskedInGeneration
  BY DEF SharedInv, TaskInv, ScanIsCurrent, AskedInGeneration, At, ScanSteps
<1> QED
  BY <1>1, AlwaysSharedInv, PTL

(* All tasks probe one handle per column, two racing builds included       *)
(* (ChunkMemo::get_or_build).                                              *)
THEOREM HandlesStayShared == Spec => []HandlesShared
<1>1. SharedInv => HandlesShared
  BY DEF SharedInv, TaskInv, HandleIsKept, HandlesShared
<1> QED
  BY <1>1, AlwaysSharedInv, PTL

(* A reader tree is never replaced by an older one, because the count of   *)
(* clears is read under the readers' lock (NativeStoreFile::readers).      *)
THEOREM TreesAdvance == Spec => TreesNeverGoBack
<1>1. ASSUME SharedInv, [Next]_vars PROVE [tree'.generation >= tree.generation]_vars
  <2> SUFFICES ASSUME Next PROVE tree'.generation >= tree.generation
    BY <1>1
  <2>1. tree \in [generation : Nat, lock : Threads \cup {None}]
    BY <1>1 DEF SharedInv, SharedTypes
  <2>2. PICK t \in Threads : LockReaders(t) \/ TakeReader(t) \/ tree' = tree
    <3>1. PICK t \in Threads :
            \/ \E q \in Queries : Ask(t, q)
            \/ \E w \in DOMAIN ws : Look(t, w) \/ Arrive(t, w) \/ Take(t, w)
            \/ Fault(t) \/ KeepKinds(t) \/ Finish(t) \/ DecodeHeld(t) \/ Return(t)
            \/ \E s \in Shapes : Scan(t, s, "tree") \/ Scan(t, s, "bind")
            \/ Bind(t) \/ Build(t) \/ BuildFails(t)
            \/ LockReaders(t) \/ LoadClears(t) \/ TakeReader(t)
            \/ \E c \in Columns : Probe(t, c)
            \/ MakeHandle(t)
      BY Zenon DEF Next
    <3>2. \A q : Ask(t, q) => tree' = tree
      BY DEF Ask
    <3>3. \A w : Look(t, w) \/ Arrive(t, w) => tree' = tree
      BY DEF Look, Arrive
    <3>4. \A w : Take(t, w) => tree' = tree
      BY DEF Take
    <3>5. Fault(t) \/ KeepKinds(t) \/ Finish(t) \/ DecodeHeld(t) \/ Return(t) => tree' = tree
      BY DEF Fault, KeepKinds, Finish, DecodeHeld, Return
    <3>6. \A s, x : Scan(t, s, x) => tree' = tree
      BY DEF Scan
    <3>7. Bind(t) \/ BuildFails(t) \/ LoadClears(t) => tree' = tree
      BY DEF Bind, BuildFails, LoadClears
    <3>8. Build(t) => tree' = tree
      BY DEF Build
    <3>9. \A c : Probe(t, c) => tree' = tree
      BY DEF Probe
    <3>10. MakeHandle(t) => tree' = tree
      BY DEF MakeHandle
    <3> QED
      BY <3>1, <3>2, <3>3, <3>4, <3>5, <3>6, <3>7, <3>8, <3>9, <3>10, Zenon
  <2>3. CASE tree' = tree
    BY <2>1, <2>3
  <2>4. CASE LockReaders(t)
    BY <2>1, <2>4 DEF LockReaders
  <2>5. CASE TakeReader(t)
    BY <1>1, <2>1, <2>5, TakeReaderKeeps
  <2> QED
    BY <2>2, <2>3, <2>4, <2>5
<1> QED
  BY <1>1, AlwaysSharedInv, PTL DEF Spec, TreesNeverGoBack

-----------------------------------------------------------------------------
(* Running totals: what SumSeq gives, by the least position at which it    *)
(* would not.                                                              *)

(* A set of numbers that is not empty has a least one.                     *)
LEMMA LeastNumber ==
  ASSUME NEW T \in SUBSET Nat, T # {}
  PROVE  \E x \in T : \A y \in T : x <= y
<1> DEFINE R == OpToRel(<, Nat)
<1>1. \A x, y \in Nat : <<y, x>> \in R <=> y < x
  BY DEF OpToRel
<1>2. IsWellFoundedOn(R, Nat)
  BY NatLessThanWellFounded
<1> HIDE DEF R
<1>3. PICK x \in T : \A y \in T : ~(<<y, x>> \in R)
  BY <1>2, WFMin
<1>4. \A y \in T : x <= y
  <2> TAKE y \in T
  <2>1. x \in Nat /\ y \in Nat
    OBVIOUS
  <2>2. ~(y < x)
    BY <1>1, <1>3, <2>1, Zenon
  <2> QED BY <2>1, <2>2
<1> QED BY <1>4

(* g is the running total of the first n numbers of s.                     *)
IsTotal(g, s, n) ==
  /\ g \in [0..n -> Int] /\ g[0] = 0
  /\ \A i \in 1..n : g[i] = g[i - 1] + s[i]

(* Two running totals agree.                                               *)
LEMMA TotalUnique ==
  ASSUME NEW s, NEW n \in Nat, NEW m \in Nat, \A i \in 1..n : s[i] \in Int, n <= m,
         NEW g, IsTotal(g, s, n), NEW h, IsTotal(h, s, m)
  PROVE  \A i \in 0..n : g[i] = h[i]
<1> DEFINE T == {i \in 0..n : g[i] # h[i]}
<1>1. CASE T = {}
  BY <1>1
<1>2. CASE T # {}
  <2>1. PICK i \in T : \A j \in T : i <= j
    <3>1. T \in SUBSET Nat
      OBVIOUS
    <3> HIDE DEF T
    <3> QED BY <1>2, <3>1, LeastNumber
  <2>2. i # 0 /\ i \in 0..n /\ g[i] # h[i]
    BY <2>1 DEF IsTotal
  <2>3. i - 1 \in 0..n /\ i - 1 \notin T /\ i \in 1..n /\ i \in 1..m
    BY <2>1, <2>2
  <2>4. g[i - 1] = h[i - 1]
    BY <2>3
  <2>5. g[i] = g[i - 1] + s[i] /\ h[i] = h[i - 1] + s[i]
    BY <2>3 DEF IsTotal
  <2> QED BY <2>2, <2>4, <2>5
<1> QED BY <1>1, <1>2

(* Any numbers have a running total.                                       *)
LEMMA TotalExists ==
  ASSUME NEW s, NEW n \in Nat, \A i \in 1..n : s[i] \in Int
  PROVE  \E g : IsTotal(g, s, n)
<1> DEFINE T == {k \in 0..n : ~(\E g : IsTotal(g, s, k))}
<1>1. CASE T = {}
  BY <1>1
<1>2. CASE T # {}
  <2>1. PICK k \in T : \A j \in T : k <= j
    <3>1. T \in SUBSET Nat
      OBVIOUS
    <3> HIDE DEF T
    <3> QED BY <1>2, <3>1, LeastNumber
  <2>2. k \in 0..n /\ ~(\E g : IsTotal(g, s, k))
    BY <2>1
  <2>3. k # 0
    <3>1. IsTotal([i \in 0..0 |-> 0], s, 0)
      BY DEF IsTotal
    <3> QED BY <2>2, <3>1
  <2>4. k - 1 \in 0..n /\ k - 1 \notin T
    BY <2>1, <2>2, <2>3
  <2>5. PICK g : IsTotal(g, s, k - 1)
    BY <2>4
  <2> DEFINE h == [i \in 0..k |-> IF i = k THEN g[k - 1] + s[k] ELSE g[i]]
  <2>6. s[k] \in Int /\ g[k - 1] \in Int
    BY <2>2, <2>3, <2>5 DEF IsTotal
  <2>7. h \in [0..k -> Int]
    <3>1. \A i \in 0..k : i # k => g[i] \in Int
      BY <2>2, <2>3, <2>5 DEF IsTotal
    <3> QED BY <2>6, <3>1
  <2>8. h[0] = 0
    BY <2>2, <2>3, <2>5 DEF IsTotal
  <2>9. \A i \in 1..k : h[i] = h[i - 1] + s[i]
    BY <2>2, <2>3, <2>5 DEF IsTotal
  <2> QED BY <2>2, <2>7, <2>8, <2>9 DEF IsTotal
<1> QED BY <1>1, <1>2

(* SumSeq is the last of the running totals.                               *)
LEMMA SumIsTotal ==
  ASSUME NEW n \in Nat, NEW s, s = [i \in 1..n |-> s[i]], \A i \in 1..n : s[i] \in Int,
         NEW g, IsTotal(g, s, n)
  PROVE  SumSeq(s) = g[n]
<1> DEFINE Is(f) == f = [i \in 0..Len(s) |-> IF i = 0 THEN 0 ELSE f[i - 1] + s[i]]
<1>1. Len(s) = n
  OBVIOUS
<1>2. Is(g)
  <2>1. g = [i \in 0..n |-> g[i]]
    BY DEF IsTotal
  <2>2. \A i \in 0..n : g[i] = IF i = 0 THEN 0 ELSE g[i - 1] + s[i]
    BY DEF IsTotal
  <2> QED BY <1>1, <2>1, <2>2
<1> DEFINE f == CHOOSE x : Is(x)
<1>3. SumSeq(s) = f[Len(s)]
  BY DEF SumSeq
<1>4. Is(f)
  <2> HIDE DEF Is
  <2> QED BY <1>2
<1>5. IsTotal(f, s, n)
  <2> HIDE DEF f
  <2> DEFINE T == {i \in 0..n : f[i] # g[i]}
  <2>1. \A i \in 0..n : f[i] = IF i = 0 THEN 0 ELSE f[i - 1] + s[i]
    BY <1>1, <1>4
  <2>2. CASE T = {}
    <3>1. f = [i \in 0..n |-> f[i]]
      BY <1>1, <1>4
    <3>2. \A i \in 0..n : f[i] = g[i] /\ g[i] \in Int
      BY <2>2 DEF IsTotal
    <3>3. f \in [0..n -> Int]
      BY <3>1, <3>2
    <3>4. f[0] = 0 /\ \A i \in 1..n : f[i] = f[i - 1] + s[i]
      <4>1. 0 \in 0..n /\ \A i \in 1..n : i \in 0..n /\ i # 0
        OBVIOUS
      <4> QED BY <2>1, <4>1
    <3> QED BY <3>3, <3>4 DEF IsTotal
  <2>3. CASE T # {}
    <3>1. PICK i \in T : \A j \in T : i <= j
      <4>1. T \in SUBSET Nat
        OBVIOUS
      <4> HIDE DEF T
      <4> QED BY <2>3, <4>1, LeastNumber
    <3>2. i # 0 /\ i \in 0..n /\ f[i] # g[i]
      BY <2>1, <3>1 DEF IsTotal
    <3>3. i - 1 \in 0..n /\ i - 1 \notin T /\ i \in 1..n
      BY <3>1, <3>2
    <3>4. f[i - 1] = g[i - 1] /\ g[i] = g[i - 1] + s[i]
      BY <3>3 DEF IsTotal
    <3>5. f[i] = f[i - 1] + s[i]
      BY <2>1, <3>2
    <3> QED BY <3>2, <3>4, <3>5
  <2> QED BY <2>2, <2>3
<1> HIDE DEF f
<1>6. f[n] = g[n]
  BY <1>5, TotalUnique
<1> QED BY <1>1, <1>3, <1>6

(* What the windows of c are charged, ch being the charges.                *)
Worth(ch, c) == [i \in DOMAIN c |-> ch[c[i]]]

(* g is the running total of what the windows of c are charged.            *)
IsWorth(g, ch, c) ==
  /\ IsTotal(g, Worth(ch, c), Len(c))
  /\ \A k \in 0..Len(c) : SumSeq([i \in 1..k |-> ch[c[i]]]) = g[k]
  /\ SumSeq(Worth(ch, c)) = g[Len(c)]

(* There is one.                                                           *)
LEMMA WorthTotal ==
  ASSUME NEW W, NEW ch \in [W -> Int], NEW c \in Seq(W)
  PROVE  \E g : IsWorth(g, ch, c)
<1> DEFINE s == Worth(ch, c)
           n == Len(c)
<1>1. n \in Nat /\ DOMAIN c = 1..n /\ \A i \in 1..n : c[i] \in W
  OBVIOUS
<1>2. s = [i \in 1..n |-> s[i]] /\ \A i \in 1..n : s[i] \in Int /\ s[i] = ch[c[i]]
  BY <1>1 DEF Worth
<1> HIDE DEF s, n
<1>3. PICK g : IsTotal(g, s, n)
  BY <1>1, <1>2, TotalExists
<1>4. SumSeq(s) = g[n]
  BY <1>1, <1>2, <1>3, SumIsTotal
<1>5. ASSUME NEW k \in 0..n PROVE SumSeq([i \in 1..k |-> ch[c[i]]]) = g[k]
  <2> DEFINE r == [i \in 1..k |-> ch[c[i]]]
             h == [i \in 0..k |-> g[i]]
  <2>1. k \in Nat /\ r = [i \in 1..k |-> r[i]] /\ \A i \in 1..k : r[i] \in Int
    BY <1>1
  <2>2. IsTotal(h, r, k)
    <3>1. h \in [0..k -> Int] /\ h[0] = 0
      BY <1>1, <1>3 DEF IsTotal
    <3>2. ASSUME NEW i \in 1..k PROVE h[i] = h[i - 1] + r[i]
      <4>1. i \in 1..n /\ i \in 0..k /\ i - 1 \in 0..k
        BY <1>1
      <4> QED BY <1>2, <1>3, <4>1 DEF IsTotal
    <3> QED BY <3>1, <3>2 DEF IsTotal
  <2>3. h[k] = g[k]
    BY <2>1
  <2> HIDE DEF r, h
  <2> QED BY <2>1, <2>2, <2>3, SumIsTotal DEF r
<1> QED BY <1>3, <1>4, <1>5 DEF IsWorth, s, n

(* The last of the running totals.                                         *)
LEMMA WorthLast ==
  ASSUME NEW W, NEW ch \in [W -> Int], NEW c \in Seq(W)
  PROVE  \E g : IsTotal(g, Worth(ch, c), Len(c)) /\ SumSeq(Worth(ch, c)) = g[Len(c)]
<1>1. PICK g : IsWorth(g, ch, c)
  BY WorthTotal, Zenon
<1> QED BY <1>1, Zenon DEF IsWorth

(* What the oldest k windows are charged is a number, and all there is for *)
(* all of them.                                                            *)
LEMMA WorthGone ==
  ASSUME NEW W, NEW ch \in [W -> Int], NEW c \in Seq(W), NEW k \in 0..Len(c)
  PROVE  /\ SumSeq([i \in 1..k |-> ch[c[i]]]) \in Int
         /\ k = Len(c) => SumSeq([i \in 1..k |-> ch[c[i]]]) = SumSeq(Worth(ch, c))
<1>1. PICK g : IsWorth(g, ch, c)
  BY WorthTotal, Zenon
<1>2. /\ IsTotal(g, Worth(ch, c), Len(c)) /\ SumSeq([i \in 1..k |-> ch[c[i]]]) = g[k]
      /\ SumSeq(Worth(ch, c)) = g[Len(c)]
  BY <1>1, Zenon DEF IsWorth
<1>3. g[k] \in Int
  BY <1>2 DEF IsTotal
<1> QED BY <1>2, <1>3

(* The first n entries of s are numbers.                                   *)
Numbers(s, n) == \A i \in 1..n : s[i] \in Int

(* r is the m - 1 numbers of s past the k-th, and v; r is the n numbers of *)
(* s with the p-th moved to the end.                                       *)
IsCut(r, s, k, m, v) == r[m] = v /\ \A i \in 1..(m - 1) : r[i] = s[k + i]
IsMoved(r, s, p, n) ==
  /\ r[n] = s[p]
  /\ \A i \in 1..(p - 1) : r[i] = s[i]
  /\ \A i \in p..(n - 1) : r[i] = s[i + 1]

(* The total past the k-th number, and v.                                  *)
LEMMA TotalEvicted ==
  ASSUME NEW n \in Nat, NEW k \in 0..n, NEW m \in Nat, m = n - k + 1, NEW v \in Int,
         NEW s, Numbers(s, n), NEW g, IsTotal(g, s, n), NEW r, IsCut(r, s, k, m, v)
  PROVE  \E h : IsTotal(h, r, m) /\ h[m] = g[n] - g[k] + v
<1> USE DEF Numbers, IsCut
<1> DEFINE h == [i \in 0..m |-> IF i = m THEN g[n] - g[k] + v ELSE g[k + i] - g[k]]
<1>1. \A i \in 0..n : g[i] \in Int
  BY DEF IsTotal
<1>2. \A i \in 0..(m - 1) : k + i \in 0..n
  OBVIOUS
<1>3. h \in [0..m -> Int] /\ h[m] = g[n] - g[k] + v
  <2>1. n \in 0..n /\ g[n] \in Int /\ g[k] \in Int
    BY <1>1
  <2>2. ASSUME NEW i \in 0..m, i # m PROVE g[k + i] \in Int
    <3>1. i \in 0..(m - 1)
      BY <2>2
    <3> QED BY <1>1, <1>2, <3>1
  <2> QED BY <2>1, <2>2
<1>4. \A i \in 0..(m - 1) : h[i] = g[k + i] - g[k]
  OBVIOUS
<1> HIDE DEF h
<1>5. h[0] = 0
  <2>1. 0 \in 0..(m - 1) /\ k + 0 = k /\ g[k] \in Int
    BY <1>1
  <2> QED BY <1>4, <2>1
<1>6. ASSUME NEW i \in 1..m PROVE h[i] = h[i - 1] + r[i]
  <2>1. i - 1 \in 0..(m - 1) /\ k + (i - 1) \in 0..n /\ g[k] \in Int /\ g[k + (i - 1)] \in Int
    BY <1>1, <1>2
  <2>2. h[i - 1] = g[k + (i - 1)] - g[k]
    BY <1>4, <2>1
  <2>3. CASE i = m
    <3>1. k + (i - 1) = n
      BY <2>3
    <3> QED BY <1>3, <2>1, <2>2, <2>3, <3>1
  <2>4. CASE i # m
    <3>1. i \in 1..(m - 1) /\ i \in 0..(m - 1) /\ k + i \in 1..n /\ (k + i) - 1 = k + (i - 1)
      BY <2>4
    <3>2. g[k + i] = g[k + (i - 1)] + s[k + i] /\ s[k + i] \in Int
      BY <3>1 DEF IsTotal
    <3>3. h[i] = g[k + i] - g[k] /\ r[i] = s[k + i]
      BY <1>4, <3>1
    <3> QED BY <2>1, <2>2, <3>2, <3>3
  <2> QED BY <2>3, <2>4
<1> QED BY <1>3, <1>5, <1>6 DEF IsTotal

(* d is e and then w, all of W.                                            *)
IsAppended(d, e, w, W) ==
  /\ d \in Seq(W) /\ Len(d) = Len(e) + 1 /\ d[Len(e) + 1] = w
  /\ \A i \in 1..Len(e) : d[i] = e[i]

(* What Append gives.                                                      *)
LEMMA AppendFacts ==
  ASSUME NEW W, NEW e \in Seq(W), NEW w \in W
  PROVE  IsAppended(Append(e, w), e, w, W)
BY AppendProperties DEF IsAppended

(* The windows past the k-th.                                              *)
LEMMA SuffixFacts ==
  ASSUME NEW W, NEW c \in Seq(W), NEW k \in 0..Len(c)
  PROVE  /\ SubSeq(c, k + 1, Len(c)) \in Seq(W) /\ Len(SubSeq(c, k + 1, Len(c))) = Len(c) - k
         /\ \A i \in 1..(Len(c) - k) : SubSeq(c, k + 1, Len(c))[i] = c[k + i]
OBVIOUS

(* The oldest k windows go and w comes: the charge follows.                *)
LEMMA WorthEvicted ==
  ASSUME NEW W, NEW ch \in [W -> Int], NEW c \in Seq(W), NEW w \in W, NEW k \in 0..Len(c)
  PROVE  SumSeq(Worth(ch, Append(SubSeq(c, k + 1, Len(c)), w)))
           = SumSeq(Worth(ch, c)) - SumSeq([i \in 1..k |-> ch[c[i]]]) + ch[w]
<1> DEFINE n == Len(c)
           m == n - k + 1
           d == Append(SubSeq(c, k + 1, n), w)
           s == Worth(ch, c)
           r == Worth(ch, d)
<1>1. n \in Nat /\ DOMAIN c = 1..n /\ (\A i \in 1..n : c[i] \in W) /\ k \in 0..n /\ m \in Nat /\ m = n - k + 1
  OBVIOUS
<1>2. PICK g : /\ IsTotal(g, s, n)
               /\ \A j \in 0..n : SumSeq([i \in 1..j |-> ch[c[i]]]) = g[j]
               /\ SumSeq(s) = g[n]
  <2>1. PICK g : IsWorth(g, ch, c)
    BY WorthTotal, Zenon
  <2> QED BY <2>1, Zenon DEF IsWorth
<1>3. /\ d \in Seq(W) /\ Len(d) = m
      /\ \A i \in 1..(m - 1) : d[i] = c[k + i]
      /\ d[m] = w
  <2> DEFINE e == SubSeq(c, k + 1, n)
  <2>1. e \in Seq(W) /\ Len(e) = n - k /\ \A i \in 1..(n - k) : e[i] = c[k + i]
    BY SuffixFacts
  <2>2. d = Append(e, w)
    OBVIOUS
  <2> HIDE DEF e, d
  <2>3. m - 1 = n - k /\ Len(e) + 1 = m /\ Len(e) \in Nat
    BY <1>1, <2>1
  <2>4. IsAppended(Append(e, w), e, w, W)
    BY <2>1, AppendFacts
  <2>5. /\ d \in Seq(W) /\ Len(d) = Len(e) + 1 /\ d[Len(e) + 1] = w
        /\ \A i \in 1..Len(e) : d[i] = e[i]
    BY <2>2, <2>4 DEF IsAppended
  <2> QED BY <2>1, <2>3, <2>5
<1> HIDE DEF n, m, d
<1>4. \A i \in 1..n : s[i] = ch[c[i]] /\ s[i] \in Int
  BY <1>1 DEF Worth
<1>5. DOMAIN d = 1..m /\ \A i \in 1..m : d[i] \in W
  BY <1>1, <1>3
<1>6. r = [i \in 1..m |-> r[i]] /\ \A i \in 1..m : r[i] = ch[d[i]] /\ r[i] \in Int
  BY <1>5 DEF Worth
<1> HIDE DEF r, s
<1>7. (\A i \in 1..(m - 1) : r[i] = s[k + i]) /\ r[m] = ch[w] /\ ch[w] \in Int
  <2>1. ASSUME NEW i \in 1..(m - 1) PROVE r[i] = s[k + i]
    <3>1. i \in 1..m /\ k + i \in 1..n
      BY <1>1
    <3>2. d[i] = c[k + i]
      BY <1>3
    <3>3. r[i] = ch[d[i]] /\ s[k + i] = ch[c[k + i]]
      BY <1>4, <1>6, <3>1
    <3> QED BY <3>2, <3>3
  <2>2. m \in 1..m
    BY <1>1
  <2> QED BY <1>3, <1>6, <2>1, <2>2
<1>8. PICK h : IsTotal(h, r, m) /\ h[m] = g[n] - g[k] + ch[w]
  <2>1. Numbers(s, n) /\ IsCut(r, s, k, m, ch[w])
    BY <1>4, <1>7 DEF Numbers, IsCut
  <2> QED BY <1>1, <1>2, <1>7, <2>1, TotalEvicted
<1>9. SumSeq(r) = h[m]
  BY <1>1, <1>6, <1>8, SumIsTotal
<1> QED BY <1>1, <1>2, <1>8, <1>9 DEF r, s, d, n

(* The total with the p-th number moved to the end.                        *)
LEMMA TotalMoved ==
  ASSUME NEW n \in Nat, NEW p \in 1..n,
         NEW s, Numbers(s, n), NEW g, IsTotal(g, s, n), NEW r, IsMoved(r, s, p, n)
  PROVE  \E h : IsTotal(h, r, n) /\ h[n] = g[n]
<1> USE DEF Numbers, IsMoved
<1> DEFINE v == s[p]
           h == [i \in 0..n |-> IF i = n THEN g[n] ELSE IF i < p THEN g[i] ELSE g[i + 1] - v]
<1>1. /\ \A i \in 0..n : g[i] \in Int
      /\ \A i \in 1..n : g[i] = g[i - 1] + s[i]
      /\ g[0] = 0
  BY DEF IsTotal
<1>2. /\ v \in Int /\ p \in 0..n /\ p - 1 \in 0..n /\ n \in 0..n
      /\ g[p] = g[p - 1] + v
  BY <1>1
<1>3. h \in [0..n -> Int] /\ h[n] = g[n]
  <2>1. \A i \in 0..n : i # n => i + 1 \in 0..n
    OBVIOUS
  <2>2. \A i \in 0..n : i # n => g[i + 1] \in Int
    BY <1>1, <2>1
  <2> HIDE DEF v
  <2> QED BY <1>1, <1>2, <2>2
<1>4. \A i \in 0..(p - 1) : h[i] = g[i]
  OBVIOUS
<1>5. \A i \in p..(n - 1) : h[i] = g[i + 1] - v
  OBVIOUS
<1> HIDE DEF h, v
<1>6. h[0] = 0
  BY <1>1, <1>4
<1>7. ASSUME NEW i \in 1..n PROVE h[i] = h[i - 1] + r[i]
  <2>1. CASE i < p
    <3>1. i \in 0..(p - 1) /\ i - 1 \in 0..(p - 1) /\ i \in 1..(p - 1)
      BY <2>1
    <3> QED BY <1>1, <1>4, <3>1
  <2>2. CASE p <= i
    <3>1. h[i - 1] = g[i] - v
      <4>1. CASE i = p
        <5>1. i - 1 \in 0..(p - 1)
          BY <4>1
        <5>2. h[i - 1] = g[p - 1]
          BY <1>4, <4>1, <5>1
        <5>3. g[p - 1] \in Int /\ g[p] \in Int
          BY <1>1, <1>2
        <5> QED BY <1>2, <4>1, <5>2, <5>3
      <4>2. CASE i # p
        <5>1. i - 1 \in p..(n - 1) /\ (i - 1) + 1 = i
          BY <2>2, <4>2
        <5> QED BY <1>5, <5>1
      <4> QED BY <4>1, <4>2
    <3>2. i \in 0..n /\ g[i] \in Int
      BY <1>1
    <3>3. CASE i = n
      BY <1>2, <1>3, <3>1, <3>2, <3>3 DEF v
    <3>4. CASE i # n
      <4>1. i \in p..(n - 1) /\ i + 1 \in 1..n /\ (i + 1) - 1 = i
        BY <2>2, <3>4
      <4>2. g[i + 1] = g[i] + s[i + 1] /\ s[i + 1] \in Int
        BY <1>1, <4>1
      <4>3. h[i] = g[i + 1] - v /\ r[i] = s[i + 1]
        BY <1>5, <4>1
      <4> QED BY <1>2, <3>1, <3>2, <4>2, <4>3
    <3> QED BY <3>3, <3>4
  <2> QED BY <2>1, <2>2
<1> QED BY <1>3, <1>6, <1>7 DEF IsTotal

(* The window at p moves to the end: the charge stays.                     *)
LEMMA WorthMoved ==
  ASSUME NEW W, NEW ch \in [W -> Int], NEW c \in Seq(W), NEW p \in 1..Len(c),
         NEW d \in Seq(W), Len(d) = Len(c), IsMoved(d, c, p, Len(c))
  PROVE  SumSeq(Worth(ch, d)) = SumSeq(Worth(ch, c))
<1> DEFINE n == Len(c)
           s == Worth(ch, c)
           r == Worth(ch, d)
<1>1. n \in Nat /\ DOMAIN c = 1..n /\ (\A i \in 1..n : c[i] \in W) /\ p \in 1..n
  OBVIOUS
<1>2. PICK g : IsTotal(g, s, n) /\ SumSeq(s) = g[n]
  BY WorthLast
<1>3. Len(d) = n /\ DOMAIN d = 1..n /\ \A i \in 1..n : d[i] \in W
  OBVIOUS
<1>4. d[n] = c[p] /\ (\A i \in 1..(p - 1) : d[i] = c[i]) /\ \A i \in p..(n - 1) : d[i] = c[i + 1]
  BY DEF IsMoved
<1> HIDE DEF n
<1>5. \A i \in 1..n : s[i] = ch[c[i]] /\ s[i] \in Int
  BY <1>1 DEF Worth
<1>6. r = [i \in 1..n |-> r[i]] /\ \A i \in 1..n : r[i] = ch[d[i]] /\ r[i] \in Int
  BY <1>3 DEF Worth
<1> HIDE DEF r, s
<1>7. \A i \in 1..(p - 1) : r[i] = s[i]
  <2> TAKE i \in 1..(p - 1)
  <2>1. i \in 1..n /\ d[i] = c[i]
    BY <1>1, <1>4
  <2> QED BY <1>5, <1>6, <2>1
<1>8. \A i \in p..(n - 1) : r[i] = s[i + 1]
  <2> TAKE i \in p..(n - 1)
  <2>1. i \in 1..n /\ i + 1 \in 1..n
    BY <1>1
  <2>2. d[i] = c[i + 1]
    BY <1>4
  <2> QED BY <1>5, <1>6, <2>1, <2>2
<1>9. r[n] = s[p]
  <2>1. n \in 1..n
    BY <1>1
  <2> QED BY <1>1, <1>4, <1>5, <1>6, <2>1
<1>10. PICK h : IsTotal(h, r, n) /\ h[n] = g[n]
  <2>1. Numbers(s, n) /\ IsMoved(r, s, p, n)
    BY <1>5, <1>7, <1>8, <1>9 DEF Numbers, IsMoved
  <2> QED BY <1>1, <1>2, <2>1, TotalMoved
<1>11. SumSeq(r) = h[n]
  BY <1>1, <1>6, <1>10, SumIsTotal
<1> QED BY <1>2, <1>10, <1>11 DEF r, s

(* Without takes out the first w.                                          *)
LEMMA WithoutFacts ==
  ASSUME NEW W, NEW c \in Seq(W), NEW w \in W, \E i \in DOMAIN c : c[i] = w
  PROVE  \E p \in 1..Len(c) :
           LET d == Append(Without(c, w), w)
           IN  d \in Seq(W) /\ Len(d) = Len(c) /\ c[p] = w /\ IsMoved(d, c, p, Len(c))
<1> DEFINE n == Len(c)
           Is(i) == (i = n + 1 \/ c[i] = w) /\ \A j \in 1..(i - 1) : c[j] # w
           T == {i \in 1..n : c[i] = w}
           p == CHOOSE i \in 1..(n + 1) : Is(i)
<1>1. n \in Nat /\ DOMAIN c = 1..n /\ \A i \in 1..n : c[i] \in W
  OBVIOUS
<1>2. \E i \in 1..n : Is(i)
  <2>1. T # {} /\ T \in SUBSET Nat
    BY <1>1
  <2>2. PICK i \in T : \A j \in T : i <= j
    <3> HIDE DEF T
    <3> QED BY <2>1, LeastNumber
  <2>3. i \in 1..n /\ c[i] = w
    BY <2>2
  <2>4. ASSUME NEW j \in 1..(i - 1) PROVE c[j] # w
    <3>1. j \in 1..n /\ ~(i <= j)
      BY <2>3
    <3> QED BY <2>2, <3>1
  <2> QED BY <2>3, <2>4
<1>3. p \in 1..(n + 1) /\ Is(p)
  <2>1. \E i \in 1..(n + 1) : Is(i)
    <3> HIDE DEF Is
    <3> QED BY <1>1, <1>2
  <2> HIDE DEF Is
  <2> QED BY <2>1
<1>4. Without(c, w) = SubSeq(c, 1, p - 1) \o SubSeq(c, p + 1, n)
  BY DEF Without
<1> HIDE DEF p
<1>5. p \in 1..n /\ c[p] = w
  <2>1. PICK i \in 1..n : c[i] = w
    BY <1>1
  <2>2. p # n + 1
    BY <1>1, <1>3, <2>1
  <2> QED BY <1>1, <1>3, <2>2
<1> HIDE DEF n, Is
<1> DEFINE a == SubSeq(c, 1, p - 1)
           b == SubSeq(c, p + 1, n)
           e == a \o b
           d == Append(e, w)
<1>6. a \in Seq(W) /\ Len(a) = p - 1 /\ \A i \in 1..(p - 1) : a[i] = c[i]
  BY <1>1, <1>5 DEF n
<1>7. b \in Seq(W) /\ Len(b) = n - p /\ \A i \in 1..(n - p) : b[i] = c[p + i]
  <2>1. p \in 0..Len(c)
    BY <1>5 DEF n
  <2> QED BY <2>1, SuffixFacts DEF n
<1> HIDE DEF a, b
<1>8. e \in Seq(W) /\ Len(e) = n - 1
  <2>1. e \in Seq(W) /\ Len(e) = Len(a) + Len(b)
    BY <1>6, <1>7, ConcatProperties, Zenon
  <2> QED BY <1>1, <1>5, <1>6, <1>7, <2>1
<1>9. ASSUME NEW i \in 1..(p - 1) PROVE e[i] = c[i]
  <2>1. i \in 1..(Len(a) + Len(b)) /\ i <= Len(a)
    BY <1>1, <1>5, <1>6, <1>7
  <2>2. e[i] = a[i]
    BY <1>6, <1>7, <2>1, ConcatProperties, Zenon
  <2> QED BY <1>6, <2>2
<1>10. ASSUME NEW i \in p..(n - 1) PROVE e[i] = c[i + 1]
  <2>0. p \in 1..n /\ n \in Nat /\ Len(a) = p - 1 /\ Len(b) = n - p
    BY <1>1, <1>5, <1>6, <1>7
  <2>1. i - (p - 1) \in 1..(n - p) /\ p + (i - (p - 1)) = i + 1
    BY <2>0
  <2>2. i \in 1..(Len(a) + Len(b)) /\ ~(i <= Len(a)) /\ i - Len(a) = i - (p - 1)
    BY <2>0
  <2>3. e[i] = b[i - Len(a)]
    BY <1>6, <1>7, <2>2, ConcatProperties, Zenon
  <2> QED BY <1>7, <2>1, <2>2, <2>3
<1> HIDE DEF e
<1>11. d \in Seq(W) /\ Len(d) = n /\ d[n] = w
  BY <1>1, <1>5, <1>8
<1>12. \A i \in 1..(n - 1) : d[i] = e[i]
  BY <1>1, <1>8
<1>13. \A i \in 1..(p - 1) : d[i] = c[i]
  <2> TAKE i \in 1..(p - 1)
  <2>1. i \in 1..(n - 1)
    BY <1>1, <1>5
  <2> QED BY <1>9, <1>12, <2>1
<1>14. \A i \in p..(n - 1) : d[i] = c[i + 1]
  <2> TAKE i \in p..(n - 1)
  <2>1. i \in 1..(n - 1)
    BY <1>1, <1>5
  <2> QED BY <1>10, <1>12, <2>1
<1>15. d = Append(Without(c, w), w)
  BY <1>4 DEF e, a, b
<1> HIDE DEF d
<1>16. d \in Seq(W) /\ Len(d) = Len(c) /\ c[p] = w /\ IsMoved(d, c, p, Len(c))
  BY <1>5, <1>11, <1>13, <1>14 DEF n, IsMoved
<1> QED BY <1>5, <1>15, <1>16 DEF n

-----------------------------------------------------------------------------
(* The window cache                                                        *)

(* What each window of f is charged, and a cache c of f's windows whose    *)
(* charge is b: within the budget, no window twice.                        *)
ChargesOf(f) == [w \in DOMAIN f.ws |-> 4 * (f.ws[w].rows + 1) + Overhead]
Distinct(c) == \A i, j \in DOMAIN c : c[i] = c[j] => i = j

(* The rows of each of f's windows are counted.                            *)
RowsCounted(f) == \A w \in DOMAIN f.ws : f.ws[w].rows \in Nat

Accounts(f, c, b) ==
  /\ RowsCounted(f)
  /\ c \in Seq(DOMAIN f.ws) /\ Distinct(c)
  /\ b = SumSeq(Worth(ChargesOf(f), c)) /\ b \in Int /\ b <= Budget

(* A charge is a number.                                                   *)
LEMMA ChargesTyped ==
  ASSUME NEW f, RowsCounted(f)
  PROVE  /\ ChargesOf(f) \in [DOMAIN f.ws -> Int]
         /\ \A w \in DOMAIN f.ws : ChargesOf(f)[w] \in Nat
<1>1. \A w \in DOMAIN f.ws : 4 * (f.ws[w].rows + 1) + Overhead \in Nat
  BY HandleAssumption DEF RowsCounted
<1> QED BY <1>1 DEF ChargesOf

(* A lookup that finds its window refreshes it, and the charge stays.      *)
LEMMA TouchAccounts ==
  ASSUME NEW f, NEW c, NEW b, Accounts(f, c, b), NEW w \in DOMAIN f.ws,
         \E i \in DOMAIN c : c[i] = w
  PROVE  Accounts(f, Append(Without(c, w), w), b)
<1> DEFINE W == DOMAIN f.ws
           d == Append(Without(c, w), w)
           n == Len(c)
<1>1. c \in Seq(W) /\ Distinct(c) /\ ChargesOf(f) \in [W -> Int]
  BY ChargesTyped DEF Accounts
<1>2. n \in Nat /\ DOMAIN c = 1..n
  BY <1>1
<1>3. PICK p \in 1..n : d \in Seq(W) /\ Len(d) = n /\ c[p] = w /\ IsMoved(d, c, p, n)
  BY <1>1, WithoutFacts
<1> HIDE DEF d, W
<1>4. SumSeq(Worth(ChargesOf(f), d)) = SumSeq(Worth(ChargesOf(f), c))
  BY <1>1, <1>3, WorthMoved
<1>5. Distinct(d)
  <2> HIDE DEF n
  <2> DEFINE M(i) == IF i = n THEN p ELSE IF i < p THEN i ELSE i + 1
  <2>1. DOMAIN d = 1..n
    BY <1>2, <1>3
  <2>2. ASSUME NEW i \in 1..n PROVE M(i) \in 1..n /\ d[i] = c[M(i)]
    <3>1. CASE i = n
      BY <1>2, <1>3, <3>1 DEF IsMoved
    <3>2. CASE i # n /\ i < p
      <4>1. i \in 1..(p - 1)
        BY <1>2, <3>2
      <4> QED BY <1>2, <1>3, <3>2, <4>1 DEF IsMoved
    <3>3. CASE i # n /\ ~(i < p)
      <4>1. i \in p..(n - 1) /\ i + 1 \in 1..n
        BY <1>2, <3>3
      <4> QED BY <1>2, <1>3, <3>3, <4>1 DEF IsMoved
    <3> QED BY <3>1, <3>2, <3>3
  <2>3. \A i, j \in 1..n : M(i) = M(j) => i = j
    BY <1>2
  <2> HIDE DEF M
  <2> QED BY <1>1, <1>2, <2>1, <2>2, <2>3 DEF Distinct
<1> QED BY <1>3, <1>4, <1>5 DEF Accounts, d, W

(* An insert of a window another task has made keeps that; one that fits   *)
(* evicts the oldest until it does; one past the budget is not kept.       *)
LEMMA EvictAccounts ==
  ASSUME NEW f, NEW c, NEW b, Accounts(f, c, b), NEW w \in DOMAIN f.ws,
         ~(\E i \in DOMAIN c : c[i] = w), NEW k \in 0..Len(c),
         ChargesOf(f)[w] <= Budget,
         \/ k = Len(c)
         \/ b - SumSeq([i \in 1..k |-> ChargesOf(f)[c[i]]]) + ChargesOf(f)[w] <= Budget
  PROVE  Accounts(f, Append(SubSeq(c, k + 1, Len(c)), w),
                  b - SumSeq([i \in 1..k |-> ChargesOf(f)[c[i]]]) + ChargesOf(f)[w])
<1> DEFINE W == DOMAIN f.ws
           ch == ChargesOf(f)
           n == Len(c)
           e == SubSeq(c, k + 1, n)
           d == Append(e, w)
           gone == SumSeq([i \in 1..k |-> ch[c[i]]])
<1>1. c \in Seq(W) /\ Distinct(c) /\ ch \in [W -> Int] /\ ch[w] \in Int /\ b = SumSeq(Worth(ch, c)) /\ b \in Int
  BY ChargesTyped DEF Accounts
<1>2. n \in Nat /\ DOMAIN c = 1..n
  BY <1>1
<1>3. n - k \in Nat
  <2>1. ASSUME NEW m \in Nat, NEW j \in 0..m PROVE m - j \in Nat
    OBVIOUS
  <2> QED BY <1>2, <2>1
<1> HIDE DEF W, ch
<1>4. gone \in Int /\ (k = n => gone = b)
  BY <1>1, WorthGone
<1>5. SumSeq(Worth(ch, d)) = b - gone + ch[w]
  <2>1. w \in W
    BY DEF W
  <2> QED BY <1>1, <2>1, WorthEvicted
<1>6. e \in Seq(W) /\ Len(e) = n - k /\ \A i \in 1..(n - k) : e[i] = c[k + i]
  BY <1>1, SuffixFacts
<1> HIDE DEF e, n, gone
<1>7. d \in Seq(W) /\ Len(d) = n - k + 1 /\ d[n - k + 1] = w /\ \A i \in 1..(n - k) : d[i] = e[i]
  <2>1. w \in W /\ n - k \in Nat
    BY <1>2 DEF W, n
  <2> QED BY <1>6, <2>1
<1> HIDE DEF d
<1>8. Distinct(d)
  <2>1. DOMAIN d = 1..(n - k + 1) /\ n - k \in Nat
    BY <1>3, <1>7
  <2>2. ASSUME NEW i \in 1..(n - k + 1), i # n - k + 1
        PROVE  k + i \in 1..n /\ d[i] = c[k + i] /\ d[i] # w
    <3>1. i \in 1..(n - k) /\ k + i \in 1..n
      BY <1>2, <2>1, <2>2 DEF n
    <3>2. d[i] = c[k + i]
      BY <1>6, <1>7, <3>1
    <3>3. k + i \in DOMAIN c
      BY <1>2, <3>1
    <3> QED BY <3>1, <3>2, <3>3
  <2>3. ASSUME NEW i \in 1..(n - k + 1), NEW j \in 1..(n - k + 1), d[i] = d[j] PROVE i = j
    <3>1. CASE i = n - k + 1 \/ j = n - k + 1
      BY <1>7, <2>2, <2>3, <3>1
    <3>2. CASE i # n - k + 1 /\ j # n - k + 1
      <4>1. k + i \in 1..n /\ k + j \in 1..n /\ c[k + i] = c[k + j]
        BY <2>2, <2>3, <3>2
      <4>2. k + i = k + j
        BY <1>1, <1>2, <4>1 DEF Distinct
      <4> QED BY <2>1, <4>2
    <3> QED BY <3>1, <3>2
  <2> QED BY <2>1, <2>3 DEF Distinct
<1>9. b - gone + ch[w] \in Int /\ b - gone + ch[w] <= Budget
  BY <1>1, <1>4, HandleAssumption DEF gone, ch, n
<1> QED BY <1>5, <1>7, <1>8, <1>9 DEF Accounts, d, e, n, gone, ch, W

(* What an in-place decode holds is a number, within the budget.           *)
HoldsFit ==
  \A t \in Threads : At(t, "take") =>
    /\ "charged" \in DOMAIN task[t]
    /\ task[t].charged \in Nat /\ task[t].charged <= Budget

(* The inductive invariant of the cache.                                   *)
CacheInv == Accounts(file, cache, bytes) /\ HoldsFit

(* A window's charge, as the file's charges give it.                       *)
LEMMA ChargeOf ==
  ASSUME Accounts(file, cache, bytes)
  PROVE  /\ \A w \in DOMAIN file.ws : Charge(w) = ChargesOf(file)[w] /\ Charge(w) \in Nat
         /\ \A k \in 0..Len(cache) :
              [i \in 1..k |-> Charge(cache[i])] = [i \in 1..k |-> ChargesOf(file)[cache[i]]]
         /\ Worth(ChargesOf(file), cache) = [i \in DOMAIN cache |-> Charge(cache[i])]
<1>1. \A w \in DOMAIN file.ws : Charge(w) = ChargesOf(file)[w] /\ Charge(w) \in Nat
  <2>1. \A w \in DOMAIN file.ws : ChargesOf(file)[w] \in Nat
    BY ChargesTyped DEF Accounts
  <2>2. \A w \in DOMAIN file.ws : Charge(w) = ChargesOf(file)[w]
    BY DEF Charge, ChargesOf, ws
  <2> QED BY <2>1, <2>2
<1>2. \A i \in 1..Len(cache) : cache[i] \in DOMAIN file.ws
  BY DEF Accounts
<1>3. DOMAIN cache = 1..Len(cache) /\ Len(cache) \in Nat
  BY DEF Accounts
<1>4. ASSUME NEW k \in 0..Len(cache)
      PROVE  [i \in 1..k |-> Charge(cache[i])] = [i \in 1..k |-> ChargesOf(file)[cache[i]]]
  <2>1. \A i \in 1..k : Charge(cache[i]) = ChargesOf(file)[cache[i]]
    BY <1>1, <1>2, <1>3
  <2> QED BY <2>1
<1>5. Worth(ChargesOf(file), cache) = [i \in DOMAIN cache |-> Charge(cache[i])]
  BY <1>1, <1>2, <1>3 DEF Worth
<1> QED BY <1>1, <1>4, <1>5

(* There is a least number of windows to evict, all of them at worst.      *)
LEMMA EvictedFits ==
  ASSUME Accounts(file, cache, bytes), NEW w \in DOMAIN file.ws
  PROVE  /\ Evicted(w) \in 0..Len(cache)
         /\ \/ Evicted(w) = Len(cache)
            \/ bytes - SumSeq([i \in 1..Evicted(w) |-> Charge(cache[i])]) + Charge(w) <= Budget
<1> DEFINE n == Len(cache)
           Fits(j) == \/ j = n
                      \/ bytes - SumSeq([i \in 1..j |-> Charge(cache[i])]) + Charge(w) <= Budget
           Least(k) == Fits(k) /\ \A j \in 0..(k - 1) : ~Fits(j)
           T == {k \in 0..n : Fits(k)}
<1>1. n \in Nat
  BY DEF Accounts
<1>2. Evicted(w) = CHOOSE k \in 0..n : Least(k)
  BY DEF Evicted
<1>3. Fits(n)
  OBVIOUS
<1> HIDE DEF n, Fits
<1>4. PICK k \in T : \A j \in T : k <= j
  <2>1. T \in SUBSET Nat /\ n \in T
    BY <1>1, <1>3
  <2> HIDE DEF T
  <2> QED BY <2>1, LeastNumber
<1>5. k \in 0..n /\ Fits(k)
  BY <1>4
<1>6. ASSUME NEW j \in 0..(k - 1) PROVE ~Fits(j)
  <2>1. j \in 0..n /\ ~(k <= j)
    BY <1>1, <1>5
  <2> QED BY <1>4, <2>1
<1>7. \E m \in 0..n : Least(m)
  BY <1>5, <1>6
<1> HIDE DEF Least
<1>8. Evicted(w) \in 0..n /\ Least(Evicted(w))
  BY <1>2, <1>7
<1> QED BY <1>8 DEF Least, Fits, n

(* An insert, of a window another task may have made meanwhile.            *)
LEMMA InsertAccounts ==
  ASSUME Accounts(file, cache, bytes), NEW w \in DOMAIN file.ws, Insert(w)
  PROVE  Accounts(file, cache', bytes')
<1>1. CASE Cached(w)
  <2>1. cache' = Append(Without(cache, w), w) /\ bytes' = bytes
    BY <1>1 DEF Insert, Touched
  <2> QED BY <1>1, <2>1, TouchAccounts DEF Cached
<1>2. CASE ~Cached(w) /\ Charge(w) > Budget
  BY <1>2 DEF Insert
<1>3. CASE ~Cached(w) /\ ~(Charge(w) > Budget)
  <2> DEFINE k == Evicted(w)
  <2>1. /\ cache' = Append(SubSeq(cache, k + 1, Len(cache)), w)
        /\ bytes' = bytes - SumSeq([i \in 1..k |-> Charge(cache[i])]) + Charge(w)
    BY <1>3 DEF Insert
  <2>2. /\ k \in 0..Len(cache)
        /\ \/ k = Len(cache)
           \/ bytes - SumSeq([i \in 1..k |-> Charge(cache[i])]) + Charge(w) <= Budget
    BY EvictedFits
  <2> HIDE DEF k
  <2>3. /\ Charge(w) = ChargesOf(file)[w] /\ Charge(w) \in Nat
        /\ [i \in 1..k |-> Charge(cache[i])] = [i \in 1..k |-> ChargesOf(file)[cache[i]]]
    BY <2>2, ChargeOf
  <2>4. ChargesOf(file)[w] <= Budget
    BY <1>3, <2>3, HandleAssumption
  <2>5. ~(\E i \in DOMAIN cache : cache[i] = w)
    BY <1>3 DEF Cached
  <2>6. \/ k = Len(cache)
        \/ bytes - SumSeq([i \in 1..k |-> ChargesOf(file)[cache[i]]]) + ChargesOf(file)[w] <= Budget
    BY <2>2, <2>3, Zenon
  <2>7. Accounts(file, Append(SubSeq(cache, k + 1, Len(cache)), w),
                 bytes - SumSeq([i \in 1..k |-> ChargesOf(file)[cache[i]]]) + ChargesOf(file)[w])
    BY <2>2, <2>4, <2>5, <2>6, EvictAccounts
  <2> QED BY <2>1, <2>3, <2>7, Zenon
<1> QED BY <1>1, <1>2, <1>3

(* A file that opened has its windows' rows counted, and nothing cached.   *)
LEMMA InitCacheInv == Init => CacheInv
<1> SUFFICES ASSUME Init PROVE CacheInv
  OBVIOUS
<1>1. PICK f \in Files : Opened(f) # Failed /\ file = OpenFile(f)
  BY DEF Init
<1>2. RowsCounted(file)
  <2> DEFINE bounds == IF ZonesCutAtLeaves(f) THEN ZoneBounds(f) ELSE LeafBounds(f)
             starts == Starts(f.leaves)
             R(w) == [start |-> starts[w], rows |-> Len(f.leaves[w]),
                      first |-> bounds[w][1], last |-> bounds[w][2]]
  <2>1. Opened(f) = IF ~Ordered(bounds) THEN Failed ELSE [w \in DOMAIN f.leaves |-> R(w)]
    BY DEF Opened
  <2>2. file.ws = Opened(f)
    BY <1>1 DEF OpenFile
  <2>3. \A w \in DOMAIN f.leaves : R(w).rows \in Nat
    BY FilesAssumption
  <2> HIDE DEF R, bounds
  <2>4. file.ws = [w \in DOMAIN f.leaves |-> R(w)]
    BY <1>1, <2>1, <2>2
  <2> QED BY <2>3, <2>4 DEF RowsCounted
<1>3. cache = <<>> /\ bytes = 0 /\ \A t \in Threads : task[t].at = "idle"
  BY DEF Init, Idle
<1>4. Worth(ChargesOf(file), <<>>) = <<>>
  BY DEF Worth
<1>5. SumSeq(<<>>) = 0
  <2> DEFINE s == [i \in 1..0 |-> 0]
             g == [i \in 0..0 |-> 0]
  <2>1. IsTotal(g, s, 0) /\ s = <<>> /\ g[0] = 0
    BY DEF IsTotal
  <2>2. s = [i \in 1..0 |-> s[i]] /\ \A i \in 1..0 : s[i] \in Int
    OBVIOUS
  <2> HIDE DEF g, s
  <2>3. SumSeq(s) = g[0]
    BY <2>1, <2>2, SumIsTotal
  <2> QED BY <2>1, <2>3
<1>6. Accounts(file, cache, bytes)
  <2>1. <<>> \in Seq(DOMAIN file.ws) /\ Distinct(<<>>) /\ 0 <= Budget
    BY HandleAssumption DEF Distinct
  <2> QED BY <1>2, <1>3, <1>4, <1>5, <2>1 DEF Accounts
<1> QED BY <1>3, <1>6 DEF CacheInv, HoldsFit, At

(* A task goes to another step than holding windows.                       *)
LEMMA OtherStepFits ==
  ASSUME SharedInv, HoldsFit, NEW t \in Threads, NEW l, Goes(t, l),
         l.at = "take" => "charged" \in DOMAIN l /\ l.charged \in Nat /\ l.charged <= Budget
  PROVE  HoldsFit'
<1>1. task' = [u \in Threads |-> IF u = t THEN l ELSE task[u]]
  BY DEF Goes, SharedInv, SharedTypes
<1> QED BY <1>1 DEF HoldsFit, At

(* A step that is none of a query's leaves the cache alone, and holds      *)
(* nothing.                                                                *)
LEMMA OtherSteps ==
  ASSUME SharedInv, NEW t \in Threads,
         \/ Fault(t) \/ KeepKinds(t) \/ Finish(t) \/ DecodeHeld(t) \/ Return(t)
         \/ \E s \in Shapes : Scan(t, s, "tree") \/ Scan(t, s, "bind")
         \/ Bind(t) \/ Build(t) \/ BuildFails(t)
         \/ LockReaders(t) \/ LoadClears(t) \/ TakeReader(t)
         \/ \E c \in Columns : Probe(t, c)
         \/ MakeHandle(t)
  PROVE  UNCHANGED <<file, cache, bytes>> /\ \E l : Goes(t, l) /\ l.at # "take"
<1>1. IsRecord(task[t])
  BY DEF SharedInv, SharedTypes, TaskType
<1>2. ASSUME NEW i PROVE Bound(task[t], i).at # "take"
  <2> DEFINE a == IF task[t].tree = None THEN "tree" ELSE "asked"
  <2>1. Bound(task[t], i) = [task[t] EXCEPT !.id = i, !.at = a] /\ a # "take"
    BY DEF Bound
  <2> HIDE DEF a
  <2> QED BY <1>1, <2>1 DEF IsRecord
<1>3. ASSUME NEW a, a # "take" PROVE [task[t] EXCEPT !.at = a].at # "take"
  BY <1>1, <1>3 DEF IsRecord
<1>4. CASE Fault(t) \/ Finish(t) \/ DecodeHeld(t) \/ Return(t)
  <2>1. UNCHANGED <<file, cache, bytes>>
    BY <1>4 DEF Fault, Finish, DecodeHeld, Return
  <2>2. CASE Fault(t)
    BY <2>1, <2>2 DEF Fault
  <2>3. CASE Finish(t)
    BY <2>1, <2>3 DEF Finish
  <2>4. CASE DecodeHeld(t)
    BY <2>1, <2>4 DEF DecodeHeld
  <2>5. CASE Return(t)
    BY <2>1, <2>5 DEF Return, Idle
  <2> QED BY <1>4, <2>2, <2>3, <2>4, <2>5
<1>5. CASE KeepKinds(t)
  <2> DEFINE x == Tail(task[t].stages)
             l == [task[t] EXCEPT !.stages = x]
  <2>1. UNCHANGED <<file, cache, bytes>> /\ Goes(t, l) /\ task[t].at = "read"
    BY <1>5 DEF KeepKinds, At
  <2> HIDE DEF x
  <2>2. l.at = task[t].at
    BY <1>1 DEF IsRecord
  <2> QED BY <2>1, <2>2
<1>6. CASE \E s \in Shapes : Scan(t, s, "tree") \/ Scan(t, s, "bind")
  <2>1. PICK s \in Shapes, first \in {"tree", "bind"} : Scan(t, s, first)
    BY <1>6
  <2> DEFINE l == [at |-> first, shape |-> s, id |-> None, tree |-> None,
                   load |-> None, since |-> memo.clears]
  <2>2. UNCHANGED <<file, cache, bytes>> /\ Goes(t, l)
    BY <2>1 DEF Scan
  <2>3. l.at # "take"
    OBVIOUS
  <2> HIDE DEF l
  <2> QED BY <2>2, <2>3
<1>7. CASE Bind(t)
  <2>1. /\ UNCHANGED <<file, cache, bytes>>
        /\ \/ Goes(t, Bound(task[t], memo.map[task[t].shape]))
           \/ Goes(t, [task[t] EXCEPT !.at = "build"])
    BY <1>7 DEF Bind
  <2>2. [task[t] EXCEPT !.at = "build"].at # "take"
    BY <1>3
  <2> QED BY <1>2, <2>1, <2>2
<1>8. CASE Build(t)
  <2>1. UNCHANGED <<file, cache, bytes>> /\ Goes(t, Bound(task[t], made + 1))
    BY <1>8 DEF Build
  <2> QED BY <1>2, <2>1
<1>9. CASE BuildFails(t)
  BY <1>9 DEF BuildFails
<1>10. CASE LockReaders(t)
  <2>1. UNCHANGED <<file, cache, bytes>> /\ Goes(t, [task[t] EXCEPT !.at = "load"])
    BY <1>10 DEF LockReaders
  <2>2. [task[t] EXCEPT !.at = "load"].at # "take"
    BY <1>3
  <2> QED BY <2>1, <2>2
<1>11. CASE LoadClears(t)
  <2> DEFINE x == memo.clears
             l == [task[t] EXCEPT !.at = "swap", !.load = x]
  <2>1. UNCHANGED <<file, cache, bytes>> /\ Goes(t, l)
    BY <1>11 DEF LoadClears
  <2> HIDE DEF x
  <2>2. l.at = "swap"
    BY <1>1 DEF IsRecord
  <2> QED BY <2>1, <2>2
<1>12. CASE TakeReader(t)
  <2> DEFINE g == CurrentTree(t)
             a == IF task[t].id = None THEN "bind" ELSE "asked"
             l == [task[t] EXCEPT !.tree = g, !.at = a]
  <2>1. UNCHANGED <<file, cache, bytes>> /\ Goes(t, l) /\ a # "take"
    BY <1>12 DEF TakeReader
  <2> HIDE DEF g, a
  <2>2. l.at = a
    BY <1>1 DEF IsRecord
  <2> QED BY <2>1, <2>2
<1>13. CASE \E c \in Columns : Probe(t, c)
  <2>1. PICK c \in Columns : Probe(t, c)
    BY <1>13
  <2>2. /\ UNCHANGED <<file, cache, bytes>>
        /\ \/ Goes(t, [at |-> "probed", column |-> c, handle |-> handles[c]])
           \/ Goes(t, [at |-> "make", column |-> c])
    BY <2>1 DEF Probe
  <2> QED BY <2>2
<1>14. CASE MakeHandle(t)
  <2>1. PICK c, h : /\ UNCHANGED <<file, cache, bytes>>
                    /\ Goes(t, [at |-> "probed", column |-> c, handle |-> h])
    BY <1>14 DEF MakeHandle
  <2> QED BY <2>1
<1> QED BY <1>4, <1>5, <1>6, <1>7, <1>8, <1>9, <1>10, <1>11, <1>12, <1>13, <1>14

(* A query begins, looks a window up, or keeps one that arrived.           *)
LEMMA ReadKeepsCache ==
  ASSUME SharedInv, CacheInv, NEW t \in Threads,
         \/ \E q \in Queries : Ask(t, q)
         \/ \E w \in DOMAIN ws : Look(t, w) \/ Arrive(t, w)
  PROVE  CacheInv'
<1>1. IsRecord(task[t])
  BY DEF SharedInv, SharedTypes, TaskType
<1>2. ASSUME NEW q \in Queries, Ask(t, q) PROVE CacheInv'
  <2> DEFINE l == IF q.op = "rows" /\ ~waits
                  THEN [at |-> "take", q |-> q, order |-> TakeOrder(q), charged |-> 0, got |-> <<>>]
                  ELSE Reading(q, Stages(q))
  <2>1. UNCHANGED <<file, cache, bytes>> /\ Goes(t, l)
    BY <1>2 DEF Ask
  <2>2. l.at = "take" => "charged" \in DOMAIN l /\ l.charged \in Nat /\ l.charged <= Budget
    BY HandleAssumption DEF Reading
  <2> HIDE DEF l
  <2>3. HoldsFit'
    BY <2>1, <2>2, OtherStepFits DEF CacheInv
  <2> QED BY <2>1, <2>3 DEF CacheInv
<1>3. ASSUME NEW w \in DOMAIN ws, Look(t, w) \/ Arrive(t, w) PROVE CacheInv'
  <2> DEFINE more == [task[t] EXCEPT !.fetching = task[t].fetching \cup {w}]
  <2>1. task[t].at = "read" /\ (Goes(t, Got(task[t], w)) \/ Goes(t, more))
    BY <1>3 DEF Look, Arrive, At
  <2>2. more.at = task[t].at
    BY <1>1 DEF IsRecord
  <2> HIDE DEF more
  <2>3. HoldsFit'
    BY <1>1, <2>1, <2>2, GotRecord, OtherStepFits DEF CacheInv
  <2>4. w \in DOMAIN file.ws
    BY DEF ws
  <2>5. Accounts(file, cache', bytes') /\ file' = file
    <3>1. CASE Arrive(t, w)
      BY <2>4, <3>1, InsertAccounts DEF Arrive, CacheInv
    <3>2. CASE Look(t, w)
      <4>1. file' = file /\ bytes' = bytes /\ (cache' = cache \/ (Cached(w) /\ cache' = Touched(w)))
        BY <3>2 DEF Look
      <4> QED BY <2>4, <4>1, TouchAccounts DEF CacheInv, Cached, Touched
    <3> QED BY <1>3, <3>1, <3>2
  <2> QED BY <2>3, <2>5 DEF CacheInv
<1> QED BY <1>2, <1>3

(* An in-place decode takes a window: what it holds still fits, or it      *)
(* gives the hold up.                                                      *)
LEMMA TakeKeepsCache ==
  ASSUME SharedInv, CacheInv, NEW t \in Threads, NEW w \in DOMAIN ws, Take(t, w)
  PROVE  CacheInv'
<1> DEFINE l == task[t]
           x == l.charged + Charge(w)
           o == Tail(l.order)
           g == [v \in DOMAIN l.got \cup {w} |-> file.leaves[v]]
           held == [l EXCEPT !.order = o, !.charged = x, !.got = g]
           resolved == Reading(l.q, Stages(l.q))
<1>1. /\ At(t, "take") /\ file' = file
      /\ Goes(t, IF HoldFits(x) THEN held ELSE resolved) \/ Goes(t, resolved)
      /\ \/ Cached(w) /\ cache' = Touched(w) /\ bytes' = bytes
         \/ Insert(w)
         \/ UNCHANGED <<cache, bytes>>
  BY DEF Take
<1>2. w \in DOMAIN file.ws
  BY DEF ws
<1>3. Accounts(file, cache', bytes')
  <2>1. CASE Cached(w) /\ cache' = Touched(w) /\ bytes' = bytes
    BY <1>2, <2>1, TouchAccounts DEF CacheInv, Cached, Touched
  <2>2. CASE Insert(w)
    BY <1>2, <2>2, InsertAccounts DEF CacheInv
  <2>3. CASE UNCHANGED <<cache, bytes>>
    BY <2>3 DEF CacheInv
  <2> QED BY <1>1, <2>1, <2>2, <2>3
<1>4. IsRecord(l) /\ "charged" \in DOMAIN l /\ x \in Nat
  <2>1. IsRecord(l)
    BY DEF SharedInv, SharedTypes, TaskType
  <2>2. "charged" \in DOMAIN l /\ l.charged \in Nat
    BY <1>1 DEF CacheInv, HoldsFit
  <2>3. Charge(w) \in Nat
    BY <1>2, ChargeOf DEF CacheInv
  <2> QED BY <2>1, <2>2, <2>3
<1>5. resolved.at = "read"
  BY DEF Reading
<1> HIDE DEF x, o, g
<1>6. DOMAIN held = DOMAIN l /\ held.charged = x
  BY <1>4 DEF IsRecord
<1> HIDE DEF held, resolved
<1>7. HoldsFit'
  <2>1. CASE Goes(t, resolved)
    BY <1>5, <2>1, OtherStepFits DEF CacheInv
  <2>2. CASE Goes(t, held) /\ HoldFits(x)
    BY <1>4, <1>6, <2>2, OtherStepFits DEF CacheInv, HoldFits
  <2> QED BY <1>1, <2>1, <2>2
<1> QED BY <1>1, <1>3, <1>7 DEF CacheInv

(* Every step of every task keeps the cache accounted.                     *)
LEMMA NextCacheInv == SharedInv /\ CacheInv /\ [Next]_vars => CacheInv'
<1> SUFFICES ASSUME SharedInv, CacheInv, [Next]_vars PROVE CacheInv'
  OBVIOUS
<1>1. CASE UNCHANGED vars
  BY <1>1 DEF vars, CacheInv, HoldsFit, At
<1>2. CASE Next
  <2>1. PICK t \in Threads :
          \/ \/ \E q \in Queries : Ask(t, q)
             \/ \E w \in DOMAIN ws : Look(t, w) \/ Arrive(t, w)
          \/ \E w \in DOMAIN ws : Take(t, w)
          \/ \/ Fault(t) \/ KeepKinds(t) \/ Finish(t) \/ DecodeHeld(t) \/ Return(t)
             \/ \E s \in Shapes : Scan(t, s, "tree") \/ Scan(t, s, "bind")
             \/ Bind(t) \/ Build(t) \/ BuildFails(t)
             \/ LockReaders(t) \/ LoadClears(t) \/ TakeReader(t)
             \/ \E c \in Columns : Probe(t, c)
             \/ MakeHandle(t)
    BY <1>2, Zenon DEF Next
  <2>2. ASSUME NEW l, UNCHANGED <<file, cache, bytes>>, Goes(t, l), l.at # "take"
        PROVE  CacheInv'
    BY <2>2, OtherStepFits DEF CacheInv
  <2> QED
    BY <2>1, <2>2, ReadKeepsCache, TakeKeepsCache, OtherSteps
<1> QED
  BY <1>1, <1>2

(* The cache's charge is that of its windows, none is cached twice, and    *)
(* neither the cache nor what one in-place decode holds exceeds the budget *)
(* (WindowCache::insert, HeldWindows), whichever tasks build or evict the  *)
(* same windows at once.                                                   *)
THEOREM CacheStaysAccounted == Spec => []CacheAccounted
<1>1. CacheInv => CacheAccounted
  <2> SUFFICES ASSUME CacheInv PROVE CacheAccounted
    OBVIOUS
  <2>1. Worth(ChargesOf(file), cache) = [i \in DOMAIN cache |-> Charge(cache[i])]
    BY ChargeOf DEF CacheInv
  <2> QED
    BY <2>1 DEF CacheInv, Accounts, Distinct, HoldsFit, CacheAccounted
<1> QED
  BY <1>1, InitSharedInv, NextSharedInv, InitCacheInv, NextCacheInv, PTL DEF Spec
=============================================================================
