----------------------------- MODULE ProbeBatch -----------------------------
(***************************************************************************)
(* A batch of probes of the Python bindings: every probe runs as a task, a *)
(* driver keeps an ordered window of them full and forwards their answers  *)
(* through a bounded channel, and threads pull the answers one at a time,  *)
(* or one call collects them all.  A pull may race a cancel token.         *)
(*                                                                         *)
(* A task dropped or aborted stops at its next await: aborting is a        *)
(* request, the stop a step of its own.  A probe's error and its panic are *)
(* both "failed".                                                          *)
(***************************************************************************)
EXTENDS Naturals, Sequences, FiniteSets

CONSTANTS Probes,      \* how many probes
          Lookahead,   \* the window's size
          Threads,     \* the threads that pull
          NoThread,
          MaxCalls     \* bound: the calls that return

ASSUME BatchSizes ==
  /\ Probes \in Nat /\ Lookahead \in Nat \ {0} /\ MaxCalls \in Nat
  /\ NoThread \notin Threads

VARIABLES mode,       \* "iterate" (ProbeAnswers) or "collect"
          task,       \* each probe's task
          doomed,     \* probes whose task is aborted, stopped yet or not
          driver,     \* its state, window, next probe, and the answer in hand
          killed,     \* the driver is aborted, stopped yet or not
          channel,    \* the answers forwarded, and whether a receiver is left
          answers,    \* Batch::answers: held, lent to a pull, none, dropped
          lock,       \* the thread that holds the iterator's mutex
          pull,       \* each thread's pull
          collector,  \* the task of a collect: its state, what it collected
          token,      \* absent, clear, set, woken (notify_waiters ran)
          log         \* what the calls returned, in order

vars == <<mode, task, doomed, driver, killed, channel, answers, lock, pull, collector, token, log>>
flow == <<task, doomed, driver, killed, channel>>

Ids == 1..Probes

(* Mutant of Capacity: one answer more.                                    *)
CapacityRaised == Lookahead + 1

(* The channel's: no more answers than probes, and at least one.           *)
Capacity == IF Lookahead < Probes THEN Lookahead ELSE IF Probes = 0 THEN 1 ELSE Probes
Running(p) == task[p] = "running"
Held(w) == {w[i] : i \in DOMAIN w}

Init ==
  /\ mode \in {"iterate", "collect"}
  /\ task = [p \in Ids |-> "unspawned"]
  /\ doomed = {} /\ killed = FALSE
  /\ driver = [state |-> "select", window |-> <<>>, next |-> 1, hand |-> 0]
  /\ channel = [items |-> <<>>, open |-> TRUE]
  /\ answers = "held" /\ lock = NoThread
  /\ pull = [t \in Threads |-> [pc |-> "idle", woken |-> FALSE]]
  /\ collector = [state |-> "none", got |-> <<>>, killed |-> FALSE]
  /\ token \in {"absent", "clear"}
  /\ log = <<>>

-----------------------------------------------------------------------------
(* The probes' tasks                                                       *)

Finish(p) ==
  /\ Running(p)
  /\ \E outcome \in {"ok", "failed"} : task' = [task EXCEPT ![p] = outcome]
  /\ UNCHANGED <<mode, doomed, driver, killed, channel, answers, lock, pull, collector, token, log>>

Stop(p) ==
  /\ Running(p) /\ p \in doomed
  /\ task' = [task EXCEPT ![p] = "aborted"]
  /\ UNCHANGED <<mode, doomed, driver, killed, channel, answers, lock, pull, collector, token, log>>

-----------------------------------------------------------------------------
(* The driver                                                              *)

(* The driver's future ends or is dropped: its window's probes are aborted.*)
DriverOver ==
  /\ driver' = [driver EXCEPT !.state = "over", !.window = <<>>, !.hand = 0]
  /\ doomed' = doomed \cup Held(driver.window)
  /\ UNCHANGED <<task, killed, channel>>

Room == Lookahead - Len(driver.window)
Left == Probes + 1 - driver.next
Spawned == IF Room < Left THEN Room ELSE Left

(* buffered(lookahead): the window filled, the first probe in it awaited.  *)
Polled ==
  LET new    == [i \in 1..Spawned |-> driver.next + i - 1]
      window == driver.window \o new
  IN /\ task' = [p \in Ids |-> IF p \in Held(new) THEN "running" ELSE task[p]]
     /\ LET ready == task'[Head(window)] \in {"ok", "failed"} IN
        /\ Spawned > 0 \/ ready
        /\ driver' = [state  |-> IF ready THEN "sending" ELSE "select",
                      window |-> IF ready THEN Tail(window) ELSE window,
                      next   |-> driver.next + Spawned,
                      hand   |-> IF ready THEN Head(window) ELSE 0]
     /\ UNCHANGED <<doomed, killed, channel>>

DriverSelect ==
  /\ driver.state = "select"
  /\ IF ~channel.open \/ (driver.window = <<>> /\ Left = 0) THEN DriverOver ELSE Polled
  /\ UNCHANGED <<mode, answers, lock, pull, collector, token, log>>

(* Mutant of Sent: a failure ends the driver before it is forwarded.       *)
SentUnlessFailed ==
  IF ~channel.open \/ task[driver.hand] = "failed" THEN DriverOver
  ELSE /\ Len(channel.items) < Capacity
       /\ channel' = [channel EXCEPT !.items = Append(@, driver.hand)]
       /\ driver' = [driver EXCEPT !.state = "select", !.hand = 0]
       /\ UNCHANGED <<task, killed, doomed>>

Sent ==
  IF ~channel.open THEN DriverOver
  ELSE /\ Len(channel.items) < Capacity
       /\ channel' = [channel EXCEPT !.items = Append(@, driver.hand)]
       /\ IF task[driver.hand] = "failed"
          THEN /\ driver' = [driver EXCEPT !.state = "over", !.window = <<>>, !.hand = 0]
               /\ doomed' = doomed \cup Held(driver.window)
          ELSE /\ driver' = [driver EXCEPT !.state = "select", !.hand = 0]
               /\ UNCHANGED doomed
       /\ UNCHANGED <<task, killed>>

DriverSend ==
  /\ driver.state = "sending"
  /\ Sent
  /\ UNCHANGED <<mode, answers, lock, pull, collector, token, log>>

DriverStop ==
  /\ killed /\ driver.state # "over"
  /\ DriverOver
  /\ UNCHANGED <<mode, answers, lock, pull, collector, token, log>>

-----------------------------------------------------------------------------
(* The token                                                               *)

(* Token::cancel stores the flag, then wakes who waits.                    *)
Cancel ==
  /\ token = "clear" /\ token' = "set"
  /\ UNCHANGED <<mode, flow, answers, lock, pull, collector, log>>

Notify ==
  /\ token = "set" /\ token' = "woken"
  /\ UNCHANGED <<mode, flow, answers, lock, pull, collector, log>>

-----------------------------------------------------------------------------
(* A pull                                                                  *)

At(t, pc) == pull[t].pc = pc
Goto(t, pc) == pull' = [pull EXCEPT ![t].pc = pc]

(* Mutant of ChannelReady: the end of the driver is not noticed.           *)
ChannelReadyItems == channel.items # <<>>

ChannelReady == channel.items # <<>> \/ driver.state = "over"
FutureReady == IF mode = "iterate" THEN ChannelReady ELSE collector.state \in {"ok", "failed"}

(* A call of __next__, or the one call that collects.                      *)
Call(t) ==
  /\ At(t, "idle") /\ answers # "dropped" /\ Len(log) < MaxCalls
  /\ mode = "collect" => answers = "held" /\ \A u \in Threads : At(u, "idle")
  /\ Goto(t, "lock")
  /\ UNCHANGED <<mode, flow, answers, lock, collector, token, log>>

Started == IF token = "absent" THEN "stream" ELSE "wait"

(* The mutex taken, and the stream out of its slot if it is still there.   *)
Lock(t) ==
  /\ At(t, "lock") /\ lock = NoThread
  /\ IF answers = "held"
     THEN /\ answers' = "lent" /\ lock' = t
          /\ Goto(t, Started)
          /\ collector' = IF mode = "collect" THEN [collector EXCEPT !.state = "running"] ELSE collector
          /\ UNCHANGED log
     ELSE /\ log' = Append(log, [kind |-> "end"])
          /\ Goto(t, "idle")
          /\ UNCHANGED <<answers, lock, collector>>
  /\ UNCHANGED <<mode, flow, token>>

(* Mutant of Wait: the flag is read before the wait is created.            *)
WaitLate(t) ==
  \/ /\ At(t, "wait")
     /\ Goto(t, IF token \in {"set", "woken"} THEN "cancelled" ELSE "check")
  \/ /\ At(t, "check")
     /\ pull' = [pull EXCEPT ![t] = [pc |-> "stream", woken |-> token = "woken"]]

(* Token::cancelled: the wait is created, then the flag read.              *)
Wait(t) ==
  \/ /\ At(t, "wait")
     /\ pull' = [pull EXCEPT ![t] = [pc |-> "check", woken |-> token = "woken"]]
  \/ /\ At(t, "check")
     /\ Goto(t, IF token \in {"set", "woken"} THEN "cancelled" ELSE "stream")

AwaitToken(t) == Wait(t) /\ UNCHANGED <<mode, flow, answers, lock, collector, token, log>>

(* Only a notification since the wait was created completes it.            *)
Woken(t) == token = "woken" /\ ~pull[t].woken

(* The token's side is polled first, whatever woke the pull.               *)
PollToken(t) ==
  /\ At(t, "parked") /\ (Woken(t) \/ FutureReady)
  /\ Goto(t, IF Woken(t) THEN "cancelled" ELSE "stream")
  /\ UNCHANGED <<mode, flow, answers, lock, collector, token, log>>

Return(t, outcome) ==
  /\ log' = Append(log, outcome)
  /\ Goto(t, "idle") /\ lock' = NoThread

(* pull_next puts the stream back; an error empties the slot again.        *)
Slot(p) == IF task[p] = "ok" THEN "held" ELSE "none"

(* Batch::next's end on an answer, and on an error or the last answer.     *)
Received(t) ==
  IF channel.items = <<>>
  THEN /\ Return(t, [kind |-> "end"])
       /\ answers' = "none" /\ killed' = TRUE
       /\ channel' = [channel EXCEPT !.open = FALSE]
  ELSE LET p == Head(channel.items) IN
       /\ Return(t, [kind |-> task[p], probe |-> p])
       /\ answers' = Slot(p)
       /\ IF task[p] = "ok"
          THEN /\ channel' = [channel EXCEPT !.items = Tail(@)]
               /\ UNCHANGED killed
          ELSE /\ killed' = TRUE
               /\ channel' = [items |-> <<>>, open |-> FALSE]

(* The future is polled: an answer ends the pull whatever the token says.  *)
PollStream(t) ==
  /\ At(t, "stream")
  /\ IF ~FutureReady
     THEN Goto(t, "parked") /\ UNCHANGED <<flow, answers, lock, log>>
     ELSE IF mode = "iterate"
     THEN Received(t) /\ UNCHANGED <<task, doomed, driver>>
     ELSE /\ Return(t, [kind |-> "collected", ok |-> collector.state = "ok"])
          /\ answers' = "none" /\ UNCHANGED flow
  /\ UNCHANGED <<mode, collector, token>>

(* Mutant of Dropped: the driver's handle is kept.                         *)
DroppedKept ==
  IF mode = "collect" THEN collector' = [collector EXCEPT !.killed = TRUE] /\ UNCHANGED <<channel, killed>>
  ELSE UNCHANGED <<collector, channel, killed>>

(* What the pull held is dropped: the channel's end and the driver, or the *)
(* handle of the collecting task.                                          *)
Dropped ==
  IF mode = "collect" THEN collector' = [collector EXCEPT !.killed = TRUE] /\ UNCHANGED <<channel, killed>>
  ELSE channel' = [items |-> <<>>, open |-> FALSE] /\ killed' = TRUE /\ UNCHANGED collector

Cancelled(t) ==
  /\ At(t, "cancelled")
  /\ Return(t, [kind |-> "cancelled"])
  /\ answers' = "none"
  /\ Dropped
  /\ UNCHANGED <<mode, task, doomed, driver, token>>

(* Python drops the iterator: no thread is inside a call.                  *)
Drop ==
  /\ mode = "iterate" /\ answers # "dropped" /\ \A t \in Threads : At(t, "idle")
  /\ answers' = "dropped"
  /\ Dropped
  /\ UNCHANGED <<mode, task, doomed, driver, lock, pull, token, log>>

-----------------------------------------------------------------------------
(* The collecting task                                                     *)

CollectorOver(state, got) ==
  /\ collector' = [collector EXCEPT !.state = state, !.got = got]
  /\ killed' = TRUE
  /\ channel' = [items |-> <<>>, open |-> FALSE]

Collect ==
  /\ collector.state = "running"
  /\ ChannelReady
  /\ IF channel.items = <<>> THEN CollectorOver("ok", collector.got)
     ELSE LET p == Head(channel.items) IN
          IF task[p] = "ok"
          THEN /\ collector' = [collector EXCEPT !.got = Append(@, p)]
               /\ channel' = [channel EXCEPT !.items = Tail(@)]
               /\ UNCHANGED killed
          ELSE CollectorOver("failed", Append(collector.got, p))
  /\ UNCHANGED <<mode, task, doomed, driver, answers, lock, pull, token, log>>

CollectStop ==
  /\ collector.state = "running" /\ collector.killed
  /\ CollectorOver("aborted", <<>>)
  /\ UNCHANGED <<mode, task, doomed, driver, answers, lock, pull, token, log>>

-----------------------------------------------------------------------------
Step(t) == Lock(t) \/ AwaitToken(t) \/ PollToken(t) \/ PollStream(t) \/ Cancelled(t)
DriverStep == DriverSelect \/ DriverSend \/ DriverStop

Next ==
  \/ \E p \in Ids : Finish(p) \/ Stop(p)
  \/ DriverStep \/ Collect \/ CollectStop
  \/ Cancel \/ Notify \/ Drop
  \/ \E t \in Threads : Call(t) \/ Step(t)

Spec == Init /\ [][Next]_vars

(* The runtime polls every woken task and drops every aborted one, and a   *)
(* thread inside a call goes on; but a probe may never finish.             *)
Fairness ==
  /\ \A p \in Ids : WF_vars(Stop(p))
  /\ WF_vars(DriverStep) /\ WF_vars(Collect \/ CollectStop) /\ WF_vars(Notify)
  /\ \A t \in Threads : WF_vars(Step(t))

FairSpec == Spec /\ Fairness

-----------------------------------------------------------------------------
(* Properties                                                              *)

(* The parts are of their shapes, and only the thread inside a pull holds  *)
(* the mutex and the stream.                                               *)
TypeOK ==
  /\ task \in [Ids -> {"unspawned", "running", "ok", "failed", "aborted"}]
  /\ doomed \subseteq Ids /\ killed \in BOOLEAN
  /\ driver.state \in {"select", "sending", "over"} /\ driver.hand \in 0..Probes
  /\ Held(driver.window) \subseteq Ids /\ Held(channel.items) \subseteq Ids
  /\ answers = "lent" <=> lock # NoThread
  /\ \A t \in Threads : pull[t].pc \notin {"idle", "lock"} <=> lock = t

(* Probes that run, or have answered and are not pulled yet.               *)
Pending ==
  {p \in Ids : Running(p)} \cup Held(driver.window) \cup Held(channel.items)
    \cup (IF driver.hand = 0 THEN {} ELSE {driver.hand})

(* However probes finish and threads pull, at most twice the window is     *)
(* running or answered and not yet pulled.                                 *)
Bounded == Cardinality(Pending) <= 2 * Lookahead

(* The answers come in input order, one call each; an error or a cancel    *)
(* comes once and ends them; and no iteration ends early without one.      *)
InOrder ==
  LET oks == {i \in DOMAIN log : log[i].kind = "ok"}
      n   == Cardinality(oks)
  IN
  /\ \A i \in oks : i <= n /\ log[i].probe = i
  /\ \A i \in DOMAIN log : log[i].kind = "failed" => log[i].probe = i /\ n = i - 1
  /\ \A i \in DOMAIN log :
       log[i].kind # "ok" => \A j \in i + 1..Len(log) : log[j].kind = "end"
  /\ \A i \in DOMAIN log :
       log[i].kind = "end" =>
         n = Probes \/ \E j \in 1..(i - 1) : log[j].kind \in {"failed", "cancelled"}

(* A collect that succeeds holds every answer in order, and one that fails *)
(* the error of the first probe in input order that failed.                *)
CollectsAll ==
  /\ collector.state = "ok" => collector.got = [i \in Ids |-> i]
  /\ collector.state = "failed" =>
       /\ collector.got = [i \in 1..Len(collector.got) |-> i]
       /\ \A i \in DOMAIN collector.got : task[i] = "failed" <=> i = Len(collector.got)

(* A cancel ends the call that waits, even when no probe ever answers.     *)
CancelEndsPull ==
  \A t \in Threads : (token = "set" /\ ~At(t, "idle")) ~> At(t, "idle")

(* Once the batch is over, by its end, an error, a cancel or a drop, no    *)
(* probe goes on running.                                                  *)
OverStopsProbes == answers \in {"none", "dropped"} ~> \A p \in Ids : ~Running(p)

(* When probes do finish, every call returns: the channel, the window and  *)
(* the mutex never wait for each other.                                    *)
CallsReturn ==
  (\A p \in Ids : WF_vars(Finish(p))) => \A t \in Threads : ~At(t, "idle") ~> At(t, "idle")
=============================================================================
