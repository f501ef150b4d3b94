-------------------------- MODULE ProbeBatchProofs --------------------------
(***************************************************************************)
(* Proofs about ProbeBatch, for any number of probes, any lookahead and    *)
(* any threads: how much of a batch is in flight, the order its answers    *)
(* come in, and what a collect holds.                                      *)
(***************************************************************************)
EXTENDS ProbeBatch, FiniteSetTheorems, TLAPS

-----------------------------------------------------------------------------
(* The inductive invariant                                                 *)

Answered(p) == task[p] \in {"ok", "failed"}

Entry ==
  [kind : {"ok", "failed"}, probe : Ids] \cup [kind : {"end", "cancelled"}]
    \cup [kind : {"collected"}, ok : BOOLEAN]

Types ==
  /\ mode \in {"iterate", "collect"}
  /\ task \in [Ids -> {"unspawned", "running", "ok", "failed", "aborted"}]
  /\ doomed \subseteq Ids /\ killed \in BOOLEAN
  /\ driver \in [state : {"select", "sending", "over"}, window : Seq(Ids),
                 next : 1..(Probes + 1), hand : 0..Probes]
  /\ channel \in [items : Seq(Ids), open : BOOLEAN]
  /\ answers \in {"held", "lent", "none", "dropped"}
  /\ lock \in Threads \cup {NoThread}
  /\ pull \in [Threads -> [pc : {"idle", "lock", "wait", "check", "stream", "parked", "cancelled"},
                           woken : BOOLEAN]]
  /\ collector \in [state : {"none", "running", "ok", "failed", "aborted"}, got : Seq(Ids),
                    killed : BOOLEAN]
  /\ log \in Seq(Entry)

(* The window is the latest probes spawned, the hand the one before it.    *)
WindowIsLatest ==
  /\ Len(driver.window) < driver.next
  /\ \A i \in DOMAIN driver.window :
       driver.window[i] = driver.next - Len(driver.window) - 1 + i
  /\ driver.state = "sending" =>
       /\ driver.hand = driver.next - Len(driver.window) - 1
       /\ driver.hand \in Ids /\ Answered(driver.hand)
  /\ driver.state # "sending" => driver.hand = 0
  /\ driver.state = "over" => driver.window = <<>>

(* The window, with the hand, is no longer than the lookahead; a probe     *)
(* still running, aborted or not, is one of the latest lookahead.          *)
WindowIsBounded ==
  /\ Len(driver.window) <= Lookahead
  /\ driver.state = "sending" => Len(driver.window) < Lookahead
  /\ \A p \in Ids : Running(p) =>
       /\ p < driver.next /\ driver.next <= p + Lookahead
       /\ driver.state # "over" => driver.next <= p + Len(driver.window)

(* How many answers were taken from the channel while it is open.          *)
Consumed == IF mode = "collect" THEN Len(collector.got) ELSE Len(log)

(* The channel holds answers in input order, from the first not taken to   *)
(* the last before the hand or the window; a driver that is over left the  *)
(* last answer of all, or an error, at its end.                            *)
ChannelInOrder ==
  /\ Len(channel.items) <= Capacity
  /\ \A i \in DOMAIN channel.items : Answered(channel.items[i])
  /\ ~channel.open => channel.items = <<>>
  /\ channel.open =>
       /\ ~killed
       /\ \A i \in DOMAIN channel.items : channel.items[i] = Consumed + i
       /\ driver.state = "select" =>
            Consumed + Len(channel.items) = driver.next - Len(driver.window) - 1
       /\ driver.state = "sending" => Consumed + Len(channel.items) = driver.hand - 1
       /\ driver.state = "over" =>
            \/ Consumed + Len(channel.items) = Probes
            \/ /\ channel.items # <<>>
               /\ task[channel.items[Len(channel.items)]] = "failed"

(* Only the thread inside a pull holds the mutex and the stream.           *)
OnePull ==
  /\ answers = "lent" <=> lock # NoThread
  /\ \A t \in Threads : ~(At(t, "idle") \/ At(t, "lock")) <=> lock = t
  /\ answers = "dropped" => \A t \in Threads : At(t, "idle")

OkUpTo(n) ==
  n <= Len(log) /\ \A i \in 1..n : log[i].kind = "ok" /\ log[i].probe = i

(* After n answers, what ended them, and then nothing but ends.            *)
EndedAfter(n) ==
  /\ n < Len(log)
  /\ \/ log[n + 1].kind = "failed" /\ log[n + 1].probe = n + 1
     \/ log[n + 1].kind = "cancelled"
     \/ log[n + 1].kind = "end" /\ n = Probes
  /\ \A i \in (n + 2)..Len(log) : log[i].kind = "end"

Iterating ==
  /\ collector.state = "none"
  /\ channel.open <=> answers \in {"held", "lent"}
  /\ channel.open => OkUpTo(Len(log))
  /\ \E n \in Nat : OkUpTo(n) /\ (EndedAfter(n) \/ (n = Len(log) /\ answers # "none"))

Collecting ==
  /\ answers # "dropped"
  /\ channel.open <=> collector.state \in {"none", "running"}
  /\ answers = "held" <=> collector.state = "none"
  /\ answers # "none" => log = <<>>
  /\ answers = "none" =>
       /\ Len(log) = 1 /\ log[1].kind \in {"collected", "cancelled"}
       /\ \A t \in Threads : At(t, "idle")
  /\ \A t, u \in Threads : At(t, "idle") \/ At(u, "idle") \/ t = u
  /\ \A i \in DOMAIN collector.got :
       /\ collector.got[i] = i
       /\ task[i] = "ok" \/ (task[i] = "failed" /\ collector.state = "failed" /\ i = Len(collector.got))
  /\ collector.state = "failed" =>
       collector.got # <<>> /\ task[Len(collector.got)] = "failed"
  /\ collector.state = "none" => collector.got = <<>>
  /\ collector.state = "ok" => Len(collector.got) = Probes

IndInv ==
  /\ Types /\ WindowIsLatest /\ WindowIsBounded /\ ChannelInOrder /\ OnePull
  /\ mode = "iterate" => Iterating
  /\ mode = "collect" => Collecting

-----------------------------------------------------------------------------
(* Sequences                                                               *)

(* The empty sequence.                                                     *)
LEMMA EmptyFacts ==
  ASSUME NEW S
  PROVE  <<>> \in Seq(S) /\ Len(<<>>) = 0 /\ DOMAIN <<>> = {}
OBVIOUS

(* A function on 1..n is a sequence of length n.                           *)
LEMMA SeqOfLength ==
  ASSUME NEW S, NEW n \in Nat, NEW f \in [1..n -> S]
  PROVE  f \in Seq(S) /\ Len(f) = n
OBVIOUS

(* The parts of a sequence that is not empty.                              *)
LEMMA TailFacts ==
  ASSUME NEW S, NEW s \in Seq(S), s # <<>>
  PROVE  /\ Len(s) \in Nat \ {0} /\ DOMAIN s = 1..Len(s)
         /\ Head(s) = s[1] /\ Head(s) \in S /\ Tail(s) \in Seq(S)
         /\ Len(Tail(s)) = Len(s) - 1 /\ DOMAIN Tail(s) = 1..(Len(s) - 1)
         /\ \A i \in 1..(Len(s) - 1) : Tail(s)[i] = s[i + 1]
OBVIOUS

(* A sequence with one more element.                                       *)
LEMMA AppendFacts ==
  ASSUME NEW S, NEW s \in Seq(S), NEW e \in S
  PROVE  /\ Len(s) \in Nat /\ DOMAIN s = 1..Len(s)
         /\ Append(s, e) \in Seq(S) /\ Len(Append(s, e)) = Len(s) + 1
         /\ DOMAIN Append(s, e) = 1..(Len(s) + 1)
         /\ Append(s, e)[Len(s) + 1] = e
         /\ \A i \in 1..Len(s) : Append(s, e)[i] = s[i]
OBVIOUS

-----------------------------------------------------------------------------
(* The initial state *)

(* A batch just made.                                                      *)
LEMMA InitIndInv == Init => IndInv
<1> SUFFICES ASSUME Init PROVE IndInv
  OBVIOUS
<1>1. Types
  <2>1. 0 \in 0..Probes /\ 1 \in 1..(Probes + 1)
    BY BatchSizes
  <2>2. <<>> \in Seq(Ids) /\ <<>> \in Seq(Entry)
    BY EmptyFacts
  <2>3. driver \in [state : {"select", "sending", "over"}, window : Seq(Ids),
                    next : 1..(Probes + 1), hand : 0..Probes]
    BY <2>1, <2>2 DEF Init
  <2> QED
    BY <2>2, <2>3 DEF Init, Types
<1>2. WindowIsLatest /\ WindowIsBounded
  BY BatchSizes DEF Init, WindowIsLatest, WindowIsBounded, Running, Ids
<1>3. ChannelInOrder
  BY BatchSizes DEF Init, ChannelInOrder, Consumed, Capacity
<1>4. OnePull
  BY BatchSizes DEF Init, OnePull, At
<1>5. Iterating
  <2>1. OkUpTo(0) /\ 0 = Len(log) /\ 0 \in Nat
    BY DEF Init, OkUpTo
  <2> QED
    BY <2>1 DEF Init, Iterating
<1>6. Collecting
  BY DEF Init, Collecting, At
<1> QED
  BY <1>1, <1>2, <1>3, <1>4, <1>5, <1>6 DEF IndInv

-----------------------------------------------------------------------------
(* Steps of the probes, of the driver and of the token                     *)

(* A probe that runs answers or stops; an answer given stays.              *)
LEMMA ProbeKeeps ==
  ASSUME IndInv, NEW p \in Ids, Finish(p) \/ Stop(p)
  PROVE  IndInv'
<1>1. PICK o \in {"ok", "failed", "aborted"} : task' = [task EXCEPT ![p] = o]
  BY DEF Finish, Stop
<1>2. /\ task[p] = "running"
      /\ UNCHANGED <<mode, doomed, driver, killed, channel, answers, lock, pull, collector, log>>
  BY DEF Finish, Stop, Running
<1>3. \A q \in Ids : task'[q] = task[q] \/ (task[q] = "running" /\ task'[q] # "running")
  BY <1>1, <1>2 DEF IndInv, Types
<1>4. Types'
  BY <1>1, <1>2 DEF IndInv, Types
<1>5. WindowIsLatest'
  BY <1>2, <1>3 DEF IndInv, WindowIsLatest, Answered
<1>6. WindowIsBounded'
  BY <1>2, <1>3 DEF IndInv, WindowIsBounded, Running
<1>7. ChannelInOrder'
  <2>1. \A i \in DOMAIN channel.items : channel.items[i] \in Ids
    BY DEF IndInv, Types
  <2>2. \A i \in DOMAIN channel.items : task'[channel.items[i]] = task[channel.items[i]]
    BY <1>3, <2>1 DEF IndInv, ChannelInOrder, Answered
  <2>3. channel.items # <<>> => Len(channel.items) \in DOMAIN channel.items
    BY DEF IndInv, Types
  <2> QED
    BY <1>2, <2>2, <2>3 DEF IndInv, ChannelInOrder, Answered, Consumed
<1>8. OnePull'
  BY <1>2 DEF IndInv, OnePull, At
<1>9. mode = "iterate" => Iterating'
  BY <1>2 DEF IndInv, Iterating, OkUpTo, EndedAfter
<1>10. mode = "collect" => Collecting'
  <2> SUFFICES ASSUME mode = "collect" PROVE Collecting'
    OBVIOUS
  <2>1. Collecting
    BY DEF IndInv
  <2>2. \A i \in DOMAIN collector.got : i \in Ids /\ task'[i] = task[i]
    BY <1>3, <2>1 DEF IndInv, Types, Collecting
  <2>3. collector.got # <<>> => Len(collector.got) \in DOMAIN collector.got
    BY DEF IndInv, Types
  <2> QED
    BY <1>2, <2>1, <2>2, <2>3 DEF Collecting, At
<1> QED
  BY <1>2, <1>4, <1>5, <1>6, <1>7, <1>8, <1>9, <1>10 DEF IndInv

(* The calls' part of the invariant reads nothing of the driver.           *)
LEMMA CallsKept ==
  ASSUME IndInv, UNCHANGED <<mode, task, answers, lock, pull, collector, log>>,
         channel'.open = channel.open
  PROVE  OnePull' /\ (mode = "iterate" => Iterating') /\ (mode = "collect" => Collecting')
BY DEF IndInv, OnePull, Iterating, Collecting, OkUpTo, EndedAfter, At

(* The driver ends: the channel is closed, or all was forwarded.           *)
LEMMA DriverOverKeeps ==
  ASSUME IndInv, DriverOver, UNCHANGED <<mode, answers, lock, pull, collector, log>>,
         channel.open => Consumed + Len(channel.items) = Probes
  PROVE  IndInv'
<1> DEFINE d == [driver EXCEPT !.state = "over", !.window = <<>>, !.hand = 0]
<1>1. /\ driver' = d /\ doomed' = doomed \cup Held(driver.window)
      /\ UNCHANGED <<task, killed, channel>>
  BY DEF DriverOver
<1>2. /\ d \in [state : {"select", "sending", "over"}, window : Seq(Ids),
                next : 1..(Probes + 1), hand : 0..Probes]
      /\ d.state = "over" /\ d.window = <<>> /\ d.hand = 0 /\ d.next = driver.next
  <2>1. 0 \in 0..Probes /\ <<>> \in Seq(Ids)
    BY BatchSizes, EmptyFacts
  <2> QED
    BY <2>1 DEF IndInv, Types
<1> HIDE DEF d
<1>3. Held(driver.window) \subseteq Ids
  BY DEF IndInv, Types, Held
<1>4. Types'
  BY <1>1, <1>2, <1>3 DEF IndInv, Types
<1>5. WindowIsLatest' /\ WindowIsBounded'
  <2>1. Len(d.window) = 0 /\ driver.next \in 1..(Probes + 1)
    BY <1>2 DEF IndInv, Types
  <2> QED
    BY <1>1, <1>2, <2>1, BatchSizes DEF IndInv, WindowIsLatest, WindowIsBounded, Running
<1>6. ChannelInOrder'
  BY <1>1, <1>2 DEF IndInv, ChannelInOrder, Answered, Consumed
<1> QED
  BY <1>1, <1>4, <1>5, <1>6, CallsKept DEF IndInv

(* The n probes from next on.                                              *)
NewProbes(next, n) == [i \in 1..n |-> next + i - 1]

(* The probes a driver starts are the next ones, in order.                 *)
LEMMA NewProbesFacts ==
  ASSUME NEW next \in Nat \ {0}, NEW n \in Nat, next + n <= Probes + 1
  PROVE  /\ NewProbes(next, n) \in Seq(Ids) /\ Len(NewProbes(next, n)) = n
         /\ \A i \in 1..n : NewProbes(next, n)[i] = next + i - 1
         /\ Held(NewProbes(next, n)) = next..(next + n - 1)
<1> DEFINE new == NewProbes(next, n)
<1>1. \A i \in 1..n : next + i - 1 \in Ids
  BY BatchSizes DEF Ids
<1>2. /\ new \in [1..n -> Ids] /\ DOMAIN new = 1..n
      /\ \A i \in 1..n : new[i] = next + i - 1
  BY <1>1 DEF NewProbes
<1> HIDE DEF new
<1>3. new \in Seq(Ids) /\ Len(new) = n
  BY <1>2, SeqOfLength
<1>4. Held(new) = next..(next + n - 1)
  <2>1. ASSUME NEW q \in next..(next + n - 1) PROVE q \in Held(new)
    <3>1. (q - next + 1) \in 1..n /\ next + (q - next + 1) - 1 = q
      OBVIOUS
    <3>2. new[q - next + 1] = q
      BY <3>1, <1>2
    <3> QED
      BY <1>2, <3>1, <3>2 DEF Held
  <2>2. ASSUME NEW q \in Held(new) PROVE q \in next..(next + n - 1)
    <3>1. PICK i \in 1..n : q = new[i]
      BY <1>2 DEF Held
    <3>2. q = next + i - 1
      BY <1>2, <3>1
    <3> QED
      BY <3>2
  <2> QED
    BY <2>1, <2>2
<1> QED
  BY <1>2, <1>3, <1>4 DEF new

(* A window of consecutive probes, filled with the n that come next.       *)
LEMMA FilledWindow ==
  ASSUME NEW window \in Seq(Ids), NEW new \in Seq(Ids), NEW next \in Nat,
         Len(window) < next,
         \A i \in 1..Len(window) : window[i] = next - Len(window) - 1 + i,
         \A i \in 1..Len(new) : new[i] = next + i - 1
  PROVE  /\ window \o new \in Seq(Ids) /\ Len(window \o new) = Len(window) + Len(new)
         /\ \A i \in 1..(Len(window) + Len(new)) : (window \o new)[i] = next - Len(window) - 1 + i
<1>1. /\ window \o new \in Seq(Ids) /\ Len(window \o new) = Len(window) + Len(new)
      /\ Len(window) \in Nat /\ Len(new) \in Nat
  OBVIOUS
<1>2. ASSUME NEW i \in 1..(Len(window) + Len(new))
      PROVE  (window \o new)[i] = next - Len(window) - 1 + i
  <2>1. CASE i <= Len(window)
    BY <1>1, <2>1
  <2>2. CASE i > Len(window)
    <3>1. i - Len(window) \in 1..Len(new)
      BY <1>1, <2>2
    <3>2. (window \o new)[i] = new[i - Len(window)]
      BY <1>1, <2>2
    <3>3. new[i - Len(window)] = next + (i - Len(window)) - 1
      BY <3>1
    <3> QED
      BY <1>1, <3>2, <3>3
  <2> QED
    BY <1>1, <2>1, <2>2
<1> QED
  BY <1>1, <1>2

(* The first of such a window, and the rest.                               *)
LEMMA WindowHead ==
  ASSUME NEW w \in Seq(Ids), w # <<>>, NEW from \in Nat,
         \A i \in 1..Len(w) : w[i] = from + i
  PROVE  /\ Head(w) = from + 1 /\ Head(w) \in Ids /\ Len(w) \in Nat \ {0}
         /\ DOMAIN w = 1..Len(w)
         /\ Tail(w) \in Seq(Ids) /\ Len(Tail(w)) = Len(w) - 1
         /\ DOMAIN Tail(w) = 1..(Len(w) - 1)
         /\ \A i \in 1..(Len(w) - 1) : Tail(w)[i] = from + 1 + i
<1>1. /\ Len(w) \in Nat \ {0} /\ Head(w) = w[1] /\ Head(w) \in Ids /\ DOMAIN w = 1..Len(w)
      /\ Tail(w) \in Seq(Ids) /\ Len(Tail(w)) = Len(w) - 1 /\ DOMAIN Tail(w) = 1..(Len(w) - 1)
      /\ \A i \in 1..(Len(w) - 1) : Tail(w)[i] = w[i + 1]
  BY TailFacts
<1>2. ASSUME NEW i \in 1..(Len(w) - 1) PROVE Tail(w)[i] = from + 1 + i
  <2>1. i + 1 \in 1..Len(w) /\ Tail(w)[i] = w[i + 1]
    BY <1>1
  <2>2. w[i + 1] = from + (i + 1)
    BY <2>1
  <2> QED
    BY <1>1, <2>1, <2>2
<1> QED
  BY <1>1, <1>2

(* How many probes there is room for and are left.                         *)
LEMMA SpawnedFits ==
  ASSUME NEW room \in Nat, NEW more \in Nat, NEW n, n = IF room < more THEN room ELSE more
  PROVE  n \in Nat /\ n <= room /\ n <= more /\ (room # 0 /\ more # 0 => n > 0)
OBVIOUS

(* The window is filled with the next probes; its first, once it answered, *)
(* goes into the driver's hand.                                            *)
LEMMA PolledKeeps ==
  ASSUME IndInv, driver.state = "select", channel.open,
         ~(driver.window = <<>> /\ Left = 0), Polled,
         UNCHANGED <<mode, answers, lock, pull, collector, log>>
  PROVE  IndInv'
<1> DEFINE n == Spawned
           new == [i \in 1..n |-> driver.next + i - 1]
           w == driver.window \o new
           ready == task'[Head(w)] \in {"ok", "failed"}
<1>1. /\ task' = [p \in Ids |-> IF p \in Held(new) THEN "running" ELSE task[p]]
      /\ driver' = [state  |-> IF ready THEN "sending" ELSE "select",
                    window |-> IF ready THEN Tail(w) ELSE w,
                    next   |-> driver.next + n,
                    hand   |-> IF ready THEN Head(w) ELSE 0]
      /\ UNCHANGED <<doomed, killed, channel>>
  BY DEF Polled
<1> DEFINE next == driver.next
           len == Len(driver.window)
           from == next - len - 1
<1>2. /\ next \in Nat \ {0} /\ next <= Probes + 1 /\ len \in Nat /\ len <= Lookahead
      /\ len < next /\ Probes \in Nat /\ Lookahead \in Nat \ {0}
  BY BatchSizes DEF IndInv, Types, WindowIsBounded, WindowIsLatest
<1>3. /\ driver.window \in Seq(Ids) /\ (driver.window # <<>> => len > 0)
      /\ \A i \in DOMAIN driver.window : driver.window[i] = next - len - 1 + i
  BY DEF IndInv, Types, WindowIsLatest
<1>4. n \in Nat /\ next + n <= Probes + 1 /\ len + n <= Lookahead /\ len + n > 0
  <2>1. Room = Lookahead - len /\ Left = Probes + 1 - next
    BY DEF Room, Left
  <2>2. len = 0 => Left # 0
    BY <1>3
  <2> HIDE DEF next, len
  <2>3. Room \in Nat /\ Left \in Nat
    BY <1>2, <2>1
  <2>4. /\ n \in Nat /\ n <= Room /\ n <= Left
        /\ Room # 0 /\ Left # 0 => n > 0
    BY <2>3, SpawnedFits DEF Spawned
  <2> HIDE DEF n
  <2> QED
    BY <1>2, <2>1, <2>2, <2>4
<1> HIDE DEF n
<1>5. /\ Held(new) = next..(next + n - 1)
      /\ w \in Seq(Ids) /\ Len(w) = len + n
      /\ \A i \in 1..(len + n) : w[i] = next - len - 1 + i
  <2>1. new = NewProbes(next, n)
    BY DEF NewProbes
  <2> HIDE DEF new
  <2>2. /\ new \in Seq(Ids) /\ Len(new) = n /\ Held(new) = next..(next + n - 1)
        /\ \A i \in 1..n : new[i] = next + i - 1
    <3> HIDE DEF next
    <3> QED
      BY <1>2, <1>4, <2>1, NewProbesFacts
  <2> DEFINE window == driver.window
  <2>3. /\ window \in Seq(Ids) /\ Len(window) < next /\ len = Len(window)
        /\ \A i \in 1..Len(window) : window[i] = next - Len(window) - 1 + i
    BY <1>2, <1>3
  <2>4. w = window \o new
    OBVIOUS
  <2> HIDE DEF window, next, len, w
  <2>5. /\ window \o new \in Seq(Ids) /\ Len(window \o new) = len + n
        /\ \A i \in 1..(len + n) : (window \o new)[i] = next - len - 1 + i
    BY <1>2, <2>2, <2>3, FilledWindow
  <2> QED
    BY <2>2, <2>4, <2>5
<1> HIDE DEF new, w, next, len
<1>6. /\ from \in Nat /\ next = from + len + 1 /\ Len(w) \in Nat \ {0}
      /\ \A i \in 1..Len(w) : w[i] = from + i
  <2>1. Len(w) = len + n /\ Len(w) \in Nat \ {0}
    BY <1>2, <1>4, <1>5
  <2>2. from \in Nat /\ next = from + len + 1 /\ from = next - len - 1
    BY <1>2
  <2> HIDE DEF from
  <2>3. \A i \in 1..Len(w) : w[i] = from + i
    BY <1>5, <2>1, <2>2
  <2> QED
    BY <2>1, <2>2, <2>3
<1> HIDE DEF from
<1>7. /\ Head(w) = from + 1 /\ Head(w) \in Ids /\ Len(w) \in Nat \ {0}
      /\ DOMAIN w = 1..Len(w)
      /\ Tail(w) \in Seq(Ids) /\ Len(Tail(w)) = Len(w) - 1
      /\ DOMAIN Tail(w) = 1..(Len(w) - 1)
      /\ \A i \in 1..(Len(w) - 1) : Tail(w)[i] = from + 1 + i
  <2>1. w # <<>>
    BY <1>6, EmptyFacts
  <2> QED
    BY <1>5, <1>6, <2>1, WindowHead
<1>8. /\ driver'.next = next + n
      /\ ready => driver'.state = "sending" /\ driver'.window = Tail(w) /\ driver'.hand = from + 1
      /\ ~ready => driver'.state = "select" /\ driver'.window = w /\ driver'.hand = 0
      /\ driver' \in [state : {"select", "sending", "over"}, window : Seq(Ids),
                      next : 1..(Probes + 1), hand : 0..Probes]
  <2>1. next + n \in 1..(Probes + 1) /\ Head(w) \in 0..Probes /\ 0 \in 0..Probes
    BY <1>2, <1>4, <1>7 DEF Ids
  <2> QED
    BY <1>1, <1>5, <1>7, <2>1 DEF next
<1>9. /\ \A p \in Ids : task'[p] = "running" => task[p] = "running" \/ next <= p
      /\ \A p \in Ids : task'[p] = "running" => p < next + n
      /\ \A p \in Ids : p < next => task'[p] = task[p]
  <2>1. \A p \in Ids : p \in Nat /\ (task[p] = "running" => p < next)
    BY DEF IndInv, WindowIsBounded, Running, Ids, next
  <2>2. \A p \in Ids : p \in Held(new) <=> next <= p /\ p < next + n
    BY <1>2, <1>4, <1>5, <2>1
  <2> HIDE DEF ready
  <2> QED
    BY <1>1, <1>2, <1>4, <2>1, <2>2
<1>10. Types'
  BY <1>1, <1>8 DEF IndInv, Types
<1>11. WindowIsLatest'
  <2>1. CASE ready
    <3>1. Len(Tail(w)) < next + n /\ from + 1 = (next + n) - Len(Tail(w)) - 1
      BY <1>2, <1>4, <1>5, <1>6, <1>7
    <3>2. \A i \in DOMAIN Tail(w) : Tail(w)[i] = (next + n) - Len(Tail(w)) - 1 + i
      BY <1>7, <3>1
    <3> QED
      BY <1>7, <1>8, <2>1, <3>1, <3>2 DEF WindowIsLatest, Answered
  <2>2. CASE ~ready
    <3>1. Len(w) < next + n /\ from = (next + n) - Len(w) - 1
      BY <1>2, <1>4, <1>5, <1>6
    <3>2. \A i \in DOMAIN w : w[i] = (next + n) - Len(w) - 1 + i
      BY <1>6, <1>7, <3>1
    <3> HIDE DEF ready
    <3> QED
      BY <1>8, <2>2, <3>1, <3>2 DEF WindowIsLatest
  <2> QED
    BY <2>1, <2>2
<1>12. WindowIsBounded'
  <2>1. ASSUME NEW p \in Ids, task'[p] = "running"
        PROVE  /\ p < next + n /\ next + n <= p + Len(w) /\ next + n <= p + Lookahead
               /\ ready => next + n <= p + Len(Tail(w))
    <3>1. p \in Nat /\ (task[p] = "running" => next <= p + len)
      BY DEF IndInv, WindowIsBounded, Running, Ids, next, len
    <3>2. ready => p # from + 1
      BY <1>7, <2>1
    <3>3. next <= p + len
      BY <1>2, <1>9, <2>1, <3>1
    <3> HIDE DEF ready
    <3>4. p < next + n /\ next + n <= p + Len(w)
      BY <1>2, <1>4, <1>5, <1>9, <2>1, <3>1, <3>3
    <3> QED
      BY <1>2, <1>4, <1>5, <1>6, <1>7, <3>1, <3>2, <3>4
  <2>2. Len(w) <= Lookahead /\ Len(Tail(w)) < Lookahead /\ Len(Tail(w)) <= Lookahead
    BY <1>2, <1>4, <1>5, <1>7
  <2> HIDE DEF ready
  <2>3. CASE ready
    BY <1>8, <2>1, <2>2, <2>3 DEF WindowIsBounded, Running
  <2>4. CASE ~ready
    BY <1>8, <2>1, <2>2, <2>4 DEF WindowIsBounded, Running
  <2> QED
    BY <2>3, <2>4
<1>13. ChannelInOrder'
  <2>1. Consumed' = Consumed
    BY DEF Consumed
  <2>2. /\ Consumed \in Nat /\ Len(channel.items) \in Nat
        /\ DOMAIN channel.items = 1..Len(channel.items)
        /\ \A i \in DOMAIN channel.items : channel.items[i] \in Ids
    BY DEF IndInv, Types, Consumed
  <2>3. /\ \A i \in DOMAIN channel.items : channel.items[i] = Consumed + i
        /\ Consumed + Len(channel.items) = from
    BY DEF IndInv, ChannelInOrder, from, next, len
  <2>4. \A i \in DOMAIN channel.items : channel.items[i] < next
    BY <1>2, <1>6, <2>2, <2>3, SMTT(30)
  <2>5. \A i \in DOMAIN channel.items : Answered(channel.items[i])'
    BY <1>1, <1>9, <2>2, <2>4 DEF IndInv, ChannelInOrder, Answered
  <2> HIDE DEF ready
  <2>6. CASE ready
    <3>1. Consumed + Len(channel.items) = driver'.hand - 1
      BY <1>6, <1>8, <2>3, <2>6
    <3> QED
      BY <1>1, <1>8, <2>1, <2>5, <2>6, <3>1 DEF IndInv, ChannelInOrder
  <2>7. CASE ~ready
    <3>1. from = (next + n) - Len(w) - 1
      <4>1. len \in Nat /\ n \in Nat /\ Len(w) = len + n
        BY <1>2, <1>4, <1>5
      <4>2. from \in Nat /\ next = from + len + 1
        BY <1>6
      <4> QED
        BY <4>1, <4>2
    <3>2. Consumed + Len(channel.items) = driver'.next - Len(driver'.window) - 1
      BY <1>8, <2>3, <2>7, <3>1
    <3> QED
      BY <1>1, <1>8, <2>1, <2>5, <2>7, <3>2 DEF IndInv, ChannelInOrder
  <2> QED
    BY <2>6, <2>7
<1>14. OnePull' /\ (mode = "iterate" => Iterating')
  BY <1>1 DEF IndInv, OnePull, Iterating, OkUpTo, EndedAfter, At
<1>15. mode = "collect" => Collecting'
  <2> SUFFICES ASSUME mode = "collect" PROVE Collecting'
    OBVIOUS
  <2>1. Collecting
    BY DEF IndInv
  <2>2. \A i \in DOMAIN collector.got : i \in Ids
    BY <2>1 DEF IndInv, Types, Collecting
  <2>3. collector.state \in {"none", "running"}
    BY <2>1 DEF Collecting
  <2>4. /\ DOMAIN collector.got = 1..Len(collector.got) /\ Len(collector.got) \in Nat
        /\ Len(channel.items) \in Nat /\ Len(collector.got) + Len(channel.items) = from
    BY DEF IndInv, ChannelInOrder, Consumed, Types, from, next, len
  <2>5. \A i \in DOMAIN collector.got : i < next
    <3> DEFINE g == Len(collector.got)
               m == Len(channel.items)
    <3>1. g \in Nat /\ m \in Nat /\ g + m = from /\ DOMAIN collector.got = 1..g
      BY <2>4
    <3> HIDE DEF g, m
    <3>2. from \in Nat /\ len \in Nat /\ next \in Nat /\ next = from + len + 1
      BY <1>2, <1>6
    <3>3. g < next
      BY <3>1, <3>2
    <3> QED
      BY <3>1, <3>2, <3>3
  <2>6. \A i \in DOMAIN collector.got : task'[i] = task[i]
    BY <1>9, <2>2, <2>5
  <2> QED
    BY <1>1, <2>1, <2>3, <2>6 DEF Collecting, At
<1> QED
  BY <1>1, <1>10, <1>11, <1>12, <1>13, <1>14, <1>15 DEF IndInv

(* The answer in hand goes into the channel, if a receiver is left; an     *)
(* error is the last to go.                                                *)
LEMMA SendKeeps ==
  ASSUME IndInv, DriverSend
  PROVE  IndInv'
<1>1. driver.state = "sending" /\ Sent /\ UNCHANGED <<mode, answers, lock, pull, collector, log>>
  BY DEF DriverSend
<1>2. CASE ~channel.open
  BY <1>1, <1>2, DriverOverKeeps DEF Sent
<1>3. CASE channel.open
  <2> DEFINE items == channel.items
             hand == driver.hand
             failed == task[hand] = "failed"
             d == IF failed THEN [driver EXCEPT !.state = "over", !.window = <<>>, !.hand = 0]
                  ELSE [driver EXCEPT !.state = "select", !.hand = 0]
  <2>1. /\ Len(items) < Capacity
        /\ channel' = [channel EXCEPT !.items = Append(items, hand)]
        /\ driver' = d /\ UNCHANGED <<task, killed>>
        /\ doomed' = IF failed THEN doomed \cup Held(driver.window) ELSE doomed
    BY <1>1, <1>3 DEF Sent
  <2>2. /\ items \in Seq(Ids) /\ hand \in Ids /\ Answered(hand) /\ Len(items) \in Nat
        /\ hand = driver.next - Len(driver.window) - 1 /\ hand \in Nat
        /\ Consumed + Len(items) = hand - 1 /\ Consumed \in Nat
    BY <1>1, <1>3 DEF IndInv, Types, WindowIsLatest, ChannelInOrder, Ids, Consumed
  <2>3. /\ Append(items, hand) \in Seq(Ids) /\ Len(Append(items, hand)) = Len(items) + 1
        /\ DOMAIN Append(items, hand) = 1..(Len(items) + 1)
        /\ Append(items, hand)[Len(items) + 1] = hand
        /\ \A i \in 1..Len(items) : Append(items, hand)[i] = items[i]
        /\ DOMAIN items = 1..Len(items) /\ Append(items, hand) # <<>>
    BY <2>2, AppendFacts, EmptyFacts
  <2>4. /\ channel' \in [items : Seq(Ids), open : BOOLEAN]
        /\ channel'.items = Append(items, hand) /\ channel'.open
    BY <1>3, <2>1, <2>3 DEF IndInv, Types
  <2>5. /\ d \in [state : {"select", "sending", "over"}, window : Seq(Ids),
                  next : 1..(Probes + 1), hand : 0..Probes]
        /\ d.next = driver.next /\ d.hand = 0
        /\ failed => d.state = "over" /\ d.window = <<>>
        /\ ~failed => d.state = "select" /\ d.window = driver.window
    <3>1. 0 \in 0..Probes /\ <<>> \in Seq(Ids)
      BY BatchSizes, EmptyFacts
    <3> QED
      BY <3>1 DEF IndInv, Types
  <2>6. Held(driver.window) \subseteq Ids
    BY DEF IndInv, Types, Held
  <2> HIDE DEF d
  <2>7. Types'
    BY <1>1, <2>1, <2>4, <2>5, <2>6 DEF IndInv, Types
  <2>8. WindowIsLatest' /\ WindowIsBounded'
    <3>1. Len(<<>>) = 0 /\ driver.next \in Nat \ {0} /\ Lookahead \in Nat \ {0} /\ DOMAIN <<>> = {}
      BY BatchSizes, EmptyFacts DEF IndInv, Types
    <3>2. CASE failed
      BY <2>1, <2>5, <3>1, <3>2 DEF IndInv, WindowIsLatest, WindowIsBounded, Running
    <3>3. CASE ~failed
      BY <1>1, <2>1, <2>5, <3>3 DEF IndInv, WindowIsLatest, WindowIsBounded, Running
    <3> QED
      BY <3>2, <3>3
  <2>9. ChannelInOrder'
    <3>1. Consumed' = Consumed
      BY <1>1 DEF Consumed
    <3>2. \A i \in 1..Len(items) : Answered(items[i]) /\ items[i] = Consumed + i
      BY <1>3, <2>3 DEF IndInv, ChannelInOrder
    <3>3. ~killed
      BY <1>3 DEF IndInv, ChannelInOrder
    <3>4. Len(channel'.items) = Len(items) + 1 /\ Len(channel'.items) <= Capacity
      <4>1. Capacity \in Nat
        BY BatchSizes DEF Capacity
      <4> QED
        BY <2>1, <2>2, <2>3, <2>4, <4>1
    <3>5. \A i \in DOMAIN channel'.items :
            task'[channel'.items[i]] \in {"ok", "failed"} /\ channel'.items[i] = Consumed + i
      <4> SUFFICES ASSUME NEW i \in 1..(Len(items) + 1)
                   PROVE  /\ task'[channel'.items[i]] \in {"ok", "failed"}
                          /\ channel'.items[i] = Consumed + i
        BY <2>3, <2>4
      <4>1. CASE i \in 1..Len(items)
        BY <2>1, <2>3, <2>4, <3>2, <4>1 DEF Answered
      <4>2. CASE i = Len(items) + 1
        <5>1. Consumed + (Len(items) + 1) = hand
          BY <2>2
        <5> QED
          BY <2>1, <2>2, <2>3, <2>4, <4>2, <5>1 DEF Answered
      <4> QED
        BY <2>2, <4>1, <4>2, SMTT(30)
    <3>6. Consumed + Len(channel'.items) = hand
      BY <2>2, <3>4
    <3>7. ~failed => Consumed + Len(channel'.items) = driver'.next - Len(driver'.window) - 1
      BY <2>1, <2>2, <2>5, <3>6
    <3>8. failed => task'[channel'.items[Len(channel'.items)]] = "failed"
      BY <2>1, <2>3, <2>4, <3>4
    <3>9. driver'.state = IF failed THEN "over" ELSE "select"
      BY <2>1, <2>5
    <3> HIDE DEF failed
    <3>10. channel'.items # <<>> /\ channel'.open /\ ~killed'
      BY <2>1, <2>3, <2>4, <3>3
    <3> QED
      BY <3>1, <3>4, <3>5, <3>7, <3>8, <3>9, <3>10 DEF ChannelInOrder, Answered
  <2>10. channel'.open = channel.open
    BY <2>1 DEF IndInv, Types
  <2> QED
    BY <1>1, <2>1, <2>7, <2>8, <2>9, <2>10, CallsKept DEF IndInv
<1> QED
  BY <1>2, <1>3

(* No probe is left to spawn.                                              *)
LEMMA NoneLeft ==
  ASSUME IndInv, Left = 0
  PROVE  driver.next - 0 - 1 = Probes
<1>1. driver.next \in Nat /\ Probes \in Nat
  BY BatchSizes DEF IndInv, Types
<1>2. Probes + 1 - driver.next = 0
  BY DEF Left
<1> QED
  BY <1>1, <1>2

(* The driver selects, sends and stops.                                    *)
LEMMA DriverKeeps ==
  ASSUME IndInv, DriverStep
  PROVE  IndInv'
<1>1. CASE DriverSelect
  <2>1. driver.state = "select" /\ UNCHANGED <<mode, answers, lock, pull, collector, log>>
    BY <1>1 DEF DriverSelect
  <2>2. CASE channel.open /\ ~(driver.window = <<>> /\ Left = 0)
    BY <1>1, <2>1, <2>2, PolledKeeps DEF DriverSelect
  <2>3. CASE ~channel.open \/ (driver.window = <<>> /\ Left = 0)
    <3>1. DriverOver
      BY <1>1, <2>3 DEF DriverSelect
    <3>2. channel.open => Consumed + Len(channel.items) = Probes
      <4> SUFFICES ASSUME channel.open PROVE Consumed + Len(channel.items) = Probes
        OBVIOUS
      <4>1. Left = 0 /\ Len(driver.window) = 0
        BY <2>3, EmptyFacts
      <4>2. Consumed + Len(channel.items) = driver.next - Len(driver.window) - 1
        BY <2>1 DEF IndInv, ChannelInOrder
      <4> QED
        BY <4>1, <4>2, NoneLeft
    <3> QED
      BY <2>1, <3>1, <3>2, DriverOverKeeps
  <2> QED
    BY <2>2, <2>3
<1>2. CASE DriverSend
  BY <1>2, SendKeeps
<1>3. CASE DriverStop
  <2>1. killed /\ DriverOver /\ UNCHANGED <<mode, answers, lock, pull, collector, log>>
    BY <1>3 DEF DriverStop
  <2>2. ~channel.open
    BY <2>1 DEF IndInv, ChannelInOrder
  <2> QED
    BY <2>1, <2>2, DriverOverKeeps
<1> QED
  BY <1>1, <1>2, <1>3 DEF DriverStep

-----------------------------------------------------------------------------
(* Steps of the calls                                                      *)

(* A thread calls, or moves inside its pull.                               *)
LEMMA PullMoves ==
  ASSUME IndInv, NEW t \in Threads, NEW pc, NEW woken,
         pull' = [pull EXCEPT ![t] = [pc |-> pc, woken |-> woken]],
         [pc |-> pc, woken |-> woken] \in
           [pc : {"idle", "lock", "wait", "check", "stream", "parked", "cancelled"}, woken : BOOLEAN],
         pc # "idle",
         pc = "lock" <=> At(t, "idle"), ~At(t, "lock"),
         At(t, "idle") => answers # "dropped",
         At(t, "idle") /\ mode = "collect" => answers = "held" /\ \A u \in Threads : At(u, "idle"),
         UNCHANGED <<mode, flow, answers, lock, collector, log>>
  PROVE  IndInv'
<1>1. /\ pull'[t].pc = pc /\ \A u \in Threads : u # t => pull'[u] = pull[u]
  BY DEF IndInv, Types
<1>2. Types'
  BY DEF IndInv, Types, flow
<1>3. WindowIsLatest' /\ WindowIsBounded' /\ ChannelInOrder'
  BY DEF IndInv, WindowIsLatest, WindowIsBounded, ChannelInOrder, Answered, Running, Consumed, flow
<1>4. OnePull'
  BY <1>1 DEF IndInv, OnePull, At
<1>5. mode = "iterate" => Iterating'
  BY DEF IndInv, Iterating, OkUpTo, EndedAfter, flow
<1>6. mode = "collect" => Collecting'
  <2> SUFFICES ASSUME mode = "collect" PROVE Collecting'
    OBVIOUS
  <2>1. Collecting
    BY DEF IndInv
  <2>2. answers # "none"
    BY <2>1 DEF Collecting
  <2>3. \A u, v \in Threads : At(u, "idle")' \/ At(v, "idle")' \/ u = v
    <3> SUFFICES ASSUME NEW u \in Threads, NEW v \in Threads, u # v
                 PROVE  At(u, "idle")' \/ At(v, "idle")'
      OBVIOUS
    <3> QED
      BY <1>1, <2>1 DEF Collecting, At
  <2> QED
    BY <2>1, <2>2, <2>3 DEF Collecting, flow
<1> QED
  BY <1>2, <1>3, <1>4, <1>5, <1>6 DEF IndInv

(* A caller that calls or waits for a token moves no item.                 *)
LEMMA WaitingKeeps ==
  ASSUME IndInv, NEW t \in Threads, Call(t) \/ AwaitToken(t) \/ PollToken(t)
  PROVE  IndInv'
<1>1. /\ pull \in [Threads -> [pc : {"idle", "lock", "wait", "check", "stream", "parked", "cancelled"},
                               woken : BOOLEAN]]
      /\ UNCHANGED <<mode, flow, answers, lock, collector, log>>
  BY DEF IndInv, Types, Call, AwaitToken, PollToken
<1>2. ASSUME NEW pc, Goto(t, pc)
      PROVE  pull' = [pull EXCEPT ![t] = [pc |-> pc, woken |-> pull[t].woken]]
  <2>1. pull' = [pull EXCEPT ![t] = [pull[t] EXCEPT !.pc = pc]]
    BY <1>2 DEF Goto
  <2>2. pull[t] \in [pc : {"idle", "lock", "wait", "check", "stream", "parked", "cancelled"},
                     woken : BOOLEAN]
    BY <1>1
  <2>3. [pull[t] EXCEPT !.pc = pc] = [pc |-> pc, woken |-> pull[t].woken]
    BY <2>2
  <2> QED
    BY <2>1, <2>3
<1>3. CASE Call(t)
  BY <1>1, <1>2, <1>3, PullMoves DEF Call, At
<1>4. CASE AwaitToken(t)
  <2>1. CASE At(t, "wait")
    <3>1. pull' = [pull EXCEPT ![t] = [pc |-> "check", woken |-> token = "woken"]]
      BY <1>4, <2>1 DEF AwaitToken, Wait, At
    <3> DEFINE woken == token = "woken"
    <3>2. woken \in BOOLEAN
      OBVIOUS
    <3> HIDE DEF woken
    <3> QED
      BY <1>1, <2>1, <3>1, <3>2, PullMoves DEF At, woken
  <2>2. CASE At(t, "check")
    <3>1. Goto(t, "cancelled") \/ Goto(t, "stream")
      BY <1>4, <2>2 DEF AwaitToken, Wait, At
    <3> QED
      BY <1>1, <1>2, <2>2, <3>1, PullMoves DEF At
  <2> QED
    BY <1>4, <2>1, <2>2 DEF AwaitToken, Wait
<1>5. CASE PollToken(t)
  BY <1>1, <1>2, <1>5, PullMoves DEF PollToken, At
<1> QED
  BY <1>3, <1>4, <1>5

(* The window reads nothing of the calls.                                  *)
LEMMA WindowKept ==
  ASSUME IndInv, UNCHANGED <<task, driver>>
  PROVE  WindowIsLatest' /\ WindowIsBounded'
BY DEF IndInv, WindowIsLatest, WindowIsBounded, Answered, Running

(* A closed and emptied channel is in order.                               *)
LEMMA ChannelClosed ==
  ASSUME IndInv, channel'.items = <<>>, channel'.open = FALSE
  PROVE  ChannelInOrder'
<1>1. Len(<<>>) = 0 /\ DOMAIN <<>> = {} /\ Capacity \in Nat
  BY EmptyFacts, BatchSizes DEF Capacity
<1> QED
  BY <1>1 DEF ChannelInOrder

(* The first answer of the channel taken, an answer and not an error.      *)
LEMMA AnswerTaken ==
  ASSUME IndInv, channel.open, channel.items # <<>>, task[Head(channel.items)] = "ok",
         UNCHANGED <<task, driver, killed>>,
         channel' = [channel EXCEPT !.items = Tail(channel.items)],
         Consumed' = Consumed + 1
  PROVE  /\ channel' \in [items : Seq(Ids), open : BOOLEAN] /\ channel'.open
         /\ ChannelInOrder' /\ Head(channel.items) = Consumed + 1
<1> DEFINE items == channel.items
           rest == Tail(items)
           c == Consumed
           k == Len(items)
<1>1. items \in Seq(Ids) /\ c \in Nat
  BY DEF IndInv, Types, Consumed
<1>2. /\ k \in Nat \ {0} /\ DOMAIN items = 1..k /\ Head(items) = items[1]
      /\ rest \in Seq(Ids) /\ Len(rest) = k - 1 /\ DOMAIN rest = 1..(k - 1)
      /\ \A i \in 1..(k - 1) : rest[i] = items[i + 1]
  BY <1>1, TailFacts
<1>3. channel' \in [items : Seq(Ids), open : BOOLEAN] /\ channel'.open /\ channel'.items = rest
  BY <1>2 DEF IndInv, Types
<1>4. /\ k <= Capacity /\ ~killed
      /\ \A i \in 1..k : items[i] = c + i /\ Answered(items[i])
  BY <1>2 DEF IndInv, ChannelInOrder
<1> HIDE DEF rest, c, k
<1>5. \A i \in 1..(k - 1) : i + 1 \in 1..k /\ c + (i + 1) = (c + 1) + i
  BY <1>1, <1>2
<1>6. \A i \in 1..(k - 1) : rest[i] = (c + 1) + i /\ task'[rest[i]] \in {"ok", "failed"}
  BY <1>2, <1>4, <1>5 DEF Answered
<1>7. c + k = (c + 1) + (k - 1) /\ k - 1 <= Capacity
  <2>1. Capacity \in Nat
    BY BatchSizes DEF Capacity
  <2> QED
    BY <1>1, <1>2, <1>4, <2>1
<1>8. driver.state = "over" =>
        \/ c + k = Probes
        \/ rest # <<>> /\ task'[rest[Len(rest)]] = "failed"
  <2> SUFFICES ASSUME driver.state = "over", c + k # Probes
               PROVE  rest # <<>> /\ task'[rest[Len(rest)]] = "failed"
    OBVIOUS
  <2>1. task[items[k]] = "failed"
    BY DEF IndInv, ChannelInOrder, c, k
  <2>2. k # 1
    BY <1>2, <2>1
  <2>3. k - 1 \in 1..(k - 1) /\ (k - 1) + 1 = k
    BY <1>2, <2>2
  <2>4. rest[k - 1] = items[k]
    BY <1>2, <2>3
  <2> QED
    BY <1>2, <2>1, <2>2, <2>3, <2>4, EmptyFacts
<1>9. /\ driver.state = "select" => c + k = driver.next - Len(driver.window) - 1
      /\ driver.state = "sending" => c + k = driver.hand - 1
  BY DEF IndInv, ChannelInOrder, c, k
<1>10. Consumed' = c + 1
  BY DEF c
<1>11. ChannelInOrder'
  BY <1>2, <1>3, <1>4, <1>6, <1>7, <1>8, <1>9, <1>10 DEF ChannelInOrder, Answered
<1>12. Head(items) = c + 1
  <2>1. 1 \in 1..k
    BY <1>2
  <2>2. items[1] = c + 1
    BY <1>4, <2>1
  <2> QED
    BY <1>2, <2>2
<1> QED
  BY <1>3, <1>11, <1>12 DEF c

(* One more call returned.                                                 *)
LEMMA Logged ==
  ASSUME IndInv, NEW e \in Entry, log' = Append(log, e)
  PROVE  /\ log' \in Seq(Entry) /\ Len(log) \in Nat /\ Len(log') = Len(log) + 1
         /\ log'[Len(log) + 1] = e /\ \A i \in 1..Len(log) : log'[i] = log[i]
BY AppendFacts DEF IndInv, Types

(* The answers before it stay.                                             *)
LEMMA OkKept ==
  ASSUME IndInv, NEW e \in Entry, log' = Append(log, e), NEW n \in Nat, OkUpTo(n)
  PROVE  OkUpTo(n)'
BY Logged DEF OkUpTo

(* The entry that ends the answers.                                        *)
LEMMA EndsHere ==
  ASSUME IndInv, NEW e \in Entry, log' = Append(log, e), NEW n, n = Len(log),
         \/ e.kind = "failed" /\ e.probe = n + 1
         \/ e.kind = "cancelled"
         \/ e.kind = "end" /\ n = Probes
  PROVE  EndedAfter(n)'
<1>1. n \in Nat /\ Len(log') = n + 1 /\ log'[n + 1] = e
  BY Logged
<1>2. (n + 2)..Len(log') = {} /\ n < Len(log')
  BY <1>1
<1> QED
  BY <1>1, <1>2 DEF EndedAfter

(* The ends that come after it.                                            *)
LEMMA EndsAgain ==
  ASSUME IndInv, NEW e \in Entry, e.kind = "end", log' = Append(log, e),
         NEW n \in Nat, EndedAfter(n)
  PROVE  EndedAfter(n)'
<1> DEFINE k == Len(log)
<1>1. /\ k \in Nat /\ Len(log') = k + 1 /\ log'[k + 1] = e
      /\ \A i \in 1..k : log'[i] = log[i]
  BY Logged
<1>2. n < k /\ \A i \in (n + 2)..k : log[i].kind = "end"
  BY DEF EndedAfter
<1> HIDE DEF k
<1>3. n + 1 \in 1..k /\ n < k + 1
  BY <1>1, <1>2
<1>4. ASSUME NEW i \in (n + 2)..(k + 1) PROVE log'[i].kind = "end"
  <2>1. CASE i = k + 1
    BY <1>1, <2>1
  <2>2. CASE i # k + 1
    <3>1. i \in (n + 2)..k /\ i \in 1..k
      BY <1>1, <2>2
    <3> QED
      BY <1>1, <1>2, <3>1
  <2> QED
    BY <2>1, <2>2
<1> QED
  BY <1>1, <1>3, <1>4 DEF EndedAfter

(* A call that held the mutex returns.                                     *)
LEMMA ReturnFrees ==
  ASSUME IndInv, NEW t \in Threads, NEW e, Return(t, e), lock = t,
         answers' \in {"held", "none"}
  PROVE  /\ OnePull' /\ log' = Append(log, e)
         /\ lock' \in Threads \cup {NoThread}
         /\ pull' \in [Threads -> [pc : {"idle", "lock", "wait", "check", "stream", "parked",
                                         "cancelled"}, woken : BOOLEAN]]
         /\ \A u \in Threads : At(u, "idle") => At(u, "idle")'
         /\ At(t, "idle")'
<1>1. /\ log' = Append(log, e) /\ pull' = [pull EXCEPT ![t].pc = "idle"] /\ lock' = NoThread
  BY DEF Return, Goto
<1>2. pull \in [Threads -> [pc : {"idle", "lock", "wait", "check", "stream", "parked",
                                  "cancelled"}, woken : BOOLEAN]]
  BY DEF IndInv, Types
<1>3. /\ pull' \in [Threads -> [pc : {"idle", "lock", "wait", "check", "stream", "parked",
                                      "cancelled"}, woken : BOOLEAN]]
      /\ pull'[t].pc = "idle" /\ \A u \in Threads : u # t => pull'[u] = pull[u]
  BY <1>1, <1>2
<1>4. OnePull'
  BY <1>1, <1>3, BatchSizes DEF IndInv, OnePull, At
<1> QED
  BY <1>1, <1>3, <1>4 DEF At

(* The mutex taken with the stream, or the end found.                      *)
LEMMA LockKeeps ==
  ASSUME IndInv, NEW t \in Threads, Lock(t)
  PROVE  IndInv'
<1>1. pull[t].pc = "lock" /\ lock = NoThread /\ UNCHANGED <<mode, task, doomed, driver, killed, channel>>
  BY DEF Lock, At, flow
<1>2. WindowIsLatest' /\ WindowIsBounded'
  BY <1>1, WindowKept
<1>3. pull \in [Threads -> [pc : {"idle", "lock", "wait", "check", "stream", "parked",
                                  "cancelled"}, woken : BOOLEAN]]
  BY DEF IndInv, Types
<1>4. CASE answers = "held"
  <2>1. /\ answers' = "lent" /\ lock' = t /\ Goto(t, Started) /\ log' = log
        /\ collector' = IF mode = "collect" THEN [collector EXCEPT !.state = "running"] ELSE collector
    BY <1>4 DEF Lock
  <2>2. Started \in {"stream", "wait"}
    BY DEF Started
  <2>3. /\ pull' \in [Threads -> [pc : {"idle", "lock", "wait", "check", "stream", "parked",
                                        "cancelled"}, woken : BOOLEAN]]
        /\ pull'[t].pc \in {"stream", "wait"} /\ \A u \in Threads : u # t => pull'[u] = pull[u]
    BY <1>3, <2>1, <2>2 DEF Goto
  <2>4. /\ collector' \in [state : {"none", "running", "ok", "failed", "aborted"}, got : Seq(Ids),
                           killed : BOOLEAN]
        /\ collector'.got = collector.got
        /\ mode = "collect" => collector'.state = "running"
        /\ mode # "collect" => collector' = collector
    BY <2>1 DEF IndInv, Types
  <2>5. Types'
    BY <1>1, <2>1, <2>3, <2>4 DEF IndInv, Types
  <2>6. ChannelInOrder'
    BY <1>1, <2>1, <2>4 DEF IndInv, ChannelInOrder, Answered, Consumed
  <2>7. OnePull'
    BY <1>1, <1>4, <2>1, <2>3, BatchSizes DEF IndInv, OnePull, At
  <2>8. mode = "iterate" => Iterating'
    BY <1>1, <1>4, <2>1, <2>4 DEF IndInv, Iterating, OkUpTo, EndedAfter
  <2>9. mode = "collect" => Collecting'
    <3> SUFFICES ASSUME mode = "collect" PROVE Collecting'
      OBVIOUS
    <3>1. Collecting /\ collector.state = "none" /\ collector.got = <<>> /\ log = <<>>
      BY <1>4 DEF IndInv, Collecting
    <3>2. \A u, v \in Threads : At(u, "idle")' \/ At(v, "idle")' \/ u = v
      <4> SUFFICES ASSUME NEW u \in Threads, NEW v \in Threads, u # v
                   PROVE  At(u, "idle")' \/ At(v, "idle")'
        OBVIOUS
      <4> QED
        BY <1>1, <2>3, <3>1 DEF Collecting, At
    <3> QED
      BY <1>1, <2>1, <2>4, <3>1, <3>2, EmptyFacts DEF Collecting
  <2> QED
    BY <1>1, <1>2, <2>5, <2>6, <2>7, <2>8, <2>9 DEF IndInv
<1>5. CASE answers # "held"
  <2> DEFINE e == [kind |-> "end"]
  <2>1. log' = Append(log, e) /\ Goto(t, "idle") /\ UNCHANGED <<answers, lock, collector>>
    BY <1>5 DEF Lock
  <2>2. e \in Entry /\ e.kind = "end"
    BY DEF Entry
  <2> HIDE DEF e
  <2>3. answers = "none"
    BY <1>1, <1>5 DEF IndInv, Types, OnePull, At
  <2>4. mode = "iterate"
    BY <1>1, <2>3 DEF IndInv, Types, Collecting, At
  <2>5. ~channel.open /\ channel.items = <<>>
    BY <2>3, <2>4 DEF IndInv, Iterating, ChannelInOrder
  <2>6. /\ pull' \in [Threads -> [pc : {"idle", "lock", "wait", "check", "stream", "parked",
                                        "cancelled"}, woken : BOOLEAN]]
        /\ pull'[t].pc = "idle" /\ \A u \in Threads : u # t => pull'[u] = pull[u]
    BY <1>3, <2>1 DEF Goto
  <2>7. Types'
    BY <1>1, <2>1, <2>2, <2>6, Logged DEF IndInv, Types
  <2>8. ChannelInOrder'
    <3>1. channel'.open = FALSE
      BY <1>1, <2>5 DEF IndInv, Types
    <3> QED
      BY <1>1, <2>5, <3>1, ChannelClosed
  <2>9. OnePull'
    BY <1>1, <2>1, <2>6, BatchSizes DEF IndInv, OnePull, At
  <2>10. Iterating'
    <3>1. PICK n \in Nat : OkUpTo(n) /\ EndedAfter(n)
      BY <2>3, <2>4 DEF IndInv, Iterating
    <3>2. OkUpTo(n)' /\ EndedAfter(n)'
      BY <2>1, <2>2, <3>1, OkKept, EndsAgain
    <3> QED
      BY <1>1, <2>1, <2>4, <2>5, <3>2 DEF IndInv, Iterating
  <2> QED
    BY <1>1, <1>2, <2>4, <2>7, <2>8, <2>9, <2>10 DEF IndInv
<1> QED
  BY <1>4, <1>5

(* What a pull that holds the mutex knows.                                 *)
LEMMA InsidePull ==
  ASSUME IndInv, NEW t \in Threads, pull[t].pc \in {"stream", "cancelled"}
  PROVE  /\ lock = t /\ answers = "lent"
         /\ mode = "iterate" => channel.open /\ OkUpTo(Len(log)) /\ Consumed = Len(log)
         /\ mode = "collect" => log = <<>> /\ \A u \in Threads : u # t => At(u, "idle")
<1>1. lock = t /\ answers = "lent"
  BY BatchSizes DEF IndInv, OnePull, At
<1>2. mode = "iterate" => channel.open /\ OkUpTo(Len(log)) /\ Consumed = Len(log)
  BY <1>1 DEF IndInv, Iterating, Consumed
<1>3. mode = "collect" => log = <<>> /\ \A u \in Threads : u # t => At(u, "idle")
  BY <1>1 DEF IndInv, Collecting, At
<1> QED
  BY <1>1, <1>2, <1>3

(* An iteration's pull ends it: the channel is closed behind it.           *)
LEMMA IterationEnds ==
  ASSUME IndInv, NEW t \in Threads, mode = "iterate", pull[t].pc \in {"stream", "cancelled"},
         NEW e \in Entry, Return(t, e),
         \/ e.kind = "failed" /\ e.probe = Len(log) + 1
         \/ e.kind = "cancelled"
         \/ e.kind = "end" /\ Len(log) = Probes,
         answers' = "none", killed' = TRUE,
         channel' \in [items : Seq(Ids), open : BOOLEAN],
         channel'.items = <<>>, channel'.open = FALSE,
         UNCHANGED <<mode, task, doomed, driver, collector>>
  PROVE  IndInv'
<1>1. lock = t /\ channel.open /\ OkUpTo(Len(log))
  BY InsidePull
<1>2. /\ OnePull' /\ log' = Append(log, e) /\ lock' \in Threads \cup {NoThread}
      /\ pull' \in [Threads -> [pc : {"idle", "lock", "wait", "check", "stream", "parked",
                                      "cancelled"}, woken : BOOLEAN]]
  BY <1>1, ReturnFrees
<1>3. WindowIsLatest' /\ WindowIsBounded' /\ ChannelInOrder'
  BY WindowKept, ChannelClosed
<1>4. Types'
  BY <1>2, Logged DEF IndInv, Types
<1>5. Iterating'
  <2>1. PICK n \in Nat : n = Len(log)
    BY <1>2, Logged
  <2>2. OkUpTo(n)
    BY <1>1, <2>1
  <2>3. OkUpTo(n)'
    BY <1>2, <2>2, OkKept
  <2>4. EndedAfter(n)'
    BY <1>2, <2>1, EndsHere
  <2> QED
    BY <2>3, <2>4 DEF IndInv, Iterating
<1> QED
  BY <1>2, <1>3, <1>4, <1>5 DEF IndInv

(* An iteration's pull returns an answer and leaves the stream.            *)
LEMMA AnswerReturned ==
  ASSUME IndInv, NEW t \in Threads, mode = "iterate", pull[t].pc = "stream",
         channel.items # <<>>, NEW p, p = Head(channel.items), task[p] = "ok",
         Return(t, [kind |-> "ok", probe |-> p]), answers' = "held",
         channel' = [channel EXCEPT !.items = Tail(channel.items)],
         UNCHANGED <<mode, task, doomed, driver, killed, collector>>
  PROVE  IndInv'
<1> DEFINE e == [kind |-> "ok", probe |-> p]
           n == Len(log)
<1>1. lock = t /\ channel.open /\ OkUpTo(n) /\ Consumed = n
  BY InsidePull
<1>2. p \in Ids
  BY TailFacts DEF IndInv, Types
<1>3. e \in Entry /\ e.kind = "ok" /\ e.probe = p
  BY <1>2 DEF Entry
<1> HIDE DEF e
<1>4. /\ OnePull' /\ log' = Append(log, e) /\ lock' \in Threads \cup {NoThread}
      /\ pull' \in [Threads -> [pc : {"idle", "lock", "wait", "check", "stream", "parked",
                                      "cancelled"}, woken : BOOLEAN]]
  BY <1>1, ReturnFrees DEF e
<1>5. /\ log' \in Seq(Entry) /\ n \in Nat /\ Len(log') = n + 1
      /\ log'[n + 1] = e /\ \A i \in 1..n : log'[i] = log[i]
  BY <1>3, <1>4, Logged
<1>6. Consumed' = Consumed + 1
  BY <1>1, <1>5 DEF Consumed
<1>7. /\ channel' \in [items : Seq(Ids), open : BOOLEAN] /\ channel'.open
      /\ ChannelInOrder' /\ p = n + 1
  BY <1>1, <1>6, AnswerTaken
<1>8. Types'
  BY <1>4, <1>5, <1>7 DEF IndInv, Types
<1>9. \A i \in 1..(n + 1) : log'[i].kind = "ok" /\ log'[i].probe = i
  <2> SUFFICES ASSUME NEW i \in 1..(n + 1) PROVE log'[i].kind = "ok" /\ log'[i].probe = i
    OBVIOUS
  <2>1. CASE i = n + 1
    BY <1>3, <1>5, <1>7, <2>1
  <2>2. CASE i # n + 1
    <3>1. i \in 1..n
      BY <1>5, <2>2
    <3> QED
      BY <1>1, <1>5, <3>1 DEF OkUpTo
  <2> QED
    BY <2>1, <2>2
<1> HIDE DEF n
<1>10. Iterating'
  <2>1. PICK m \in Nat : m = n + 1
    BY <1>5
  <2>2. OkUpTo(m)' /\ m = Len(log')
    BY <1>5, <1>9, <2>1 DEF OkUpTo
  <2>3. \A i \in 1..Len(log') : log'[i].kind = "ok" /\ log'[i].probe = i
    BY <1>5, <1>9
  <2>4. Len(log') <= Len(log')
    BY <2>1, <2>2
  <2>5. OkUpTo(Len(log))'
    BY <2>3, <2>4 DEF OkUpTo
  <2> QED
    BY <1>7, <2>2, <2>5 DEF IndInv, Iterating
<1>11. WindowIsLatest' /\ WindowIsBounded'
  BY WindowKept
<1> QED
  BY <1>4, <1>7, <1>8, <1>10, <1>11 DEF IndInv

(* A collect's call returns.                                               *)
LEMMA CollectReturns ==
  ASSUME IndInv, NEW t \in Threads, mode = "collect", pull[t].pc \in {"stream", "cancelled"},
         NEW e \in Entry, Return(t, e), e.kind \in {"collected", "cancelled"},
         answers' = "none", NEW k \in BOOLEAN, collector' = [collector EXCEPT !.killed = k],
         UNCHANGED <<mode, task, doomed, driver, killed, channel>>
  PROVE  IndInv'
<1>1. lock = t /\ answers = "lent" /\ log = <<>> /\ \A u \in Threads : u # t => At(u, "idle")
  BY InsidePull
<1>2. /\ OnePull' /\ log' = Append(log, e) /\ lock' \in Threads \cup {NoThread}
      /\ pull' \in [Threads -> [pc : {"idle", "lock", "wait", "check", "stream", "parked",
                                      "cancelled"}, woken : BOOLEAN]]
      /\ \A u \in Threads : At(u, "idle") => At(u, "idle")'
      /\ At(t, "idle")'
  BY <1>1, ReturnFrees
<1>3. \A u \in Threads : At(u, "idle")'
  BY <1>1, <1>2
<1>4. log' \in Seq(Entry) /\ Len(log') = 1 /\ log'[1] = e
  <2>1. /\ log' \in Seq(Entry) /\ Len(log') = Len(log) + 1 /\ log'[Len(log) + 1] = e
        /\ Len(log) = 0
    BY <1>1, <1>2, Logged, EmptyFacts
  <2> QED
    BY <2>1
<1>5. /\ collector' \in [state : {"none", "running", "ok", "failed", "aborted"}, got : Seq(Ids),
                         killed : BOOLEAN]
      /\ collector'.got = collector.got /\ collector'.state = collector.state
  BY DEF IndInv, Types
<1>6. Types'
  BY <1>2, <1>4, <1>5 DEF IndInv, Types
<1>7. ChannelInOrder'
  BY <1>5 DEF IndInv, ChannelInOrder, Answered, Consumed
<1>8. Collecting'
  BY <1>1, <1>3, <1>4, <1>5 DEF IndInv, Collecting
<1>9. WindowIsLatest' /\ WindowIsBounded'
  BY WindowKept
<1> QED
  BY <1>2, <1>6, <1>7, <1>8, <1>9 DEF IndInv

(* A poll of the stream: it parks, or returns what came.                   *)
LEMMA PollStreamKeeps ==
  ASSUME IndInv, NEW t \in Threads, PollStream(t)
  PROVE  IndInv'
<1>1. pull[t].pc = "stream" /\ UNCHANGED <<mode, collector>> /\ mode \in {"iterate", "collect"}
  BY DEF PollStream, At, IndInv, Types
<1>2. CASE ~FutureReady
  <2>1. Goto(t, "parked") /\ UNCHANGED <<flow, answers, lock, log>>
    BY <1>2 DEF PollStream
  <2>2. pull[t] \in [pc : {"idle", "lock", "wait", "check", "stream", "parked", "cancelled"},
                     woken : BOOLEAN]
    BY DEF IndInv, Types
  <2>3. [pull[t] EXCEPT !.pc = "parked"] = [pc |-> "parked", woken |-> pull[t].woken]
    BY <2>2
  <2>4. pull' = [pull EXCEPT ![t] = [pc |-> "parked", woken |-> pull[t].woken]]
    BY <2>1, <2>3 DEF Goto
  <2> QED
    <3>1. UNCHANGED <<mode, flow, answers, lock, collector, log>>
      BY <1>1, <2>1
    <3>2. [pc |-> "parked", woken |-> pull[t].woken] \in
            [pc : {"idle", "lock", "wait", "check", "stream", "parked", "cancelled"}, woken : BOOLEAN]
      BY <2>2
    <3> QED
      BY <1>1, <2>4, <3>1, <3>2, PullMoves DEF At
<1>3. CASE FutureReady /\ mode = "iterate"
  <2>1. Received(t) /\ UNCHANGED <<task, doomed, driver>>
    BY <1>3 DEF PollStream
  <2>2. channel.open /\ Consumed = Len(log) /\ channel \in [items : Seq(Ids), open : BOOLEAN]
    BY <1>1, <1>3, InsidePull DEF IndInv, Types
  <2>3. CASE channel.items = <<>>
    <3> DEFINE e == [kind |-> "end"]
    <3>1. /\ Return(t, e) /\ answers' = "none" /\ killed' = TRUE
          /\ channel' = [channel EXCEPT !.open = FALSE]
      BY <2>1, <2>3 DEF Received
    <3>2. e \in Entry /\ e.kind = "end"
      BY DEF Entry
    <3> HIDE DEF e
    <3>3. /\ channel' \in [items : Seq(Ids), open : BOOLEAN] /\ channel'.items = <<>>
          /\ channel'.open = FALSE
      BY <2>2, <2>3, <3>1
    <3>4. Len(log) = Probes
      <4>1. driver.state = "over"
        BY <1>3, <2>3 DEF FutureReady, ChannelReady
      <4>2. Len(log) + Len(channel.items) = Probes
        BY <2>2, <2>3, <4>1 DEF IndInv, ChannelInOrder
      <4>3. Len(channel.items) = 0 /\ Len(log) \in Nat
        BY <2>3, EmptyFacts DEF IndInv, Types
      <4> QED
        BY <4>2, <4>3
    <3> QED
      BY <1>1, <1>3, <2>1, <3>1, <3>2, <3>3, <3>4, IterationEnds
  <2>4. CASE channel.items # <<>>
    <3> DEFINE p == Head(channel.items)
    <3>1. p = channel.items[1] /\ p \in Ids /\ 1 \in DOMAIN channel.items
      BY <2>2, <2>4, TailFacts
    <3>2. Answered(p) /\ p = Len(log) + 1
      <4>1. Answered(p) /\ p = Consumed + 1
        BY <2>2, <3>1 DEF IndInv, ChannelInOrder
      <4> QED
        BY <2>2, <4>1
    <3>3. /\ Return(t, [kind |-> task[p], probe |-> p]) /\ answers' = Slot(p)
          /\ task[p] = "ok" =>
               channel' = [channel EXCEPT !.items = Tail(channel.items)] /\ killed' = killed
          /\ task[p] # "ok" => killed' = TRUE /\ channel' = [items |-> <<>>, open |-> FALSE]
      BY <2>1, <2>4 DEF Received
    <3> HIDE DEF p
    <3>4. CASE task[p] = "ok"
      BY <1>1, <1>3, <2>1, <2>4, <3>3, <3>4, AnswerReturned DEF Slot, p
    <3>5. CASE task[p] = "failed"
      <4> DEFINE e == [kind |-> "failed", probe |-> p]
      <4>1. e \in Entry /\ e.kind = "failed" /\ e.probe = p
        BY <3>1 DEF Entry
      <4>2. Return(t, e) /\ answers' = "none"
        BY <3>3, <3>5 DEF Slot
      <4> HIDE DEF e
      <4>3. /\ channel' \in [items : Seq(Ids), open : BOOLEAN] /\ channel'.items = <<>>
            /\ channel'.open = FALSE
        <5>1. channel' = [items |-> <<>>, open |-> FALSE]
          BY <3>3, <3>5
        <5> QED
          BY <5>1, EmptyFacts
      <4> QED
        BY <1>1, <1>3, <2>1, <3>2, <3>3, <3>5, <4>1, <4>2, <4>3, IterationEnds
    <3> QED
      BY <3>2, <3>4, <3>5 DEF Answered
  <2> QED
    BY <2>3, <2>4
<1>4. CASE FutureReady /\ mode = "collect"
  <2> DEFINE e == [kind |-> "collected", ok |-> collector.state = "ok"]
  <2>1. Return(t, e) /\ answers' = "none" /\ UNCHANGED <<task, doomed, driver, killed, channel>>
    BY <1>4 DEF PollStream, flow
  <2>2. e \in Entry /\ e.kind = "collected"
    BY DEF Entry
  <2> HIDE DEF e
  <2>3. collector.killed \in BOOLEAN /\ collector' = [collector EXCEPT !.killed = collector.killed]
    BY <1>1 DEF IndInv, Types
  <2> QED
    BY <1>1, <1>4, <2>1, <2>2, <2>3, CollectReturns
<1> QED
  BY <1>1, <1>2, <1>3, <1>4

(* A pull that was cancelled drops what it held.                           *)
LEMMA CancelledKeeps ==
  ASSUME IndInv, NEW t \in Threads, Cancelled(t)
  PROVE  IndInv'
<1> DEFINE e == [kind |-> "cancelled"]
<1>1. /\ pull[t].pc = "cancelled" /\ Return(t, e) /\ answers' = "none" /\ Dropped
      /\ UNCHANGED <<mode, task, doomed, driver>> /\ mode \in {"iterate", "collect"}
  BY DEF Cancelled, At, IndInv, Types
<1>2. e \in Entry /\ e.kind = "cancelled"
  BY DEF Entry
<1> HIDE DEF e
<1>3. CASE mode = "iterate"
  <2>1. channel' = [items |-> <<>>, open |-> FALSE] /\ killed' = TRUE /\ UNCHANGED collector
    BY <1>1, <1>3 DEF Dropped
  <2>2. /\ channel' \in [items : Seq(Ids), open : BOOLEAN] /\ channel'.items = <<>>
        /\ channel'.open = FALSE
    BY <2>1, EmptyFacts
  <2> QED
    BY <1>1, <1>2, <1>3, <2>1, <2>2, IterationEnds
<1>4. CASE mode = "collect"
  <2>1. collector' = [collector EXCEPT !.killed = TRUE] /\ UNCHANGED <<channel, killed>>
    BY <1>1, <1>4 DEF Dropped
  <2> QED
    BY <1>1, <1>2, <1>4, <2>1, CollectReturns
<1> QED
  BY <1>1, <1>3, <1>4

(* Python drops the iterator, and with it the channel and the driver.      *)
LEMMA DropKeeps ==
  ASSUME IndInv, Drop
  PROVE  IndInv'
<1>1. /\ mode = "iterate" /\ answers' = "dropped" /\ (\A t \in Threads : At(t, "idle"))
      /\ channel' = [items |-> <<>>, open |-> FALSE] /\ killed' = TRUE
      /\ UNCHANGED <<mode, task, doomed, driver, lock, pull, log, collector>>
  BY DEF Drop, Dropped
<1>2. answers # "lent" /\ lock = NoThread
  <2>1. \A t \in Threads : lock # t
    BY <1>1 DEF IndInv, OnePull, At
  <2> QED
    BY <2>1 DEF IndInv, Types, OnePull
<1>3. /\ channel' \in [items : Seq(Ids), open : BOOLEAN] /\ channel'.items = <<>>
      /\ channel'.open = FALSE
  BY <1>1, EmptyFacts
<1>4. Types'
  BY <1>1, <1>3 DEF IndInv, Types
<1>5. OnePull'
  BY <1>1, <1>2 DEF IndInv, OnePull, At
<1>6. Iterating'
  <2>1. PICK n \in Nat : OkUpTo(n) /\ (EndedAfter(n) \/ n = Len(log))
    BY <1>1 DEF IndInv, Iterating
  <2>2. OkUpTo(n)' /\ (EndedAfter(n)' \/ n = Len(log'))
    BY <1>1, <2>1 DEF OkUpTo, EndedAfter
  <2> QED
    BY <1>1, <1>3, <2>2 DEF IndInv, Iterating
<1> QED
  BY <1>1, <1>3, <1>4, <1>5, <1>6, WindowKept, ChannelClosed DEF IndInv

-----------------------------------------------------------------------------
(* Steps of the collecting task                                            *)

(* It ends with what it has: all of it, an error, or nothing.              *)
LEMMA CollectorOverKeeps ==
  ASSUME IndInv, collector.state = "running", mode = "collect",
         NEW state \in {"ok", "failed", "aborted"}, NEW got \in Seq(Ids),
         CollectorOver(state, got),
         \A i \in DOMAIN got :
           /\ got[i] = i
           /\ task[i] = "ok" \/ (task[i] = "failed" /\ state = "failed" /\ i = Len(got)),
         state = "failed" => got # <<>> /\ task[Len(got)] = "failed",
         state = "ok" => Len(got) = Probes,
         UNCHANGED <<mode, task, doomed, driver, answers, lock, pull, log>>
  PROVE  IndInv'
<1>1. /\ collector' = [collector EXCEPT !.state = state, !.got = got] /\ killed' = TRUE
      /\ channel' = [items |-> <<>>, open |-> FALSE]
  BY DEF CollectorOver
<1>2. /\ collector' \in [state : {"none", "running", "ok", "failed", "aborted"}, got : Seq(Ids),
                         killed : BOOLEAN]
      /\ collector'.got = got /\ collector'.state = state
  BY <1>1 DEF IndInv, Types
<1>3. /\ channel' \in [items : Seq(Ids), open : BOOLEAN] /\ channel'.items = <<>>
      /\ channel'.open = FALSE
  BY <1>1, EmptyFacts
<1>4. Types'
  BY <1>1, <1>2, <1>3 DEF IndInv, Types
<1>5. OnePull'
  BY DEF IndInv, OnePull, At
<1>6. Collecting'
  BY <1>2, <1>3 DEF IndInv, Collecting, At
<1> QED
  BY <1>3, <1>4, <1>5, <1>6, WindowKept, ChannelClosed DEF IndInv

(* A turn of the collecting task.                                          *)
LEMMA CollectKeeps ==
  ASSUME IndInv, Collect
  PROVE  IndInv'
<1>1. /\ collector.state = "running" /\ ChannelReady
      /\ UNCHANGED <<mode, task, doomed, driver, answers, lock, pull, log>>
  BY DEF Collect
<1>2. mode = "collect" /\ Collecting
  BY <1>1 DEF IndInv, Types, Iterating
<1> DEFINE got == collector.got
           items == channel.items
           n == Len(got)
<1>3. /\ channel.open /\ got \in Seq(Ids) /\ n \in Nat /\ Consumed = n /\ DOMAIN got = 1..n
      /\ items \in Seq(Ids)
      /\ \A i \in DOMAIN got : got[i] = i /\ task[i] = "ok"
  BY <1>1, <1>2 DEF IndInv, Types, Collecting, Consumed
<1>4. CASE items = <<>>
  <2>1. CollectorOver("ok", got)
    BY <1>4 DEF Collect
  <2>2. driver.state = "over"
    BY <1>1, <1>4 DEF ChannelReady
  <2>3. n + Len(items) = Probes /\ Len(items) = 0
    BY <1>3, <1>4, <2>2, EmptyFacts DEF IndInv, ChannelInOrder
  <2>4. n = Probes
    BY <1>3, <2>3
  <2> QED
    BY <1>1, <1>2, <1>3, <2>1, <2>4, CollectorOverKeeps
<1>5. CASE items # <<>>
  <2> DEFINE p == Head(items)
             more == Append(got, p)
  <2>1. p = items[1] /\ p \in Ids /\ 1 \in DOMAIN items
    BY <1>3, <1>5, TailFacts
  <2>2. Answered(p) /\ p = n + 1
    <3>1. Answered(p) /\ p = Consumed + 1
      BY <1>3, <2>1 DEF IndInv, ChannelInOrder
    <3> QED
      BY <1>3, <3>1
  <2>3. /\ task[p] = "ok" =>
             /\ collector' = [collector EXCEPT !.got = more]
             /\ channel' = [channel EXCEPT !.items = Tail(items)] /\ killed' = killed
        /\ task[p] # "ok" => CollectorOver("failed", more)
    BY <1>5 DEF Collect
  <2>4. /\ more \in Seq(Ids) /\ Len(more) = n + 1 /\ DOMAIN more = 1..(n + 1)
        /\ more[n + 1] = p /\ \A i \in 1..n : more[i] = got[i]
    BY <1>3, <2>1, AppendFacts
  <2> HIDE DEF p, more, n
  <2>5. \A i \in 1..(n + 1) : i = n + 1 \/ i \in 1..n
    BY <1>3
  <2>6. \A i \in 1..(n + 1) : more[i] = i /\ (i # n + 1 => task[i] = "ok")
    BY <1>3, <2>2, <2>4, <2>5
  <2>7. CASE task[p] = "ok"
    <3>1. /\ collector' \in [state : {"none", "running", "ok", "failed", "aborted"}, got : Seq(Ids),
                             killed : BOOLEAN]
          /\ collector'.got = more /\ collector'.state = "running"
      BY <1>1, <2>3, <2>4, <2>7 DEF IndInv, Types
    <3>2. Consumed' = Consumed + 1
      BY <1>1, <1>2, <1>3, <2>4, <3>1 DEF Consumed
    <3>3. /\ channel' \in [items : Seq(Ids), open : BOOLEAN] /\ channel'.open
          /\ ChannelInOrder'
      BY <1>1, <1>3, <1>5, <2>3, <2>7, <3>2, AnswerTaken DEF p
    <3>4. Types'
      BY <1>1, <2>3, <2>7, <3>1, <3>3 DEF IndInv, Types
    <3>5. OnePull'
      BY <1>1 DEF IndInv, OnePull, At
    <3>6. Collecting'
      <4>1. \A i \in DOMAIN more : more[i] = i /\ task'[i] = "ok"
        BY <1>1, <2>2, <2>4, <2>6, <2>7
      <4> QED
        BY <1>1, <1>2, <3>1, <3>3, <4>1 DEF Collecting, At
    <3> QED
      BY <1>1, <1>2, <3>3, <3>4, <3>5, <3>6, WindowKept DEF IndInv
  <2>8. CASE task[p] = "failed"
    <3>1. CollectorOver("failed", more)
      BY <2>3, <2>8
    <3>2. \A i \in DOMAIN more : more[i] = i /\ (task[i] = "ok" \/ (task[i] = "failed" /\ i = Len(more)))
      BY <2>2, <2>4, <2>6, <2>8
    <3>3. more # <<>> /\ task[Len(more)] = "failed"
      BY <1>3, <2>2, <2>4, <2>8, EmptyFacts
    <3> QED
      BY <1>1, <1>2, <2>4, <3>1, <3>2, <3>3, CollectorOverKeeps
  <2> QED
    BY <2>2, <2>7, <2>8 DEF Answered
<1> QED
  BY <1>4, <1>5

(* A collecting task that was killed keeps nothing.                        *)
LEMMA CollectStopKeeps ==
  ASSUME IndInv, CollectStop
  PROVE  IndInv'
<1>1. /\ collector.state = "running" /\ CollectorOver("aborted", <<>>)
      /\ UNCHANGED <<mode, task, doomed, driver, answers, lock, pull, log>>
  BY DEF CollectStop
<1>2. mode = "collect"
  BY <1>1 DEF IndInv, Types, Iterating
<1>3. <<>> \in Seq(Ids) /\ DOMAIN <<>> = {}
  BY EmptyFacts
<1> QED
  BY <1>1, <1>2, <1>3, CollectorOverKeeps

-----------------------------------------------------------------------------
(* Theorems                                                                *)

(* Every step keeps the inductive invariant.                               *)
LEMMA NextIndInv == IndInv /\ [Next]_vars => IndInv'
<1> SUFFICES ASSUME IndInv, [Next]_vars PROVE IndInv'
  OBVIOUS
<1>1. ASSUME UNCHANGED <<mode, task, doomed, driver, killed, channel, answers, lock, pull,
                         collector, log>>
      PROVE  IndInv'
  <2>1. Types' /\ OnePull' /\ (mode = "iterate" => Iterating')
    BY <1>1 DEF IndInv, Types, OnePull, Iterating, OkUpTo, EndedAfter, At
  <2>2. mode = "collect" => Collecting'
    BY <1>1 DEF IndInv, Collecting, At
  <2>3. ChannelInOrder'
    BY <1>1 DEF IndInv, ChannelInOrder, Answered, Consumed
  <2> QED
    BY <1>1, <2>1, <2>2, <2>3, WindowKept DEF IndInv
<1>2. CASE UNCHANGED vars
  BY <1>1, <1>2 DEF vars
<1>3. CASE Cancel \/ Notify
  BY <1>1, <1>3 DEF Cancel, Notify, flow
<1>4. ASSUME NEW t \in Threads, Call(t) \/ Step(t) PROVE IndInv'
  BY <1>4, WaitingKeeps, LockKeeps, PollStreamKeeps, CancelledKeeps DEF Step
<1>5. CASE Next
  BY <1>3, <1>4, <1>5, ProbeKeeps, DriverKeeps, CollectKeeps, CollectStopKeeps, DropKeeps DEF Next
<1> QED
  BY <1>2, <1>5

(* Every reachable state satisfies the inductive invariant.                *)
LEMMA AlwaysIndInv == Spec => []IndInv
BY InitIndInv, NextIndInv, PTL DEF Spec

(* However probes finish and threads pull, at most twice the lookahead is  *)
(* running or answered and not yet pulled: the window and the hand are     *)
(* within the latest lookahead probes, and so is every probe aborted and   *)
(* still running; the channel holds no more than its capacity (run_batch,  *)
(* drive).                                                                 *)
THEOREM BatchStaysBounded == Spec => []Bounded
<1>1. ASSUME IndInv PROVE Bounded
  <2> DEFINE next == driver.next
             k == Len(channel.items)
             c == Consumed
             A == (next - Lookahead)..(next - 1)
             B == IF channel.open THEN (c + 1)..(c + k) ELSE {}
  <2>1. /\ next \in Nat \ {0} /\ Lookahead \in Nat \ {0} /\ k \in Nat /\ c \in Nat
        /\ k <= Lookahead
    <3>1. Capacity \in Nat /\ Capacity <= Lookahead
      BY BatchSizes DEF Capacity
    <3>2. next \in Nat \ {0} /\ k \in Nat /\ c \in Nat /\ k <= Capacity
      BY <1>1, BatchSizes DEF IndInv, Types, ChannelInOrder, Consumed
    <3> QED
      BY <3>1, <3>2, BatchSizes
  <2>2. ASSUME NEW p \in Ids, Running(p) PROVE p \in A
    <3>1. p \in Nat /\ p < next /\ next <= p + Lookahead
      BY <1>1, <2>2 DEF IndInv, WindowIsBounded, Ids
    <3> HIDE DEF next
    <3> QED
      BY <2>1, <3>1
  <2>3. Held(driver.window) \subseteq A
    <3> SUFFICES ASSUME NEW p \in Held(driver.window) PROVE p \in A
      OBVIOUS
    <3> DEFINE len == Len(driver.window)
    <3>1. /\ len \in Nat /\ len <= Lookahead /\ DOMAIN driver.window = 1..len
          /\ \A i \in 1..len : driver.window[i] = next - len - 1 + i
      BY <1>1 DEF IndInv, Types, WindowIsLatest, WindowIsBounded
    <3>2. PICK i \in 1..len : p = driver.window[i]
      BY <3>1 DEF Held
    <3>3. p = next - len - 1 + i
      BY <3>1, <3>2
    <3> HIDE DEF next, len
    <3> QED
      BY <2>1, <3>1, <3>3
  <2>4. driver.hand # 0 => driver.hand \in A
    <3> SUFFICES ASSUME driver.hand # 0 PROVE driver.hand \in A
      OBVIOUS
    <3> DEFINE len == Len(driver.window)
               hand == driver.hand
    <3>1. len \in Nat /\ len < Lookahead /\ hand = next - len - 1
      BY <1>1 DEF IndInv, Types, WindowIsLatest, WindowIsBounded
    <3> HIDE DEF next, len, hand
    <3>2. hand \in A
      BY <2>1, <3>1
    <3> QED
      BY <3>2 DEF hand
  <2>5. Held(channel.items) \subseteq B
    <3> SUFFICES ASSUME NEW p \in Held(channel.items) PROVE p \in B
      OBVIOUS
    <3>1. PICK i \in DOMAIN channel.items : p = channel.items[i]
      BY DEF Held
    <3>2. channel.open /\ i \in 1..k /\ p = c + i
      BY <1>1, <3>1, EmptyFacts DEF IndInv, Types, ChannelInOrder
    <3> HIDE DEF k, c
    <3> QED
      BY <2>1, <3>2
  <2>6. IsFiniteSet(A) /\ Cardinality(A) \in Nat /\ Cardinality(A) <= Lookahead
    <3> HIDE DEF next
    <3>1. next - Lookahead \in Int /\ next - 1 \in Int
      BY <2>1
    <3>2. /\ IsFiniteSet(A)
          /\ Cardinality(A) = IF next - Lookahead > next - 1 THEN 0
                              ELSE (next - 1) - (next - Lookahead) + 1
      BY <3>1, FS_Interval
    <3>3. ~(next - Lookahead > next - 1) /\ (next - 1) - (next - Lookahead) + 1 = Lookahead
      BY <2>1
    <3> QED
      BY <2>1, <3>2, <3>3
  <2>7. IsFiniteSet(B) /\ Cardinality(B) \in Nat /\ Cardinality(B) <= Lookahead
    <3> HIDE DEF k, c
    <3>1. CASE channel.open
      <4>1. c + 1 \in Int /\ c + k \in Int
        BY <2>1
      <4>2. /\ IsFiniteSet(B)
            /\ Cardinality(B) = IF c + 1 > c + k THEN 0 ELSE (c + k) - (c + 1) + 1
        BY <3>1, <4>1, FS_Interval
      <4>3. /\ c + 1 > c + k => 0 <= Lookahead
            /\ ~(c + 1 > c + k) => (c + k) - (c + 1) + 1 = k
        BY <2>1
      <4> HIDE DEF B
      <4> QED
        BY <2>1, <4>2, <4>3
    <3>2. CASE ~channel.open
      BY <2>1, <3>2, FS_EmptySet
    <3> QED
      BY <3>1, <3>2
  <2>8. Pending \subseteq A \cup B
    <3> HIDE DEF A, B
    <3> QED
      BY <2>2, <2>3, <2>4, <2>5 DEF Pending
  <2> HIDE DEF A, B
  <2>9. /\ IsFiniteSet(A \cup B)
        /\ Cardinality(A \cup B) = Cardinality(A) + Cardinality(B) - Cardinality(A \cap B)
    BY <2>6, <2>7, FS_Union
  <2>10. Cardinality(A \cap B) \in Nat
    <3>1. IsFiniteSet(A \cap B)
      BY <2>6, FS_Subset
    <3> QED
      BY <3>1, FS_CardinalityType
  <2>11. Cardinality(Pending) \in Nat /\ Cardinality(Pending) <= Cardinality(A \cup B)
    <3>1. IsFiniteSet(Pending) /\ Cardinality(Pending) <= Cardinality(A \cup B)
      BY <2>8, <2>9, FS_Subset
    <3> QED
      BY <3>1, FS_CardinalityType
  <2>12. Cardinality(A \cup B) <= 2 * Lookahead /\ Cardinality(A \cup B) \in Nat
    <3>1. Cardinality(A \cup B) \in Nat
      BY <2>9, FS_CardinalityType
    <3> QED
      BY <2>1, <2>6, <2>7, <2>9, <2>10, <3>1
  <2> QED
    BY <2>1, <2>11, <2>12 DEF Bounded
<1> QED
  BY <1>1, AlwaysIndInv, PTL

(* The answers come in input order, one call each; an error or a cancel    *)
(* comes once and ends them; no iteration ends early without one           *)
(* (ProbeAnswers::__next__).                                               *)
THEOREM AnswersComeInOrder == Spec => []InOrder
<1>1. ASSUME IndInv PROVE InOrder
  <2> DEFINE oks == {i \in DOMAIN log : log[i].kind = "ok"}
  <2>1. DOMAIN log = 1..Len(log) /\ Len(log) \in Nat /\ mode \in {"iterate", "collect"}
    BY <1>1 DEF IndInv, Types
  <2>2. ASSUME NEW n \in Nat, OkUpTo(n), EndedAfter(n) \/ n = Len(log) PROVE InOrder
    <3> DEFINE k == Len(log)
    <3>1. /\ n <= k /\ k \in Nat /\ DOMAIN log = 1..k
          /\ \A i \in 1..n : log[i].kind = "ok" /\ log[i].probe = i
      BY <2>1, <2>2 DEF OkUpTo
    <3>2. \/ n = k
          \/ /\ n < k
             /\ \/ log[n + 1].kind = "failed" /\ log[n + 1].probe = n + 1
                \/ log[n + 1].kind = "cancelled"
                \/ log[n + 1].kind = "end" /\ n = Probes
             /\ \A i \in (n + 2)..k : log[i].kind = "end"
      BY <2>2 DEF EndedAfter
    <3> HIDE DEF k
    <3>3. \A i \in 1..k : i \in Nat /\ (i \in 1..n \/ i = n + 1 \/ i \in (n + 2)..k)
      BY <3>1
    <3>4. \A i \in 1..k : i \in 1..n \/ log[i].kind # "ok"
      <4> SUFFICES ASSUME NEW i \in 1..k, i \notin 1..n PROVE log[i].kind # "ok"
        OBVIOUS
      <4>1. n # k
        BY <3>1
      <4> QED
        BY <3>2, <3>3, <4>1
    <3>5. oks = 1..n
      <4>1. 1..n \subseteq 1..k
        BY <3>1
      <4> QED
        BY <3>1, <3>4, <4>1
    <3>6. Cardinality(oks) = n
      <4>1. Cardinality(1..n) = IF 1 > n THEN 0 ELSE n - 1 + 1
        BY FS_Interval
      <4>2. (IF 1 > n THEN 0 ELSE n - 1 + 1) = n
        OBVIOUS
      <4> QED
        BY <3>5, <4>1, <4>2
    <3>7. \A i \in oks : i <= n /\ log[i].probe = i
      BY <3>1, <3>5
    <3> HIDE DEF oks
    <3>8. ASSUME NEW i \in 1..k, log[i].kind # "ok"
          PROVE  n < k /\ (i = n + 1 \/ (i \in (n + 2)..k /\ n + 1 \in 1..(i - 1)))
      <4>1. i \notin 1..n
        BY <3>1, <3>8
      <4> QED
        BY <3>1, <3>3, <4>1
    <3>9. ASSUME NEW i \in 1..k, log[i].kind = "failed" PROVE log[i].probe = i /\ n = i - 1
      <4>1. n < k /\ i = n + 1
        BY <3>2, <3>8, <3>9
      <4> QED
        BY <3>2, <3>9, <4>1
    <3>10. ASSUME NEW i \in 1..k, log[i].kind # "ok", NEW j \in (i + 1)..k
           PROVE  log[j].kind = "end"
      <4>1. n < k /\ j \in (n + 2)..k
        BY <3>1, <3>8, <3>10
      <4> QED
        BY <3>2, <4>1
    <3>11. ASSUME NEW i \in 1..k, log[i].kind = "end"
           PROVE  n = Probes \/ \E j \in 1..(i - 1) : log[j].kind \in {"failed", "cancelled"}
      <4>1. n < k /\ (i = n + 1 \/ n + 1 \in 1..(i - 1))
        BY <3>8, <3>11
      <4> QED
        BY <3>2, <3>11, <4>1
    <3> QED
      BY <3>1, <3>6, <3>7, <3>9, <3>10, <3>11 DEF InOrder, oks, k
  <2>3. CASE mode = "iterate"
    BY <1>1, <2>2, <2>3 DEF IndInv, Iterating
  <2>4. CASE mode = "collect"
    <3>1. log = <<>> \/ (Len(log) = 1 /\ log[1].kind \in {"collected", "cancelled"})
      BY <1>1, <2>4 DEF IndInv, Collecting
    <3>2. CASE log = <<>>
      <4>1. OkUpTo(0) /\ 0 = Len(log)
        BY <3>2, EmptyFacts DEF OkUpTo
      <4> QED
        BY <2>2, <4>1
    <3>3. CASE Len(log) = 1 /\ log[1].kind \in {"collected", "cancelled"}
      <4>1. DOMAIN log = {1}
        BY <2>1, <3>3
      <4>2. oks = {}
        BY <3>3, <4>1
      <4>3. \A i \in DOMAIN log : (i + 1)..Len(log) = {}
        BY <3>3, <4>1
      <4> QED
        BY <3>3, <4>1, <4>2, <4>3 DEF InOrder
    <3> QED
      BY <3>1, <3>2, <3>3
  <2> QED
    BY <2>1, <2>3, <2>4
<1> QED
  BY <1>1, AlwaysIndInv, PTL

(* A collect that succeeds holds every answer in input order, and one that *)
(* fails holds the error of the first probe in input order that failed     *)
(* (Batch::collect).                                                       *)
THEOREM CollectHoldsAll == Spec => []CollectsAll
<1>1. ASSUME IndInv PROVE CollectsAll
  <2> DEFINE got == collector.got
             n == Len(got)
  <2>1. got \in Seq(Ids) /\ n \in Nat /\ DOMAIN got = 1..n /\ got = [i \in DOMAIN got |-> got[i]]
    BY <1>1 DEF IndInv, Types
  <2>2. CASE mode = "iterate"
    BY <1>1, <2>2 DEF IndInv, Iterating, CollectsAll
  <2>3. CASE mode = "collect"
    <3>1. Collecting
      BY <1>1, <2>3 DEF IndInv
    <3>2. got = [i \in 1..n |-> i]
      BY <2>1, <3>1 DEF Collecting
    <3>3. collector.state = "ok" => n = Probes
      BY <3>1 DEF Collecting
    <3>4. collector.state = "failed" =>
            \A i \in DOMAIN got : task[i] = "failed" <=> i = n
      BY <3>1 DEF Collecting
    <3> QED
      BY <3>2, <3>3, <3>4 DEF CollectsAll, Ids
  <2> QED
    BY <1>1, <2>2, <2>3 DEF IndInv, Types
<1> QED
  BY <1>1, AlwaysIndInv, PTL
=============================================================================
