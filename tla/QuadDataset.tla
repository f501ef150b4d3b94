---------------------------- MODULE QuadDataset ----------------------------
(***************************************************************************)
(* What a VortexRdfStore promises, with none of the machinery: every store *)
(* handle a program holds is an immutable set of quads (RDF/JS dataset     *)
(* semantics), the store file is a set of quads, and every operation makes *)
(* a new handle whose set is a function of the receiver's.  Store.tla      *)
(* (base + tail + tombstones + selections) is shown to implement this.     *)
(***************************************************************************)
EXTENDS Naturals, FiniteSets

CONSTANTS Quads,      \* the quads of the model
          Handles,    \* the names a program holds stores by
          MaxWindow   \* the largest offset and limit of a window

VARIABLES data,     \* handle -> the set of quads it holds, for the live handles
          file,     \* the set of quads the store file holds
          call      \* the last call made, with its arguments

dvars == <<data, file, call>>

Nothing == <<0, 0>>

(* A call: the operation, the receiver, the handle its result is bound to, *)
(* the quads it names (a batch, what a pattern admits) and its window.     *)
Call(op, h, k, S, w) == [op |-> op, on |-> h, to |-> k, quads |-> S, window |-> w]

TypeOK ==
  /\ DOMAIN data \subseteq Handles
  /\ \A h \in DOMAIN data : data[h] \subseteq Quads
  /\ file \subseteq Quads

(* The result of an operation is bound to a name; every other handle is    *)
(* exactly what it was: mutations return a new store.                      *)
Bind(k, S) == data' = [h \in DOMAIN data \cup {k} |-> IF h = k THEN S ELSE data[h]]

Init ==
  /\ data = <<>>
  /\ file = {}
  /\ \E k \in Handles : call = Call("none", k, k, {}, Nothing)

(* A store built from quads.                                               *)
Build(k, S) ==
  /\ call' = Call("build", k, k, S, Nothing)
  /\ Bind(k, S) /\ UNCHANGED file

(* The file (re)built by some process.                                     *)
BuildFile(S) == file' = S /\ UNCHANGED <<data, call>>

(* The store read from the file as it is now.                              *)
Open(k) ==
  /\ call' = Call("open", k, k, {}, Nothing)
  /\ Bind(k, file) /\ UNCHANGED file

(* Additions: set union.  The batch may be folded into the file.           *)
Add(h, k, S) ==
  /\ call' = Call("add", h, k, S, Nothing)
  /\ Bind(k, data[h] \cup S)
  /\ file' \in {file, data[h] \cup S}

(* Deletions: set difference, in memory only.                              *)
Delete(h, k, S) ==
  /\ call' = Call("delete", h, k, S, Nothing)
  /\ Bind(k, data[h] \ S) /\ UNCHANGED file

(* Match: intersection.                                                    *)
Match(h, k, S) ==
  /\ call' = Call("match", h, k, S, Nothing)
  /\ Bind(k, data[h] \cap S) /\ UNCHANGED file

(* A window: some of the receiver's quads, as many as the window has room  *)
(* for past its offset.                                                    *)
Window(h, k, offset, limit) ==
  /\ call' = Call("window", h, k, {}, <<offset, limit>>)
  /\ \E S \in SUBSET data[h] :
       /\ Bind(k, S)
       /\ LET n == Cardinality(data[h]) IN
          Cardinality(S) = IF n <= offset THEN 0
                           ELSE IF n - offset <= limit THEN n - offset ELSE limit
  /\ UNCHANGED file

(* owned, compact, and a serialization round trip: the same quads, and a   *)
(* compaction of a file-backed store leaves them in the file.              *)
Copy(h, k) ==
  /\ call' = Call("copy", h, k, {}, Nothing)
  /\ Bind(k, data[h]) /\ file' \in {file, data[h]}

Drop(h) ==
  /\ call' = Call("drop", h, h, {}, Nothing)
  /\ data' = [x \in DOMAIN data \ {h} |-> data[x]] /\ UNCHANGED file

Next ==
  \/ \E S \in SUBSET Quads : BuildFile(S) \/ \E k \in Handles : Build(k, S)
  \/ \E k \in Handles : Open(k)
  \/ \E h \in DOMAIN data :
       \/ Drop(h)
       \/ \E k \in Handles :
            \/ Copy(h, k)
            \/ \E S \in SUBSET Quads : Add(h, k, S) \/ Delete(h, k, S) \/ Match(h, k, S)
            \/ \E offset, limit \in 0..MaxWindow : Window(h, k, offset, limit)

Spec == Init /\ [][Next]_dvars
============================================================================
