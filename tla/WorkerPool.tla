----------------------------- MODULE WorkerPool -----------------------------
(***************************************************************************)
(* What the users of DbThreadPool may rely on: a fixed set of workers that *)
(* serve nothing until a gate opens, then become ready one by one and      *)
(* answer the submitted requests, each once, in the order of submission.   *)
(* DbThreadPool implements this specification (Pool!Spec there).           *)
(***************************************************************************)
EXTENDS Sequences

CONSTANTS
  Workers,    \* the pool's threads
  Requests    \* the asynchronous requests of the models

VARIABLES
  gate,       \* TRUE once workers may become ready
  serving,    \* serving[w]: "warming", "ready" or the request w works on
  pending,    \* submitted requests nobody serves yet, oldest first
  submitted,  \* requests submitted so far
  answered    \* requests whose result has been emitted

vars == <<gate, serving, pending, submitted, answered>>

Init ==
  /\ gate = FALSE
  /\ serving = [w \in Workers |-> "warming"]
  /\ pending = <<>>
  /\ submitted = {}
  /\ answered = {}

OpenGate ==
  /\ ~gate
  /\ gate' = TRUE
  /\ UNCHANGED <<serving, pending, submitted, answered>>

BecomeReady(w) ==
  /\ gate
  /\ serving[w] = "warming"
  /\ serving' = [serving EXCEPT ![w] = "ready"]
  /\ UNCHANGED <<gate, pending, submitted, answered>>

Submit(r) ==
  /\ gate
  /\ r \notin submitted
  /\ submitted' = submitted \cup {r}
  /\ pending' = Append(pending, r)
  /\ UNCHANGED <<gate, serving, answered>>

Take(w) ==
  /\ serving[w] = "ready"
  /\ pending # <<>>
  /\ serving' = [serving EXCEPT ![w] = Head(pending)]
  /\ pending' = Tail(pending)
  /\ UNCHANGED <<gate, submitted, answered>>

Answer(w) ==
  /\ serving[w] \in Requests \ answered
  /\ answered' = answered \cup {serving[w]}
  /\ serving' = [serving EXCEPT ![w] = "ready"]
  /\ UNCHANGED <<gate, pending, submitted>>

Next ==
  \/ OpenGate
  \/ \E w \in Workers : BecomeReady(w) \/ Take(w) \/ Answer(w)
  \/ \E r \in Requests : Submit(r)

Spec == Init /\ [][Next]_vars
=============================================================================
