-------------------------- MODULE NotificationStream -------------------------
(***************************************************************************)
(* What the models of the user interface may rely on, and what the models  *)
(* of the tables assume (RunTable, RegistrationTable): the changes of all  *)
(* tables reach the UI thread as one stream, in the order of the commits.  *)
(* A change goes to all models of its table that have joined, or to none,  *)
(* if nobody listens.  A break loses the newest of those on their way and  *)
(* none before them.  DbListener implements this specification (Stream!    *)
(* Spec there).                                                            *)
(***************************************************************************)
EXTENDS Naturals, Sequences

CONSTANTS Models, Tables, TableOf

VARIABLES
  log,      \* the changes, each by its table
  joined,   \* the models that are to be told of changes of their table
  coming,   \* <<m, n>>: change n is on its way to model m
  told      \* what the UI thread has told which model, in that order

vars == <<log, joined, coming, told>>

Init ==
  /\ log = <<>>
  /\ joined = {}
  /\ coming = {}
  /\ told = <<>>

Commit(t) ==
  /\ log' = Append(log, t)
  /\ \/ coming' = coming \cup {<<m, Len(log')>> : m \in {k \in joined : TableOf[k] = t}}
     \/ UNCHANGED coming
  /\ UNCHANGED <<joined, told>>

(* A model may still get changes of its table that are on their way then,  *)
(* but none that is older than what the UI thread has heard of already.    *)
Join(m) ==
  /\ m \notin joined
  /\ joined' = joined \cup {m}
  /\ \E N \in SUBSET {n \in DOMAIN log : /\ log[n] = TableOf[m]
                                         /\ \A i \in DOMAIN told : told[i][2] < n} :
       coming' = coming \cup ({m} \X N)
  /\ UNCHANGED <<log, told>>

(* One model is told of the oldest change that is on its way to anyone.    *)
Tell(m) ==
  /\ \E n \in DOMAIN log :
       /\ <<m, n>> \in coming
       /\ \A p \in coming : n <= p[2]
       /\ told' = Append(told, <<m, n>>)
       /\ coming' = coming \ {<<m, n>>}
  /\ UNCHANGED <<log, joined>>

Lose ==
  /\ \E k \in 0..Len(log) : coming' = {p \in coming : p[2] <= k}
  /\ UNCHANGED <<log, joined, told>>

Next ==
  \/ \E t \in Tables : Commit(t)
  \/ \E m \in Models : Join(m) \/ Tell(m)
  \/ Lose

Spec == Init /\ [][Next]_vars
=============================================================================
