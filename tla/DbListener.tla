----------------------------- MODULE DbListener -----------------------------
(***************************************************************************)
(* db/DbListener.cpp with the connection of db/DbConnection.cpp: how the   *)
(* notifications of the database reach the models.  A thread of its own    *)
(* holds a connection that LISTENs to the tables somebody subscribed to.   *)
(* Each table has one emitter, which posts a notification to the UI thread *)
(* for every model connected to it.                                        *)
(*                                                                         *)
(* The server may be down at any time.  A connection that breaks is opened *)
(* again by DbConnection's timer, once the driver has noticed; the new     *)
(* session listens to nothing.  emitter and recvNotification hold          *)
(* mEmitterMutex from end to end and never wait inside, so each is one     *)
(* step.                                                                   *)
(***************************************************************************)
EXTENDS Naturals, Sequences, FiniteSets, SequencesExt

CONSTANTS
  Models, Tables,   \* the BaseModels of the user interface, and their tables
  TableOf,
  NoModel,
  MaxCommits,       \* bounds: changes committed to the database,
  MaxDrops          \*   and times the server goes down

ASSUME ListenerAssumption ==
  /\ IsFiniteSet(Models)
  /\ TableOf \in [Models -> Tables] /\ NoModel \notin Models
  /\ MaxCommits \in Nat /\ MaxDrops \in Nat

VARIABLES
  uiPc,          \* where the UI thread is: in the constructor, at work, in shutdown
  subscribing,   \* the model whose subscription the UI thread is setting up
  connected,     \* models connected to their table's emitter
  asked,         \* models whose subscription has been sent to the listener
  emitters,      \* the tables in mEmitters
  permit,        \* value of mpStartSemaphore
  lpc,           \* where the listener thread is
  hooked,        \* subscribeSlot and recvNotification are connected
  signals,       \* subscribeSignals on their way to the listener thread
  quit,          \* QThread::quit has been called
  serverUp,      \* the database can be reached
  drops,         \* times it has gone down
  session,       \* the connection: "closed", "open", or "broken" and not noticed
  listens,       \* channels the session listens to
  commits,       \* the changes committed so far, each by its table
  wire,          \* notifications the listener has yet to handle
  posted,        \* notifications on their way to the UI thread
  received,      \* <<model, change>>: what models have been told, in that order
  owed           \* history: <<model, change>> that no failure excuses

uiVars     == <<uiPc, subscribing, connected, asked, emitters>>
threadVars == <<permit, lpc, hooked, quit>>
serverVars == <<serverUp, drops, commits>>
vars == <<uiPc, subscribing, connected, asked, emitters, permit, lpc, hooked, quit,
          signals, serverUp, drops, commits, session, listens, wire, posted, received,
          owed>>

Changes == 1..MaxCommits

TypeOK ==
  /\ uiPc \in {"start", "acquire", "running", "wait", "returned"}
  /\ subscribing \in Models \cup {NoModel}
  /\ connected \subseteq Models /\ asked \subseteq Models
  /\ emitters \subseteq Tables
  /\ permit \in 0..1
  /\ lpc \in {"absent", "connect", "hook", "release", "loop", "ended"}
  /\ hooked \in BOOLEAN /\ quit \in BOOLEAN
  /\ signals \in Seq(Tables)
  /\ serverUp \in BOOLEAN /\ drops \in 0..MaxDrops
  /\ session \in {"closed", "open", "broken"}
  /\ listens \subseteq Tables
  /\ commits \in Seq(Tables) /\ Len(commits) <= MaxCommits
  /\ wire \in Seq(Changes)
  /\ posted \in Seq(Models \X Changes)
  /\ received \in Seq(Models \X Changes)
  /\ owed \subseteq Models \X Changes

Init ==
  /\ uiPc = "start" /\ subscribing = NoModel
  /\ connected = {} /\ asked = {} /\ emitters = {}
  /\ permit = 0 /\ lpc = "absent" /\ hooked = FALSE /\ quit = FALSE
  /\ signals = <<>>
  /\ serverUp \in BOOLEAN /\ drops = 0 /\ commits = <<>>
  /\ session = "closed" /\ listens = {} /\ wire = <<>>
  /\ posted = <<>> /\ received = <<>>
  /\ owed = {}

-----------------------------------------------------------------------------
(* The database server.                                                    *)

(* The trigger notifies the sessions that listen.                          *)
Commit(t) ==
  /\ serverUp
  /\ Len(commits) < MaxCommits
  /\ commits' = Append(commits, t)
  /\ IF session = "open" /\ t \in listens
     THEN /\ wire' = Append(wire, Len(commits'))
          /\ owed' = owed \cup {<<m, Len(commits')>> : m \in {k \in asked : TableOf[k] = t}}
     ELSE UNCHANGED <<wire, owed>>
  /\ UNCHANGED <<uiVars, threadVars, signals, serverUp, drops, session, listens, posted,
                 received>>

(* Notifications that have not reached the client are lost.                *)
ServerDown ==
  /\ serverUp
  /\ drops < MaxDrops
  /\ drops' = drops + 1
  /\ serverUp' = FALSE
  /\ session' = IF session = "open" THEN "broken" ELSE session
  /\ \E k \in 0..Len(wire) :
       /\ wire' = SubSeq(wire, 1, k)
       /\ owed' = {o \in owed : o[2] \in ToSet(wire) => o[2] \in ToSet(wire')}
  /\ UNCHANGED <<uiVars, threadVars, signals, commits, listens, posted, received>>

ServerUp ==
  /\ ~serverUp
  /\ serverUp' = TRUE
  /\ UNCHANGED <<uiVars, threadVars, signals, drops, commits, session, listens, wire, posted,
                 received, owed>>

-----------------------------------------------------------------------------
(* The UI thread.                                                          *)

(* The constructor starts the thread ...                                   *)
UiStart ==
  /\ uiPc = "start"
  /\ uiPc' = "acquire"
  /\ lpc' = "connect"
  /\ UNCHANGED <<subscribing, connected, asked, emitters, permit, hooked, quit, signals,
                 serverVars, session, listens, wire, posted, received, owed>>

(* ... waits for it, and moves its own slots to it.                        *)
UiAcquire ==
  /\ uiPc = "acquire"
  /\ permit > 0
  /\ permit' = permit - 1
  /\ uiPc' = "running"
  /\ UNCHANGED <<subscribing, connected, asked, emitters, lpc, hooked, quit, signals,
                 serverVars, session, listens, wire, posted, received, owed>>

UiIdle == uiPc = "running" /\ subscribing = NoModel

(* Fault of emitter: a new emitter replaces the one the table has, and     *)
(* with it the connections of other models.                                *)
FaultReplaceEmitter(m) ==
  /\ UiIdle
  /\ m \notin connected
  /\ emitters' = emitters \cup {TableOf[m]}
  /\ connected' = {k \in connected : TableOf[k] # TableOf[m]} \cup {m}
  /\ subscribing' = m
  /\ UNCHANGED <<uiPc, asked, threadVars, signals, serverVars, session, listens, wire, posted,
                 received, owed>>

(* subscribeToNotifications: the model is connected to its table's emitter *)
(* first ...                                                               *)
connectEmitter(m) ==
  /\ UiIdle
  /\ m \notin connected
  /\ emitters' = emitters \cup {TableOf[m]}
  /\ connected' = connected \cup {m}
  /\ subscribing' = m
  /\ UNCHANGED <<uiPc, asked, threadVars, signals, serverVars, session, listens, wire, posted,
                 received, owed>>

(* ... and the listener told to subscribe.  A signal that is not connected *)
(* to a slot goes nowhere.                                                 *)
subscribe ==
  /\ subscribing # NoModel
  /\ signals' = IF hooked THEN Append(signals, TableOf[subscribing]) ELSE signals
  /\ asked' = asked \cup {subscribing}
  /\ subscribing' = NoModel
  /\ UNCHANGED <<uiPc, connected, emitters, threadVars, serverVars, session, listens, wire,
                 posted, received, owed>>

(* The model's emitNotification, in the UI thread's event loop.            *)
emitNotification ==
  /\ UiIdle
  /\ posted # <<>>
  /\ received' = Append(received, Head(posted))
  /\ posted' = Tail(posted)
  /\ UNCHANGED <<uiVars, threadVars, signals, serverVars, session, listens, wire, owed>>

(* main() after the event loop: quit(), then wait().                       *)
UiQuit ==
  /\ UiIdle
  /\ uiPc' = "wait"
  /\ quit' = TRUE
  /\ UNCHANGED <<subscribing, connected, asked, emitters, permit, lpc, hooked, signals,
                 serverVars, session, listens, wire, posted, received, owed>>

UiReturn ==
  /\ uiPc = "wait"
  /\ lpc = "ended"
  /\ uiPc' = "returned"
  /\ UNCHANGED <<subscribing, connected, asked, emitters, threadVars, signals, serverVars,
                 session, listens, wire, posted, received, owed>>

-----------------------------------------------------------------------------
(* The listener thread.                                                    *)

(* DbConnection's constructor tries once.                                  *)
RunConnect ==
  /\ lpc = "connect"
  /\ session' = IF serverUp THEN "open" ELSE "closed"
  /\ lpc' = "hook"
  /\ UNCHANGED <<uiVars, permit, hooked, quit, signals, serverVars, listens, wire, posted,
                 received, owed>>

(* Fault of run: the thread lets the constructor go before it connects its *)
(* slots.                                                                  *)
FaultReleaseFirst ==
  /\ lpc = "hook"
  /\ permit' = permit + 1
  /\ lpc' = "release"
  /\ UNCHANGED <<uiVars, hooked, quit, signals, serverVars, session, listens, wire, posted,
                 received, owed>>

RunHook ==
  /\ lpc = "hook"
  /\ hooked' = TRUE
  /\ lpc' = "release"
  /\ UNCHANGED <<uiVars, permit, quit, signals, serverVars, session, listens, wire, posted,
                 received, owed>>

(* Fault of run: the semaphore is released twice.                          *)
FaultReleaseTwice ==
  /\ lpc = "release"
  /\ permit' = permit + 2
  /\ lpc' = "loop"
  /\ UNCHANGED <<uiVars, hooked, quit, signals, serverVars, session, listens, wire, posted,
                 received, owed>>

RunRelease ==
  /\ lpc = "release"
  /\ permit' = permit + 1
  /\ lpc' = "loop"
  /\ UNCHANGED <<uiVars, hooked, quit, signals, serverVars, session, listens, wire, posted,
                 received, owed>>

(* A LISTEN on a closed connection does nothing; on a broken one it fails, *)
(* and the driver notices.  Nobody asks again.                             *)
subscribeSlot ==
  /\ lpc = "loop"
  /\ signals # <<>>
  /\ signals' = Tail(signals)
  /\ CASE session = "open"   -> listens' = listens \cup {Head(signals)} /\ UNCHANGED session
       [] session = "broken" -> session' = "closed" /\ listens' = {}
       [] OTHER              -> UNCHANGED <<session, listens>>
  /\ wire' = IF session = "broken" THEN <<>> ELSE wire
  /\ owed' = IF session = "broken" THEN {o \in owed : o[2] \notin ToSet(wire)} ELSE owed
  /\ UNCHANGED <<uiVars, threadVars, serverVars, posted, received>>

(* Fault of recvNotification: the newest notification is handled first.    *)
FaultNewestFirst ==
  /\ lpc = "loop"
  /\ wire # <<>>
  /\ LET told == {m \in connected : TableOf[m] = commits[Last(wire)]} IN
     \E list \in SetToSeqs({<<m, Last(wire)>> : m \in told}) : posted' = posted \o list
  /\ wire' = Front(wire)
  /\ UNCHANGED <<uiVars, threadVars, signals, serverVars, session, listens, received, owed>>

(* The table's emitter parses the notification once and posts it to every  *)
(* model connected to it; a payload that is no JSON becomes an empty       *)
(* message, which is posted, too.                                          *)
recvNotification ==
  /\ lpc = "loop"
  /\ wire # <<>>
  /\ LET told == {m \in connected : TableOf[m] = commits[Head(wire)]} IN
     \E list \in SetToSeqs({<<m, Head(wire)>> : m \in told}) : posted' = posted \o list
  /\ wire' = Tail(wire)
  /\ UNCHANGED <<uiVars, threadVars, signals, serverVars, session, listens, received, owed>>

(* The driver watches the socket once it listens to something.             *)
NoticeBroken ==
  /\ lpc = "loop"
  /\ session = "broken" /\ listens # {} /\ wire = <<>>
  /\ session' = "closed"
  /\ listens' = {}
  /\ UNCHANGED <<uiVars, threadVars, signals, serverVars, wire, posted, received, owed>>

(* The reconnect timer.                                                    *)
tryConnect ==
  /\ lpc = "loop"
  /\ session = "closed" /\ serverUp
  /\ session' = "open"
  /\ UNCHANGED <<uiVars, threadVars, signals, serverVars, listens, wire, posted, received,
                 owed>>

(* Fault of run: the thread first gets its connection back.                *)
FaultQuitWhenOpen ==
  /\ lpc = "loop"
  /\ quit
  /\ session = "open"
  /\ lpc' = "ended"
  /\ session' = "closed" /\ listens' = {} /\ wire' = <<>>
  /\ UNCHANGED <<uiVars, permit, hooked, quit, signals, serverVars, posted, received, owed>>

(* The event loop ends, and the connection is destroyed in its thread.     *)
RunQuit ==
  /\ lpc = "loop"
  /\ quit
  /\ lpc' = "ended"
  /\ session' = "closed" /\ listens' = {} /\ wire' = <<>>
  /\ UNCHANGED <<uiVars, permit, hooked, quit, signals, serverVars, posted, received, owed>>

-----------------------------------------------------------------------------
UiStep ==
  \/ UiStart \/ UiAcquire \/ subscribe \/ emitNotification \/ UiReturn

RunStep ==
  \/ RunConnect \/ RunHook \/ RunRelease
  \/ subscribeSlot \/ recvNotification \/ NoticeBroken \/ tryConnect \/ RunQuit

Next ==
  \/ \E t \in Tables : Commit(t)
  \/ ServerDown \/ ServerUp
  \/ \E m \in Models : connectEmitter(m)
  \/ UiQuit
  \/ UiStep
  \/ RunStep

Spec == Init /\ [][Next]_vars

(* Both threads keep running, and an event loop gets to every kind of      *)
(* event: posted calls, the socket, the timer, its end.  Nobody has to     *)
(* subscribe, to commit, to close the program or to repair the server.     *)
FairSpec ==
  /\ Spec
  /\ WF_vars(UiStep)
  /\ WF_vars(RunConnect \/ RunHook \/ RunRelease)
  /\ WF_vars(subscribeSlot) /\ WF_vars(recvNotification)
  /\ WF_vars(NoticeBroken) /\ WF_vars(tryConnect) /\ WF_vars(RunQuit)

-----------------------------------------------------------------------------
(* Refinement: a change is on its way to a model while the UI thread has   *)
(* it in its queue, or the listener has yet to handle it.                  *)
Stream == INSTANCE NotificationStream WITH
  log    <- commits,
  joined <- connected,
  coming <- ToSet(posted) \cup
            UNION {{<<m, n>> : m \in {k \in connected : TableOf[k] = commits[n]}} :
                     n \in ToSet(wire)},
  told   <- received

(* Through breaks of the connection, subscriptions of several models of a  *)
(* table, the emitters and the UI thread's queue, the models are told of   *)
(* the changes of their own tables, each once, in the order of the commits *)
(* over all tables, and all models of a table of the same ones; only a     *)
(* break loses any, the newest first.                                      *)
ImplementsNotificationStream == Stream!Spec

(* Once a model's subscription has been sent, it misses no change the      *)
(* session was notified of, unless the connection broke before it came:    *)
(* connecting the emitter first leaves no gap.                             *)
NoGapWhileListening ==
  uiPc = "running" /\ wire = <<>> /\ posted = <<>> =>
    owed \subseteq ToSet(received)

(* If the server can always be reached, every subscription is established. *)
SubscriptionsEstablished ==
  [](serverUp) => \A m \in Models : m \in asked ~> (TableOf[m] \in listens \/ quit)

(* The program ends: wait() returns, whatever state the connection is in.  *)
ShutdownCompletes == quit ~> uiPc = "returned"
=============================================================================
