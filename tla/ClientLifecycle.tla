---------------------------- MODULE ClientLifecycle ----------------------------
(***************************************************************************)
(* EbinexClient: connect, disconnect, wait_until_ready and the account     *)
(* selection that moves the core subscription, over a supervisor that does *)
(* what Runner says and Supervisor implements.                             *)
(*                                                                         *)
(* Every task makes one call.  Calls interleave with each other at their   *)
(* awaits and with the supervisor's runner, and may be cancelled.          *)
(***************************************************************************)
EXTENDS Naturals

CONSTANTS Connectors, Disconnectors, Selectors, Waiters,
          Configured,  \* config.environment
          Nobody       \* the connect lock is free; there is no handle

Environments == {"TEST", "REAL"}
Tasks == Connectors \cup Disconnectors \cup Selectors \cup Waiters

ASSUME ConfiguredAssumption == Configured \in Environments
ASSUME NobodyAssumption == Nobody \notin Tasks \cup Environments

VARIABLES
  pc,          \* where each call stands
  lock,        \* the call inside _connect_lock
  supervisor,  \* _supervisor is not None
  run,         \* what is seen of the supervisor built last (Runner)
  started,     \* that runner has been ready once
  duplicate,   \* a supervisor was replaced while its runner was running
  connected,   \* _ready
  error,       \* _connection_error is not None
  woken,       \* waiting calls that _connection_changed has woken
  selected,    \* environment of accounts.selected
  coreEnv,     \* _core_environment
  coreHandle,  \* _core_user_handle, named by its environment
  refs,        \* references of the user topics at the supervisor
  wants        \* the environment each selection asks for

vars == <<pc, lock, supervisor, run, started, duplicate, connected, error,
          woken, selected, coreEnv, coreHandle, refs, wants>>

Stages == {"idle", "authenticating", "choosing", "starting", "rolling back",
           "stopping", "asleep", "listing", "subscribing", "unsubscribing",
           "returned", "raised", "crashed"}

Promised == INSTANCE Runner

TypeOK ==
  /\ pc \in [Tasks -> Stages]
  /\ lock \in Tasks \cup {Nobody}
  /\ run \in Promised!Runs
  /\ {supervisor, started, duplicate, connected, error} \subseteq BOOLEAN
  /\ woken \in SUBSET Tasks
  /\ selected \in Environments \cup {Nobody}
  /\ coreEnv \in Environments \cup {Nobody}
  /\ coreHandle \in Environments \cup {Nobody}
  /\ refs \in [Environments -> Nat]
  /\ wants \in [Selectors -> Environments]

NoRefs == [e \in Environments |-> 0]

Init ==
  /\ pc = [t \in Tasks |-> "idle"]
  /\ lock = Nobody
  /\ supervisor = FALSE /\ run = "none" /\ started = FALSE
  /\ duplicate = FALSE
  /\ connected = FALSE /\ error = FALSE
  /\ woken = {}
  /\ selected = Nobody
  /\ coreEnv = Nobody /\ coreHandle = Nobody
  /\ refs = NoRefs
  /\ wants \in [Selectors -> Environments]

clientVars == <<connected, error, woken>>
coreVars == <<selected, coreEnv, coreHandle, refs, wants>>
runVars == <<supervisor, run, started, duplicate>>

-----------------------------------------------------------------------------
(***************************************************************************)
(* Decisions of the code, one operator each.                               *)
(***************************************************************************)

Asleep == {t \in Tasks : pc[t] = "asleep"}

\* _connection_changed.set()
MutWakeAll == UNCHANGED woken
WakeAll == woken' = woken \cup Asleep

\* supervisor.ready
SupervisorReady == Promised!Ready

\* supervisor.running
MutRunning == run \in {"starting", "ready", "breaking"}
Running == Promised!Running

\* Whether a selection may report the client ready again.
MutMayReport == TRUE
MayReport == SupervisorReady

\* The wait inside connect() has a timeout, that of wait_until_ready() need
\* not have one.
MutHasTimeout(t) == FALSE
HasTimeout(t) == t \in Connectors

\* Releasing a handle the supervisor does not know is ignored.
Released(counts, e) == IF counts[e] = 0 THEN counts
                                        ELSE [counts EXCEPT ![e] = @ - 1]

Go(t, where) == pc' = [pc EXCEPT ![t] = where]

\* One turn of wait_until_ready's loop.
WaitTurn(t) ==
  /\ Go(t, IF connected THEN "returned" ELSE IF error THEN "raised"
                                        ELSE "asleep")
  /\ woken' = woken \ {t}

-----------------------------------------------------------------------------
(***************************************************************************)
(* connect()                                                               *)
(***************************************************************************)

Connect(t) ==
  /\ pc[t] = "idle" /\ lock = Nobody
  /\ \/ /\ connected
        /\ Go(t, "returned")
        /\ UNCHANGED <<lock, error, woken>>
     \/ /\ ~connected /\ supervisor /\ Running
        /\ WaitTurn(t)
        /\ lock' = IF pc'[t] = "asleep" THEN t ELSE Nobody
        /\ UNCHANGED error
     \/ /\ ~connected /\ ~(supervisor /\ Running)
        /\ Go(t, "authenticating")
        /\ lock' = t
        /\ error' = FALSE
        /\ UNCHANGED woken
  /\ UNCHANGED <<connected, runVars, coreVars>>

Authenticated(t) ==
  /\ pc[t] = "authenticating"
  /\ Go(t, "choosing")
  /\ UNCHANGED <<lock, runVars, clientVars, coreVars>>

\* The login or the account list fails, or the call is cancelled: nothing has
\* been built yet and nothing is undone.
ConnectAborts(t) ==
  /\ pc[t] \in {"authenticating", "choosing"}
  /\ Go(t, "raised")
  /\ lock' = Nobody
  /\ UNCHANGED <<runVars, clientVars, coreVars>>

\* The configured account is selected, a supervisor built, the core topics
\* registered and the runner started, in one stretch without an await.
Chosen(t) ==
  /\ pc[t] = "choosing"
  /\ Go(t, "starting")
  /\ duplicate' = (duplicate \/ Promised!Running)
  /\ selected' = Configured
  /\ supervisor' = TRUE /\ run' = "starting" /\ started' = FALSE
  /\ refs' = [NoRefs EXCEPT ![Configured] = 1]
  /\ coreEnv' = Configured /\ coreHandle' = Configured
  /\ UNCHANGED <<lock, clientVars, wants>>

\* start() has seen the ready event.
Started(t) ==
  /\ pc[t] = "starting" /\ started
  /\ Go(t, "returned")
  /\ lock' = Nobody
  /\ UNCHANGED <<runVars, clientVars, coreVars>>

\* The runner fails, the timeout passes or the call is cancelled, possibly
\* after the runner has reported CONNECTED.
StartFails(t) ==
  /\ pc[t] = "starting"
  /\ Go(t, "rolling back")
  /\ Promised!Stops
  /\ UNCHANGED <<lock, supervisor, started, duplicate, clientVars, coreVars>>

RolledBack(t) ==
  /\ pc[t] = "rolling back" /\ run = "none"
  /\ Go(t, "raised")
  /\ lock' = Nobody
  /\ supervisor' = FALSE
  /\ coreEnv' = Nobody /\ coreHandle' = Nobody
  /\ UNCHANGED <<run, started, duplicate, clientVars, selected, refs, wants>>

\* The call is cancelled while stop() joins the runner: stop() still waits for
\* it, and then nothing else is undone.
RollbackCancelled(t) ==
  /\ pc[t] = "rolling back" /\ run = "none"
  /\ Go(t, "raised")
  /\ lock' = Nobody
  /\ UNCHANGED <<runVars, clientVars, coreVars>>

\* wait_until_ready, from connect() or on its own.
WaitUntilReady(t) ==
  /\ pc[t] = "idle"
  /\ WaitTurn(t)
  /\ UNCHANGED <<lock, runVars, connected, error, coreVars>>

Release(t) == lock' = IF lock = t /\ pc'[t] # "asleep" THEN Nobody ELSE lock

WaiterRuns(t) ==
  /\ pc[t] = "asleep" /\ t \in woken
  /\ WaitTurn(t)
  /\ Release(t)
  /\ UNCHANGED <<runVars, connected, error, coreVars>>

WaitTimesOut(t) ==
  /\ pc[t] = "asleep" /\ HasTimeout(t)
  /\ Go(t, "raised")
  /\ woken' = woken \ {t}
  /\ Release(t)
  /\ UNCHANGED <<runVars, connected, error, coreVars>>

-----------------------------------------------------------------------------
(***************************************************************************)
(* disconnect()                                                            *)
(***************************************************************************)

Disconnect(t) ==
  /\ pc[t] = "idle" /\ lock = Nobody
  /\ connected' = FALSE /\ error' = FALSE
  /\ WakeAll
  /\ supervisor' = FALSE
  /\ coreEnv' = Nobody /\ coreHandle' = Nobody
  /\ IF supervisor THEN Promised!Stops ELSE UNCHANGED run
  /\ IF supervisor /\ run' # "none"
       THEN Go(t, "stopping") /\ lock' = t
       ELSE Go(t, "returned") /\ UNCHANGED lock
  /\ UNCHANGED <<started, duplicate, selected, refs, wants>>

\* A disconnect() that is cancelled joins the runner too.
Disconnected(t) ==
  /\ pc[t] = "stopping" /\ run = "none"
  /\ Go(t, "returned") \/ Go(t, "raised")
  /\ lock' = Nobody
  /\ UNCHANGED <<runVars, clientVars, coreVars>>

-----------------------------------------------------------------------------
(***************************************************************************)
(* accounts.select() and _account_selected()                               *)
(***************************************************************************)

Select(t) ==
  /\ pc[t] = "idle"
  /\ Go(t, "listing")
  /\ UNCHANGED <<lock, runVars, clientVars, coreVars>>

\* The finally clause.  disconnect() may have taken the supervisor away, and
\* then reading its flag is an AttributeError.
Report(t, where, before) ==
  /\ Go(t, IF supervisor THEN where ELSE "crashed")
  /\ IF supervisor /\ MayReport
       THEN connected' = TRUE /\ WakeAll
       ELSE connected' = before /\ UNCHANGED woken

\* The new topic's handle becomes the core handle and the old one is released,
\* at whatever supervisor the client has by now.
Swap(t, counts, before) ==
  LET old == coreHandle
      new == wants[t]
      releases == old \notin {Nobody, new}
      last == releases /\ counts[old] = 1
  IN  /\ coreHandle' = new /\ coreEnv' = new
      /\ refs' = IF releases /\ supervisor THEN Released(counts, old)
                                           ELSE counts
      /\ IF supervisor /\ last /\ SupervisorReady
           THEN Go(t, "unsubscribing") /\ connected' = before /\ UNCHANGED woken
           ELSE Report(t, "returned", before)

\* The account list arrives.  Nothing more is done without a ready supervisor
\* or for the topic already subscribed.
Listed(t) ==
  /\ pc[t] = "listing"
  /\ selected' = wants[t]
  /\ \/ /\ ~(supervisor /\ SupervisorReady) \/ wants[t] = coreEnv
        /\ Go(t, "returned")
        /\ UNCHANGED <<connected, woken, coreEnv, coreHandle, refs>>
     \/ /\ supervisor /\ SupervisorReady /\ wants[t] # coreEnv
        /\ refs[wants[t]] = 0
        /\ connected' = FALSE
        /\ refs' = [refs EXCEPT ![wants[t]] = 1]
        /\ Go(t, "subscribing")
        /\ UNCHANGED <<woken, coreEnv, coreHandle>>
     \/ /\ supervisor /\ SupervisorReady /\ wants[t] # coreEnv
        /\ refs[wants[t]] > 0
        /\ Swap(t, [refs EXCEPT ![wants[t]] = @ + 1], FALSE)
  /\ UNCHANGED <<lock, runVars, error, wants>>

SelectFails(t) ==
  /\ pc[t] = "listing"
  /\ Go(t, "raised")
  /\ UNCHANGED <<lock, runVars, clientVars, coreVars>>

Subscribed(t) ==
  /\ pc[t] = "subscribing"
  /\ Swap(t, refs, connected)
  /\ UNCHANGED <<lock, runVars, error, selected, wants>>

Unsubscribed(t) ==
  /\ pc[t] = "unsubscribing"
  /\ Report(t, "returned", connected)
  /\ UNCHANGED <<lock, runVars, error, coreVars>>

\* The send raises or the call is cancelled.
SwitchFails(t) ==
  /\ pc[t] \in {"subscribing", "unsubscribing"}
  /\ Report(t, "raised", connected)
  /\ UNCHANGED <<lock, runVars, error, coreVars>>

-----------------------------------------------------------------------------
(***************************************************************************)
(* The supervisor's steps, and its notifications to the client             *)
(***************************************************************************)

RunReady ==
  /\ Promised!Connects /\ started' = TRUE
  /\ connected' = TRUE /\ error' = FALSE
  /\ WakeAll
  /\ UNCHANGED <<pc, lock, supervisor, duplicate, coreVars>>

\* The client hears of a failure once the socket is closed.  The runner gives
\* the event loop a turn between a notification and its next step, and woken
\* tasks run in that turn.
RunSlips ==
  /\ woken = {}
  /\ Promised!Slips
  /\ UNCHANGED <<pc, lock, supervisor, started, duplicate, clientVars,
                 coreVars>>

\* RECONNECTING, or DISCONNECTED with the terminal error.
Notify(failed) ==
  /\ connected' = FALSE
  /\ error' = (error \/ failed)
  /\ WakeAll

RunLost ==
  /\ Promised!Loses
  /\ Notify(FALSE)
  /\ UNCHANGED <<pc, lock, supervisor, started, duplicate, coreVars>>

RunFails ==
  /\ Promised!Fails
  /\ Notify(TRUE)
  /\ UNCHANGED <<pc, lock, supervisor, started, duplicate, coreVars>>

RunSaysSo ==
  /\ Promised!SaysSo
  /\ \E failed \in BOOLEAN : Notify(failed)
  /\ UNCHANGED <<pc, lock, supervisor, started, duplicate, coreVars>>

\* It ends without a word, or stop() has joined it.
RunEnds ==
  /\ Promised!Hushes \/ Promised!Ends
  /\ UNCHANGED <<pc, lock, supervisor, started, duplicate, clientVars,
                 coreVars>>

-----------------------------------------------------------------------------

ConnectSteps(t) ==
  Authenticated(t) \/ ConnectAborts(t) \/ Chosen(t) \/ Started(t)
    \/ StartFails(t) \/ RolledBack(t) \/ RollbackCancelled(t)
WaitSteps(t) == WaiterRuns(t) \/ WaitTimesOut(t)
SelectSteps(t) ==
  Listed(t) \/ SelectFails(t) \/ Subscribed(t) \/ Unsubscribed(t)
    \/ SwitchFails(t)
RunStops == RunSaysSo \/ RunEnds

Next ==
  \/ \E t \in Connectors : Connect(t) \/ ConnectSteps(t)
  \/ \E t \in Disconnectors : Disconnect(t) \/ Disconnected(t)
  \/ \E t \in Selectors : Select(t) \/ SelectSteps(t)
  \/ \E t \in Waiters : WaitUntilReady(t)
  \/ \E t \in Waiters \cup Connectors : WaitSteps(t)
  \/ RunReady \/ RunSlips \/ RunLost \/ RunFails \/ RunStops

Spec == Init /\ [][Next]_vars

\* REST requests, sends and start() have timeouts, a woken task runs, and a
\* stopped runner ends (Supervisor!StopReturns).
Fairness ==
  /\ \A t \in Connectors : /\ WF_vars(ConnectSteps(t))
                           /\ WF_vars(WaiterRuns(t))
                           /\ WF_vars(WaitTimesOut(t))
  /\ \A t \in Disconnectors : WF_vars(Disconnected(t))
  /\ \A t \in Selectors : WF_vars(SelectSteps(t))
  /\ \A t \in Waiters : WF_vars(WaiterRuns(t))
  /\ WF_vars(RunStops)

FairSpec == Spec /\ Fairness

-----------------------------------------------------------------------------
(***************************************************************************)
(* What the client promises.                                               *)
(***************************************************************************)

Over(t) == pc[t] \in {"returned", "raised", "crashed"}

\* No waiter sleeps through the news it waits for.
NoLostWakeup == \A t \in Asleep \ woken : ~connected /\ ~error

\* However connect and disconnect overlap, no supervisor is built while the
\* runner of another one is alive.
NoDuplicateTransport == ~duplicate

\* The client is not ready while its runner dials, or has given up, although
\* selections report it ready too.
ReadyMeansUsable == connected => run \notin {"starting", "lost", "failed"}

\* connect, disconnect and select always end.
EveryCallReturns ==
  \A t \in Tasks \ Waiters : pc[t] # "idle" ~> Over(t)

\* A ready client has a supervisor to talk to.  The rollback of connect() breaks
\* this (ClientLifecycle_ghost.cfg).
ConnectedHasSupervisor == connected => supervisor

\* When nothing is in flight, the user topic is the selected account's.  No
\* configuration lists this: a selection that is answered while the supervisor is
\* not ready breaks it, as TLC shows under ClientLifecycle.cfg.
Settled ==
  /\ supervisor /\ run = "ready" /\ lock = Nobody
  /\ \A t \in Selectors : pc[t] = "idle" \/ Over(t)
CoreFollowsSelected == Settled => coreEnv = selected
=============================================================================
