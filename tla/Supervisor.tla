------------------------------ MODULE Supervisor ------------------------------
(***************************************************************************)
(* ConnectionSupervisor and SubscriptionRegistry: the runner that dials,   *)
(* replays, serves and reconnects, stop() from another task, and the       *)
(* consumers that subscribe and unsubscribe meanwhile.                     *)
(*                                                                         *)
(* A runner phase is an await of _run.  A subscription's remote id is      *)
(* named by the consumer that created it, since every acquire that creates *)
(* one mints a new id and a consumer subscribes once.  The broker keeps,   *)
(* per connection, how often each id was subscribed.                       *)
(***************************************************************************)
EXTENDS Naturals, FiniteSets

CONSTANTS Consumers,  \* tasks that subscribe once and later unsubscribe
          Core,       \* those that do so for connect(), before it starts
          Dests,      \* destinations
          Budget,     \* reconnect_attempts
          NoId        \* the remote id of a destination that has none

ASSUME ConsumersAssumption == IsFiniteSet(Consumers)
ASSUME BudgetAssumption == Budget \in Nat
ASSUME CoreAssumption == Core \subseteq Consumers
ASSUME NoIdAssumption == NoId \notin Consumers

VARIABLES
  phase,     \* where _run stands
  ready,     \* _ready
  stopping,  \* _stopping
  cancel,    \* a cancellation is on its way to the runner
  failures,  \* _reconnect_failures
  todo,      \* the remote ids _connect still has to replay
  wire,      \* the connection of the current socket
  stray,     \* a connection nobody holds any more is still open
  broker,    \* SUBSCRIBE frames of each id in force on the connection
  unsent,    \* ids whose own SUBSCRIBE is due on it and has not been written
  refs,      \* references of each destination's subscription
  remote,    \* its remote id
  consumer,  \* where each consumer stands
  wants,     \* the destination each consumer is after
  stopper    \* where the call of stop() stands; "cancelled" still joins

vars == <<phase, ready, stopping, cancel, failures, todo, wire, stray, broker,
          unsent, refs, remote, consumer, wants, stopper>>

Phases == {"new", "dialing", "handshake", "replaying", "session", "aborting",
           "closing", "backoff", "failed", "ended"}

Standings == {"idle", "queued", "subscribing", "holding", "replacing",
              "released", "gave up"}

TypeOK ==
  /\ phase \in Phases
  /\ ready \in BOOLEAN /\ stopping \in BOOLEAN /\ cancel \in BOOLEAN
  /\ failures \in 0..(Budget + 1)
  /\ todo \in SUBSET Consumers
  /\ wire \in {"none", "open", "broken"}
  /\ stray \in BOOLEAN
  /\ broker \in [Consumers -> Nat]
  /\ unsent \in SUBSET Consumers
  /\ refs \in [Dests -> 0..Cardinality(Consumers)]
  /\ remote \in [Dests -> Consumers \cup {NoId}]
  /\ consumer \in [Consumers -> Standings]
  /\ wants \in [Consumers -> Dests]
  /\ stopper \in {"none", "joining", "cancelled", "done", "raised"}

NoFrames == [c \in Consumers |-> 0]

Init ==
  /\ phase = "new"
  /\ ready = FALSE /\ stopping = FALSE /\ cancel = FALSE
  /\ failures = 0
  /\ todo = {}
  /\ wire = "none" /\ stray = FALSE
  /\ broker = NoFrames /\ unsent = {}
  /\ refs = [d \in Dests |-> 0]
  /\ remote = [d \in Dests |-> NoId]
  /\ consumer = [c \in Consumers |-> "idle"]
  /\ wants \in [Consumers -> Dests]
  /\ stopper = "none"

registry == <<refs, remote, consumer, wants>>

-----------------------------------------------------------------------------
(***************************************************************************)
(* Decisions of the code, one operator each.                               *)
(***************************************************************************)

\* registry.active(), read once when the socket has connected.
Active == {c \in Consumers : \E d \in Dests : remote[d] = c}

\* The ready flag is raised after the last SUBSCRIBE has been sent.
MutMayGoReady == Cardinality(todo) <= 1
MayGoReady == todo = {}

\* Only the acquire that creates a subscription sends it.
Sends(created) == created /\ ready

\* The failure count survives everything except a received frame.
MutFailuresAfterOpen == 0
FailuresAfterOpen == failures

\* The attempt that exceeds the budget is the last.
MutExhausted(count) == count >= Budget
Exhausted(count) == count > Budget

\* The loop condition of _run.
MutContinues == TRUE
Continues == ~stopping

\* There is no runner, or it is done.
RunnerOver == phase \in {"new", "failed", "ended"}

\* stop() cancels the runner if there is one.
MutRunnerToCancel == phase = "session"
RunnerToCancel == ~RunnerOver

\* A broken connection takes no more frames.
Transmit(frames) == broker' = IF wire = "open" THEN frames ELSE broker

\* A frame that waits for a socket goes with it.
CloseWire == wire' = "none" /\ broker' = NoFrames /\ unsent' = {}

-----------------------------------------------------------------------------
(***************************************************************************)
(* The runner                                                              *)
(***************************************************************************)

\* start(), after the core subscriptions.
Start ==
  /\ phase = "new" /\ ~stopping
  /\ \A c \in Core : consumer[c] # "idle"
  /\ phase' = "dialing"
  /\ UNCHANGED <<ready, stopping, cancel, failures, todo, wire, stray, broker,
                 unsent, registry, stopper>>

\* The WebSocket opens; SockJS and STOMP still have to be greeted.
DialOpens ==
  /\ phase = "dialing" /\ ~cancel
  /\ phase' = "handshake"
  /\ wire' = "open"
  /\ failures' = FailuresAfterOpen
  /\ UNCHANGED <<ready, stopping, cancel, todo, stray, broker, unsent,
                 registry, stopper>>

HandshakeDone ==
  /\ phase = "handshake" /\ ~cancel
  /\ phase' = "replaying"
  /\ todo' = Active
  /\ UNCHANGED <<ready, stopping, cancel, failures, wire, stray, broker,
                 unsent, registry, stopper>>

ReplayOne(c) ==
  /\ phase = "replaying" /\ ~cancel
  /\ c \in todo
  /\ todo' = todo \ {c}
  /\ Transmit([broker EXCEPT ![c] = @ + 1])
  /\ UNCHANGED <<phase, ready, stopping, cancel, failures, wire, stray,
                 unsent, registry, stopper>>

GoReady ==
  /\ phase = "replaying" /\ ~cancel
  /\ MayGoReady
  /\ phase' = "session"
  /\ ready' = TRUE
  /\ UNCHANGED <<stopping, cancel, failures, todo, wire, stray, broker,
                 unsent, registry, stopper>>

FrameReceived ==
  /\ phase = "session" /\ wire = "open" /\ ~cancel
  /\ failures' = 0
  /\ UNCHANGED <<phase, ready, stopping, cancel, todo, wire, stray, broker,
                 unsent, registry, stopper>>

\* A child of the task group fails: the socket broke, the receive deadline
\* passed or a frame handler raised.  The other child is being cancelled, and
\* the ready flag is still up.
ChildFails ==
  /\ phase = "session" /\ ~cancel
  /\ phase' = "aborting"
  /\ UNCHANGED <<ready, stopping, cancel, failures, todo, wire, stray, broker,
                 unsent, registry, stopper>>

\* The except clause: the ready flag falls, then the socket is closed.
Fail ==
  /\ phase' = "closing"
  /\ ready' = FALSE
  /\ todo' = {}

\* A cancellation that finds the task group already failing is swallowed, as
\* the group raises its own exceptions instead; from Python 3.13 on it comes
\* again at the next await.
GroupRaises ==
  /\ phase = "aborting"
  /\ Fail
  /\ cancel' \in {FALSE, cancel}
  /\ UNCHANGED <<stopping, failures, wire, stray, broker, unsent, registry,
                 stopper>>

\* Dialing or the handshake fails or times out, or a replay send raises.
ConnectFails ==
  /\ \/ phase \in {"dialing", "handshake"}
     \/ phase = "replaying" /\ wire = "broken"
  /\ ~cancel
  /\ Fail
  /\ UNCHANGED <<stopping, cancel, failures, wire, stray, broker, unsent,
                 registry, stopper>>

Closed ==
  /\ phase = "closing" /\ ~cancel
  /\ CloseWire
  /\ failures' = failures + 1
  /\ phase' = IF Exhausted(failures') THEN "failed" ELSE "backoff"
  /\ UNCHANGED <<ready, stopping, cancel, todo, stray, registry, stopper>>

BackoffEnds ==
  /\ phase = "backoff" /\ ~cancel
  /\ phase' = IF Continues THEN "dialing" ELSE "ended"
  /\ UNCHANGED <<ready, stopping, cancel, failures, todo, wire, stray, broker,
                 unsent, registry, stopper>>

\* The cancellation reaches the runner's await.  The handshake's own except
\* clause does not catch it, so the connection it opened has no owner left.
RunnerCancelled ==
  /\ cancel /\ phase # "aborting"
  /\ phase' = "ended"
  /\ cancel' = FALSE
  /\ todo' = {}
  /\ IF phase = "handshake"
       THEN stray' = TRUE /\ CloseWire
       ELSE UNCHANGED <<stray, wire, broker, unsent>>
  /\ UNCHANGED <<ready, stopping, failures, registry, stopper>>

WireBreaks ==
  /\ wire = "open" /\ phase # "handshake"
  /\ wire' = "broken"
  /\ UNCHANGED <<phase, ready, stopping, cancel, failures, todo, stray, broker,
                 unsent, registry, stopper>>

-----------------------------------------------------------------------------
(***************************************************************************)
(* stop()                                                                  *)
(***************************************************************************)

Stop ==
  /\ stopper = "none"
  /\ stopping' = TRUE
  /\ ready' = FALSE
  /\ cancel' = RunnerToCancel
  /\ stopper' = "joining"
  /\ UNCHANGED <<phase, failures, todo, wire, stray, broker, unsent,
                 registry>>

\* The runner is done; the socket, if it is still there, is closed (a close
\* that was cut short has already sent its close frame).
StopFinishes ==
  /\ stopper = "joining" /\ RunnerOver
  /\ stopper' = "done"
  /\ CloseWire
  /\ UNCHANGED <<phase, ready, stopping, cancel, failures, todo, stray,
                 registry>>

\* The task that runs stop() is cancelled: gather() passes that on to the
\* runner and goes on joining it.
StopCancelled ==
  /\ stopper \in {"joining", "cancelled"}
  /\ cancel' = RunnerToCancel
  /\ stopper' = "cancelled"
  /\ UNCHANGED <<phase, ready, stopping, failures, todo, wire, stray, broker,
                 unsent, registry>>

\* stop() raises once the runner is done; the socket stays as it is, unless it
\* was the close of the socket that was cancelled.
StopRaises ==
  /\ stopper = "cancelled" /\ RunnerOver
  /\ stopper' = "raised"
  /\ CloseWire \/ UNCHANGED <<wire, broker, unsent>>
  /\ UNCHANGED <<phase, ready, stopping, cancel, failures, todo, stray,
                 registry>>

-----------------------------------------------------------------------------
(***************************************************************************)
(* Consumers                                                               *)
(***************************************************************************)

Move(c, where) == consumer' = [consumer EXCEPT ![c] = where]

\* connect() subscribes before it starts the runner; everybody else asks
\* require_supervisor() for a ready one in the same step.  The frame of a
\* subscription that this call creates may have to wait for the socket.
Subscribe(c) ==
  LET d == wants[c]
      created == remote[d] = NoId
  IN  /\ consumer[c] = "idle"
      /\ IF c \in Core THEN phase = "new" ELSE ready
      /\ refs' = [refs EXCEPT ![d] = @ + 1]
      /\ remote' = IF created THEN [remote EXCEPT ![d] = c] ELSE remote
      /\ IF Sends(created)
           THEN unsent' = unsent \cup {c} /\ Move(c, "queued")
           ELSE UNCHANGED unsent /\ Move(c, "holding")
      /\ UNCHANGED <<phase, ready, stopping, cancel, failures, todo, wire,
                     stray, broker, wants, stopper>>

\* The socket's send lock is free, and the connection the call began with is
\* still there: the frame is written, and the send may still have to drain it.
SubscribeIsWritten(c) ==
  /\ consumer[c] = "queued" /\ c \in unsent
  /\ unsent' = unsent \ {c}
  /\ Transmit([broker EXCEPT ![c] = @ + 1])
  /\ Move(c, "subscribing")
  /\ UNCHANGED <<phase, ready, stopping, cancel, failures, todo, wire, stray,
                 refs, remote, wants, stopper>>

\* The send completes and the handle is returned.
Subscribed(c) ==
  /\ consumer[c] = "subscribing"
  /\ Move(c, "holding")
  /\ UNCHANGED <<phase, ready, stopping, cancel, failures, todo, wire, stray,
                 broker, unsent, refs, remote, wants, stopper>>

\* The send raises or its task is cancelled, before or after the frame has been
\* written: there is no handle to release, and nobody sends the frame again as
\* long as this connection lasts.
SubscribeGivesUp(c) ==
  /\ consumer[c] \in {"queued", "subscribing"}
  /\ Move(c, "gave up")
  /\ UNCHANGED <<phase, ready, stopping, cancel, failures, todo, wire, stray,
                 broker, unsent, refs, remote, wants, stopper>>

\* A selection starts, on a ready supervisor, and subscribes to the new user
\* topic; the handle of the old one is released behind that await, ready or not.
ReplaceStarts(c) ==
  /\ c \in Core /\ consumer[c] = "holding" /\ ready
  /\ Move(c, "replacing")
  /\ UNCHANGED <<phase, ready, stopping, cancel, failures, todo, wire, stray,
                 broker, unsent, refs, remote, wants, stopper>>

\* The last reference takes the subscription out of the registry and, on a
\* ready connection, off the broker, unless the send of UNSUBSCRIBE is cancelled
\* first.
Removed(d) == refs[d] = 1
Unsubscribe(c) ==
  LET d == wants[c]
  IN  /\ consumer[c] = IF c \in Core THEN "replacing" ELSE "holding"
      /\ refs' = [refs EXCEPT ![d] = IF Removed(d) THEN 0 ELSE @ - 1]
      /\ remote' = IF Removed(d) THEN [remote EXCEPT ![d] = NoId] ELSE remote
      /\ \/ Removed(d) /\ ready /\ Transmit([broker EXCEPT ![remote[d]] = 0])
         \/ UNCHANGED broker
      /\ Move(c, "released")
      /\ UNCHANGED <<phase, ready, stopping, cancel, failures, todo, wire,
                     stray, unsent, wants, stopper>>

-----------------------------------------------------------------------------

Replay == GoReady \/ \E c \in Consumers : ReplayOne(c)
Progress ==
  \/ DialOpens \/ HandshakeDone \/ Replay \/ GroupRaises \/ ConnectFails
  \/ Closed \/ BackoffEnds \/ RunnerCancelled

Next ==
  \/ Start \/ Progress \/ FrameReceived \/ ChildFails \/ WireBreaks
  \/ Stop \/ StopFinishes \/ StopCancelled \/ StopRaises
  \/ \E c \in Consumers :
       \/ Subscribe(c) \/ SubscribeIsWritten(c) \/ Subscribed(c)
       \/ SubscribeGivesUp(c) \/ ReplaceStarts(c) \/ Unsubscribe(c)

Spec == Init /\ [][Next]_vars

\* Dialing and every handshake read have a timeout, sends return or raise,
\* and a sleep ends.
Fairness == WF_vars(Progress) /\ WF_vars(StopFinishes \/ StopRaises)

FairSpec == Spec /\ Fairness

-----------------------------------------------------------------------------
(***************************************************************************)
(* What the supervisor promises.                                           *)
(***************************************************************************)

\* A ready connection has every registered subscription in force at the
\* broker, exactly once: after a reconnect too, and for consumers that come
\* and go while it happens.  The exception is a subscription made on this very
\* connection whose SUBSCRIBE waits for the socket, or never got to it because
\* its call gave up: the next connection has it.
ReadyMeansRestored ==
  ready /\ wire = "open" =>
    \A c \in Active : broker[c] = IF c \in unsent THEN 0 ELSE 1

\* The runner reconnects exactly reconnect_attempts times in a row before it
\* reports the terminal failure.
GivesUpAfterBudget == phase = "failed" <=> failures = Budget + 1

\* stop() silences the supervisor at once, whatever the runner was doing: it
\* is not ready again, and once its cancellation has been taken, or swallowed
\* by a failing task group, it dials no more.
QuietAfterStop ==
  stopping => /\ ~ready
              /\ cancel \/ phase \in {"closing", "backoff"} \/ RunnerOver

\* stop() comes back, and so does one whose task is cancelled meanwhile.
StopReturns ==
  stopper \in {"joining", "cancelled"} ~> stopper \in {"done", "raised"}

\* A reconnect ends in a ready connection, the terminal failure or a stop.
ReconnectResolves ==
  phase = "backoff" ~> phase \in {"session", "failed", "ended"}

-----------------------------------------------------------------------------
(***************************************************************************)
(* What the owner sees, as Runner states it.                               *)
(***************************************************************************)

\* A stopped runner that swallowed its cancellation, or may do so.
Loud == phase = "aborting" \/ (phase = "closing" /\ ~cancel)

\* A stopped one is seen until stop() comes back.
StoppedView ==
  IF phase = "new" \/ stopper \in {"done", "raised"} THEN "none"
    ELSE IF Loud THEN "stopping loudly" ELSE "stopping"

RunnerView ==
  IF stopping THEN StoppedView
    ELSE CASE phase = "new" -> "none"
           [] phase = "session" -> "ready"
           [] phase = "aborting" -> "breaking"
           [] phase \in {"closing", "failed"} -> phase
           [] OTHER -> IF failures = 0 THEN "starting" ELSE "lost"

Owner == INSTANCE Runner WITH run <- RunnerView

\* on_state is called by two steps, and these are the moves that Runner calls
\* notifications; the others are moves it makes without a word, or none.
OwnerSees ==
  IF GoReady \/ Closed THEN Owner!Notifies
                       ELSE Owner!Quietly \/ UNCHANGED RunnerView

\* The owner sees what Runner says.  So CONNECTED, RECONNECTING and DISCONNECTED
\* come in its order, and after stop() at most one notification does, and only
\* from a session that was failing already.
SeenByOwner == Owner!NotStarted /\ [][OwnerSees]_vars

-----------------------------------------------------------------------------
\* Two promises the code does not keep; no configuration lists them, and TLC
\* finds a counterexample to each under Supervisor.cfg.

\* A subscription in force at the broker belongs to somebody.  An unsubscribe
\* during the replay sends nothing, and the replay may still come to it.
NoOrphanSubscription ==
  ready /\ wire = "open" => \A c \in Consumers : broker[c] > 0 => c \in Active

\* Once stop() returns no connection of the supervisor is open.  A stop that
\* cancels the handshake leaves one behind.
StoppedMeansClosed == stopper = "done" => ~stray
=============================================================================
