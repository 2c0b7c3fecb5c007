--------------------------- MODULE OrderSubmission ---------------------------
(***************************************************************************)
(* OrderService.place and the part of handle_event that answers it.        *)
(*                                                                         *)
(* The broker's reply to an execute command carries no correlation id, so  *)
(* the service keeps one confirmation future, guarded by a lock, and a flag *)
(* (_submission_uncertain) that blocks further commands after one whose    *)
(* reply never reached its caller.  The model has one process per call of  *)
(* place(), interleaved at its awaits, with a connection that may die and  *)
(* a client that may be disconnected and connected again.                  *)
(***************************************************************************)
EXTENDS Naturals, FiniteSets

CONSTANTS Calls,       \* calls of place(), each made once
          RawSenders,  \* calls of raw.send() on the execute destination
          AllowReal,   \* ClientConfig.allow_real_trading
          NoOne        \* "nobody": the lock is free, the future has no answer

Senders == Calls \cup RawSenders

ASSUME CallsAssumption == Calls \cap RawSenders = {}
ASSUME NoOneAssumption == NoOne \notin Senders
ASSUME AllowRealAssumption == AllowReal \in BOOLEAN

Environments == {"DEMO", "REAL"}

VARIABLES
  selected,   \* environment of accounts.selected, "none" before any select()
  pc,         \* where each call of place() stands
  account,    \* environment of the account each call captured
  holder,     \* the call inside _submission_lock
  uncertain,  \* _submission_uncertain
  conf,       \* the _confirmation future
  confFrom,   \* the command whose reply resolved it
  cmd,        \* each sender's execute command and what became of it
  billed,     \* environment of the account the command names
  result,     \* how each call ended
  link,       \* the socket under the supervisor the client holds
  stale       \* calls that captured a supervisor since replaced

vars == <<selected, pc, account, holder, uncertain, conf, confFrom, cmd,
          billed, result, link, stale>>

Stages == {"idle", "preflight", "queued", "sending", "awaiting", "returned"}
Endings == {"none", "refused", "blocked", "order", "error", "unknown",
            "cancelled"}

Result(kind, from) == [kind |-> kind, from |-> from]

TypeOK ==
  /\ selected \in Environments \cup {"none"}
  /\ pc \in [Calls -> Stages]
  /\ account \in [Calls -> Environments \cup {"none"}]
  /\ holder \in Calls \cup {NoOne}
  /\ uncertain \in BOOLEAN
  /\ conf \in {"none", "pending", "order", "error"}
  /\ confFrom \in Senders \cup {NoOne}
  /\ cmd \in [Senders -> {"none", "outstanding", "answered", "lost"}]
  /\ billed \in [Calls -> Environments \cup {"none"}]
  /\ result \in [Calls -> [kind : Endings, from : Senders \cup {NoOne}]]
  /\ link \in {"up", "failing", "down"}
  /\ stale \in SUBSET Calls

Init ==
  /\ selected \in Environments \cup {"none"}
  /\ pc = [c \in Calls |-> "idle"]
  /\ account = [c \in Calls |-> "none"]
  /\ holder = NoOne
  /\ uncertain = FALSE
  /\ conf = "none"
  /\ confFrom = NoOne
  /\ cmd = [d \in Senders |-> "none"]
  /\ billed = [c \in Calls |-> "none"]
  /\ result = [c \in Calls |-> Result("none", NoOne)]
  /\ link = "up"
  /\ stale = {}

Outstanding == {d \in Senders : cmd[d] = "outstanding"}

(***************************************************************************)
(* Decisions of the code, one operator each.                               *)
(***************************************************************************)

\* guard_environment: REAL needs the explicit opt-in.
MayTrade(environment) == environment = "REAL" => AllowReal

\* Inside the lock, a command may go out only if no earlier one is uncertain.
MutBlocksNever == FALSE
SubmissionBlocked == uncertain

\* The account the command names is the one captured on entry.
MutCommandAccountNow(c) == IF selected = "none" THEN "DEMO" ELSE selected
CommandAccount(c) == account[c]

\* What a cancelled call leaves in _submission_uncertain.
MutUncertainAfterCancel(c) == uncertain \/ pc[c] = "awaiting"
UncertainAfterCancel(c) == uncertain \/ pc[c] \in {"sending", "awaiting"}

\* The lock's holder after c leaves the critical section.
MutHolderAfter(kind) == IF kind = "unknown" THEN holder ELSE NoOne
HolderAfter(kind) == NoOne

\* The client's supervisor has its ready flag up: true until the receive loop
\* has noticed that the socket failed.
SupervisorReady == link \in {"up", "failing"}

\* Supervisor.send finds its supervisor ready: the captured one is in use.
CapturedSupervisorReady(c) == c \notin stale /\ SupervisorReady

\* asyncio.Lock is taken without suspending only if nobody waits for it; a
\* waiter enters in a later step, after the lock has been released.
LockFree == holder = NoOne /\ \A c \in Calls : pc[c] # "queued"
AtLock(c) ==
  \/ pc[c] = "queued" /\ holder = NoOne
  \/ pc[c] = "preflight" /\ SupervisorReady /\ LockFree

-----------------------------------------------------------------------------
(***************************************************************************)
(* place()                                                                 *)
(***************************************************************************)

Return(c, kind, from) ==
  /\ pc' = [pc EXCEPT ![c] = "returned"]
  /\ result' = [result EXCEPT ![c] = Result(kind, from)]

\* The finally clause and the exit of "async with": the future is forgotten
\* and the lock passed on.
LeaveLock(kind) ==
  /\ holder' = HolderAfter(kind)
  /\ conf' = "none"
  /\ confFrom' = NoOne

\* Entry: the selected account is captured and its environment checked.
Begin(c) ==
  /\ pc[c] = "idle"
  /\ account' = [account EXCEPT ![c] = selected]
  /\ IF selected # "none" /\ MayTrade(selected)
       THEN pc' = [pc EXCEPT ![c] = "preflight"] /\ UNCHANGED result
       ELSE Return(c, "refused", NoOne)
  /\ UNCHANGED <<selected, holder, uncertain, conf, confFrom, cmd, billed,
                 link, stale>>

\* The REST reads and validation succeed and require_supervisor finds a ready
\* supervisor; the call captures it and has to wait for the lock.
PreflightPasses(c) ==
  /\ pc[c] = "preflight"
  /\ SupervisorReady
  /\ ~LockFree
  /\ pc' = [pc EXCEPT ![c] = "queued"]
  /\ UNCHANGED <<selected, account, holder, uncertain, conf, confFrom, cmd,
                 billed, result, link, stale>>

\* A REST read fails, the request is invalid, or there is no ready supervisor.
PreflightRefuses(c) ==
  /\ pc[c] = "preflight"
  /\ Return(c, "refused", NoOne)
  /\ UNCHANGED <<selected, account, holder, uncertain, conf, confFrom, cmd,
                 billed, link, stale>>

\* The lock is won while an earlier command is uncertain.
AcquireBlocked(c) ==
  /\ AtLock(c)
  /\ SubmissionBlocked
  /\ Return(c, "blocked", NoOne)
  /\ UNCHANGED <<selected, account, holder, uncertain, conf, confFrom, cmd,
                 billed, link, stale>>

\* The captured supervisor is no longer ready: send raises NotConnectedError,
\* which the generic handler turns into an unknown submission.
AcquireNotConnected(c) ==
  /\ AtLock(c)
  /\ ~SubmissionBlocked
  /\ ~CapturedSupervisorReady(c)
  /\ uncertain' = TRUE
  /\ Return(c, "unknown", NoOne)
  /\ UNCHANGED <<selected, account, holder, conf, confFrom, cmd, billed, link,
                 stale>>

\* The future is created and the command handed to the socket.
AcquireTransmit(c) ==
  /\ AtLock(c)
  /\ ~SubmissionBlocked
  /\ CapturedSupervisorReady(c)
  /\ pc' = [pc EXCEPT ![c] = "sending"]
  /\ holder' = c
  /\ conf' = "pending"
  /\ cmd' = [cmd EXCEPT ![c] = "outstanding"]
  /\ billed' = [billed EXCEPT ![c] = CommandAccount(c)]
  /\ UNCHANGED <<selected, account, uncertain, confFrom, result, link, stale>>

SendReturns(c) ==
  /\ pc[c] = "sending"
  /\ pc' = [pc EXCEPT ![c] = "awaiting"]
  /\ UNCHANGED <<selected, account, holder, uncertain, conf, confFrom, cmd,
                 billed, result, link, stale>>

\* The socket dies under the send; whether the command left is not known.
SendRaises(c) ==
  /\ pc[c] = "sending"
  /\ link # "up" \/ c \in stale
  /\ uncertain' = TRUE
  /\ LeaveLock("unknown")
  /\ Return(c, "unknown", NoOne)
  /\ UNCHANGED <<selected, account, cmd, billed, link, stale>>

\* The resolved future reaches the call.
Resume(c) ==
  /\ pc[c] = "awaiting" /\ conf \in {"order", "error"}
  /\ LeaveLock(conf)
  /\ Return(c, conf, confFrom)
  /\ UNCHANGED <<selected, account, uncertain, cmd, billed, link, stale>>

\* wait_for times out; it may do so although the future has just been
\* resolved, when the call has not run since.
Timeout(c) ==
  /\ pc[c] = "awaiting"
  /\ uncertain' = TRUE
  /\ LeaveLock("unknown")
  /\ Return(c, "unknown", NoOne)
  /\ UNCHANGED <<selected, account, cmd, billed, link, stale>>

\* The application cancels the task that runs place().
CancelOutsideLock(c) ==
  /\ pc[c] \in {"preflight", "queued"}
  /\ Return(c, "cancelled", NoOne)
  /\ UNCHANGED <<selected, account, holder, uncertain, conf, confFrom, cmd,
                 billed, link, stale>>

CancelInsideLock(c) ==
  /\ pc[c] \in {"sending", "awaiting"}
  /\ uncertain' = UncertainAfterCancel(c)
  /\ LeaveLock("cancelled")
  /\ Return(c, "cancelled", NoOne)
  /\ UNCHANGED <<selected, account, cmd, billed, link, stale>>

-----------------------------------------------------------------------------
(***************************************************************************)
(* The receive side: handle_event on the execute destination.              *)
(***************************************************************************)

\* order       an order the tracker accepts
\* illegal     an order whose status its tracker refuses
\* rejected    a body with an error, malformed: no status and no error
\* unparsable  a status that parse_order refuses
\* (An envelope of any other event is dropped at once and changes nothing.)
ReplyKinds == {"order", "illegal", "rejected", "malformed", "unparsable"}

BreaksReceiveLoop(kind) == kind \in {"illegal", "unparsable"}

\* The future after the reply: resolved at most once, and only if it exists.
ConfAfter(kind) ==
  IF conf # "pending" THEN conf
  ELSE IF kind \in {"order", "illegal"} THEN "order"
  ELSE IF kind \in {"rejected", "malformed"} THEN "error"
  ELSE conf

\* An exception out of handle_event ends the receive loop.
Deliver(d, kind) ==
  /\ link = "up"
  /\ cmd[d] = "outstanding"
  /\ cmd' = [cmd EXCEPT ![d] = "answered"]
  /\ uncertain' = FALSE
  /\ conf' = ConfAfter(kind)
  /\ confFrom' = IF conf' # conf THEN d ELSE confFrom
  /\ link' = IF BreaksReceiveLoop(kind) THEN "failing" ELSE link
  /\ UNCHANGED <<selected, pc, account, holder, billed, result, stale>>

-----------------------------------------------------------------------------
(***************************************************************************)
(* The surroundings: account selection, raw traffic and the connection.    *)
(***************************************************************************)

Select(environment) ==
  /\ selected # environment
  /\ selected' = environment
  /\ UNCHANGED <<pc, account, holder, uncertain, conf, confFrom, cmd, billed,
                 result, link, stale>>

\* raw.send is gated by the selected account but takes no lock.
RawSend(r) ==
  /\ cmd[r] = "none"
  /\ SupervisorReady
  /\ MayTrade(IF selected = "none" THEN "REAL" ELSE selected)
  /\ cmd' = [cmd EXCEPT ![r] = "outstanding"]
  /\ UNCHANGED <<selected, pc, account, holder, uncertain, conf, confFrom,
                 billed, result, link, stale>>

\* The socket breaks; the supervisor has not noticed yet.
LinkFails ==
  /\ link = "up"
  /\ link' = "failing"
  /\ UNCHANGED <<selected, pc, account, holder, uncertain, conf, confFrom,
                 cmd, billed, result, stale>>

\* Replies to commands of the old connection may be lost with it.
Lose(lost) == cmd' = [d \in Senders |-> IF d \in lost THEN "lost" ELSE cmd[d]]

\* The supervisor clears its ready flag and closes the socket.
LinkDown(lost) ==
  /\ link = "failing"
  /\ link' = "down"
  /\ Lose(lost)
  /\ UNCHANGED <<selected, pc, account, holder, uncertain, conf, confFrom,
                 billed, result, stale>>

\* disconnect(): later calls will find another supervisor, or none.
Disconnect(lost) ==
  /\ link' = "down"
  /\ stale' = stale \cup {c \in Calls :
                            pc[c] \in {"queued", "sending", "awaiting"}}
  /\ Lose(lost)
  /\ UNCHANGED <<selected, pc, account, holder, uncertain, conf, confFrom,
                 billed, result>>

\* Reconnected by the supervisor, or connected anew by connect().
LinkUp ==
  /\ link = "down"
  /\ link' = "up"
  /\ UNCHANGED <<selected, pc, account, holder, uncertain, conf, confFrom,
                 cmd, billed, result, stale>>

-----------------------------------------------------------------------------

Preflight(c) == PreflightPasses(c) \/ PreflightRefuses(c)
Acquire(c) == AcquireBlocked(c) \/ AcquireNotConnected(c) \/ AcquireTransmit(c)
FinishSend(c) == SendReturns(c) \/ SendRaises(c)
FinishWait(c) == Resume(c) \/ Timeout(c)

Place(c) ==
  \/ Begin(c) \/ Preflight(c) \/ Acquire(c) \/ FinishSend(c) \/ FinishWait(c)
  \/ CancelOutsideLock(c) \/ CancelInsideLock(c)

Connection ==
  \/ LinkFails
  \/ LinkUp
  \/ \E lost \in SUBSET Outstanding : LinkDown(lost) \/ Disconnect(lost)

Next ==
  \/ \E c \in Calls : Place(c)
  \/ \E d \in Senders, kind \in ReplyKinds : Deliver(d, kind)
  \/ \E environment \in Environments : Select(environment)
  \/ \E r \in RawSenders : RawSend(r)
  \/ Connection

Spec == Init /\ [][Next]_vars

\* REST reads have timeouts, the lock is FIFO, a send on a dead socket fails
\* once the heartbeat watchdog closes it, and wait_for has a timeout.
Fairness ==
  \A c \in Calls : /\ WF_vars(Preflight(c)) /\ WF_vars(Acquire(c))
                   /\ WF_vars(FinishSend(c)) /\ WF_vars(FinishWait(c))

FairSpec == Spec /\ Fairness

-----------------------------------------------------------------------------
(***************************************************************************)
(* What place() promises.                                                  *)
(***************************************************************************)

\* Nobody has used raw.send() on the execute destination, which goes around
\* the lock.
NoRawTraffic == \A r \in RawSenders : cmd[r] = "none"

\* A call that reports a broker answer (an order, or a rejection) reports the
\* answer to its own command, whatever calls were cancelled, timed out or cut
\* off before it, as long as only place() sends commands.
NoCrossing ==
  NoRawTraffic =>
    \A c \in Calls : result[c].kind \in {"order", "error"} => result[c].from = c

\* place() by itself never has a second uncorrelated command at the broker.
AtMostOneUncorrelated ==
  NoRawTraffic =>
    \A c, d \in Calls : {c, d} \subseteq Outstanding => c = d

\* No command of place() names a REAL account without the opt-in, although
\* the selection may change between the check and the transmission.
NoUnauthorisedReal == \A c \in Calls : MayTrade(billed[c])

\* Every call of place() ends, so the lock is always passed on.
EveryPlaceReturns ==
  \A c \in Calls : pc[c] = "preflight" ~> pc[c] = "returned"

\* A submission is blocked only while some command that left the client has
\* had no answer: "A previous order is still awaiting reconciliation".
BlockedMeansUnanswered ==
  uncertain => \E d \in Senders : cmd[d] \in {"outstanding", "lost"}

-----------------------------------------------------------------------------
(***************************************************************************)
(* The inductive invariant.                                                *)
(***************************************************************************)

\* The call inside the critical section holds the lock and the only future.
LockInv ==
  /\ \A c \in Calls : pc[c] \in {"sending", "awaiting"} <=> holder = c
  /\ conf = "none" <=> holder = NoOne
  /\ conf \in {"order", "error"} => confFrom = holder

\* An unanswered command belongs to the call inside, still waiting, or has
\* left the service uncertain; never two of them.
WindowInv ==
  /\ uncertain => holder = NoOne
  /\ \A c \in Calls :
       cmd[c] = "outstanding" => (holder = c /\ conf = "pending") \/ uncertain
  /\ AtMostOneUncorrelated

\* Outside the lock nothing has been sent.
StageInv ==
  \A c \in Calls :
    pc[c] \in {"idle", "preflight", "queued"} => cmd[c] = "none"

\* A call that is still going to send has captured an account it may trade.
GateInv ==
  \A c \in Calls :
    pc[c] \in {"preflight", "queued"} => /\ account[c] # "none"
                                        /\ MayTrade(account[c])

\* What makes the correlation hold; only place() may use the destination.
SerialInv == LockInv /\ WindowInv /\ StageInv /\ NoCrossing

IInv == (NoRawTraffic => SerialInv) /\ GateInv
=============================================================================
