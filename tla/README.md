# TLA+ models of ebinexpy

`ebinexpy` is an asyncio client for the Ebinex broker: REST for accounts,
candles, orders and sessions, and one WebSocket (STOMP inside SockJS) for live
prices, order events and order placement. Everything runs on one event loop, so
all the interleavings below are interleavings of coroutines at their awaits, of
callbacks, and of the broker and the network.

Paths are relative to the repository (`src/src/ebinexpy/...` is the package;
`openspec/changes/define-ebinexpy-core-library` holds the design and the specs
the findings quote).

## 1. Inventory

| component | state | operations | hard part |
|---|---|---|---|
| order submission, `orders/service.py` `place` | `_submission_lock`, `_confirmation`, `_submission_uncertain` | `place`, the confirmation half of `handle_event` | replies carry no correlation id; cancellation, timeout, connection loss and reconnect at every await |
| order tracking, `orders/service.py`, `orders/state.py` | `_trackers` (id to `OrderTracker`) | `list`, `get`, `wait`, the tracking half of `handle_event`, `OrderTracker.update` | events and REST snapshots race; a stale snapshot may arrive after a newer event |
| order parsing and validation, `orders/wire.py`, `orders/validation.py` | none | `parse_order`, `execute_payload`, `guard_environment`, `validate_request` | which payloads become which errors |
| subscription registry, `transport/supervisor.py` 39-68 | destination and handle tables, reference counts | `acquire`, `release`, `active` | reference counts against failed or cancelled sends |
| connection supervisor, `transport/supervisor.py` 75-245 | `_runner`, `_socket`, `_ready`, `_stopping`, `_reconnect_failures`, `_terminal_error` | `start`, `stop`, `subscribe`, `unsubscribe`, `send`, the runner with its receive and heartbeat tasks | reconnect and replay interleaved with subscribe, unsubscribe and stop |
| socket, `transport/websocket.py` | the connection and its handshake | `connect`, `send`, `receive`, `heartbeat`, `close` | cancellation and timeouts inside the handshake |
| wire codecs, `transport/stomp.py`, `transport/sockjs.py` | none | escape/unescape, encode/decode, SockJS framing | round trip of headers and bodies; several frames, blanks and garbage in one packet |
| REST transport, `transport/http.py` | one `httpx` client | `request`, error mapping | status to exception |
| client lifecycle, `client.py` | `_ready`, `_connection_error`, `_connection_changed`, `_supervisor`, core handles, `_connect_lock` | `connect`, `disconnect`, `wait_until_ready`, `close`, `logout`, `_on_connection_state`, `_account_selected`, `_on_frame`, `_request` | the ready flag is written by three parties; `select` re-subscribes while the connection comes and goes |
| authentication, `auth/service.py`, `auth/store.py`, `auth/models.py` | the session in memory and on disk | `ensure`, `logout`, the stores' load/save/delete | a 401 racing a fresh login; logout racing a re-login; a crash inside `save` |
| accounts, `accounts/service.py` | `selected` | `list`, `select`, `balance`, `handle_event` | a balance event racing a `select`; events that name no account |
| event streams, `events/streams.py` | a bounded queue, `closed` | `publish`, iteration, `close` | coalescing at the bound; close with blocked consumers |
| event dispatcher, `events/dispatcher.py` | handlers by token, running tasks | `add`, `remove`, `emit`, `close` | a handler removed after its task was created; close against new tasks, failing ones, and from inside a handler |
| market data, `market/service.py` | assets, broker time, the streams by key | `stream_*`, `handle_event`, `get_candles`, `list_assets` | routing, references that outlive a supervisor, paging a history that has gaps and grows |
| raw access, `raw/client.py` | raw streams | `subscribe`, `send`, `request`, `handle_frame` | shares the execute channel with `place` |

How they interact. `EbinexClient.connect` logs in, selects an account, builds a
`ConnectionSupervisor`, subscribes the core destinations and starts it. The
supervisor's runner owns the socket; each received frame goes through
`_on_frame` to raw streams, accounts, market and orders, in that order and
awaited, so an exception in a handler ends the receive loop and costs a
reconnect. The supervisor reports CONNECTED, RECONNECTING and DISCONNECTED
through `_on_connection_state`, which drives the client's ready flag. Services
reach the socket through `require_supervisor()`, whose result they may hold
across awaits.

What makes each part correct:

- submission: an answer goes to the call that asked; at most one command is
  uncorrelated; REAL is gated; every call returns; the service is blocked only
  while something is unanswered;
- tracking: the tracked status never runs ahead of or backwards against the
  broker; `wait` reports true outcomes and fails only as documented; orders are
  independent of each other;
- supervisor: ready means every live destination is subscribed at the broker;
  nothing else stays subscribed; the reconnect budget is respected; `stop`
  leaves no socket behind;
- client: ready agrees with the supervisor; a waiter learns of a terminal
  failure; the user channel follows the selected account;
- streams and dispatcher: the newest value is never lost to an older one, a
  closed stream ends every consumer, a removed handler is not called;
- market data: a frame reaches streams of its own market only, an open stream is
  fed, a range of candles has no gap the history had not;
- accounts: the balance shown is the selected account's own;
- wire: every frame arrives as it was meant, in order, or the connection ends;
- sessions: a logout stays logged out (section 6 has an exception), a crash leaves the old or the new
  session, a fresh session is not discarded.

## 2. Plan

Written, in this order:

1. `OrderSubmission` and `OrderSubmissionProofs`: the core.
2. `OrderStatus`, `OrderLife` (what an order is allowed to do) and
   `OrderTracking`, which implements `OrderLife`; `OrderTrackingProofs`.
3. `Runner` (what the owner of a supervisor sees of it) and `Supervisor`, which
   implements it: the runner, the registry and the broker's subscriptions;
   `SupervisorProofs`.
4. `ClientLifecycle` and `ClientLifecycleProofs`: connect, disconnect, select
   and waiters over the moves of `Runner`.
5. `EventStream` and `EventStreamProofs`: the bounded queue with its consumers.
6. `AuthSession` and `AuthSessionProofs`: the session in memory and on disk.
7. `MarketStreams`: the live streams over the registries of successive
   supervisors, and the routing of frames.
8. `EventDispatcher`, and `Accounts` which composes it with the account service;
   `AccountsProofs`.
9. `CandlePaging`: a range of candles read page by page. `MarketProofs` has the
   proofs of both parts of the market service.
10. `WireCodec`: STOMP inside SockJS, under the handshake and `receive()`.

Left:

1. A clock in `OrderSubmission` for the candle boundary of a queued command.
2. Proofs: the steps of `MarketStreams` as moves of a reference-counting
   specification shared with `Supervisor`; that a registered handler misses no
   event on its way to the last one, which needs a history of calls.

The number of runs and of properties is kept small, so a run that only shows a
disagreement gives way to a run of a new module; its observation stays in
section 6.

## 3. Modules

All modules share one reading of asyncio: a step is what a coroutine does
between two awaits that really suspend, a callback, or a step of the broker or
the network. Code that runs without suspending is one action. Where an await may
return at once (an uncontended lock, a future that is already resolved) the
action has that case too.

### OrderSubmission

`place()` of `orders/service.py` 51-93, one process for each call in `Calls`.

| variable | code |
|---|---|
| `pc`, `result` | where a call stands; what it returned or raised |
| `account` | the local `account` of line 54; `billed` is the account in the payload |
| `holder` | `_submission_lock` |
| `conf`, `confFrom` | `_confirmation`, and whose reply resolved it |
| `uncertain` | `_submission_uncertain` |
| `cmd` | the execute command of each sender: unanswered, answered, or its reply lost |
| `link`, `stale` | the socket under the current supervisor; calls that hold an older one |
| `selected` | `accounts.selected` |

`Begin` is the code up to the first await, `Preflight...` the REST reads and
`require_supervisor()`, `Acquire...` the critical section up to the send,
`SendReturns`/`SendRaises` the send, `Resume`/`Timeout` the `wait_for`,
`Cancel...` the cancellation at each await. `Deliver` is `handle_event` on the
execute destination (178-198) for the five kinds of reply it tells apart;
`RawSend` is `raw.send`, `Select` is `accounts.select`, the rest is the
connection. The lock's FIFO order is abstracted to "a waiter enters when it is
free, and nobody overtakes a waiter"; no property depends on the order. When a
connection ends, the reply to each unanswered command is lost or still comes
over the next connection; the environment chooses.

### OrderStatus, OrderLife, OrderTracking

`OrderStatus` holds `LEGAL` and the terminal statuses. `OrderLife` is the
abstract specification: the broker moves orders along `LEGAL`, the client
learns statuses they have or had, and what it knows moves along `LEGAL` too.

`OrderTracking` is `handle_event` (200-209), `list`, `get`, `wait` and
`OrderTracker.update`. `tracked` is `_trackers`, `events` the frames in flight
on the current connection, `page` a REST page between its reading at the broker
(`Serve`) and its application (`ApplyPage`, which is the loop of `list()`
without a suspension, plus what the caller does with the result). `ApplyFails`
is the loop cut short by `ProtocolError` from `update`: rows before the refused
one stay applied. `Wait`, `Settle` and `Deadline` are `wait()`: the memory
first, the tracker's future or the deadline, one REST reconciliation. A read is
one page, applied as soon as it arrives; the further pages `get()` may ask for
act on the trackers as the page of another task would. The awaits inside
`OrderTracker.update` and `wait_terminal` take a condition's lock that nobody
holds across a suspension, so they do not suspend. The refinement mapping is
`Known == [o |-> tracked[o].status]`.

### Runner, Supervisor

`ConnectionSupervisor` and `SubscriptionRegistry`. `phase` is the await at
which `_run` stands: dialing and handshake inside `WebSocketTransport.connect`,
replaying in `_connect`, session in the task group, aborting when a child has
failed and the group cancels the other, closing in the except clause, backoff
in the sleep. `cancel` is a cancellation on its way to the runner. One that
arrives in "aborting" meets a task group that is already failing and raises its
own exception group instead: the runner goes through its except clause, and the
cancellation is lost, or raised again at the next await by versions of Python
that put it back (3.13). `GroupRaises` allows both. A `stop()` that is cancelled
itself while it joins the runner hands the cancellation on to it and goes on
joining, because `gather` does (`StopCancelled`); then it raises, and everything
behind the join, closing the socket first, is left out or cut short
(`StopRaises`). `broker` counts the SUBSCRIBE frames of each id in
force on the current connection; `refs` and `remote` are the registry. A
subscription's id is named by the consumer whose `acquire` created it. Each
consumer subscribes once and unsubscribes once. A `subscribe` that creates its
subscription on a ready connection is two steps: `Subscribe` registers it, and
`SubscribeIsWritten` writes its frame when the socket's send lock lets it; until
then its id is in `unsent`. `SubscribeGivesUp` is a send that raises or is
cancelled, before or after that; before it, the id stays in `unsent`, registered
and not in force, until the connection goes. An UNSUBSCRIBE may be given up in
the same way. `Core` are the two subscriptions of `connect()`, made before
`start()`; one of them is replaced by a selection (`_account_selected`), which
looks at the ready flag when it starts (`ReplaceStarts`) and not again before it
releases the old handle. `stray` is an open
WebSocket without owner. `asyncio.wait_for` is taken as Python 3.12 and later
have it, where a cancellation goes straight to the awaited coroutine; under
3.11, which the package also allows, the coroutine is a task of its own and a
cancellation may arrive when it has just finished.

`Runner` is the abstract specification of one supervisor as its owner sees it:
the two flags, the notifications in the order in which they can come, and what
`stop()` does to both. The refinement mapping is `RunnerView`. Three things in it
are worth knowing: a dial is "starting" for the first attempt and "lost" once
RECONNECTING has been reported, which the mapping reads off `failures`; a stopped
runner is seen as stopping until `stop()` comes back, whatever it still does; and
it is stopping "loudly" as long as a notification may still come from it
(`Loud`), which is so only if the cancellation met a failing task group.
`SeenByOwner` says that every step of the supervisor is a move of `Runner` or is
not seen at all.

### ClientLifecycle

`client.py`: `connect` with its fast path, its wait for a runner that is still
alive, its build-up and its rollback; `disconnect`; `wait_until_ready`;
`_account_selected`; `_on_connection_state`. The supervisor is an instance of
`Runner`: each step of it is a move of `Runner` conjoined with what the client
does about it, so that `ImplementsRunner` (section 5) is what entitles this
module to its supervisor. It adds one restriction: a failing session reaches its
except clause only when the tasks woken before have run (`woken = {}` in
`RunSlips`), since the event loop runs those first. `woken` are the waiters a
`_connection_changed.set()` has made runnable. `coreHandle` is named by its
environment. A `disconnect` may be cancelled while it joins the runner, and so
may the rollback of a `connect` (`RollbackCancelled`).

### EventStream

`events/streams.py` over `asyncio.Queue`, which is external and modelled with
its list of waiting getters: putting an item resolves the first waiting getter,
which takes an item when its task runs and may find it gone. `Leave` is the way
out of an iteration: `__anext__` closes the stream when it is cancelled or
reports an overflow, and the generator of `__aiter__` closes it again in its
finally. `coalesce` and `direct` are chosen once at the start: market streams
coalesce, raw streams do not; a consumer may call `__anext__` itself. The
shielded `close()` after a cancellation runs one step later, as a task of its
own. A second cancellation during that close is not modelled.

### MarketStreams

`_stream` and the three `stream_*` of `market/service.py`, `handle_event` as far
as it routes, and `subscribe`, `handle_frame` and `close` of `raw/client.py`.
`registry` is the `SubscriptionRegistry` of every supervisor `connect()` has
built, `minted` the handles each has handed out: they are numbered from 0 in
each, which is what makes a release at the wrong supervisor dangerous. `sub` is
what the cleanup's closure captured. `fed` stands for the four dictionaries of
streams, `kind` and `market` being the key; `remote` for the destinations in
force at the broker. `Open` runs up to the send of the SUBSCRIBE, `SubscribeIsWritten`
writes it when the socket is free (until then the destination is in `unsent`),
`Subscribed` registers the stream when the send returns, `SubscribeGivesUp` is
the send that raises or is cancelled, before the frame is written or after. A
second stream may be opened on the destination at any of these points, and sends
nothing. `Receive` is one row of a frame: `EventKey` is `_event_key`
over payload and destination, `Fed` the streams it is published into, and a
malformed row ends the connection. Each kind of stream is one of four shapes of
destination; a ticker asks for none.

The supervisor is reduced to what a service sees: ready or not, and replaced.
The unsubscribe of `Close` is one step with its send; the UNSUBSCRIBE may stay
unwritten, which leaves the destination in force.

### EventDispatcher, Accounts

`EventDispatcher` is `events/dispatcher.py` without anybody to emit: `tasks` are
the unfinished handler tasks in the order of creation, which is the order in
which the event loop starts them. A handler may suspend, end or fail, add and
remove handlers and call `close()`. `close()` waits for the tasks of the moment
(`awaited`); a cancellation of the application's `close()` cancels those.

`Accounts` extends it with `accounts/service.py`: `select` in its three steps
(asking, answered at the broker, applied), the balance events on their way in
`inbox`, and `HandleEvent`, which writes the balance of the selected account and
emits. `ConnectionEnds` loses what is on its way, because the connection breaks
or because the next amount is no number and `handle_event` raises.
`balance()` only adds a `select` when nothing is selected. Amounts are
numbered in the order the broker books them, so that an amount says which change
it belongs to. What a selection does to the connection is in `ClientLifecycle`.

### CandlePaging

`get_candles` of `market/service.py` with the helpers of `market/candles.py`,
one request and its answer per `TurnPage`. Instants are counted in units that
make a timeframe `Frame` of them, and a candle is its open time. The broker
(external) answers with the oldest candles of the range, all of them unless they
are more than `limit`; with `overlaps` it counts the candle before the range
among them, as the package's own test of paging does. Candles open while the
range is read. `before` is a history variable: what existed at the call.
`NotAList` is an answer that is no list: it ends the loop like an empty page, and
the caller gets what has been read (status "truncated").

### WireCodec

`_escape`, `_unescape`, `encode` and `decode` of `transport/stomp.py`, the kinds
of packets `sockjs.parse` tells apart, and `connect()` and `receive()` of
`transport/websocket.py` over them. Strings are sequences of symbols; only the
characters the code looks at are told apart. The broker writes frames as
`encode()` does, and may add blank messages and garbage to a packet. `Meant` and
`Legible` state what a frame is supposed to become, independently of `Decode`:
two kinds of frames do not survive (section 6), everything else must. The module
is the only one with RECURSIVE operators, and nothing is proved about it.

### AuthSession

`EbinexClient._request`, `connect()` as far as `ensure()` and the account list,
`logout()`, `AuthService` and `FileSessionStore`. Sessions are numbered as the
broker issues them; `valid` are those it still accepts, and it may revoke one at
any time. `session` is the session in memory, `file` what the session file
holds, `disk` what its name is sure to hold after a power failure and `flushed`
whether its bytes are on disk. The shipped stores hold their lock across no
suspension, so load, save and delete never suspend: `Renews` is the whole
except clause of `_request` up to the login's await, and between `LoggedIn` and
`SaveReturns` no task runs (`LoopFree`). The steps of a save are separate only
because `SaveRaises`, `ProcessStops` and `PowerFails` may come between them. A
request's answer is decided when its task handles it; deciding it at the broker
earlier gives the same outcomes, because a revoked session stays revoked. A login
is two steps: `Issues` at the broker, after which the answer is on its way or
waits for the event loop (`answer`), and `LoggedIn` when its task handles it;
anything, a logout too, may fall between them. `gone` and `late` are history
variables of the last logout: the last token issued before it, and those of them
whose login had been answered and was still to be handled. A store of the application's own that suspends is not covered.

## 4. Runs

Deadlock is checked in the order runs, where selection, links and REST always
leave a step. Elsewhere the system really may stop (a stopped supervisor, calls
that have returned, streams and handlers that are through, a connection that has
ended, a range that is read), so those configurations turn the check off; where
something must come to an end, a liveness property takes its place.

| run | question | bounds and why they are enough |
|---|---|---|
| `submission` | is a reported answer the caller's own and at most one command uncorrelated, until a raw command is sent; is REAL gated; does every call return? | two calls, one that leaves its reply behind and one that waits for its own, and a raw sender. The theorems lift the bound. |
| `tracking` | do the trackers implement `OrderLife`, are settlements true, is detail kept, does a wait end? | two orders, for pages that are cut short between them; one task, since tasks share only the trackers and any other task's writes look like the events and pages that occur anyway; one terminal status of four, which differ by name. The theorems lift all three. |
| `supervisor` | is a ready connection restored, but for a SUBSCRIBE made on it and not written, the budget exact, a stopped supervisor quiet; do `stop()`, a cancelled one too, and a reconnect end; does the owner see nothing but moves of `Runner`? | three consumers on two destinations (one core, two that may share a subscription or not), one reconnect in a row; `failures` is bounded by the budget. The theorems lift the bounds of the safety properties. |
| `lifecycle` | are wakeups kept, runners never doubled, readiness usable, calls ended? | two connects, a disconnect, a selection, a waiter: every pair of calls that touches the flags. The theorems lift the bounds of the safety properties. |
| `session` | is the session in use restorable, a saved one durable, a logged-out one gone unless its login was answered and not yet handled, a refusal real? | two requests, a connect and a logout, three sessions (each caller may log in once), one stop. Symmetric in the requests. The theorems lift the bounds. |
| `stream` | is the newest item kept, in order, the end complete or reported, the subscription given up, every consumer released? | two consumers and a closer, capacity 2, four items: the queue fills, is cleared, fills again. The theorems lift the bounds of the safety properties. |
| `market` | are references released where they were taken, are open streams registered and, unless their SUBSCRIBE was not written, in force, do frames reach only their own market? | two streams of any kind, two markets, two environments, three supervisors: two streams share a destination, a key, both or neither, and a cleanup may run one or two supervisors later. Symmetric in the streams. The theorems lift the bounds. |
| `accounts` | is the balance the account's own, are handlers that stay registered up to date, are all told in order, does `close()` join what it found? | two handlers (one that suspends or is removed, one that must not suffer), two accounts, one selection, two amounts. The theorems lift the bounds of the safety properties. |
| `paging` | is a returned range complete (up to the cursor if an answer was no list), does paging end? | every range, page size and history over nine instants with a timeframe of two: aligned and unaligned bounds, gaps at each place, full, short and empty pages. The theorem lifts the horizon and the timeframe. |
| `wire` | does every legible frame arrive as it was meant, in order, and does anything else end the connection? | every header value of two symbols (each pair of characters the passes could confuse), five bodies, six kinds of garbage, two messages in one packet or two |

`TypeOK` is checked in the runs where it says something of its own: `session` (no
stop leaves a torn file) and `stream` (the queue's capacity). In the others every
violation of it would show in a property as well; for each module but
`WireCodec` it is proved.

Two violation runs, `submission_blocked` and `lifecycle_ghost`, show a
disagreement between the code and what the repository says of it; section 6
explains them.

Fairness. It is weak everywhere and only on steps the event loop or a timeout
guarantees: REST requests have a timeout (`http.py`), dialing and each handshake
read have one (`websocket.py`), a send on a dead socket fails when the receive
watchdog closes it, `wait_for` and settlement deadlines pass, a task that is
runnable runs, a sleep ends. Nothing is assumed of the application (it need not
call, select, cancel or close), nor of the broker (it need not answer, move an
order, or accept a connection), nor of the network. The heartbeats a broker may
send for ever during the handshake restart its read timeout each time and are
excluded by `WF_vars(Progress)`. In `EventStream`, consumers are assumed to go
on iterating; in `Accounts`, that each handler that was started ends, since
`close()` waits for it without a timeout (only the tasks it found, and only when
they can run: a handler that itself waits for `close()` cannot end).
`MarketStreams` and `WireCodec` state no liveness: their environment need not do
anything.

Each property has a mutant listed in `PROJECT.json`: a plausible slip in the
code, such as a flag raised one frame early or a merge that forgets, that makes
it fail.

## 5. Proofs

Everything below is proved by TLAPS for any sets of calls, raw senders, orders,
tasks, terminal statuses, consumers, handlers, accounts, callers and bounds; the
assumptions are those of the modules (sets of different callers are disjoint,
"none" and the two open statuses are not terminal, bounds are natural numbers,
the streams and the supervisor's consumers are finite sets, which reference
counting needs). Each inductive invariant is the formula `IInv` of its module,
and was an invariant of TLC runs before it was proved.

`OrderSubmissionProofs`:

- `TypeCorrect`: types, raw senders included.
- `RealGate`: no command of `place()` names a REAL account without the opt-in.
  The invariant (`GateInv`) says that a call that is still going to send has
  captured an account it may trade; that is why the selection may change
  meanwhile.
- `Correlated` and `OneUncorrelated`: until a raw command is sent, a reported
  answer is the caller's own, and at most one command is uncorrelated. Neither
  is inductive. `LockInv` ties the future to the call inside the lock;
  `WindowInv` says that an unanswered command belongs to that call, still
  waiting, or has left the service uncertain; `StageInv` that nothing has been
  sent outside the lock. A reply that resolves the future can then come from no
  other command. After a raw command both fail (section 6), so the two
  properties and the invariant carry the hypothesis `NoRawTraffic`; once false
  it stays false.

`OrderTrackingProofs`:

- `TypeCorrect`, `Settlements` (a settlement reports the broker's final status),
  `DetailKept` (a known profit is not forgotten), `ImplementsLife` (the
  refinement of `OrderLife`).
- The invariant: every record the client holds, or that is in an event or a page
  on its way, has a status its order has had, and carries a profit only when it
  is terminal (`RecordInv`); the broker's status is in the order's past and a
  terminal status is the last (`BrokerInv`). Records may be out of date, so the
  invariant speaks of the past, not of the present; a terminal status is the
  exception, which is what makes settlements true. `ApplyIsSound` is the central
  lemma: applying accepted rows is a legal move of the trackers. `StepIsSound`
  collects what each step does, and the refinement follows from it.

`AuthSessionProofs`:

- `TypeCorrect` (which includes that no stop leaves a torn file), `Restorable`,
  `Refusals`, `Durable`, `LogoutIsFinal`.
- The invariant: nothing holds a token before it is issued (`IssuedInv`); the
  bytes under the file's name are always on disk, a replaced file holds what is
  being saved, and the session of a returned save is what the name is sure to
  hold (`DiskInv`); the file, a save on its way into it and every login answer
  that is still to be handled are newer than the last logout or among the answers
  it found on their way (`LogoutInv`, which needs that a logout cannot fall inside
  a save); a retry carries a session (`CallInv`).

`SupervisorProofs`:

- `TypeCorrect`, `Restored` (`ReadyMeansRestored`), `Budgeted`
  (`GivesUpAfterBudget`), `Quiet` (`QuietAfterStop`) and `Registered`: whoever
  holds a handle has a registered destination, so nobody's release takes
  another's subscription away.
- `Seen` (`SeenByOwner`), `ImplementsRunner` (the refinement of `Runner`) and
  `Flags`: the flags the client reads are those of `Runner`. With `Seen`, what
  `ClientLifecycle` takes for granted is a theorem. The argument goes by the view:
  `ViewOfRunning` and `ViewOfStopped` give its value in each phase, `WhoNotifies`
  says which two steps call `on_state`, and `RunningSeen`, `StopSeen`,
  `StoppedSeen` and `OthersUnseen` treat the steps of a runner that runs, `stop()`
  and its kin, the steps of a stopped one, and the consumers.
- The invariant: the ready flag is up exactly in a session or what is left of
  one, until `stop()` lowers it; a cancellation is on its way only to a runner
  that runs and has been stopped; a `stop()` that has come back, returning or
  raising, has joined its runner; a new runner has no failures (`RunnerInv`, whose
  last parts the refinement needs);
  each phase has its kind of socket, and a new connection starts without
  subscriptions (`WireInv`); a remote id stands for the destination its consumer
  wants, and neither registry nor broker has it before that consumer subscribes
  (`IdInv`). `RestoredInv` is the one that makes the replay right: while it
  runs, a registered id is in force once unless it is still to be sent, in which
  case it is not in force, and in a session once unless its own SUBSCRIBE has not
  been written (`unsent`, empty except in a session or what is left of one); a
  consumer that subscribes or unsubscribes between
  two of its sends changes both sides. `CountInv` ties each reference count to
  the consumers that subscribe, hold or gave up; it needs their set to be
  finite.

`ClientLifecycleProofs`:

- `TypeCorrect`, `Woken` (`NoLostWakeup`), `OneTransport`
  (`NoDuplicateTransport`), `Usable` (`ReadyMeansUsable`) and `NobodyStrays`: a
  runner without an owner is being joined by the `disconnect()` that let go of
  it.
- The invariant: the connect lock is held from the first to the last step of a
  `connect()` or `disconnect()`, a wait inside `connect()` included (`LockInv`);
  a runner nobody owns is being joined inside the lock, and there is none while
  a `connect()` authenticates, and one that waits for the start has a supervisor
  (`RunInv`); the client is not ready while a
  `connect()` builds (`NewsInv`). `NoDuplicateTransport` looks at runners only,
  but holds because of the lock; `NoLostWakeup` is a conjunct as it stands.

`AccountsProofs`:

- `TypeCorrect`, `OwnBalance` (`BalanceIsOwn`), `UpToDate`
  (`HandlersAreUpToDate`), `Joins` (`CloseJoinsAll`), `Ordered`
  (`HeardInOrder`).
- The invariant: every balance on its way, in a page or an event, is one its
  account has had (`BooksInv`), so that the order of their arrival does not
  matter; tasks that have not started are behind those that have, what `close()`
  found it waits for, and only a cancelled `close()` cancels (`TasksInv`).
  `NewsInv` strengthens `HandlersAreUpToDate` to handlers that have been removed,
  because the code calls them too, and to the time in which tasks wait: a
  handler was called with the last change, or a waiting task will call it so and
  every task of that handler behind it will, too. Starting tasks in the order of
  their creation is what keeps it: the last to run is the last created.
- `Ordered` has an invariant of its own, `QueueInv`, over `IInv`: events are on
  their way in the order of booking (`InboxInv`), a handler is registered once, so
  that an event makes one task of it (`OnceInv`), and everything a handler was or
  is to be called with is older than what has not arrived, each waiting task newer
  than the handler's last call and than its tasks in front (`WaitInv`).

`MarketProofs`, streams:

- `TypeCorrect`, `References` (`ReferencesAreHeld`), `Feeds`
  (`OpenStreamsAreFed`), `Routing` (`ItemsAreOwn`), for any finite set of
  streams and any number of supervisors.
- The invariant: a registered subscription's handle was handed out by its own
  registry, and to no other destination (`HandleInv`); a call that holds a
  reference holds the handle of the subscription it asked for, at the supervisor
  it captured (`HoldInv`); on a ready connection the broker has what the
  registry of the current supervisor has, or its SUBSCRIBE is unwritten
  (`RemoteInv`); an open stream is in
  `fed` (`FeedInv`). Without the first two a release could hit a stranger's
  subscription, and the reference counts would not follow from the counts before
  the step.

`EventStreamProofs`:

- `TypeCorrect` (which includes the capacity), `Newest`, `Complete`,
  `Unregistered`, `Ordered`, for any consumers, capacity and number of items.
- The invariant: items are newer towards the back and newer than everything
  delivered, and nothing is behind a sentinel but sentinels (`OrderInv`); what
  tells a consumer that the stream is closed, an overflow apart, comes from a
  `close()` that has started the cleanup (`ClosedInv`); a lossless stream holds
  what it has not delivered until an overflow, and a consumer was stopped only
  when nothing is left (`EndInv`). `LeavesKeep` treats the six ways of leaving
  at once.

`MarketProofs`, paging (its definitions have "Paging" in their names because the
module extends both specifications):

- `PagingTypeCorrect` and `Complete` (`RangeIsComplete`), for any timeframe,
  horizon, history and page size.
- The invariant: everything before the cursor that existed at the call is
  collected, and stays all there is when an answer that is no list ends the call
  (`CoverInv`), which rests on candles being a timeframe apart
  (`OpenTimesApart`) and on pages being the oldest of their range; and a
  collected candle from before the start is the last one there, because a candle
  as new as the start has been seen (`EdgeInv`), so that no page adds a second.

What stays with TLC: all liveness (`EveryPlaceReturns`, `EveryWaitReturns`,
`StopReturns`, `ReconnectResolves`, `EveryCallReturns`, `EveryConsumerEnds`,
`ApplicationCloseEnds`, `PagingEnds`), which needs fairness and ENABLED;
and `RoundTrip`, because the codec is recursive and what it computes for every
input takes an induction over the input. Every other property of a run is a
theorem.

## 6. Findings and observations

Two runs end in a counterexample, each against a sentence of the repository that
`PROJECT.json` quotes:

- `submission_blocked`. `place()` raises the uncertain flag on any cancellation
  or failure inside the lock, also when its reply has already been handled or
  its command was never sent. Only a later execute reply clears the flag, and
  none is due: every later `place()` is refused, across reconnects.
- `lifecycle_ghost`. `connect()` rolled back after the runner reported CONNECTED
  leaves the client ready without a supervisor, and a later `connect()` returns
  at once.

Three more are stated in the modules, are listed by no configuration, and fail
when they are added to one:

- An unsubscribe during the replay leaves a subscription at the broker that
  nobody holds (`NoOrphanSubscription` of `Supervisor`).
- `stop()` during the handshake returns while the new WebSocket is still open
  and has no owner (`StoppedMeansClosed` of `Supervisor`).
- A selection whose answer comes while the supervisor is not ready changes the
  account but never the user topic (`CoreFollowsSelected` of `ClientLifecycle`).

Seen while modelling, without a run of their own:

- A REST page read before a WebSocket event and applied after it is refused by
  the tracker (`ApplyFails`), and the `ProtocolError` comes out of
  `wait_order()`, although both answers were right and the order may be settled
  in memory; the specification of the order lifecycle promises
  `SettlementTimeoutError` with the last known state.
- A 401 discards whichever session is current (`client.py` 107), also one that
  another request has renewed since: each late 401 costs a login. While a
  renewal is under way the other requests carry no token, and one that must not
  be retried fails with `AuthenticationError`.
- `logout()` does not stop a renewal that is under way. If the broker has
  answered its login and the call handles the answer after the logout, a session
  from before the logout is stored and put into use (`auth/service.py` 42-45), and
  the next `connect()` restores it, although the specification of the session
  lifecycle (`client-session-lifecycle/spec.md` 43-48) has logout delete the
  persisted session; `LoggedOutStaysOut` excepts exactly these (`late`). If the
  HTTP client is the application's own, the login may also be granted after the
  logout, with the same result.
- `delete` does not sync the directory as `save` does: after a power failure a
  logged-out session may be back in the store.
- A `stop()` that is cancelled while it joins the runner does join it, but raises
  before it closes the socket and forgets the runner (`supervisor.py` 240-245):
  the WebSocket stays open unless the runner's own except clause closed it. The
  rollback of a `connect()` that is cancelled there leaves `_supervisor` set, with
  a runner that is over (`client.py` 173-176); the next `connect()` finds it not
  running and builds anew.
- `raw.send` on the execute destination (`raw/client.py` 94) takes no submission
  lock. Its reply is indistinguishable from the reply to a `place()` that is
  waiting, which then reports the raw order as its own. `NoCrossing` therefore
  speaks of the time before the first raw command.
- A `subscribe` whose send raises or is cancelled (`supervisor.py` 209) has
  already counted its reference and returns no handle: the reference is never
  released and the destination is replayed on every reconnect.
- If that happens before the SUBSCRIBE is written, as when the send waits for the
  socket's lock under backpressure, the destination is registered and not in force
  on a ready connection. Later subscribers find it registered and send nothing
  (`supervisor.py` 210): they have a handle and get no frames until the next
  reconnect. `ReadyMeansRestored` and `OpenStreamsAreFed` except such a
  subscription (`unsent`) and nothing else.
- An UNSUBSCRIBE whose send is cancelled before it is written leaves a
  subscription that nobody holds in force until the connection ends.
- An answer to `get_candles` that is no list, an object without data for
  instance, ends the range like an empty page (`market/service.py` 91): what has
  been read is returned as if it were the whole range, which the specification of
  market data access (`market-data-access/spec.md` 15-18) rules out.
  `RangeIsComplete` says of such a range only that it has no gap up to the cursor.
- `disconnect()` clears the terminal error (`client.py` 246) before the waiters
  it wakes have run; one that was about to raise it goes back to sleep, for ever
  if it has no timeout.
- `list()` stops at the first refused row (`orders/service.py` 125): the rows
  behind it are dropped, and a `wait_order()` fails because of another order on
  its page.
- The other way round, a page that is ahead of the events makes the late event
  illegal; `handle_event` raises through the receive loop and costs the
  connection and the frames behind it (`HandleEvent`, second case).
- `wait_order` asks REST only at its deadline: an order settled during an outage
  is reported when the deadline passes, not at the reconnect.
- Two consumers that call `__anext__` themselves, as `RawSubscription` does, get
  one sentinel between them: `close()` wakes one, the other stays blocked. With
  the generator each leaves through `close()` and wakes the next
  (`EveryConsumerEnds`).
- A market stream keeps the supervisor it was opened at (`market/service.py`
  111): after `disconnect()` and `connect()` it is neither closed nor
  subscribed. A `disconnect()` and `connect()` that somebody else follows with a
  stream of the same key brings it back to life, with whatever it missed in
  between missing.
- Frames that arrive between a SUBSCRIBE and the registration of its stream
  (`market/service.py` 112) find no stream; the snapshot the broker sends on
  subscribing is the likeliest of them.
- A market stream whose SUBSCRIBE fails keeps its reference, too: the
  destination stays subscribed at every reconnect, and a malformed row the
  broker repeats on it, as a snapshot would be, ends every new connection once
  anybody listens to its key.
- A ticker stream subscribes to nothing: it is fed only while some other stream,
  a raw one for instance, is subscribed to the destination of its events.
- The key of a book stream has no environment although its destination has one
  (`market/service.py` 136-143): two books of one symbol, opened in different
  environments, are both fed from either.
- A handler removed between an event and the start of its task is still called
  (`events/dispatcher.py` 40); the specification of typed events promises calls
  only while the token remains registered (`typed-event-dispatch/spec.md` 8-10).
  `HandlersAreUpToDate` asks neither for the call nor for its absence.
- `close()` of the dispatcher, and so of the client, never returns when a
  handler calls it: it waits for the handler's own task (`events/dispatcher.py`
  58).
- A list of accounts read before a balance event and applied after it puts the
  older balance back (`accounts/service.py` 31-32), until the next event.
- A balance event that names no account is taken to be about the selected one,
  also when it was sent for the account selected before (`BalanceIsOwn` excepts
  it).
- With a broker that starts a page with the candle before the range, a full last
  page that is followed by an empty stretch makes `get_candles` fail with "did
  not advance", and so does `limit=1`; the candle before the start is part of
  what is returned. A broker that caps pages below `limit` ends the range early,
  because a page that is not full is taken to be the last (`market/service.py`
  101).
- A body that ends in NUL does not survive: `decode` strips it with the
  terminator, and the length no longer agrees (`transport/stomp.py`).
- A line boundary of `str.splitlines` that `_escape` does not know, such as a
  vertical tab, splits a header in two, so that the frame is refused; at the
  very end of the head it is lost without anybody noticing.
- One message of a packet that is no frame drops the frames before it in the
  same packet and ends the connection (`transport/websocket.py` 63). During the
  handshake a blank message does the same, and frames behind CONNECTED in its
  packet are never read.

## 7. Not modelled

- The caches of assets and of the broker time in `market/service.py`: one read
  replaces them whole. Configuration, logging, money and exceptions have no
  state.
- JSON, the URL with its random session, and the numbers of a close packet.
- Parsing is reduced to its outcomes: which replies are orders, errors,
  malformed or refused. Validation in `place()` is "passes or refuses".
- Time. Deadlines, backoff delays and heartbeats may expire at any moment; the
  candle boundary of a queued command is planned.
- `start()` after `stop()` on the same supervisor: the client builds a new one.
- `close` of the client as a whole, and the profile. `_on_frame` is modelled one
  consumer at a time: `MarketStreams`, `Accounts` and the order modules each
  take the frames that concern them.
- `request` of `raw/client.py` beyond what it shares with `_request`.
- A balance event without a balance, which `handle_event` takes to say zero
  (`accounts/service.py` 69).
- `place()` puts its order under `_trackers` with `setdefault`, which changes
  nothing because `handle_event` has just done it.
