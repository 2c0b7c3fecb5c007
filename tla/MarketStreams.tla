----------------------------- MODULE MarketStreams -----------------------------
(***************************************************************************)
(* The live streams of market/service.py and raw/client.py: how a stream   *)
(* is opened over a supervisor's subscription, fed by the frames that      *)
(* arrive, and closed, while the connection breaks, is restored, and is    *)
(* given up for one with another supervisor.                               *)
(*                                                                         *)
(* A stream keeps the supervisor it was opened at.  Supervisors are        *)
(* numbered as connect() builds them; each has a registry of its own, and  *)
(* the handles of all registries are numbered from 0.  What a stream      *)
(* does with the items published into it is the subject of EventStream;    *)
(* here it matters which streams a frame is published into.                *)
(***************************************************************************)
EXTENDS Naturals, FiniteSets

CONSTANTS Streams,   \* calls of stream_candles, stream_ticker, stream_book and
                     \* raw.subscribe, each made once
          Markets,   \* pairs of a symbol and a timeframe
          Envs,      \* account environments
          Lives,     \* supervisors built in one behaviour
          Nothing    \* no market, no destination, no item

ASSUME StreamsAssumption == IsFiniteSet(Streams)
ASSUME LivesAssumption == Lives \in Nat

Supervisors == 1..Lives

Graph(m) == [topic |-> "graph", env |-> Nothing, market |-> m]
Book(e, m) == [topic |-> "book", env |-> e, market |-> m]
Dests == {Graph(m) : m \in Markets} \cup {Book(e, m) : e \in Envs, m \in Markets}

ASSUME NothingAssumption ==
  /\ Nothing \notin Markets \cup Envs \cup {"absent", "partial"}
  /\ Nothing \notin Dests
  /\ Markets \cap {"absent", "partial"} = {}

Kinds == {"candles", "ticker", "book", "raw"}

\* What a row's payload says of its market: symbol and candleTimeFrame, neither
\* of them, or something _event_key refuses.
PayloadKeys == Markets \cup {"absent", "partial"}

\* The part of a frame the routing tells apart: its destination, the kind of
\* stream its event is for, what its row names and whether the row parses.  A
\* frame of several rows is as many frames of one row: the loops over them do
\* not suspend, and a malformed row ends them as it ends the connection.
Frames == [dest : Dests, event : Kinds \ {"raw"}, key : PayloadKeys,
           ok : BOOLEAN]

VARIABLES
  environment,  \* of the selected account
  link,         \* the client's supervisor: none, or what its runner makes of it
  built,        \* supervisors built so far; the last is the client's
  registry,     \* the subscription of each destination, for each supervisor
  minted,       \* handles each registry has handed out
  remote,       \* destinations in force at the broker on the connection
  unsent,       \* those whose SUBSCRIBE is due on it and has not been written
  stage,        \* where each stream stands
  kind, market, \* which stream it is
  sub,          \* the supervisor, destination and handle it captured
  fed           \* streams in _candle_streams, _ticker_streams, _book_streams
                \* or RawClient._streams

calls == <<kind, market, sub>>
vars == <<environment, link, built, registry, minted, remote, unsent, stage,
          calls, fed>>

NoSub == [handle |-> 0, refs |-> 0]
Unsubscribed == [at |-> 0, dest |-> Nothing, handle |-> 0]

Stages == {"idle", "queued", "subscribing", "open", "closed", "failed"}

TypeOK ==
  /\ environment \in Envs
  /\ link \in {"none", "down", "ready", "failing", "failed"}
  /\ built \in 0..Lives
  /\ registry \in [Supervisors -> [Dests -> [handle : Nat, refs : Nat]]]
  /\ minted \in [Supervisors -> Nat]
  /\ remote \subseteq Dests /\ unsent \subseteq Dests
  /\ stage \in [Streams -> Stages]
  /\ kind \in [Streams -> Kinds \cup {Nothing}]
  /\ market \in [Streams -> Markets \cup {Nothing}]
  /\ sub \in [Streams -> [at : 0..Lives, dest : Dests \cup {Nothing},
                          handle : Nat]]
  /\ fed \subseteq Streams

Init ==
  /\ environment \in Envs
  /\ link = "none" /\ built = 0
  /\ registry = [g \in Supervisors |-> [d \in Dests |-> NoSub]]
  /\ minted = [g \in Supervisors |-> 0]
  /\ remote = {} /\ unsent = {}
  /\ stage = [s \in Streams |-> "idle"]
  /\ kind = [s \in Streams |-> Nothing]
  /\ market = [s \in Streams |-> Nothing]
  /\ sub = [s \in Streams |-> Unsubscribed]
  /\ fed = {}

\* require_supervisor() finds one; the flag is still up while the socket fails.
Ready == link \in {"ready", "failing"}

-----------------------------------------------------------------------------
(***************************************************************************)
(* SubscriptionRegistry                                                    *)
(***************************************************************************)

Registered(g) == {d \in Dests : registry[g][d].refs > 0}

MutAcquired(g, d) ==
  IF d \in Registered(g) THEN registry[g][d]
  ELSE [handle |-> minted[g], refs |-> 1]
Acquired(g, d) ==
  IF d \in Registered(g) THEN [registry[g][d] EXCEPT !.refs = @ + 1]
  ELSE [handle |-> minted[g], refs |-> 1]

\* release() finds the subscription by its handle, if there is one.
ByHandle(g, h) == {d \in Registered(g) : registry[g][d].handle = h}
Released(g, h) ==
  [d \in Dests |-> IF d \in ByHandle(g, h)
                     THEN IF registry[g][d].refs = 1 THEN NoSub
                          ELSE [registry[g][d] EXCEPT !.refs = @ - 1]
                     ELSE registry[g][d]]

-----------------------------------------------------------------------------
(***************************************************************************)
(* Opening and closing                                                     *)
(***************************************************************************)

\* The destination each kind of stream asks for; a ticker asks for none, a raw
\* subscription names its own.
DestinationsOf(k, m) ==
  CASE k = "candles" -> {Graph(m)}
    [] k = "ticker"  -> {Nothing}
    [] k = "book"    -> {Book(environment, m)}
    [] k = "raw"     -> {d \in Dests : d.market = m}

Enter(s) ==
  /\ stage' = [stage EXCEPT ![s] = "open"]
  /\ fed' = fed \cup {s}

\* _stream() and raw.subscribe() up to the SUBSCRIBE: the first reference to
\* a destination sends it, as soon as the socket takes it; the others are
\* registered at once.
Open(s, k, m, d) ==
  /\ stage[s] = "idle" /\ Ready
  /\ d \in DestinationsOf(k, m)
  /\ kind' = [kind EXCEPT ![s] = k]
  /\ market' = [market EXCEPT ![s] = m]
  /\ IF d = Nothing
       THEN /\ sub' = [sub EXCEPT ![s] = [Unsubscribed EXCEPT !.at = built]]
            /\ Enter(s)
            /\ UNCHANGED <<registry, minted, unsent>>
       ELSE /\ registry' = [registry EXCEPT ![built][d] = Acquired(built, d)]
            /\ sub' = [sub EXCEPT ![s] = [at |-> built, dest |-> d,
                                          handle |-> Acquired(built, d).handle]]
            /\ IF d \in Registered(built)
                 THEN Enter(s) /\ UNCHANGED <<minted, unsent>>
                 ELSE /\ minted' = [minted EXCEPT ![built] = @ + 1]
                      /\ unsent' = unsent \cup {d}
                      /\ stage' = [stage EXCEPT ![s] = "queued"]
                      /\ UNCHANGED fed
  /\ UNCHANGED <<environment, link, built, remote>>

\* The frame is written, if the connection is still the one it waits for.
SubscribeIsWritten(s) ==
  /\ stage[s] = "queued" /\ sub[s].at = built /\ sub[s].dest \in unsent
  /\ stage' = [stage EXCEPT ![s] = "subscribing"]
  /\ unsent' = unsent \ {sub[s].dest}
  /\ remote' = remote \cup {sub[s].dest}
  /\ UNCHANGED <<environment, link, built, registry, minted, calls, fed>>

\* The send returns, and the stream is registered for its feed.
Subscribed(s) ==
  /\ stage[s] = "subscribing"
  /\ Enter(s)
  /\ UNCHANGED <<environment, link, built, registry, minted, remote, unsent,
                 calls>>

\* The send raises or is cancelled, before or after the frame has been written:
\* the reference stays, with no stream to it.
SubscribeGivesUp(s) ==
  /\ stage[s] \in {"queued", "subscribing"}
  /\ stage' = [stage EXCEPT ![s] = "failed"]
  /\ UNCHANGED <<environment, link, built, registry, minted, remote, unsent,
                 calls, fed>>

\* The supervisor a cleanup releases its handle at.
MutReleasesAt(s) == built
ReleasesAt(s) == sub[s].at

\* The entry of the key goes with its last stream.
FedWithout(s) == fed \ {s}

\* A closed stream has no key and no handle any more.
Forget(s) ==
  /\ kind' = [kind EXCEPT ![s] = Nothing]
  /\ market' = [market EXCEPT ![s] = Nothing]
  /\ sub' = [sub EXCEPT ![s] = Unsubscribed]

\* close(), from wherever the stream is left: the cleanup takes it out of the
\* registries, then releases its reference; the send of an UNSUBSCRIBE may be
\* cancelled before the frame has been written.
Close(s) ==
  LET g == ReleasesAt(s)
      h == sub[s].handle
  IN  /\ stage[s] = "open"
      /\ stage' = [stage EXCEPT ![s] = "closed"]
      /\ Forget(s)
      /\ fed' = FedWithout(s)
      /\ IF sub[s].dest = Nothing
           THEN UNCHANGED <<registry, remote>>
           ELSE /\ registry' = [registry EXCEPT ![g] = Released(g, h)]
                /\ LET gone == IF g = built /\ Ready
                                 THEN {d \in ByHandle(g, h) :
                                         registry[g][d].refs = 1}
                                 ELSE {}
                   IN  remote' \in {remote, remote \ gone}
      /\ UNCHANGED <<environment, link, built, minted, unsent>>

-----------------------------------------------------------------------------
(***************************************************************************)
(* Frames                                                                  *)
(***************************************************************************)

\* The topic _destination_key wants to see for each kind of event.
TopicOf(k) == IF k = "candles" THEN "graph" ELSE k

\* _event_key: the payload's market, or else the destination's; none if they
\* contradict each other.
MutEventKey(f) ==
  CASE f.key = "partial" -> Nothing
    [] f.key \in Markets -> f.key
    [] OTHER -> IF f.dest.topic = TopicOf(f.event) THEN f.dest.market
                ELSE Nothing
EventKey(f) ==
  LET ofDest == IF f.dest.topic = TopicOf(f.event) THEN f.dest.market
                ELSE Nothing
  IN  CASE f.key = "partial" -> Nothing
        [] f.key = "absent" -> ofDest
        [] OTHER -> IF ofDest \in {f.key, Nothing} THEN f.key ELSE Nothing

\* The streams of the event's kind under that key.
Keyed(f) == {s \in fed : kind[s] = f.event /\ market[s] = EventKey(f)}

\* RawClient.handle_frame: the streams of that very destination.
RawOf(f) == {s \in fed : kind[s] = "raw" /\ sub[s].dest = f.dest}

\* A row nobody listens to is not parsed; a malformed one that is costs the
\* receive loop, after the raw streams have been served.
Breaks(f) == Keyed(f) # {} /\ ~f.ok

Fed(f) == RawOf(f) \cup IF Breaks(f) THEN {} ELSE Keyed(f)

\* _on_frame, as far as it feeds streams.  The broker may send on any
\* destination, one that has just been unsubscribed included.
Receive(f) ==
  /\ link = "ready"
  /\ link' = IF Breaks(f) THEN "failing" ELSE link
  /\ UNCHANGED <<environment, built, registry, minted, remote, unsent, stage,
                 calls, fed>>

-----------------------------------------------------------------------------
(***************************************************************************)
(* The connection                                                          *)
(***************************************************************************)

Select(e) ==
  /\ environment' = e /\ e # environment
  /\ UNCHANGED <<link, built, registry, minted, remote, unsent, stage, calls,
                 fed>>

\* connect() builds a supervisor when there is none or its runner is dead.
Connect ==
  /\ link \in {"none", "failed"} /\ built < Lives
  /\ link' = "down"
  /\ built' = built + 1
  /\ UNCHANGED <<environment, registry, minted, remote, unsent, stage, calls,
                 fed>>

\* The runner has replayed the registry.
GoReady ==
  /\ link = "down"
  /\ link' = "ready"
  /\ remote' = Registered(built)
  /\ UNCHANGED <<environment, built, registry, minted, unsent, stage, calls,
                 fed>>

LinkFails ==
  /\ link = "ready"
  /\ link' = "failing"
  /\ UNCHANGED <<environment, built, registry, minted, remote, unsent, stage,
                 calls, fed>>

\* The connection is closed: by the runner, which tries again or gives up, or
\* by disconnect() and the rollback of connect().
LinkDown(how) ==
  /\ \/ link = "failing" /\ how \in {"down", "failed"}
     \/ link = "down" /\ how = "failed"
     \/ link # "none" /\ how = "none"
  /\ link' = how
  /\ remote' = {} /\ unsent' = {}
  /\ UNCHANGED <<environment, built, registry, minted, stage, calls, fed>>

-----------------------------------------------------------------------------

Connection ==
  \/ Connect \/ GoReady \/ LinkFails
  \/ \E how \in {"down", "failed", "none"} : LinkDown(how)

Next ==
  \/ \E s \in Streams :
       \/ \E k \in Kinds, m \in Markets : \E d \in DestinationsOf(k, m) :
            Open(s, k, m, d)
       \/ SubscribeIsWritten(s) \/ Subscribed(s) \/ SubscribeGivesUp(s)
       \/ Close(s)
  \/ \E f \in Frames : Receive(f)
  \/ \E e \in Envs : Select(e)
  \/ Connection

Spec == Init /\ [][Next]_vars

-----------------------------------------------------------------------------
(***************************************************************************)
(* What the streams promise.                                               *)
(***************************************************************************)

\* Calls that have counted a reference to d at supervisor g and not released
\* it; those whose SUBSCRIBE failed never will.
Holders(g, d) ==
  {s \in Streams : /\ stage[s] \in {"queued", "subscribing", "open", "failed"}
                   /\ sub[s].at = g /\ sub[s].dest = d}

\* The references of every registry, those of abandoned supervisors included,
\* are exactly the calls that took them: no close releases a reference that is
\* not its own, whichever supervisor is the client's by then.
ReferencesAreHeld ==
  \A g \in Supervisors, d \in Dests :
    registry[g][d].refs = Cardinality(Holders(g, d))

\* On a ready connection an open stream of the client's supervisor is
\* registered for its feed and subscribed at the broker, whatever streams on
\* the same destination or key have failed, been closed or outlived their
\* supervisor.  The exception is a destination that an earlier call registered
\* on this connection and whose SUBSCRIBE still waits for the socket, or never
\* got to it because that call gave up.
OpenStreamsAreFed ==
  \A s \in Streams :
    link = "ready" /\ stage[s] = "open" /\ sub[s].at = built
      => s \in fed /\ sub[s].dest \in remote \cup unsent \cup {Nothing}

\* Whatever frame arrives now, the streams it is published into are of its
\* own market: no row named another, and where a row named none its
\* destination did not either.  A raw stream gets the frames of its own
\* destination.
OwnMarket(f, s) ==
  IF kind[s] = "raw" THEN f.dest = sub[s].dest
  ELSE /\ f.key \in {market[s], "absent"}
       /\ kind[s] # "ticker" /\ f.dest.topic = TopicOf(kind[s])
            => f.dest.market = market[s]

ItemsAreOwn ==
  \A f \in Frames : link = "ready" => \A s \in Fed(f) : OwnMarket(f, s)
=============================================================================
