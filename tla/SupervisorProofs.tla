--------------------------- MODULE SupervisorProofs ---------------------------
(***************************************************************************)
(* Theorems about Supervisor, for any consumers, destinations and budget.  *)
(***************************************************************************)
EXTENDS Supervisor, FiniteSetTheorems, TLAPS

-----------------------------------------------------------------------------
(***************************************************************************)
(* The inductive invariant.                                                *)
(***************************************************************************)

\* A cancellation is on its way only to a runner that runs; a runner ends, other
\* than by its terminal failure, only when it is stopped, and stop() comes back
\* only when it has ended.  The ready flag is up in a session and in what is left
\* of one, until stop() takes it down.
RunnerInv ==
  /\ stopping <=> stopper # "none"
  /\ cancel => stopping /\ ~RunnerOver
  /\ phase = "new" => failures = 0
  /\ phase = "ended" => stopping
  /\ stopper \in {"done", "raised"} => RunnerOver
  /\ ready => phase \in {"session", "aborting"}
  /\ phase \in {"session", "aborting"} => ready \/ stopping
  /\ todo # {} => phase = "replaying"

\* A runner that has not dialed, or waits to dial again, has no socket, and one
\* that has dialed has it until it closes it; a new connection starts without subscriptions, and no frame waits for it before it
\* is ready.
WireInv ==
  /\ phase \in {"new", "dialing", "backoff", "failed"} => wire = "none"
  /\ phase \in {"handshake", "replaying", "session", "aborting"} => wire # "none"
  /\ wire = "none" \/ phase = "handshake" => broker = NoFrames /\ unsent = {}
  /\ phase = "replaying" => unsent = {}

\* A remote id stands for the destination its consumer wants, and is new to
\* registry and broker until that consumer subscribes.
IdInv ==
  /\ \A d \in Dests : remote[d] # NoId => /\ wants[remote[d]] = d
                                          /\ consumer[remote[d]] # "idle"
  /\ \A c \in Consumers : consumer[c] = "idle" =>
       broker[c] = 0 /\ c \notin todo /\ c \notin unsent

\* What a replay has not sent yet, or its own subscribe has not written, is not
\* at the broker, the rest is there once, as it stays while the connection is
\* ready.
RestoredInv ==
  wire = "open" /\ (phase = "replaying" \/ ready) =>
    \A c \in Active : broker[c] = IF c \in todo \cup unsent THEN 0 ELSE 1

\* A destination is registered as long as somebody counts on it: who subscribes
\* to it, holds it, is about to replace it, or gave up a subscription that cannot
\* be released.
Counting(d) ==
  {c \in Consumers : wants[c] = d /\ consumer[c] \notin {"idle", "released"}}
CountInv ==
  \A d \in Dests : /\ refs[d] = Cardinality(Counting(d))
                   /\ remote[d] = NoId <=> refs[d] = 0

BudgetInv ==
  /\ failures <= Budget + 1
  /\ GivesUpAfterBudget

IInv ==
  /\ TypeOK /\ RunnerInv /\ WireInv /\ IdInv /\ RestoredInv /\ CountInv
  /\ BudgetInv /\ QuietAfterStop

USE BudgetAssumption, CoreAssumption, NoIdAssumption DEF Phases, Standings, NoFrames, RunnerOver

\* The types of what the steps put into failures and broker.
LEMMA ValueTypes ==
  /\ 0 \in 0..(Budget + 1)
  /\ NoFrames \in [Consumers -> Nat]
  /\ 0 \in 0..Cardinality(Consumers)
<1>1. Cardinality(Consumers) \in Nat
  BY ConsumersAssumption, FS_CardinalityType
<1> QED
  BY <1>1

\* The invariant holds before start() and before anybody subscribes.
LEMMA InitHolds == ASSUME Init PROVE IInv
<1> USE DEF Init
<1>1. /\ IsFiniteSet({}) /\ Cardinality({}) = 0
      /\ Cardinality(Consumers) \in Nat
  BY ConsumersAssumption, FS_EmptySet, FS_CardinalityType
<1>2. TypeOK
  BY ValueTypes DEF TypeOK
<1>3. RunnerInv /\ WireInv /\ QuietAfterStop
  BY DEF RunnerInv, WireInv, QuietAfterStop
<1>4. IdInv /\ RestoredInv
  BY DEF IdInv, RestoredInv, Active
<1>5. CountInv
  <2>1. \A d \in Dests : Counting(d) = {}
    BY DEF Counting
  <2> QED
    BY <1>1, <2>1 DEF CountInv
<1>6. BudgetInv
  BY DEF BudgetInv, GivesUpAfterBudget
<1> QED
  BY <1>2, <1>3, <1>4, <1>5, <1>6 DEF IInv

-----------------------------------------------------------------------------
(***************************************************************************)
(* The runner and stop().                                                  *)
(***************************************************************************)

RunnerStep ==
  \/ Start \/ Progress \/ FrameReceived \/ ChildFails \/ WireBreaks
  \/ Stop \/ StopFinishes \/ StopCancelled \/ StopRaises

\* The runner and stop() leave the registry alone.
LEMMA RunnerKeepsRegistry ==
  ASSUME RunnerStep
  PROVE  UNCHANGED <<refs, remote, consumer, wants>>
BY DEF RunnerStep, Start, Progress, DialOpens, HandshakeDone, Replay, GoReady,
       ReplayOne, GroupRaises, ConnectFails, Closed, BackoffEnds,
       RunnerCancelled, FrameReceived, ChildFails, WireBreaks, Stop,
       StopFinishes, StopCancelled, StopRaises, registry

\* Each of their steps is one of these.
LEMMA RunnerCases ==
  ASSUME RunnerStep
  PROVE  \/ Start \/ DialOpens \/ HandshakeDone \/ GoReady
         \/ \E c \in Consumers : ReplayOne(c)
         \/ GroupRaises \/ ConnectFails \/ Closed \/ BackoffEnds
         \/ RunnerCancelled \/ FrameReceived \/ ChildFails \/ WireBreaks
         \/ Stop \/ StopFinishes \/ StopCancelled \/ StopRaises
BY DEF RunnerStep, Progress, Replay

\* They keep every variable in its type.
LEMMA RunnerKeepsTypes ==
  ASSUME IInv, RunnerStep
  PROVE  TypeOK'
<1> USE ValueTypes DEF TypeOK
<1>1. TypeOK /\ BudgetInv
  BY DEF IInv
<1>2. UNCHANGED <<refs, remote, consumer, wants>>
  BY RunnerKeepsRegistry
<1>3. CASE Start
  BY <1>1, <1>2, <1>3 DEF Start
<1>4. CASE DialOpens
  BY <1>1, <1>2, <1>4 DEF DialOpens, FailuresAfterOpen
<1>5. CASE HandshakeDone
  BY <1>1, <1>2, <1>5 DEF HandshakeDone, Active
<1>6. CASE GoReady
  BY <1>1, <1>2, <1>6 DEF GoReady
<1>7. ASSUME NEW c \in Consumers, ReplayOne(c) PROVE TypeOK'
  <2> HIDE ValueTypes DEF NoFrames
  <2>1. broker \in [Consumers -> Nat]
    BY <1>1
  <2>2. broker' \in {broker, [broker EXCEPT ![c] = @ + 1]}
    BY <1>7 DEF ReplayOne, Transmit
  <2>3. broker' \in [Consumers -> Nat]
    <3> HIDE DEF TypeOK
    <3> QED
      BY <2>1, <2>2
  <2> QED
    BY <1>1, <1>2, <1>7, <2>3 DEF ReplayOne
<1>8. CASE GroupRaises
  BY <1>1, <1>2, <1>8 DEF GroupRaises, Fail
<1>9. CASE ConnectFails
  BY <1>1, <1>2, <1>9 DEF ConnectFails, Fail
<1>10. CASE Closed
  <2>1. failures \in 0..Budget
    <3>1. failures \in 0..(Budget + 1) /\ failures # Budget + 1
      BY <1>1, <1>10 DEF Closed, BudgetInv, GivesUpAfterBudget
    <3> HIDE DEF TypeOK
    <3> QED
      BY <3>1
  <2>2. failures' \in 0..(Budget + 1)
    <3> HIDE DEF TypeOK
    <3> QED
      BY <1>10, <2>1 DEF Closed
  <2> QED
    BY <1>1, <1>2, <1>10, <2>2 DEF Closed, CloseWire
<1>11. CASE BackoffEnds
  BY <1>1, <1>2, <1>11 DEF BackoffEnds
<1>12. CASE RunnerCancelled
  BY <1>1, <1>2, <1>12 DEF RunnerCancelled, CloseWire
<1>13. CASE FrameReceived
  BY <1>1, <1>2, <1>13 DEF FrameReceived
<1>14. CASE ChildFails \/ WireBreaks
  BY <1>1, <1>2, <1>14 DEF ChildFails, WireBreaks
<1>15. CASE Stop
  BY <1>1, <1>2, <1>15 DEF Stop, RunnerToCancel
<1>16. CASE StopFinishes \/ StopCancelled \/ StopRaises
  BY <1>1, <1>2, <1>16 DEF StopFinishes, StopCancelled, StopRaises, CloseWire,
                           RunnerToCancel
<1> QED
  BY <1>3, <1>4, <1>5, <1>6, <1>7, <1>8, <1>9, <1>10, <1>11, <1>12, <1>13,
     <1>14, <1>15, <1>16, RunnerCases

\* They keep what is said of the runner, the stop and the budget.
LEMMA RunnerKeepsRunner ==
  ASSUME IInv, RunnerStep
  PROVE  RunnerInv' /\ BudgetInv' /\ QuietAfterStop'
<1> DEFINE Inv == RunnerInv /\ BudgetInv /\ QuietAfterStop
<1> USE DEF RunnerInv, BudgetInv, GivesUpAfterBudget, QuietAfterStop
<1>1. TypeOK /\ Inv
  BY DEF IInv
<1>2. phase \in Phases /\ failures \in 0..(Budget + 1) /\ todo \in SUBSET Consumers
  BY <1>1 DEF TypeOK
<1>3. CASE Start
  BY <1>1, <1>2, <1>3 DEF Start
<1>4. CASE DialOpens
  BY <1>1, <1>2, <1>4 DEF DialOpens, FailuresAfterOpen
<1>5. CASE HandshakeDone
  BY <1>1, <1>2, <1>5 DEF HandshakeDone
<1>6. CASE GoReady
  BY <1>1, <1>2, <1>6 DEF GoReady, MayGoReady
<1>7. ASSUME NEW c \in Consumers, ReplayOne(c) PROVE Inv'
  BY <1>1, <1>2, <1>7 DEF ReplayOne
<1>8. CASE GroupRaises
  <2>1. cancel' => cancel
    BY <1>8 DEF GroupRaises
  <2> QED
    BY <1>1, <1>2, <1>8, <2>1 DEF GroupRaises, Fail
<1>9. CASE ConnectFails
  BY <1>1, <1>2, <1>9 DEF ConnectFails, Fail
<1>10. CASE Closed
  BY <1>1, <1>2, <1>10 DEF Closed, Exhausted
<1>11. CASE BackoffEnds
  BY <1>1, <1>2, <1>11 DEF BackoffEnds, Continues
<1>12. CASE RunnerCancelled
  BY <1>1, <1>2, <1>12 DEF RunnerCancelled
<1>13. CASE FrameReceived
  BY <1>1, <1>2, <1>13 DEF FrameReceived
<1>14. CASE ChildFails \/ WireBreaks
  BY <1>1, <1>2, <1>14 DEF ChildFails, WireBreaks
<1>15. CASE Stop
  BY <1>1, <1>2, <1>15 DEF Stop, RunnerToCancel
<1>16. CASE StopFinishes \/ StopRaises
  BY <1>1, <1>2, <1>16 DEF StopFinishes, StopRaises
<1>17. CASE StopCancelled
  <2>1. cancel' <=> ~RunnerOver
    BY <1>17 DEF StopCancelled, RunnerToCancel
  <2>2. /\ stopper \in {"joining", "cancelled"} /\ stopper' = "cancelled"
        /\ UNCHANGED <<phase, ready, stopping, failures, todo>>
    BY <1>17 DEF StopCancelled
  <2> QED
    BY <1>1, <1>2, <2>1, <2>2
<1> QED
  BY <1>3, <1>4, <1>5, <1>6, <1>7, <1>8, <1>9, <1>10, <1>11, <1>12, <1>13,
     <1>14, <1>15, <1>16, <1>17, RunnerCases

\* They keep what is said of the socket and of what is subscribed on it: the
\* one step that may add to the broker is the replay of an id it still lacks.
LEMMA RunnerKeepsWire ==
  ASSUME IInv, RunnerStep
  PROVE  WireInv' /\ IdInv' /\ RestoredInv'
<1> DEFINE Inv == WireInv /\ IdInv /\ RestoredInv
<1> USE DEF WireInv, IdInv, RestoredInv
<1>1. TypeOK /\ RunnerInv /\ Inv
  BY DEF IInv
<1>2. /\ phase \in Phases /\ broker \in [Consumers -> Nat]
      /\ todo \in SUBSET Consumers /\ remote \in [Dests -> Consumers \cup {NoId}]
      /\ wire \in {"none", "open", "broken"} /\ unsent \in SUBSET Consumers
  BY <1>1 DEF TypeOK
<1>3. UNCHANGED <<refs, remote, consumer, wants>> /\ Active' = Active
  BY RunnerKeepsRegistry DEF Active
<1> HIDE DEF NoFrames
<1>4. \A c \in Consumers : NoFrames[c] = 0
  BY DEF NoFrames
<1>5. CASE UNCHANGED <<wire, broker, unsent, ready, todo>>
           /\ \/ phase' \in {phase, "closing", "ended"}
              \/ phase = "session" /\ phase' = "aborting"
  BY <1>1, <1>2, <1>3, <1>5 DEF RunnerInv
<1>6. CASE Start
  BY <1>1, <1>2, <1>3, <1>6 DEF Start, RunnerInv
<1>7. CASE DialOpens
  BY <1>1, <1>2, <1>3, <1>7 DEF DialOpens, RunnerInv
<1>8. CASE HandshakeDone
  BY <1>1, <1>2, <1>3, <1>4, <1>8 DEF HandshakeDone, Active
<1>9. CASE GoReady
  BY <1>1, <1>2, <1>3, <1>9 DEF GoReady, MayGoReady
<1>10. ASSUME NEW c \in Consumers, ReplayOne(c) PROVE Inv'
  <2>1. wire = "none" => broker' = broker
    BY <1>10 DEF ReplayOne, Transmit
  <2>2. wire = "open" => broker' = [broker EXCEPT ![c] = @ + 1]
    BY <1>10 DEF ReplayOne, Transmit
  <2>3. WireInv'
    BY <1>1, <1>10, <2>1 DEF ReplayOne
  <2>4. consumer[c] # "idle" /\ todo' = todo \ {c} /\ unsent' = unsent
    BY <1>1, <1>10 DEF ReplayOne
  <2>5. broker' = broker \/ broker' = [broker EXCEPT ![c] = @ + 1]
    BY <1>10 DEF ReplayOne, Transmit
  <2>6. IdInv'
    BY <1>1, <1>2, <1>3, <2>4, <2>5
  <2>7. RestoredInv'
    <3> SUFFICES ASSUME wire' = "open", NEW a \in Active
                 PROVE  broker'[a] = IF a \in todo' \cup unsent' THEN 0 ELSE 1
      BY <1>3
    <3>1. /\ wire = "open" /\ phase = "replaying" /\ c \in todo
          /\ unsent = {} /\ unsent' = {}
      BY <1>1, <1>10 DEF ReplayOne
    <3>2. broker[a] = IF a \in todo \cup unsent THEN 0 ELSE 1
      BY <1>1, <3>1
    <3> QED
      BY <1>2, <2>2, <2>4, <3>1, <3>2 DEF Active
  <2> QED
    BY <2>3, <2>6, <2>7
<1>11. CASE GroupRaises \/ ConnectFails
  BY <1>1, <1>2, <1>3, <1>11 DEF GroupRaises, ConnectFails, Fail
<1>12. CASE Closed
  BY <1>1, <1>2, <1>3, <1>4, <1>12 DEF Closed, CloseWire, RunnerInv
<1>13. CASE BackoffEnds
  BY <1>1, <1>2, <1>3, <1>13 DEF BackoffEnds, RunnerInv
<1>14. CASE RunnerCancelled
  <2>1. ~ready
    BY <1>1, <1>14 DEF IInv, QuietAfterStop, RunnerInv, RunnerCancelled
  <2> QED
    BY <1>1, <1>2, <1>3, <1>4, <1>14, <2>1 DEF RunnerCancelled, CloseWire
<1>15. CASE WireBreaks
  BY <1>1, <1>2, <1>3, <1>15 DEF WireBreaks, RunnerInv
<1>16. CASE Stop
  BY <1>1, <1>2, <1>3, <1>16 DEF Stop
<1>17. CASE StopFinishes \/ StopRaises
  BY <1>1, <1>2, <1>3, <1>4, <1>17 DEF StopFinishes, StopRaises, CloseWire
<1>18. CASE FrameReceived \/ ChildFails \/ StopCancelled
  BY <1>5, <1>18 DEF FrameReceived, ChildFails, StopCancelled
<1> QED
  BY <1>6, <1>7, <1>8, <1>9, <1>10, <1>11, <1>12, <1>13, <1>14, <1>15, <1>16,
     <1>17, <1>18, RunnerCases

\* The runner and stop() keep the invariant.
LEMMA RunnerKeepsInv == ASSUME IInv, RunnerStep PROVE IInv'
<1>1. CountInv'
  BY RunnerKeepsRegistry DEF IInv, CountInv, Counting
<1> QED
  BY <1>1, RunnerKeepsTypes, RunnerKeepsRunner, RunnerKeepsWire DEF IInv

-----------------------------------------------------------------------------
(***************************************************************************)
(* The consumers.                                                          *)
(***************************************************************************)

ConsumerStep(c) ==
  \/ Subscribe(c) \/ SubscribeIsWritten(c) \/ Subscribed(c)
  \/ SubscribeGivesUp(c) \/ ReplaceStarts(c) \/ Unsubscribe(c)

\* The consumers leave the runner and the socket alone.
LEMMA ConsumersKeepRunner ==
  ASSUME IInv, NEW c \in Consumers, ConsumerStep(c)
  PROVE  /\ UNCHANGED <<phase, ready, stopping, cancel, failures, todo, wire,
                        stray, wants, stopper>>
         /\ RunnerInv' /\ BudgetInv' /\ QuietAfterStop'
<1>1. UNCHANGED <<phase, ready, stopping, cancel, failures, todo, wire, stray,
                  wants, stopper>>
  BY DEF ConsumerStep, Subscribe, SubscribeIsWritten, Subscribed,
         SubscribeGivesUp, ReplaceStarts, Unsubscribe
<1> QED
  BY <1>1 DEF IInv, RunnerInv, BudgetInv, GivesUpAfterBudget, QuietAfterStop

\* How many there may be.
LEMMA CountingType ==
  ASSUME NEW d \in Dests
  PROVE  /\ IsFiniteSet(Counting(d))
         /\ Cardinality(Counting(d)) \in 0..Cardinality(Consumers)
<1>1. Counting(d) \in SUBSET Consumers
  BY DEF Counting
<1>2. /\ IsFiniteSet(Counting(d))
      /\ Cardinality(Counting(d)) <= Cardinality(Consumers)
  BY <1>1, ConsumersAssumption, FS_Subset
<1>3. /\ Cardinality(Counting(d)) \in Nat
      /\ Cardinality(Consumers) \in Nat
  BY <1>2, ConsumersAssumption, FS_CardinalityType
<1> QED
  BY <1>2, <1>3

\* References are numbers.
LEMMA RefsType == ASSUME TypeOK PROVE refs \in [Dests -> Nat]
<1>1. Cardinality(Consumers) \in Nat
  BY ConsumersAssumption, FS_CardinalityType
<1> QED
  <2>1. refs \in [Dests -> 0..Cardinality(Consumers)]
    BY DEF TypeOK
  <2> QED
    BY <1>1, <2>1

\* The references of a destination are the consumers that count on it.
LEMMA ConsumersKeepCount ==
  ASSUME IInv, NEW c \in Consumers, ConsumerStep(c)
  PROVE  CountInv'
<1>1. /\ TypeOK /\ CountInv
      /\ wants[c] \in Dests
      /\ refs \in [Dests -> Nat]
      /\ remote \in [Dests -> Consumers \cup {NoId}]
  BY RefsType DEF IInv, TypeOK
<1>2. UNCHANGED wants
  BY ConsumersKeepRunner
<1>3. \A d \in Dests : IsFiniteSet(Counting(d)) /\ Cardinality(Counting(d)) \in Nat
  BY CountingType
<1>4. CASE Subscribe(c)
  <2> DEFINE d == wants[c]
  <2>1. /\ consumer[c] = "idle"
        /\ refs' = [refs EXCEPT ![d] = @ + 1]
        /\ remote' = IF remote[d] = NoId THEN [remote EXCEPT ![d] = c]
                                         ELSE remote
        /\ \E where \in {"queued", "holding"} : Move(c, where)
    BY <1>4 DEF Subscribe
  <2>2. \A e \in Dests : c \notin Counting(e)
    BY <2>1 DEF Counting
  <2>3. \A e \in Dests : Counting(e)' = IF e = d THEN Counting(e) \cup {c}
                                                ELSE Counting(e)
    <3>1. PICK where \in {"queued", "holding"} : Move(c, where)
      BY <2>1
    <3>2. /\ consumer' = [consumer EXCEPT ![c] = where]
          /\ DOMAIN consumer = Consumers
      BY <1>1, <3>1 DEF Move, TypeOK
    <3>3. ASSUME NEW e \in Dests
          PROVE  Counting(e)' = IF e = d THEN Counting(e) \cup {c}
                                         ELSE Counting(e)
      BY <1>2, <2>2, <3>2 DEF Counting
    <3> QED
      BY <3>3
  <2>4. Cardinality(Counting(d) \cup {c}) = Cardinality(Counting(d)) + 1
    BY <1>1, <1>3, <2>2, FS_AddElement
  <2> HIDE DEF d
  <2>5. \A e \in Dests : refs'[e] = Cardinality(Counting(e)')
    BY <1>1, <2>1, <2>3, <2>4 DEF CountInv, d
  <2>6. \A e \in Dests : remote'[e] = NoId <=> refs'[e] = 0
    <3> SUFFICES ASSUME NEW e \in Dests PROVE remote'[e] = NoId <=> refs'[e] = 0
      OBVIOUS
    <3>1. CASE e = d
      <4>1. refs'[e] # 0
        BY <1>1, <2>1, <3>1
      <4>2. remote'[e] # NoId
        BY <1>1, <2>1, <3>1
      <4> QED
        BY <4>1, <4>2
    <3>2. CASE e # d
      BY <1>1, <2>1, <3>2 DEF CountInv
    <3> QED
      BY <3>1, <3>2
  <2> QED
    BY <2>5, <2>6 DEF CountInv
<1>5. CASE SubscribeIsWritten(c) \/ Subscribed(c) \/ SubscribeGivesUp(c)
           \/ ReplaceStarts(c)
  <2>1. /\ consumer[c] \notin {"idle", "released"}
        /\ UNCHANGED <<refs, remote>>
        /\ \E where \in Standings \ {"idle", "released"} : Move(c, where)
    BY <1>5 DEF SubscribeIsWritten, Subscribed, SubscribeGivesUp, ReplaceStarts
  <2>2. \A e \in Dests : c \in Counting(e) <=> e = wants[c]
    BY <2>1 DEF Counting
  <2>3. \A e \in Dests : Counting(e)' = Counting(e)
    <3>1. PICK where \in Standings \ {"idle", "released"} : Move(c, where)
      BY <2>1
    <3>2. /\ consumer' = [consumer EXCEPT ![c] = where]
          /\ DOMAIN consumer = Consumers
      BY <1>1, <3>1 DEF Move, TypeOK
    <3>3. ASSUME NEW e \in Dests PROVE Counting(e)' = Counting(e)
      BY <1>2, <2>1, <3>2 DEF Counting
    <3> QED
      BY <3>3
  <2> QED
    BY <1>1, <2>1, <2>3 DEF CountInv
<1>6. CASE Unsubscribe(c)
  <2> DEFINE d == wants[c]
  <2>1. /\ consumer[c] \notin {"idle", "released"}
        /\ refs' = [refs EXCEPT ![d] = IF refs[d] = 1 THEN 0 ELSE @ - 1]
        /\ remote' = IF refs[d] = 1 THEN [remote EXCEPT ![d] = NoId] ELSE remote
        /\ Move(c, "released")
    BY <1>6 DEF Unsubscribe, Removed
  <2>2. \A e \in Dests : c \in Counting(e) <=> e = d
    BY <2>1 DEF Counting
  <2>3. \A e \in Dests : Counting(e)' = IF e = d THEN Counting(e) \ {c}
                                                ELSE Counting(e)
    <3>1. /\ consumer' = [consumer EXCEPT ![c] = "released"]
          /\ DOMAIN consumer = Consumers
      BY <1>1, <2>1 DEF Move, TypeOK
    <3>2. ASSUME NEW e \in Dests PROVE Counting(e)' = Counting(e) \ {c}
      BY <1>2, <3>1 DEF Counting
    <3> QED
      BY <2>2, <3>2
  <2>4. /\ Cardinality(Counting(d) \ {c}) = Cardinality(Counting(d)) - 1
        /\ Cardinality(Counting(d) \ {c}) \in Nat
    BY <1>1, <1>3, <2>2, FS_RemoveElement, FS_CardinalityType
  <2> HIDE DEF d
  <2>5. refs'[d] = refs[d] - 1
    <3>1. d \in Dests
      BY <1>1 DEF d
    <3> QED
      BY <1>1, <2>1, <3>1
  <2>6. \A e \in Dests : refs'[e] = Cardinality(Counting(e)')
    BY <1>1, <2>1, <2>3, <2>4, <2>5 DEF CountInv, d
  <2>7. \A e \in Dests : remote'[e] = NoId <=> refs'[e] = 0
    <3> SUFFICES ASSUME NEW e \in Dests PROVE remote'[e] = NoId <=> refs'[e] = 0
      OBVIOUS
    <3>1. CASE e = d
      <4>1. refs[d] \in Nat /\ refs[d] - 1 \in Nat
        <5>1. refs[d] = Cardinality(Counting(d))
          BY <1>1, <3>1 DEF CountInv
        <5> QED
          BY <1>3, <2>4, <3>1, <5>1
      <4>2. remote[d] # NoId
        BY <1>1, <3>1, <4>1 DEF CountInv
      <4>3. remote'[d] = NoId <=> refs[d] = 1
        BY <1>1, <2>1, <3>1, <4>2
      <4> QED
        BY <2>5, <3>1, <4>1, <4>3
    <3>2. CASE e # d
      BY <1>1, <2>1, <3>2 DEF CountInv
    <3> QED
      BY <3>1, <3>2
  <2> QED
    BY <2>6, <2>7 DEF CountInv
<1> QED
  BY <1>4, <1>5, <1>6 DEF ConsumerStep

\* Subscriptions and their ends keep every variable in its type.
LEMMA ConsumersKeepTypes ==
  ASSUME IInv, NEW c \in Consumers, ConsumerStep(c)
  PROVE  TypeOK'
<1> DEFINE d == wants[c]
<1>1. /\ TypeOK
      /\ broker \in [Consumers -> Nat]
      /\ refs \in [Dests -> 0..Cardinality(Consumers)]
      /\ remote \in [Dests -> Consumers \cup {NoId}]
      /\ consumer \in [Consumers -> Standings]
  BY DEF IInv, TypeOK
<1>2. refs' \in [Dests -> 0..Cardinality(Consumers)]
  <2>1. CountInv'
    BY ConsumersKeepCount
  <2>2. \A e \in Dests : Cardinality(Counting(e)') \in 0..Cardinality(Consumers)
    <3> SUFFICES ASSUME NEW e \in Dests
                 PROVE  Cardinality(Counting(e)') \in 0..Cardinality(Consumers)
      OBVIOUS
    <3>1. Counting(e)' \in SUBSET Consumers
      BY DEF Counting
    <3>2. /\ IsFiniteSet(Counting(e)')
          /\ Cardinality(Counting(e)') <= Cardinality(Consumers)
      BY <3>1, ConsumersAssumption, FS_Subset
    <3>3. /\ Cardinality(Counting(e)') \in Nat
          /\ Cardinality(Consumers) \in Nat
      BY <3>2, ConsumersAssumption, FS_CardinalityType
    <3> QED
      BY <3>2, <3>3
  <2>3. refs' = [e \in Dests |-> refs'[e]]
    BY <1>1 DEF ConsumerStep, Subscribe, SubscribeIsWritten, Subscribed,
                SubscribeGivesUp, ReplaceStarts, Unsubscribe
  <2> QED
    BY <2>1, <2>2, <2>3 DEF CountInv
<1>3. /\ remote' \in [Dests -> Consumers \cup {NoId}]
      /\ consumer' \in [Consumers -> Standings]
  <2>1. \E where \in Standings :
          consumer' = [consumer EXCEPT ![c] = where]
    BY DEF ConsumerStep, Subscribe, SubscribeIsWritten, Subscribed,
         SubscribeGivesUp, ReplaceStarts, Unsubscribe,
           Move
  <2>2. \E i \in Consumers \cup {NoId} :
          remote' \in {remote, [remote EXCEPT ![d] = i]}
    BY DEF ConsumerStep, Subscribe, SubscribeIsWritten, Subscribed,
         SubscribeGivesUp, ReplaceStarts, Unsubscribe
  <2>3. remote' \in [Dests -> Consumers \cup {NoId}]
    BY <1>1, <2>2
  <2>4. PICK where \in Standings :
               consumer' = [consumer EXCEPT ![c] = where]
    BY <2>1
  <2> QED
    BY <1>1, <2>3, <2>4
<1>4. broker' \in [Consumers -> Nat]
  <2>1. \/ broker' = broker
        \/ \E i : broker' = [broker EXCEPT ![i] = broker[i] + 1]
        \/ \E i : broker' = [broker EXCEPT ![i] = 0]
    BY DEF ConsumerStep, Subscribe, SubscribeIsWritten, Subscribed,
         SubscribeGivesUp, ReplaceStarts, Unsubscribe,
           Transmit
  <2>2. ASSUME NEW i, broker' = [broker EXCEPT ![i] = broker[i] + 1]
        PROVE  broker' \in [Consumers -> Nat]
    <3>1. i \in Consumers => broker[i] + 1 \in Nat
      <4>1. i \in Consumers => broker[i] \in Nat
        BY <1>1
      <4> QED
        BY <4>1
    <3>2. i \notin Consumers => broker' = broker
      BY <1>1, <2>2
    <3> QED
      BY <1>1, <2>2, <3>1, <3>2
  <2>3. ASSUME NEW i, broker' = [broker EXCEPT ![i] = 0]
        PROVE  broker' \in [Consumers -> Nat]
    BY <1>1, <2>3
  <2> QED
    BY <1>1, <2>1, <2>2, <2>3
<1>5. UNCHANGED <<phase, ready, stopping, cancel, failures, todo, wire, stray,
                  wants, stopper>>
  BY ConsumersKeepRunner
<1>6. unsent' \in SUBSET Consumers
  <2>1. unsent' \subseteq unsent \cup {c}
    BY DEF ConsumerStep, Subscribe, SubscribeIsWritten, Subscribed,
           SubscribeGivesUp, ReplaceStarts, Unsubscribe
  <2> QED
    BY <1>1, <2>1 DEF TypeOK
<1> QED
  BY <1>1, <1>2, <1>3, <1>4, <1>5, <1>6 DEF TypeOK

\* A subscription on a ready connection is sent under an id the broker does not
\* know, the end of one clears no other id than its own, and neither happens while
\* a replay is under way, but for the release of what the replay may still send.
LEMMA ConsumersKeepWire ==
  ASSUME IInv, NEW c \in Consumers, ConsumerStep(c)
  PROVE  WireInv' /\ IdInv' /\ RestoredInv'
<1> DEFINE d == wants[c]
<1>1. /\ RunnerInv /\ WireInv /\ IdInv /\ RestoredInv /\ CountInv
      /\ broker \in [Consumers -> Nat]
      /\ unsent \in SUBSET Consumers
      /\ d \in Dests
      /\ remote \in [Dests -> Consumers \cup {NoId}]
      /\ consumer \in [Consumers -> Standings]
  BY DEF IInv, TypeOK
<1>2. UNCHANGED <<phase, ready, todo, wire, wants>>
  BY ConsumersKeepRunner
<1>3. CASE Subscribe(c)
  <2>1. /\ consumer[c] = "idle"
        /\ \E w \in {"queued", "holding"} :
             consumer' = [consumer EXCEPT ![c] = w]
        /\ phase = "new" \/ ready
        /\ UNCHANGED broker
    BY <1>3 DEF Subscribe, Move
  <2>2. /\ broker[c] = 0 /\ c \notin todo /\ c \notin unsent
        /\ \A e \in Dests : remote[e] # c
    BY <1>1, <2>1, NoIdAssumption DEF IdInv
  <2>3. CASE remote[d] = NoId
    <3>1. remote' = [remote EXCEPT ![d] = c]
      BY <1>3, <2>3 DEF Subscribe
    <3>2. IF ready THEN unsent' = unsent \cup {c} ELSE unsent' = unsent
      BY <1>3, <2>3 DEF Subscribe, Sends
    <3>3. WireInv'
      BY <1>1, <1>2, <2>1, <3>2 DEF WireInv, RunnerInv
    <3>4. \A i \in Consumers \ {c} : i \in unsent' <=> i \in unsent
      BY <3>2
    <3>5. IdInv'
      <4>1. \A e \in Dests : remote'[e] # NoId => /\ wants[remote'[e]] = e
                                                 /\ consumer'[remote'[e]] # "idle"
        BY <1>1, <2>1, <3>1 DEF IdInv
      <4>2. \A i \in Consumers : consumer'[i] = "idle" =>
              broker'[i] = 0 /\ i \notin todo /\ i \notin unsent'
        BY <1>1, <2>1, <3>4 DEF IdInv
      <4> QED
        BY <1>2, <4>1, <4>2 DEF IdInv
    <3>6. RestoredInv'
      <4> SUFFICES ASSUME wire = "open", phase = "replaying" \/ ready,
                          NEW a \in Active'
                   PROVE  broker[a] = IF a \in todo \cup unsent' THEN 0 ELSE 1
        BY <1>2, <2>1 DEF RestoredInv
      <4>1. a \in Active \/ a = c
        BY <1>1, <3>1 DEF Active
      <4>2. ready
        BY <1>1, <2>1 DEF RunnerInv
      <4>3. a \in Consumers
        BY DEF Active
      <4>4. CASE a = c
        BY <2>2, <3>2, <4>2, <4>4
      <4>5. CASE a # c
        <5>1. broker[a] = IF a \in todo \cup unsent THEN 0 ELSE 1
          BY <1>1, <4>1, <4>5 DEF RestoredInv
        <5>2. a \in unsent' <=> a \in unsent
          BY <3>4, <4>3, <4>5
        <5> QED
          BY <5>1, <5>2
      <4> QED
        BY <4>4, <4>5
    <3> QED
      BY <3>3, <3>5, <3>6
  <2>4. CASE remote[d] # NoId
    <3>1. UNCHANGED <<remote, unsent>>
      BY <1>3, <2>4 DEF Subscribe, Sends
    <3> QED
      BY <1>1, <1>2, <2>1, <3>1 DEF WireInv, IdInv, RestoredInv, Active
  <2> QED
    BY <2>3, <2>4
<1>4. CASE Subscribed(c) \/ SubscribeGivesUp(c) \/ ReplaceStarts(c)
  <2>1. /\ UNCHANGED <<remote, broker, unsent>>
        /\ \E w \in Standings \ {"idle"} :
             consumer' = [consumer EXCEPT ![c] = w]
    BY <1>4 DEF Subscribed, SubscribeGivesUp, ReplaceStarts, Move
  <2> QED
    BY <1>1, <1>2, <2>1 DEF WireInv, IdInv, RestoredInv, Active
<1>6. CASE SubscribeIsWritten(c)
  <2>1. /\ c \in unsent /\ unsent' = unsent \ {c} /\ remote' = remote
        /\ consumer' = [consumer EXCEPT ![c] = "subscribing"]
        /\ broker' = IF wire = "open" THEN [broker EXCEPT ![c] = @ + 1]
                                      ELSE broker
    BY <1>6 DEF SubscribeIsWritten, Transmit, Move
  <2>2. wire # "none" /\ phase \notin {"handshake", "replaying"}
    BY <1>1, <2>1 DEF WireInv
  <2>3. WireInv'
    BY <1>1, <1>2, <2>1, <2>2 DEF WireInv
  <2>4. IdInv'
    BY <1>1, <1>2, <2>1 DEF IdInv
  <2>5. RestoredInv'
    <3> SUFFICES ASSUME wire = "open", ready, NEW a \in Active
                 PROVE  broker'[a] = IF a \in todo \cup unsent' THEN 0 ELSE 1
      BY <1>2, <2>1, <2>2 DEF RestoredInv, Active
    <3>1. broker[a] = IF a \in todo \cup unsent THEN 0 ELSE 1
      BY <1>1 DEF RestoredInv
    <3>2. todo = {} /\ a \in Consumers
      BY <1>1, <2>2 DEF RunnerInv, Active
    <3>3. broker' = [broker EXCEPT ![c] = broker[c] + 1]
      BY <2>1
    <3>4. CASE a = c
      <4>1. broker[c] = 0
        BY <2>1, <3>1, <3>4
      <4>2. broker'[c] = 1
        <5>1. broker \in [Consumers -> Nat]
          BY <1>1
        <5> HIDE DEF NoFrames
        <5> QED
          BY <3>3, <4>1, <5>1
      <4>3. c \notin todo \cup unsent'
        BY <2>1, <3>2
      <4> QED
        BY <3>4, <4>2, <4>3
    <3>5. CASE a # c
      BY <1>1, <2>1, <3>1, <3>2, <3>3, <3>5
    <3> QED
      BY <3>4, <3>5
  <2> QED
    BY <2>3, <2>4, <2>5
<1>5. CASE Unsubscribe(c)
  <2>1. consumer' = [consumer EXCEPT ![c] = "released"]
    BY <1>5 DEF Unsubscribe, Move
  <2>2. CASE Removed(d)
    <3>1. remote' = [remote EXCEPT ![d] = NoId]
      BY <1>5, <2>2 DEF Unsubscribe
    <3>2. /\ unsent' = unsent
          /\ \/ broker' = broker
             \/ /\ ready /\ wire = "open"
                /\ broker' = [broker EXCEPT ![remote[d]] = 0]
      BY <1>5, <2>2 DEF Unsubscribe, Transmit
    <3>3. WireInv'
      BY <1>1, <1>2, <3>2 DEF WireInv, RunnerInv
    <3>4. IdInv'
      BY <1>1, <1>2, <2>1, <3>1, <3>2 DEF IdInv
    <3>5. RestoredInv'
      <4>1. Active' \subseteq Active /\ remote[d] \notin Active'
        BY <1>1, <3>1, NoIdAssumption DEF Active, IdInv
      <4>2. \A a \in Active' : broker'[a] = broker[a]
        BY <1>1, <3>2, <4>1 DEF Active
      <4> QED
        BY <1>1, <1>2, <3>2, <4>1, <4>2 DEF RestoredInv
    <3> QED
      BY <3>3, <3>4, <3>5
  <2>3. CASE ~Removed(d)
    <3>1. UNCHANGED <<remote, broker, unsent>>
      BY <1>5, <2>3 DEF Unsubscribe
    <3>2. WireInv' /\ RestoredInv'
      BY <1>1, <1>2, <3>1 DEF WireInv, RestoredInv, Active
    <3>3. IdInv'
      BY <1>1, <1>2, <2>1, <3>1 DEF IdInv
    <3> QED
      BY <3>2, <3>3
  <2> QED
    BY <2>2, <2>3
<1> QED
  BY <1>3, <1>4, <1>5, <1>6 DEF ConsumerStep

-----------------------------------------------------------------------------
(***************************************************************************)
(* The theorems.                                                           *)
(***************************************************************************)

\* The inductive invariant holds throughout.
THEOREM Invariance == Spec => []IInv
<1>1. Init => IInv
  BY InitHolds
<1>2. IInv /\ [Next]_vars => IInv'
  <2> SUFFICES ASSUME IInv, [Next]_vars PROVE IInv'
    OBVIOUS
  <2>1. CASE UNCHANGED vars
    <3>1. UNCHANGED <<phase, ready, stopping, cancel, failures, todo, wire,
                      stray, broker, unsent, refs, remote, consumer, wants,
                      stopper>>
      BY <2>1 DEF vars
    <3>2. TypeOK' /\ RunnerInv' /\ WireInv' /\ QuietAfterStop'
      BY <3>1 DEF IInv, TypeOK, RunnerInv, WireInv, QuietAfterStop
    <3>3. IdInv' /\ BudgetInv'
      BY <3>1 DEF IInv, IdInv, BudgetInv, GivesUpAfterBudget
    <3>4. RestoredInv'
      BY <3>1 DEF IInv, RestoredInv, Active
    <3>5. CountInv'
      BY <3>1 DEF IInv, CountInv, Counting
    <3> QED
      BY <3>2, <3>3, <3>4, <3>5 DEF IInv
  <2>2. CASE RunnerStep
    BY <2>2, RunnerKeepsInv
  <2>3. ASSUME NEW c \in Consumers, ConsumerStep(c) PROVE IInv'
    BY <2>3, ConsumersKeepRunner, ConsumersKeepCount, ConsumersKeepTypes,
       ConsumersKeepWire DEF IInv
  <2> QED
    BY <2>1, <2>2, <2>3 DEF Next, RunnerStep, ConsumerStep
<1> QED
  BY <1>1, <1>2, PTL DEF Spec

\* Every variable keeps its type.
THEOREM TypeCorrect == Spec => []TypeOK
<1>1. IInv => TypeOK
  BY DEF IInv
<1> QED
  BY <1>1, Invariance, PTL

\* A ready connection has every registered subscription in force, once, but for
\* those whose own SUBSCRIBE has not been written on it.
THEOREM Restored == Spec => []ReadyMeansRestored
<1>1. IInv => ReadyMeansRestored
  BY DEF IInv, RunnerInv, RestoredInv, ReadyMeansRestored, TypeOK
<1> QED
  BY <1>1, Invariance, PTL

\* The terminal failure is reported after exactly the configured attempts.
THEOREM Budgeted == Spec => []GivesUpAfterBudget
<1>1. IInv => GivesUpAfterBudget
  BY DEF IInv, BudgetInv
<1> QED
  BY <1>1, Invariance, PTL

\* A supervisor that has been told to stop is quiet.
THEOREM Quiet == Spec => []QuietAfterStop
<1>1. IInv => QuietAfterStop
  BY DEF IInv
<1> QED
  BY <1>1, Invariance, PTL

\* A handle that has been given out stands for a registered subscription, as
\* long as it is held: no release of another consumer takes it away.
HoldersAreRegistered ==
  \A c \in Consumers : consumer[c] = "holding" => remote[wants[c]] # NoId

THEOREM Registered == Spec => []HoldersAreRegistered
<1>1. IInv => HoldersAreRegistered
  <2> SUFFICES ASSUME IInv, NEW c \in Consumers, consumer[c] = "holding"
               PROVE  remote[wants[c]] # NoId
    BY DEF HoldersAreRegistered
  <2>1. wants[c] \in Dests /\ c \in Counting(wants[c])
    BY DEF IInv, TypeOK, Counting
  <2>2. Cardinality(Counting(wants[c])) # 0
    BY <2>1, CountingType, FS_EmptySet
  <2> QED
    BY <2>1, <2>2 DEF IInv, CountInv
<1> QED
  BY <1>1, Invariance, PTL

-----------------------------------------------------------------------------
(***************************************************************************)
(* Supervisor implements Runner.                                           *)
(***************************************************************************)

\* The steps that call on_state, told apart from the others by their phases.
LEMMA WhoNotifies ==
  /\ GoReady => phase = "replaying" /\ phase' = "session"
  /\ Closed => phase = "closing" /\ phase' \in {"failed", "backoff"}
BY DEF GoReady, Closed

\* The view of a runner that has not been told to stop, and of one that has.
LEMMA ViewOfRunning ==
  ASSUME phase \in Phases, ~stopping
  PROVE  /\ phase = "new" => RunnerView = "none"
         /\ phase = "session" => RunnerView = "ready"
         /\ phase = "aborting" => RunnerView = "breaking"
         /\ phase = "closing" => RunnerView = "closing"
         /\ phase = "failed" => RunnerView = "failed"
         /\ phase \in {"dialing", "handshake", "replaying", "backoff"} =>
              RunnerView = IF failures = 0 THEN "starting" ELSE "lost"
BY DEF RunnerView

LEMMA ViewOfStopped ==
  ASSUME phase \in Phases, stopping
  PROVE  /\ phase = "new" \/ stopper \in {"done", "raised"} =>
              RunnerView = "none"
         /\ phase # "new" /\ stopper \notin {"done", "raised"} =>
              RunnerView = IF Loud THEN "stopping loudly" ELSE "stopping"
BY DEF RunnerView, StoppedView


\* A step of the runner before any stop().
LEMMA RunningSeen ==
  ASSUME IInv, RunnerStep, ~stopping, ~stopping'
  PROVE  OwnerSees
<1> USE DEF OwnerSees, Owner!Quietly
<1> HIDE DEF RunnerView, Phases
<1>1. /\ phase \in Phases /\ phase' \in Phases /\ RunnerInv /\ TypeOK
  BY RunnerKeepsTypes DEF IInv, TypeOK
<1>2. failures \in Nat
  <2>1. failures \in 0..(Budget + 1)
    BY <1>1 DEF TypeOK
  <2> QED
    BY <2>1
<1>3. /\ phase = "new" => RunnerView = "none"
      /\ phase = "session" => RunnerView = "ready"
      /\ phase = "aborting" => RunnerView = "breaking"
      /\ phase = "closing" => RunnerView = "closing"
      /\ phase = "failed" => RunnerView = "failed"
      /\ phase \in {"dialing", "handshake", "replaying", "backoff"} =>
           RunnerView = IF failures = 0 THEN "starting" ELSE "lost"
  BY <1>1, ViewOfRunning
<1>4. /\ phase' = "new" => RunnerView' = "none"
      /\ phase' = "session" => RunnerView' = "ready"
      /\ phase' = "aborting" => RunnerView' = "breaking"
      /\ phase' = "closing" => RunnerView' = "closing"
      /\ phase' = "failed" => RunnerView' = "failed"
      /\ phase' \in {"dialing", "handshake", "replaying", "backoff"} =>
           RunnerView' = IF failures' = 0 THEN "starting" ELSE "lost"
  BY <1>1 DEF RunnerView, Phases
<1>5. CASE Start
  BY <1>1, <1>3, <1>4, <1>5, WhoNotifies DEF Start, RunnerInv, Owner!Starts
<1>6. CASE DialOpens \/ HandshakeDone \/ BackoffEnds
  BY <1>3, <1>4, <1>6, WhoNotifies
     DEF DialOpens, HandshakeDone, BackoffEnds, FailuresAfterOpen, Continues
<1>7. ASSUME NEW c \in Consumers, ReplayOne(c) PROVE OwnerSees
  BY <1>3, <1>4, <1>7, WhoNotifies DEF ReplayOne
<1>8. CASE GoReady
  BY <1>3, <1>4, <1>8 DEF GoReady, Owner!Notifies, Owner!Connects
<1>9. CASE GroupRaises \/ ConnectFails
  BY <1>3, <1>4, <1>9, WhoNotifies
     DEF GroupRaises, ConnectFails, Fail, Owner!Slips
<1>10. CASE Closed
  <2>1. failures' # 0
    BY <1>2, <1>10 DEF Closed
  <2> QED
    BY <1>3, <1>4, <1>10, <2>1, WhoNotifies
       DEF Owner!Notifies, Owner!Loses, Owner!Fails
<1>11. CASE ChildFails
  BY <1>3, <1>4, <1>11, WhoNotifies DEF ChildFails, Owner!Slips
<1>12. CASE FrameReceived
  BY <1>3, <1>4, <1>12, WhoNotifies DEF FrameReceived
<1>13. CASE WireBreaks \/ StopFinishes \/ StopCancelled \/ StopRaises
  <2>1. UNCHANGED <<phase, failures>>
    BY <1>13 DEF WireBreaks, StopFinishes, StopCancelled, StopRaises
  <2> QED
    BY <1>1, <2>1, WhoNotifies DEF RunnerView
<1>14. ~Stop /\ ~RunnerCancelled
  BY <1>1 DEF Stop, RunnerCancelled, RunnerInv
<1> QED
  BY <1>5, <1>6, <1>7, <1>8, <1>9, <1>10, <1>11, <1>12, <1>13, <1>14,
     RunnerCases

\* stop() itself.
LEMMA StopSeen == ASSUME IInv, Stop PROVE OwnerSees
<1>1. phase \in Phases /\ ~stopping /\ phase' = phase /\ stopping'
  BY DEF IInv, TypeOK, RunnerInv, Stop
<1>2. stopper' = "joining" /\ (cancel' <=> ~RunnerOver)
  BY DEF Stop, RunnerToCancel
<1>3. RunnerView' = IF phase = "new" THEN "none"
                    ELSE IF phase = "aborting" THEN "stopping loudly"
                    ELSE "stopping"
  BY <1>1, <1>2 DEF RunnerView, StoppedView, Loud
<1> HIDE DEF RunnerView, Phases
<1>4. /\ RunnerView = "none" <=> phase = "new"
      /\ RunnerView = "breaking" <=> phase = "aborting"
      /\ RunnerView # "stopping loudly"
  <2>1. \/ phase = "new" /\ RunnerView = "none"
        \/ phase = "aborting" /\ RunnerView = "breaking"
        \/ /\ phase \notin {"new", "aborting"}
           /\ RunnerView \in {"ready", "closing", "failed", "starting", "lost"}
    <3>1. phase \in {"dialing", "handshake", "replaying", "backoff"} =>
            RunnerView \in {"starting", "lost"}
      BY <1>1, ViewOfRunning
    <3>2. /\ phase = "new" => RunnerView = "none"
          /\ phase = "session" => RunnerView = "ready"
          /\ phase = "aborting" => RunnerView = "breaking"
          /\ phase = "closing" => RunnerView = "closing"
          /\ phase = "failed" => RunnerView = "failed"
      BY <1>1, ViewOfRunning
    <3>3. phase # "ended"
      BY <1>1 DEF IInv, RunnerInv
    <3> QED
      BY <1>1, <3>1, <3>2, <3>3 DEF Phases
  <2> QED
    BY <2>1
<1>5. Owner!Stops
  BY <1>3, <1>4 DEF Owner!Stops
<1> QED
  BY <1>1, <1>5, WhoNotifies DEF OwnerSees, Owner!Quietly

\* The steps that are left to a stopped runner, and stop() coming back.
LEMMA StoppedSeen ==
  ASSUME IInv, RunnerStep, stopping, stopping'
  PROVE  OwnerSees
<1> USE DEF OwnerSees, Owner!Quietly
<1> HIDE DEF RunnerView, Phases
<1>1. /\ phase \in Phases /\ phase' \in Phases
      /\ RunnerInv /\ QuietAfterStop
  BY RunnerKeepsTypes DEF IInv, TypeOK
<1>2. /\ phase = "new" \/ stopper \in {"done", "raised"} =>
           RunnerView = "none"
      /\ phase # "new" /\ stopper \notin {"done", "raised"} =>
           RunnerView = IF Loud THEN "stopping loudly" ELSE "stopping"
  BY <1>1, ViewOfStopped
<1>3. /\ phase' = "new" \/ stopper' \in {"done", "raised"} =>
           RunnerView' = "none"
      /\ phase' # "new" /\ stopper' \notin {"done", "raised"} =>
           RunnerView' = IF Loud' THEN "stopping loudly" ELSE "stopping"
  <2>1. RunnerView' = StoppedView'
    BY DEF RunnerView
  <2> QED
    BY <2>1 DEF StoppedView
<1>4. CASE Closed
  <2>1. /\ phase = "closing" /\ ~cancel /\ phase' \in {"failed", "backoff"}
        /\ stopper' = stopper
    BY <1>4 DEF Closed
  <2>2. stopper \notin {"done", "raised"}
    BY <1>1, <2>1 DEF RunnerInv
  <2> QED
    BY <1>2, <1>3, <1>4, <2>1, <2>2 DEF Loud, Owner!Notifies, Owner!SaysSo
<1>5. CASE GroupRaises
  <2>1. /\ phase = "aborting" /\ phase' = "closing" /\ stopper' = stopper
    BY <1>5 DEF GroupRaises, Fail
  <2>2. stopper \notin {"done", "raised"}
    BY <1>1, <2>1 DEF RunnerInv
  <2> QED
    BY <1>2, <1>3, <2>1, <2>2, WhoNotifies DEF Loud, Owner!Hushes
<1>6. CASE RunnerCancelled
  <2>1. cancel /\ phase # "aborting" /\ phase' = "ended" /\ stopper' = stopper
    BY <1>6 DEF RunnerCancelled
  <2>2. phase # "new" /\ stopper \notin {"done", "raised"}
    BY <1>1, <2>1 DEF RunnerInv
  <2> QED
    BY <1>2, <1>3, <2>1, <2>2, WhoNotifies DEF Loud
<1>7. CASE BackoffEnds
  <2>1. phase = "backoff" /\ phase' = "ended" /\ stopper' = stopper
    BY <1>7 DEF BackoffEnds, Continues
  <2>2. stopper \notin {"done", "raised"}
    BY <1>1, <2>1 DEF RunnerInv
  <2> QED
    BY <1>2, <1>3, <2>1, <2>2, WhoNotifies DEF Loud
<1>8. CASE StopCancelled
  <2>1. /\ stopper \in {"joining", "cancelled"} /\ stopper' = "cancelled"
        /\ phase' = phase
    BY <1>8 DEF StopCancelled
  <2>2. Loud' => Loud
    <3>1. phase # "closing" \/ cancel'
      BY <1>8 DEF StopCancelled, RunnerToCancel
    <3> QED
      BY <2>1, <3>1 DEF Loud
  <2> QED
    BY <1>2, <1>3, <2>1, <2>2, WhoNotifies DEF Owner!Hushes
<1>9. CASE StopFinishes \/ StopRaises
  <2>1. /\ stopper \in {"joining", "cancelled"} /\ stopper' \in {"done", "raised"}
        /\ phase' = phase /\ RunnerOver
    BY <1>9 DEF StopFinishes, StopRaises
  <2> QED
    BY <1>2, <1>3, <2>1, WhoNotifies DEF Loud, Owner!Ends
<1>10. CASE WireBreaks
  <2>1. UNCHANGED <<phase, stopper, cancel>>
    BY <1>10 DEF WireBreaks
  <2> QED
    BY <1>2, <1>3, <2>1, WhoNotifies DEF Loud
<1>11. ~Start /\ ~Stop
  BY <1>1 DEF Start, Stop, RunnerInv
<1>12. /\ ~(DialOpens \/ HandshakeDone \/ GoReady \/ ConnectFails)
       /\ ~(FrameReceived \/ ChildFails)
       /\ ~\E c \in Consumers : ReplayOne(c)
  BY <1>1 DEF QuietAfterStop, DialOpens, HandshakeDone, GoReady, ConnectFails,
              FrameReceived, ChildFails, ReplayOne
<1> QED
  BY <1>4, <1>5, <1>6, <1>7, <1>8, <1>9, <1>10, <1>11, <1>12, RunnerCases

\* Steps that leave the runner and stop() alone are not seen.
LEMMA OthersUnseen ==
  ASSUME UNCHANGED <<phase, stopping, cancel, failures, stopper>>
  PROVE  OwnerSees
<1>1. RunnerView' = RunnerView
  BY DEF RunnerView, StoppedView, Loud
<1> QED
  BY <1>1, WhoNotifies DEF OwnerSees

\* The owner of a supervisor sees what Runner says, and is told of it by the
\* steps that Runner calls notifications.
THEOREM Seen == Spec => SeenByOwner
<1>1. Init => Owner!NotStarted
  BY DEF Init, Owner!NotStarted, RunnerView
<1>2. IInv /\ [Next]_vars => [OwnerSees]_vars
  <2> SUFFICES ASSUME IInv, Next PROVE OwnerSees
    OBVIOUS
  <2>1. CASE RunnerStep
    <3>1. stopping /\ ~Stop => stopping'
      BY <2>1, RunnerCases
         DEF Start, DialOpens, HandshakeDone, GoReady, ReplayOne, GroupRaises,
             ConnectFails, Closed, BackoffEnds, RunnerCancelled, FrameReceived,
             ChildFails, WireBreaks, StopFinishes, StopCancelled, StopRaises
    <3>2. ~stopping /\ ~Stop => ~stopping'
      BY <2>1, RunnerCases
         DEF Start, DialOpens, HandshakeDone, GoReady, ReplayOne, GroupRaises,
             ConnectFails, Closed, BackoffEnds, RunnerCancelled, FrameReceived,
             ChildFails, WireBreaks, StopFinishes, StopCancelled, StopRaises
    <3> QED
      BY <2>1, <3>1, <3>2, RunningSeen, StoppedSeen, StopSeen
  <2>2. ASSUME NEW c \in Consumers, ConsumerStep(c) PROVE OwnerSees
    BY <2>2, ConsumersKeepRunner, OthersUnseen
  <2> QED
    BY <2>1, <2>2 DEF Next, RunnerStep, ConsumerStep
<1> QED
  BY <1>1, <1>2, Invariance, PTL DEF Spec, SeenByOwner

\* Supervisor implements Runner.
THEOREM ImplementsRunner == Spec => Owner!Spec
<1>1. [OwnerSees]_vars => [Owner!Notifies \/ Owner!Quietly]_RunnerView
  <2> SUFFICES ASSUME [OwnerSees]_vars
               PROVE  \/ Owner!Notifies \/ Owner!Quietly
                      \/ RunnerView' = RunnerView
    OBVIOUS
  <2>1. CASE OwnerSees
    BY <2>1 DEF OwnerSees
  <2>2. CASE UNCHANGED vars
    BY <2>2 DEF vars, RunnerView, StoppedView, Loud
  <2> QED
    BY <2>1, <2>2
<1> QED
  BY <1>1, Seen, PTL DEF SeenByOwner, Owner!Spec

\* The two flags the owner reads agree with what it sees: a supervisor that is
\* seen ready is ready, and one that is seen at rest has no runner left.
FlagsAgree ==
  /\ ready <=> Owner!Ready
  /\ ~Owner!Running => RunnerOver
  /\ ~stopping /\ RunnerOver => ~Owner!Running

THEOREM Flags == Spec => []FlagsAgree
<1>1. IInv => FlagsAgree
  <2> SUFFICES ASSUME IInv PROVE FlagsAgree
    OBVIOUS
  <2>1. phase \in Phases /\ RunnerInv /\ QuietAfterStop
    BY DEF IInv, TypeOK
  <2> USE DEF FlagsAgree, Owner!Ready, Owner!Running
  <2> HIDE DEF RunnerView
  <2>2. CASE stopping
    BY <2>1, <2>2, ViewOfStopped DEF RunnerInv, QuietAfterStop
  <2>3. CASE ~stopping
    BY <2>1, <2>3, ViewOfRunning DEF RunnerInv
  <2> QED
    BY <2>2, <2>3
<1> QED
  BY <1>1, Invariance, PTL
=============================================================================
