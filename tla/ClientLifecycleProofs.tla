------------------------- MODULE ClientLifecycleProofs -------------------------
(***************************************************************************)
(* Theorems about ClientLifecycle, for any sets of calls.                  *)
(***************************************************************************)
EXTENDS ClientLifecycle, TLAPS

-----------------------------------------------------------------------------
(***************************************************************************)
(* The inductive invariant.                                                *)
(***************************************************************************)

Building == {"authenticating", "choosing"}
Locked == Building \cup {"starting", "rolling back", "stopping"}

\* The connect lock covers a whole connect() or disconnect(), a wait inside
\* connect() included, and one call at a time.
LockInv ==
  /\ \A t \in Tasks : pc[t] \in Locked => lock = t
  /\ \A t \in Tasks : lock = t => pc[t] \in Locked \cup {"asleep"}

\* A runner the client has let go of is being joined by the disconnect() that
\* let go of it, inside the lock; while a connect() authenticates there is no
\* runner, and one that starts its runner has the supervisor.
RunInv ==
  /\ ~supervisor /\ Running =>
       \E t \in Tasks : lock = t /\ pc[t] = "stopping"
  /\ \A t \in Tasks : pc[t] \in Building => ~Running
  /\ \A t \in Tasks : pc[t] = "starting" => supervisor

\* What the runner, or a selection, last said of the connection.
NewsInv ==
  /\ ReadyMeansUsable
  /\ \A t \in Tasks : pc[t] \in Building => ~connected

IInv ==
  /\ TypeOK /\ LockInv /\ RunInv /\ NewsInv
  /\ NoLostWakeup /\ NoDuplicateTransport

USE NobodyAssumption, ConfiguredAssumption
    DEF Tasks, Environments, Building, Locked, Running, SupervisorReady, Asleep,
        Promised!Running, Promised!Ready,
        clientVars, coreVars, runVars

\* The invariant holds before any call.
LEMMA InitHolds == ASSUME Init PROVE IInv
BY DEF Init, IInv, TypeOK, Stages, Promised!Runs, NoRefs, LockInv, RunInv, NewsInv,
       ReadyMeansUsable, NoLostWakeup, NoDuplicateTransport

-----------------------------------------------------------------------------
(***************************************************************************)
(* Every step keeps the types.                                             *)
(***************************************************************************)

\* The steps of connect(), of a wait and of disconnect() keep the types.
LEMMA CallsKeepTypes ==
  ASSUME TypeOK, NEW t \in Tasks,
         \/ Connect(t) \/ ConnectSteps(t) \/ WaitUntilReady(t) \/ WaitSteps(t)
         \/ Disconnect(t) \/ Disconnected(t)
  PROVE  TypeOK'
<1> USE DEF TypeOK, Stages, Go, WaitTurn
<1>1. CASE Connect(t)
  BY <1>1 DEF Connect
<1>2. CASE Authenticated(t) \/ ConnectAborts(t) \/ Started(t)
  BY <1>2 DEF Authenticated, ConnectAborts, Started
<1>3. CASE Chosen(t)
  BY <1>3 DEF Chosen, NoRefs, Promised!Runs
<1>4. CASE StartFails(t)
  BY <1>4 DEF StartFails, Promised!Stops, Promised!Runs
<1>5. CASE RolledBack(t) \/ RollbackCancelled(t)
  BY <1>5 DEF RolledBack, RollbackCancelled
<1>6. CASE WaitUntilReady(t) \/ WaitSteps(t)
  BY <1>6 DEF WaitUntilReady, WaitSteps, WaiterRuns, WaitTimesOut, Release
<1>7. CASE Disconnect(t)
  BY <1>7 DEF Disconnect, Promised!Stops, WakeAll, Promised!Runs
<1>8. CASE Disconnected(t)
  BY <1>8 DEF Disconnected
<1> QED
  BY <1>1, <1>2, <1>3, <1>4, <1>5, <1>6, <1>7, <1>8 DEF ConnectSteps

\* The references of the user topics stay numbers.
LEMMA ReleasedType ==
  ASSUME NEW counts \in [Environments -> Nat], NEW e
  PROVE  Released(counts, e) \in [Environments -> Nat]
<1>1. e \in Environments /\ counts[e] # 0 => counts[e] - 1 \in Nat
  <2>1. e \in Environments => counts[e] \in Nat
    OBVIOUS
  <2> QED
    BY <2>1
<1>2. Released(counts, e)
        \in {counts, [counts EXCEPT ![e] = counts[e] - 1]}
  BY DEF Released
<1>3. e \notin Environments => [counts EXCEPT ![e] = counts[e] - 1] = counts
  OBVIOUS
<1>4. CASE e \in Environments /\ counts[e] # 0
  BY <1>1, <1>2, <1>4
<1>5. CASE e \notin Environments
  BY <1>2, <1>3, <1>5
<1>6. CASE counts[e] = 0
  BY <1>6 DEF Released
<1> QED
  BY <1>4, <1>5, <1>6

\* What a selection does to the state when it swaps the topics or reports.
LEMMA ReportEffect ==
  ASSUME TypeOK, NEW t \in Selectors, NEW where \in {"returned", "raised"},
         NEW before \in BOOLEAN, Report(t, where, before)
  PROVE  /\ \E s \in {where, "crashed"} : Go(t, s)
         /\ \/ connected' = before /\ UNCHANGED woken
            \/ connected' = TRUE /\ run \in {"ready", "breaking"} /\ WakeAll
BY DEF Report, MayReport

LEMMA SwapEffect ==
  ASSUME TypeOK, NEW t \in Selectors, NEW counts \in [Environments -> Nat],
         NEW before \in BOOLEAN, Swap(t, counts, before)
  PROVE  /\ \E s \in {"unsubscribing", "returned", "crashed"} : Go(t, s)
         /\ \/ connected' = before /\ UNCHANGED woken
            \/ connected' = TRUE /\ run \in {"ready", "breaking"} /\ WakeAll
         /\ coreHandle' = wants[t] /\ coreEnv' = wants[t]
         /\ refs' \in [Environments -> Nat]
<1>1. \/ Go(t, "unsubscribing") /\ connected' = before /\ UNCHANGED woken
      \/ Report(t, "returned", before)
  BY DEF Swap
<1>2. coreHandle' = wants[t] /\ coreEnv' = wants[t]
  BY DEF Swap
<1>3. refs' \in {counts, Released(counts, coreHandle)}
  BY DEF Swap
<1> QED
  BY <1>1, <1>2, <1>3, ReportEffect, ReleasedType

\* A step of accounts.select() moves only its own call, and reports the client
\* ready only while the runner is.
LEMMA SelectEffect ==
  ASSUME TypeOK, NEW t \in Selectors, Select(t) \/ SelectSteps(t)
  PROVE  /\ UNCHANGED <<lock, supervisor, run, started, duplicate, error, wants>>
         /\ pc[t] \in {"idle", "listing", "subscribing", "unsubscribing"}
         /\ \E s \in {"listing", "subscribing", "unsubscribing", "returned",
                      "raised", "crashed"} : Go(t, s)
         /\ \/ connected' \in {connected, FALSE} /\ UNCHANGED woken
            \/ connected' = TRUE /\ run \in {"ready", "breaking"} /\ WakeAll
         /\ {selected', coreEnv', coreHandle'} \subseteq Environments \cup {Nobody}
         /\ refs' \in [Environments -> Nat]
<1> USE DEF TypeOK
<1>1. CASE Select(t) \/ SelectFails(t)
  BY <1>1 DEF Select, SelectFails
<1>2. CASE Listed(t)
  <2>1. wants[t] \in Environments
    OBVIOUS
  <2>2. /\ pc[t] = "listing" /\ selected' = wants[t]
        /\ UNCHANGED <<lock, supervisor, run, started, duplicate, error, wants>>
    BY <1>2 DEF Listed
  <2>3. CASE Swap(t, [refs EXCEPT ![wants[t]] = @ + 1], FALSE)
    <3>1. [refs EXCEPT ![wants[t]] = @ + 1] \in [Environments -> Nat]
      <4>1. refs[wants[t]] \in Nat
        BY <2>1
      <4>2. refs[wants[t]] + 1 \in Nat
        BY <4>1
      <4> QED
        BY <2>1, <4>2
    <3> HIDE DEF TypeOK, Tasks, Environments
    <3>2. /\ \E s \in {"unsubscribing", "returned", "crashed"} : Go(t, s)
          /\ \/ connected' = FALSE /\ UNCHANGED woken
             \/ connected' = TRUE /\ run \in {"ready", "breaking"} /\ WakeAll
          /\ coreHandle' = wants[t] /\ coreEnv' = wants[t]
          /\ refs' \in [Environments -> Nat]
      BY <2>3, <3>1, SwapEffect
    <3> QED
      BY <2>1, <2>2, <3>2
  <2>4. CASE ~Swap(t, [refs EXCEPT ![wants[t]] = @ + 1], FALSE)
    <3>1. /\ Go(t, "returned") \/ Go(t, "subscribing")
          /\ connected' \in {connected, FALSE}
          /\ UNCHANGED <<woken, coreEnv, coreHandle>>
          /\ refs' \in {refs, [refs EXCEPT ![wants[t]] = 1]}
      BY <1>2, <2>4 DEF Listed
    <3>2. refs' \in [Environments -> Nat]
      BY <2>1, <3>1
    <3> QED
      BY <2>1, <2>2, <3>1, <3>2
  <2> QED
    BY <2>3, <2>4
<1>3. CASE Subscribed(t)
  <2>1. /\ pc[t] = "subscribing" /\ Swap(t, refs, connected)
        /\ UNCHANGED <<lock, supervisor, run, started, duplicate, error,
                       selected, wants>>
    BY <1>3 DEF Subscribed
  <2>2. /\ refs \in [Environments -> Nat] /\ wants[t] \in Environments
        /\ connected \in BOOLEAN
        /\ selected \in Environments \cup {Nobody}
    OBVIOUS
  <2> HIDE DEF TypeOK, Tasks, Environments
  <2>3. /\ \E s \in {"unsubscribing", "returned", "crashed"} : Go(t, s)
        /\ \/ connected' = connected /\ UNCHANGED woken
           \/ connected' = TRUE /\ run \in {"ready", "breaking"} /\ WakeAll
        /\ coreHandle' = wants[t] /\ coreEnv' = wants[t]
        /\ refs' \in [Environments -> Nat]
    BY <2>1, <2>2, SwapEffect
  <2> QED
    BY <2>1, <2>2, <2>3
<1>4. CASE Unsubscribed(t) \/ SwitchFails(t)
  <2>1. /\ pc[t] \in {"subscribing", "unsubscribing"}
        /\ \E where \in {"returned", "raised"} : Report(t, where, connected)
        /\ UNCHANGED <<lock, supervisor, run, started, duplicate, error,
                       selected, coreEnv, coreHandle, refs, wants>>
    BY <1>4 DEF Unsubscribed, SwitchFails
  <2>2. /\ connected \in BOOLEAN /\ refs \in [Environments -> Nat]
        /\ {selected, coreEnv, coreHandle} \subseteq Environments \cup {Nobody}
    OBVIOUS
  <2> HIDE DEF TypeOK, Tasks, Environments
  <2>3. /\ \E s \in {"returned", "raised", "crashed"} : Go(t, s)
        /\ \/ connected' = connected /\ UNCHANGED woken
           \/ connected' = TRUE /\ run \in {"ready", "breaking"} /\ WakeAll
    BY <2>1, <2>2, ReportEffect
  <2> QED
    BY <2>1, <2>2, <2>3
<1> QED
  BY <1>1, <1>2, <1>3, <1>4 DEF SelectSteps

\* The runner's steps, and what they do to the client.
RunnerStep == RunReady \/ RunSlips \/ RunLost \/ RunFails \/ RunStops

LEMMA RunnerEffect ==
  ASSUME TypeOK, RunnerStep
  PROVE  /\ UNCHANGED <<pc, lock, supervisor, duplicate, selected, coreEnv,
                        coreHandle, refs, wants>>
         /\ run \notin {"none", "failed"}
         /\ \/ run' = "ready" /\ connected' = TRUE /\ error' = FALSE /\ WakeAll
               /\ run \in {"starting", "lost"}
            \/ run' \in {"breaking", "closing", "stopping", "none"}
               /\ UNCHANGED <<connected, error, woken>>
            \/ run' \in {"lost", "failed", "stopping"} /\ connected' = FALSE
               /\ error' \in BOOLEAN /\ WakeAll
         /\ started' \in BOOLEAN /\ (run' = "none" => run = "stopping")
BY DEF TypeOK, RunnerStep, RunReady, RunSlips, RunLost, RunFails, RunStops,
       RunSaysSo, RunEnds, Notify, Promised!Connects, Promised!Slips,
       Promised!Loses, Promised!Fails, Promised!SaysSo, Promised!Hushes,
       Promised!Ends

-----------------------------------------------------------------------------
(***************************************************************************)
(* The lock, the runner and the news.                                      *)
(***************************************************************************)

\* connect() returns at once, joins the wait for the runner, or begins to build
\* a connection, when there is no runner.
LEMMA ConnectEffect ==
  ASSUME TypeOK, NEW t \in Tasks, Connect(t)
  PROVE  /\ lock = Nobody /\ pc[t] = "idle"
         /\ \A u \in Tasks : u # t => pc'[u] = pc[u]
         /\ UNCHANGED <<connected, supervisor, run, started, duplicate>>
         /\ \/ /\ pc'[t] \in {"returned", "raised"} /\ lock' = Nobody
               /\ error' = error /\ woken' \in {woken, woken \ {t}}
            \/ /\ pc'[t] = "asleep" /\ lock' = t /\ ~connected /\ ~error
               /\ error' = error /\ woken' = woken \ {t}
            \/ /\ pc'[t] = "authenticating" /\ lock' = t
               /\ ~connected /\ ~(supervisor /\ Running)
               /\ ~error' /\ woken' = woken
<1>1. pc \in [Tasks -> Stages]
  BY DEF TypeOK
<1> HIDE DEF Tasks, Running
<1>2. /\ lock = Nobody /\ pc[t] = "idle"
      /\ UNCHANGED <<connected, supervisor, run, started, duplicate>>
      /\ \E s : pc' = [pc EXCEPT ![t] = s]
  BY DEF Connect, WaitTurn, Go
<1>3. \A u \in Tasks : u # t => pc'[u] = pc[u]
  BY <1>1, <1>2
<1>4. CASE connected /\ Go(t, "returned") /\ UNCHANGED <<lock, error, woken>>
  BY <1>1, <1>2, <1>3, <1>4 DEF Go
<1>5. CASE /\ ~connected /\ supervisor /\ Running
           /\ WaitTurn(t)
           /\ lock' = IF pc'[t] = "asleep" THEN t ELSE Nobody
           /\ UNCHANGED error
  BY <1>1, <1>2, <1>3, <1>5 DEF WaitTurn, Go
<1>6. CASE /\ ~connected /\ ~(supervisor /\ Running)
           /\ Go(t, "authenticating")
           /\ lock' = t
           /\ error' = FALSE
           /\ UNCHANGED woken
  BY <1>1, <1>2, <1>3, <1>6 DEF Go
<1> QED
  BY <1>4, <1>5, <1>6 DEF Connect

\* A wait outside connect() takes no lock, one inside leaves it with the call.
LEMMA WaitEffect ==
  ASSUME TypeOK, NEW t \in Tasks, WaitUntilReady(t) \/ WaitSteps(t)
  PROVE  /\ pc[t] \in {"idle", "asleep"}
         /\ \A u \in Tasks : u # t => pc'[u] = pc[u]
         /\ UNCHANGED <<connected, error, supervisor, run, started, duplicate>>
         /\ woken' = woken \ {t}
         /\ pc'[t] \in {"returned", "raised", "asleep"}
         /\ pc'[t] = "asleep" => ~connected /\ ~error /\ lock' = lock
         /\ pc'[t] # "asleep" /\ pc[t] = "asleep" /\ lock = t => lock' = Nobody
         /\ lock # t \/ pc[t] = "idle" => lock' = lock
<1>1. pc \in [Tasks -> Stages]
  BY DEF TypeOK
<1> HIDE DEF Tasks
<1>2. /\ pc[t] \in {"idle", "asleep"}
      /\ UNCHANGED <<connected, error, supervisor, run, started, duplicate>>
      /\ woken' = woken \ {t}
      /\ \/ Go(t, "returned") \/ Go(t, "raised")
         \/ Go(t, "asleep") /\ ~connected /\ ~error
      /\ \/ pc[t] = "idle" /\ lock' = lock
         \/ pc[t] = "asleep" /\ Release(t)
  BY DEF WaitUntilReady, WaitSteps, WaiterRuns, WaitTimesOut, WaitTurn
<1>3. /\ \A u \in Tasks : u # t => pc'[u] = pc[u]
      /\ pc'[t] \in {"returned", "raised", "asleep"}
      /\ pc'[t] = "asleep" => ~connected /\ ~error
  BY <1>1, <1>2 DEF Go
<1> QED
  BY <1>2, <1>3 DEF Release

\* disconnect() takes the supervisor away, and joins its runner if it runs.
LEMMA DisconnectEffect ==
  ASSUME TypeOK, NEW t \in Tasks, Disconnect(t)
  PROVE  /\ lock = Nobody /\ pc[t] = "idle"
         /\ \A u \in Tasks : u # t => pc'[u] = pc[u]
         /\ ~connected' /\ ~error' /\ WakeAll /\ ~supervisor'
         /\ duplicate' = duplicate
         /\ \/ pc'[t] = "stopping" /\ lock' = t /\ supervisor
            \/ /\ pc'[t] = "returned" /\ lock' = lock
               /\ IF supervisor THEN run' = "none" ELSE run' = run
<1>1. pc \in [Tasks -> Stages]
  BY DEF TypeOK
<1> HIDE DEF Tasks, Asleep
<1>2. /\ lock = Nobody /\ pc[t] = "idle"
      /\ connected' = FALSE /\ error' = FALSE /\ WakeAll /\ supervisor' = FALSE
      /\ duplicate' = duplicate
      /\ \/ Go(t, "stopping") /\ lock' = t /\ supervisor
         \/ /\ Go(t, "returned") /\ lock' = lock
            /\ IF supervisor THEN run' = "none" ELSE run' = run
  BY DEF Disconnect
<1>3. /\ \A u \in Tasks : u # t => pc'[u] = pc[u]
      /\ \/ pc'[t] = "stopping" /\ lock' = t /\ supervisor
         \/ /\ pc'[t] = "returned" /\ lock' = lock
            /\ IF supervisor THEN run' = "none" ELSE run' = run
  BY <1>1, <1>2 DEF Go
<1> QED
  BY <1>2, <1>3

\* The steps of the calls keep the lock with the call that is inside.
LEMMA CallsKeepLock ==
  ASSUME TypeOK, LockInv, NEW t \in Tasks,
         \/ Connect(t) \/ ConnectSteps(t) \/ WaitUntilReady(t) \/ WaitSteps(t)
         \/ Disconnect(t) \/ Disconnected(t)
  PROVE  LockInv'
<1> USE DEF LockInv, Go
<1>1. pc \in [Tasks -> Stages] /\ Nobody \notin Tasks
  BY DEF TypeOK
<1> HIDE DEF Tasks
<1>2. CASE Connect(t)
  <2>1. /\ lock = Nobody
        /\ \A u \in Tasks : u # t => pc'[u] = pc[u]
        /\ \/ pc'[t] \in {"returned", "raised"} /\ lock' = Nobody
           \/ pc'[t] \in {"asleep", "authenticating"} /\ lock' = t
    BY <1>2, ConnectEffect
  <2> QED
    BY <1>1, <2>1
<1>3. CASE Authenticated(t) \/ Chosen(t) \/ StartFails(t)
  BY <1>1, <1>3 DEF Authenticated, Chosen, StartFails
<1>4. CASE ConnectAborts(t) \/ Started(t) \/ RolledBack(t)
               \/ RollbackCancelled(t) \/ Disconnected(t)
  BY <1>1, <1>4 DEF ConnectAborts, Started, RolledBack, RollbackCancelled,
                    Disconnected
<1>5. CASE WaitUntilReady(t) \/ WaitSteps(t)
  BY <1>1, <1>5, WaitEffect
<1>6. CASE Disconnect(t)
  BY <1>1, <1>6, DisconnectEffect
<1> QED
  BY <1>2, <1>3, <1>4, <1>5, <1>6 DEF ConnectSteps

\* They let go of a runner only to join it, and build a supervisor only when no
\* other runs; a connect() authenticates only while the client is not ready.
LEMMA CallsKeepRun ==
  ASSUME IInv, NEW t \in Tasks,
         \/ Connect(t) \/ ConnectSteps(t) \/ WaitUntilReady(t) \/ WaitSteps(t)
         \/ Disconnect(t) \/ Disconnected(t)
  PROVE  RunInv' /\ NewsInv' /\ NoDuplicateTransport'
<1> DEFINE Inv == RunInv /\ NewsInv /\ NoDuplicateTransport
<1> USE DEF RunInv, NewsInv, ReadyMeansUsable, NoDuplicateTransport, Go
<1>1. /\ pc \in [Tasks -> Stages] /\ Nobody \notin Tasks
      /\ Inv /\ LockInv /\ run \in Promised!Runs
  BY DEF IInv, TypeOK
<1> HIDE DEF Tasks
<1>2. CASE Connect(t)
  <2> HIDE DEF RunInv, NewsInv, ReadyMeansUsable, NoDuplicateTransport, Running
  <2>1. /\ lock = Nobody
        /\ \A u \in Tasks : u # t => pc'[u] = pc[u]
        /\ UNCHANGED <<connected, supervisor, run, duplicate>>
        /\ \/ pc'[t] \in {"returned", "raised", "asleep"}
           \/ /\ pc'[t] = "authenticating"
              /\ ~connected /\ ~(supervisor /\ Running)
    BY <1>2, ConnectEffect DEF IInv
  <2>2. \A u \in Tasks : pc[u] \notin Locked
    BY <1>1, <2>1 DEF LockInv
  <2>3. ~supervisor => ~Running
    BY <1>1, <2>1 DEF RunInv
  <2>4. Running' = Running
    BY <2>1 DEF Running
  <2>5. RunInv'
    BY <1>1, <2>1, <2>2, <2>3, <2>4 DEF RunInv
  <2>6. NewsInv'
    BY <1>1, <2>1, <2>2 DEF NewsInv, ReadyMeansUsable
  <2>7. NoDuplicateTransport'
    BY <1>1, <2>1 DEF NoDuplicateTransport
  <2> QED
    BY <2>5, <2>6, <2>7
<1>3. CASE Authenticated(t) \/ ConnectAborts(t) \/ Started(t)
  <2>1. /\ UNCHANGED <<connected, supervisor, run, duplicate>>
        /\ pc[t] \in {"authenticating", "choosing", "starting"}
        /\ \/ Go(t, "choosing") /\ pc[t] = "authenticating" /\ lock' = lock
           \/ Go(t, "raised") \/ Go(t, "returned")
    BY <1>3 DEF Authenticated, ConnectAborts, Started
  <2>2. \A u \in Tasks : u # t => pc'[u] = pc[u]
    BY <1>1, <2>1
  <2>3. pc'[t] \in Building => pc[t] \in Building
    BY <1>1, <2>1
  <2>4. \A u \in Tasks : pc[u] # "stopping"
    BY <1>1, <2>1 DEF LockInv
  <2>5. ~(~supervisor /\ Running)
    BY <1>1, <2>4
  <2> QED
    BY <1>1, <2>1, <2>2, <2>3, <2>5
<1>4. CASE Chosen(t)
  BY <1>1, <1>4 DEF Chosen, LockInv
<1>5. CASE StartFails(t)
  <2>1. /\ pc[t] = "starting" /\ pc'[t] = "rolling back"
        /\ \A u \in Tasks : u # t => pc'[u] = pc[u]
        /\ UNCHANGED <<lock, supervisor, duplicate, connected>>
        /\ run' \in {"none", "stopping", "stopping loudly"}
    BY <1>1, <1>5 DEF StartFails, Promised!Stops
  <2>2. supervisor /\ \A u \in Tasks : pc[u] \in Locked => u = t
    BY <1>1, <2>1 DEF LockInv
  <2> QED
    BY <1>1, <2>1, <2>2
<1>6. CASE RolledBack(t) \/ RollbackCancelled(t)
  <2>1. /\ pc[t] = "rolling back" /\ pc'[t] = "raised"
        /\ \A u \in Tasks : u # t => pc'[u] = pc[u]
        /\ run = "none" /\ UNCHANGED <<run, duplicate, connected>>
    BY <1>1, <1>6 DEF RolledBack, RollbackCancelled
  <2>2. \A u \in Tasks : pc[u] \in Locked => u = t
    BY <1>1, <2>1 DEF LockInv
  <2> QED
    BY <1>1, <2>1, <2>2
<1>7. CASE WaitUntilReady(t) \/ WaitSteps(t)
  BY <1>1, <1>7, WaitEffect DEF IInv, LockInv
<1>8. CASE Disconnect(t)
  BY <1>1, <1>8, DisconnectEffect DEF IInv, LockInv
<1>9. CASE Disconnected(t)
  BY <1>1, <1>9 DEF Disconnected, LockInv
<1> QED
  BY <1>2, <1>3, <1>4, <1>5, <1>6, <1>7, <1>8, <1>9 DEF ConnectSteps

\* They put nobody to sleep who has missed the news.
LEMMA CallsKeepWakeup ==
  ASSUME TypeOK, NoLostWakeup, NEW t \in Tasks,
         \/ Connect(t) \/ ConnectSteps(t) \/ WaitUntilReady(t) \/ WaitSteps(t)
         \/ Disconnect(t) \/ Disconnected(t)
  PROVE  NoLostWakeup'
<1> USE DEF NoLostWakeup, Go
<1>1. pc \in [Tasks -> Stages]
  BY DEF TypeOK
<1> HIDE DEF Tasks
<1>2. CASE Connect(t)
  BY <1>1, <1>2, ConnectEffect
<1>3. CASE ConnectSteps(t) \/ Disconnected(t)
  BY <1>1, <1>3 DEF ConnectSteps, Authenticated, ConnectAborts, Chosen, Started,
                    StartFails, RolledBack, RollbackCancelled, Disconnected
<1>4. CASE WaitUntilReady(t) \/ WaitSteps(t)
  BY <1>1, <1>4, WaitEffect
<1>5. CASE Disconnect(t)
  BY <1>1, <1>5, DisconnectEffect DEF WakeAll
<1> QED
  BY <1>2, <1>3, <1>4, <1>5

\* Selections need no lock and disturb nothing of this.
LEMMA SelectKeepsInv ==
  ASSUME IInv, NEW t \in Selectors, Select(t) \/ SelectSteps(t)
  PROVE  IInv'
<1>1. /\ TypeOK /\ LockInv /\ RunInv /\ NewsInv
      /\ NoLostWakeup /\ NoDuplicateTransport
  BY DEF IInv
<1>2. /\ UNCHANGED <<lock, supervisor, run, started, duplicate, error, wants>>
      /\ pc[t] \in {"idle", "listing", "subscribing", "unsubscribing"}
      /\ \E s \in {"listing", "subscribing", "unsubscribing", "returned",
                   "raised", "crashed"} : Go(t, s)
      /\ \/ connected' \in {connected, FALSE} /\ UNCHANGED woken
         \/ connected' = TRUE /\ run \in {"ready", "breaking"} /\ WakeAll
      /\ {selected', coreEnv', coreHandle'} \subseteq Environments \cup {Nobody}
      /\ refs' \in [Environments -> Nat]
  BY <1>1, SelectEffect
<1>3. /\ pc \in [Tasks -> Stages] /\ t \in Tasks
      /\ lock # t
  BY <1>1, <1>2 DEF TypeOK, LockInv
<1>4. TypeOK'
  <2>1. pc' \in [Tasks -> Stages]
    BY <1>2, <1>3 DEF Go, Stages
  <2>2. woken' \in SUBSET Tasks
    BY <1>1, <1>2 DEF TypeOK, WakeAll
  <2>3. {supervisor', started', duplicate', connected', error'} \subseteq BOOLEAN
    BY <1>1, <1>2 DEF TypeOK
  <2> QED
    BY <1>1, <1>2, <2>1, <2>2, <2>3 DEF TypeOK
<1> HIDE DEF Tasks
<1>5. \A u \in Tasks : u # t => pc'[u] = pc[u]
  BY <1>2, <1>3 DEF Go
<1>6. pc'[t] \notin Locked \cup {"asleep"}
  BY <1>2, <1>3 DEF Go
<1>7. LockInv'
  BY <1>1, <1>2, <1>3, <1>5, <1>6 DEF LockInv
<1>8. RunInv' /\ NoDuplicateTransport'
  BY <1>1, <1>2, <1>3, <1>5, <1>6 DEF RunInv, NoDuplicateTransport
<1>9. NewsInv'
  <2>1. connected' => connected \/ run \in {"ready", "breaking"}
    BY <1>2
  <2>2. run \in {"ready", "breaking"} => \A u \in Tasks : pc[u] \notin Building
    BY <1>1 DEF RunInv
  <2>3. ReadyMeansUsable'
    BY <1>1, <1>2, <2>1 DEF NewsInv, ReadyMeansUsable
  <2>4. \A u \in Tasks : pc'[u] \in Building => ~connected'
    BY <1>1, <1>3, <1>5, <1>6, <2>1, <2>2 DEF NewsInv
  <2> QED
    BY <2>3, <2>4 DEF NewsInv
<1>10. NoLostWakeup'
  BY <1>1, <1>2, <1>5, <1>6 DEF NoLostWakeup, WakeAll
<1> QED
  BY <1>4, <1>7, <1>8, <1>9, <1>10 DEF IInv

\* Nor does the runner, which runs only outside of a building connect().
LEMMA RunnerKeepsInv == ASSUME IInv, RunnerStep PROVE IInv'
<1>1. /\ TypeOK /\ LockInv /\ RunInv /\ NewsInv
      /\ NoLostWakeup /\ NoDuplicateTransport
  BY DEF IInv
<1>2. /\ UNCHANGED <<pc, lock, supervisor, duplicate, selected, coreEnv,
                     coreHandle, refs, wants>>
      /\ run \notin {"none", "failed"}
      /\ \/ run' = "ready" /\ connected' = TRUE /\ error' = FALSE /\ WakeAll
            /\ run \in {"starting", "lost"}
         \/ run' \in {"breaking", "closing", "stopping", "none"}
            /\ UNCHANGED <<connected, error, woken>>
         \/ run' \in {"lost", "failed", "stopping"} /\ connected' = FALSE
            /\ error' \in BOOLEAN /\ WakeAll
      /\ started' \in BOOLEAN /\ (run' = "none" => run = "stopping")
  BY <1>1, RunnerEffect
<1>3. TypeOK'
  BY <1>1, <1>2 DEF TypeOK, Promised!Runs, WakeAll
<1> HIDE DEF Tasks
<1>4. LockInv' /\ NoDuplicateTransport'
  BY <1>1, <1>2 DEF LockInv, NoDuplicateTransport
<1>5. RunInv' /\ NewsInv'
  BY <1>1, <1>2 DEF RunInv, NewsInv, ReadyMeansUsable
<1>6. NoLostWakeup'
  BY <1>1, <1>2 DEF NoLostWakeup, WakeAll
<1> QED
  BY <1>3, <1>4, <1>5, <1>6 DEF IInv

-----------------------------------------------------------------------------
(***************************************************************************)
(* The theorems.                                                           *)
(***************************************************************************)

\* The inductive invariant holds throughout.
THEOREM Invariance == Spec => []IInv
<1>1. Init => IInv
  BY InitHolds
<1>2. IInv /\ [Next]_vars => IInv'
  <2> SUFFICES ASSUME IInv, [Next]_vars PROVE IInv'
    OBVIOUS
  <2>1. CASE UNCHANGED vars
    BY <2>1 DEF vars, IInv, TypeOK, LockInv, RunInv, NewsInv, ReadyMeansUsable,
                NoLostWakeup, NoDuplicateTransport
  <2>2. ASSUME NEW t \in Tasks,
               \/ Connect(t) \/ ConnectSteps(t) \/ WaitUntilReady(t)
               \/ WaitSteps(t) \/ Disconnect(t) \/ Disconnected(t)
        PROVE  IInv'
    BY <2>2, CallsKeepTypes, CallsKeepLock, CallsKeepRun, CallsKeepWakeup
       DEF IInv
  <2>3. ASSUME NEW t \in Selectors, Select(t) \/ SelectSteps(t) PROVE IInv'
    BY <2>3, SelectKeepsInv
  <2>4. CASE RunnerStep
    BY <2>4, RunnerKeepsInv
  <2> QED
    BY <2>1, <2>2, <2>3, <2>4 DEF Next, RunnerStep
<1> QED
  BY <1>1, <1>2, PTL DEF Spec

\* Every variable keeps its type.
THEOREM TypeCorrect == Spec => []TypeOK
<1>1. IInv => TypeOK
  BY DEF IInv
<1> QED
  BY <1>1, Invariance, PTL

\* No waiter sleeps through the news it waits for.
THEOREM Woken == Spec => []NoLostWakeup
<1>1. IInv => NoLostWakeup
  BY DEF IInv
<1> QED
  BY <1>1, Invariance, PTL

\* No two runners live at the same time.
THEOREM OneTransport == Spec => []NoDuplicateTransport
<1>1. IInv => NoDuplicateTransport
  BY DEF IInv
<1> QED
  BY <1>1, Invariance, PTL

\* A client that says it is ready has no runner that dials or has given up.
THEOREM Usable == Spec => []ReadyMeansUsable
<1>1. IInv => ReadyMeansUsable
  BY DEF IInv, NewsInv
<1> QED
  BY <1>1, Invariance, PTL

\* A runner the client has let go of is waited for: no connection is left
\* behind by connect() and disconnect(), however they overlap.
NoStrayRunner ==
  ~supervisor /\ Running => \E t \in Tasks : lock = t /\ pc[t] = "stopping"

THEOREM NobodyStrays == Spec => []NoStrayRunner
<1>1. IInv => NoStrayRunner
  BY DEF IInv, RunInv, NoStrayRunner
<1> QED
  BY <1>1, Invariance, PTL
=============================================================================
