----------------------------- MODULE AccountsProofs -----------------------------
(***************************************************************************)
(* Proofs about Accounts and the EventDispatcher under it, for any         *)
(* handlers, accounts, calls of select() and number of bookings: types,    *)
(* whose balance is shown, what the handlers were told, and what close()   *)
(* leaves behind.                                                          *)
(***************************************************************************)
EXTENDS Accounts, SequenceTheorems, TLAPS

\* Every balance on its way to the client is one its account has had.
BooksInv ==
  /\ \A a \in AccountIds : balance[a] \in past[a]
  /\ \A k \in DOMAIN inbox : inbox[k].balance \in past[inbox[k].id]
  /\ \A c \in Selectors, a \in AccountIds : pages[c][a] \in past[a]

\* Tasks that have not started are behind those that have; what close() found
\* it waits for; a task is cancelled by a cancelled close() only.
TasksInv ==
  /\ \A i, j \in DOMAIN tasks :
       i < j /\ tasks[i].stage = "created" => tasks[j].stage = "created"
  /\ \A i \in DOMAIN tasks : tasks[i].found => tasks[i].awaited
  /\ \A i \in DOMAIN tasks :
       tasks[i].cancel => closing.stage \in {"cancelling", "cancelled"}

\* The event a handler is to be called with last.
Now == [id |-> selected.id, balance |-> selected.balance]

\* Handler h has been called with it and its tasks have all had their turn, or
\* a task that will call h with it is waiting, with no other event behind it.
Told(ts, last, now, h) ==
  /\ \A i \in DOMAIN ts : ts[i].handler = h => ts[i].stage = "running"
  /\ last[h] = now
Due(ts, now, h) ==
  \E i \in DOMAIN ts :
    /\ ts[i].handler = h /\ ts[i].stage = "created"
    /\ \A j \in DOMAIN ts : i <= j /\ ts[j].handler = h => ts[j].event = now

NewsInv ==
  /\ selected.by \in {"event", "unnamed"}
  /\ closing.stage \notin {"cancelling", "cancelled"}
  => \A h \in reached : Told(tasks, called, Now, h) \/ Due(tasks, Now, h)

IInv ==
  TypeOK /\ BooksInv /\ BalanceIsOwn /\ TasksInv /\ CloseJoinsAll /\ NewsInv

-----------------------------------------------------------------------------
(***************************************************************************)
(* Sequences, and the tasks in them.                                       *)
(***************************************************************************)

TaskSet == [handler : Handlers, event : BalanceEvents,
            stage : {"created", "running"}, cancel : BOOLEAN,
            found : BOOLEAN, awaited : BOOLEAN, closes : BOOLEAN]

\* What is left of a sequence without its i-th element.
LEMMA RemoveAtFacts ==
  ASSUME NEW S, NEW s \in Seq(S), NEW i \in DOMAIN s
  PROVE  /\ RemoveAt(s, i) \in Seq(S)
         /\ Len(RemoveAt(s, i)) = Len(s) - 1
         /\ \A j \in 1..(Len(s) - 1) :
              RemoveAt(s, i)[j] = IF j < i THEN s[j] ELSE s[j + 1]
<1> DEFINE front == SubSeq(s, 1, i - 1)
<1> DEFINE back == SubSeq(s, i + 1, Len(s))
<1>1. Len(s) \in Nat /\ DOMAIN s = 1..Len(s) /\ \A j \in 1..Len(s) : s[j] \in S
  BY LenProperties, ElementOfSeq
<1>2. /\ front \in Seq(S) /\ Len(front) = i - 1
      /\ \A j \in 1..(i - 1) : front[j] = s[j]
  <2>1. \A j \in 1..(i - 1) : s[j] \in S
    BY <1>1
  <2>2. /\ SubSeq(s, 1, i - 1) \in Seq(S)
        /\ Len(SubSeq(s, 1, i - 1)) = IF 1 <= i - 1 THEN (i - 1) - 1 + 1 ELSE 0
        /\ \A j \in 1..((i - 1) - 1 + 1) : SubSeq(s, 1, i - 1)[j] = s[1 + j - 1]
    BY <1>1, <2>1, SubSeqProperties
  <2> QED BY <1>1, <2>2
<1>3. /\ back \in Seq(S) /\ Len(back) = Len(s) - i
      /\ \A j \in 1..(Len(s) - i) : back[j] = s[i + j]
  <2>1. \A j \in (i + 1)..Len(s) : s[j] \in S
    BY <1>1
  <2>2. /\ SubSeq(s, i + 1, Len(s)) \in Seq(S)
        /\ Len(SubSeq(s, i + 1, Len(s))) =
             IF i + 1 <= Len(s) THEN Len(s) - (i + 1) + 1 ELSE 0
        /\ \A j \in 1..(Len(s) - (i + 1) + 1) :
             SubSeq(s, i + 1, Len(s))[j] = s[(i + 1) + j - 1]
    <3> DEFINE m == i + 1
    <3> DEFINE n == Len(s)
    <3>1. m \in Int /\ n \in Int /\ \A j \in m..n : s[j] \in S
      BY <1>1, <2>1
    <3> HIDE DEF m, n
    <3>2. /\ SubSeq(s, m, n) \in Seq(S)
          /\ Len(SubSeq(s, m, n)) = IF m <= n THEN n - m + 1 ELSE 0
          /\ \A j \in 1..(n - m + 1) : SubSeq(s, m, n)[j] = s[m + j - 1]
      BY <3>1, SubSeqProperties
    <3>3. Len(s) - (i + 1) + 1 = Len(s) - i /\ i \in 1..Len(s)
      BY <1>1
    <3> QED BY <1>1, <3>2, <3>3 DEF m, n
  <2>3. i \in 1..Len(s) /\ Len(s) \in Nat /\ Len(s) - (i + 1) + 1 = Len(s) - i
    BY <1>1
  <2>4. Len(back) = Len(s) - i
    BY <2>2, <2>3
  <2>5. ASSUME NEW j \in 1..(Len(s) - i)
        PROVE  back[j] = s[i + j]
    <3>1. j \in 1..(Len(s) - (i + 1) + 1) /\ (i + 1) + j - 1 = i + j
      BY <2>3
    <3>2. back[j] = s[(i + 1) + j - 1]
      BY <2>2, <3>1
    <3> QED BY <3>1, <3>2
  <2> QED BY <2>2, <2>4, <2>5
<1> HIDE DEF front, back
<1>4. /\ front \o back \in Seq(S)
      /\ Len(front \o back) = Len(front) + Len(back)
      /\ \A j \in 1..(Len(front) + Len(back)) :
           (front \o back)[j] =
             IF j <= Len(front) THEN front[j] ELSE back[j - Len(front)]
  BY <1>2, <1>3, ConcatProperties
<1>5. RemoveAt(s, i) = front \o back
  BY DEF RemoveAt, front, back
<1>6. ASSUME NEW j \in 1..(Len(s) - 1)
      PROVE  (front \o back)[j] = IF j < i THEN s[j] ELSE s[j + 1]
  <2>1. CASE j < i
    BY <1>1, <1>2, <1>3, <1>4, <2>1
  <2>2. CASE ~(j < i)
    <3>1. (front \o back)[j] = back[j - (i - 1)]
      BY <1>1, <1>2, <1>3, <1>4, <2>2
    <3>2. j - (i - 1) \in 1..(Len(s) - i) /\ i + (j - (i - 1)) = j + 1
      BY <1>1, <2>2
    <3> QED BY <1>1, <1>3, <2>2, <3>1, <3>2
  <2> QED BY <2>1, <2>2
<1>7. i \in Nat /\ Len(front) + Len(back) = Len(s) - 1
  BY <1>1, <1>2, <1>3
<1> QED BY <1>4, <1>5, <1>6, <1>7

\* Tasks are numbered from 1.
LEMMA TasksAre ==
  ASSUME TypeOK
  PROVE  /\ tasks \in Seq(TaskSet) /\ Len(tasks) \in Nat
         /\ DOMAIN tasks = 1..Len(tasks)
         /\ \A i \in DOMAIN tasks : tasks[i] \in TaskSet
<1>1. tasks \in Seq(TaskSet)
  BY DEF TypeOK, TaskSet
<1> QED BY <1>1, LenProperties, ElementOfSeq

\* What stands behind a place still does when another has been cleared.
LEMMA MovesUp ==
  ASSUME NEW i \in Nat, NEW n \in Nat, NEW j \in Nat, n # i,
         (IF n < i THEN n ELSE n - 1) <= j
  PROVE  n <= (IF j < i THEN j ELSE j + 1) /\ (IF j < i THEN j ELSE j + 1) \in Nat
OBVIOUS

\* A task ends: those in front of it keep their place, those behind it move up.
LEMMA EndFacts ==
  ASSUME TypeOK, NEW i \in DOMAIN tasks, tasks' = RemoveAt(tasks, i)
  PROVE  /\ tasks' \in Seq(TaskSet)
         /\ \A j \in DOMAIN tasks' :
              LET k == IF j < i THEN j ELSE j + 1
              IN  k \in DOMAIN tasks /\ k # i /\ tasks'[j] = tasks[k]
         /\ \A k \in DOMAIN tasks :
              k # i => LET j == IF k < i THEN k ELSE k - 1
                       IN  j \in DOMAIN tasks' /\ tasks'[j] = tasks[k]
         /\ DOMAIN tasks' \subseteq Nat /\ DOMAIN tasks \subseteq Nat
<1>1. tasks \in Seq(TaskSet) /\ Len(tasks) \in Nat /\ DOMAIN tasks = 1..Len(tasks)
  BY TasksAre
<1>2. /\ tasks' \in Seq(TaskSet) /\ Len(tasks') = Len(tasks) - 1
      /\ \A j \in 1..(Len(tasks) - 1) :
           tasks'[j] = IF j < i THEN tasks[j] ELSE tasks[j + 1]
  BY <1>1, RemoveAtFacts
<1>3. DOMAIN tasks' = 1..(Len(tasks) - 1)
  BY <1>2, LenProperties
<1>4. ASSUME NEW j \in DOMAIN tasks'
      PROVE  LET k == IF j < i THEN j ELSE j + 1
             IN  k \in DOMAIN tasks /\ k # i /\ tasks'[j] = tasks[k]
  BY <1>1, <1>2, <1>3
<1>5. ASSUME NEW k \in DOMAIN tasks, k # i
      PROVE  LET j == IF k < i THEN k ELSE k - 1
             IN  j \in DOMAIN tasks' /\ tasks'[j] = tasks[k]
  BY <1>1, <1>2, <1>3, <1>5
<1> QED BY <1>1, <1>2, <1>3, <1>4, <1>5

-----------------------------------------------------------------------------
(***************************************************************************)
(* The dispatcher keeps the invariant.                                     *)
(***************************************************************************)

\* What only the dispatcher's tasks can change.
LEMMA DispatcherOnly ==
  ASSUME IInv, UNCHANGED service,
         handlers' \in Seq(Handlers), added' \subseteq Handlers,
         tasks' \in Seq(TaskSet), called' \in [Handlers -> BalanceEvents \cup {NoEvent}],
         closing' \in [stage : {"open", "joining", "closed", "cancelling",
                                "cancelled"}, nested : BOOLEAN],
         TasksInv', CloseJoinsAll', NewsInv'
  PROVE  IInv'
<1>1. TypeOK'
  BY DEF IInv, TypeOK, service, TaskSet
<1>2. BooksInv' /\ BalanceIsOwn'
  BY DEF IInv, BooksInv, BalanceIsOwn, service
<1> QED BY <1>1, <1>2 DEF IInv

\* A task ends, called or not.
Ends(i) ==
  /\ tasks' = RemoveAt(tasks, i)
  /\ \/ tasks[i].stage = "running" /\ called' = called
     \/ MayStart(i) /\ tasks[i].cancel /\ called' = called
     \/ /\ MayStart(i)
        /\ called' = [called EXCEPT ![tasks[i].handler] = tasks[i].event]
  /\ UNCHANGED <<handlers, added, closing, service>>

LEMMA EndKeeps ==
  ASSUME IInv, NEW i \in DOMAIN tasks, Ends(i)
  PROVE  IInv'
<1>1. /\ tasks' \in Seq(TaskSet)
      /\ \A j \in DOMAIN tasks' :
           LET k == IF j < i THEN j ELSE j + 1
           IN  k \in DOMAIN tasks /\ k # i /\ tasks'[j] = tasks[k]
      /\ \A k \in DOMAIN tasks :
           k # i => LET j == IF k < i THEN k ELSE k - 1
                    IN  j \in DOMAIN tasks' /\ tasks'[j] = tasks[k]
      /\ DOMAIN tasks' \subseteq Nat /\ DOMAIN tasks \subseteq Nat
  BY EndFacts DEF IInv, Ends
<1>2. tasks[i] \in TaskSet /\ DOMAIN tasks = 1..Len(tasks) /\ Len(tasks) \in Nat
  BY TasksAre DEF IInv
<1>3. /\ called \in [Handlers -> BalanceEvents \cup {NoEvent}]
      /\ called' \in [Handlers -> BalanceEvents \cup {NoEvent}]
  BY <1>2 DEF IInv, TypeOK, TaskSet, Ends
<1>4. \A j \in DOMAIN tasks' : \E k \in DOMAIN tasks : tasks'[j] = tasks[k]
  BY <1>1
<1>9. /\ selected' = selected /\ reached' = reached /\ closing' = closing
      /\ Now' = Now
  BY DEF service, Now, Ends
<1>10. i \in Nat /\ (\A k \in DOMAIN tasks : k \in Nat)
       /\ (\A j \in DOMAIN tasks' : j \in Nat)
  BY <1>1
<1>5. TasksInv'
  <2>1. \A j, k \in DOMAIN tasks' :
          j < k /\ tasks'[j].stage = "created" => tasks'[k].stage = "created"
    <3> SUFFICES ASSUME NEW j \in DOMAIN tasks', NEW k \in DOMAIN tasks', j < k,
                        tasks'[j].stage = "created"
                 PROVE  tasks'[k].stage = "created"
      OBVIOUS
    <3>1. PICK m \in DOMAIN tasks, n \in DOMAIN tasks :
            m < n /\ tasks'[j] = tasks[m] /\ tasks'[k] = tasks[n]
      BY <1>1
    <3> QED BY <3>1 DEF IInv, TasksInv
  <2>2. \A j \in DOMAIN tasks' :
          /\ tasks'[j].found => tasks'[j].awaited
          /\ tasks'[j].cancel => closing'.stage \in {"cancelling", "cancelled"}
    BY <1>4, <1>9 DEF IInv, TasksInv
  <2> QED BY <2>1, <2>2 DEF TasksInv
<1>6. CloseJoinsAll'
  BY <1>4, <1>9 DEF IInv, CloseJoinsAll
<1>7. NewsInv'
  <2> SUFFICES ASSUME selected.by \in {"event", "unnamed"},
                      closing.stage \notin {"cancelling", "cancelled"},
                      NEW h \in reached
               PROVE  Told(tasks', called', Now, h) \/ Due(tasks', Now, h)
    BY <1>9 DEF NewsInv, Told, Due
  <2>1. Told(tasks, called, Now, h) \/ Due(tasks, Now, h)
    BY DEF IInv, NewsInv
  <2>2. h \in Handlers
    BY DEF IInv, TypeOK
  <2>3. ~tasks[i].cancel
    BY DEF IInv, TasksInv
  <2>4. CASE Told(tasks, called, Now, h)
    <3>1. \A j \in DOMAIN tasks' :
            tasks'[j].handler = h => tasks'[j].stage = "running"
      BY <1>4, <2>4 DEF Told
    <3>2. MayStart(i) => tasks[i].handler # h
      BY <2>4 DEF Told, MayStart
    <3>3. called'[h] = called[h]
      BY <1>2, <1>3, <2>2, <2>3, <3>2 DEF TaskSet, Ends
    <3> QED BY <2>4, <3>1, <3>3 DEF Told
  <2>5. CASE Due(tasks, Now, h)
    <3>1. PICK w \in DOMAIN tasks :
            /\ tasks[w].handler = h /\ tasks[w].stage = "created"
            /\ \A j \in DOMAIN tasks :
                 w <= j /\ tasks[j].handler = h => tasks[j].event = Now
      BY <2>5 DEF Due
    <3>2. ASSUME NEW n \in DOMAIN tasks, n # i, w <= n, tasks[n].handler = h,
                 tasks[n].stage = "created"
          PROVE  Due(tasks', Now, h)
      <4> DEFINE m == IF n < i THEN n ELSE n - 1
      <4>1. m \in DOMAIN tasks' /\ tasks'[m] = tasks[n]
        BY <1>1, <3>2
      <4>2. ASSUME NEW j \in DOMAIN tasks', m <= j, tasks'[j].handler = h
            PROVE  tasks'[j].event = Now
        <5> DEFINE k == IF j < i THEN j ELSE j + 1
        <5>1. k \in DOMAIN tasks /\ tasks'[j] = tasks[k]
          BY <1>1
        <5>2. w \in Nat /\ n \in Nat /\ j \in Nat
          BY <1>10
        <5>4. n <= k /\ k \in Nat
          BY <1>10, <3>2, <4>2, <5>2, MovesUp
        <5> HIDE DEF k
        <5>3. w <= k
          <6>1. w <= n
            BY <3>2
          <6> QED BY <5>2, <5>4, <6>1
        <5> QED BY <3>1, <4>2, <5>1, <5>3
      <4> HIDE DEF m
      <4> QED BY <3>2, <4>1, <4>2 DEF Due
    <3>5. w \in Nat /\ w <= w
      BY <1>10, <3>1
    <3>3. CASE w # i
      BY <3>1, <3>2, <3>3, <3>5
    <3>4. CASE w = i
      <4>1. called'[h] = Now
        <5>1. tasks[i].event = Now /\ tasks[i].handler = h
          BY <3>1, <3>4, <3>5
        <5>2. called' = [called EXCEPT ![h] = Now]
          BY <2>3, <3>1, <3>4, <5>1 DEF Ends
        <5> QED BY <1>3, <2>2, <5>2
      <4>2. CASE \E n \in DOMAIN tasks : /\ n # i /\ w <= n /\ tasks[n].handler = h
                                         /\ tasks[n].stage = "created"
        BY <3>2, <4>2
      <4>3. CASE ~\E n \in DOMAIN tasks : /\ n # i /\ w <= n /\ tasks[n].handler = h
                                          /\ tasks[n].stage = "created"
        <5>1. MayStart(i)
          BY <3>1, <3>4 DEF Ends
        <5>2. ASSUME NEW j \in DOMAIN tasks', tasks'[j].handler = h
              PROVE  tasks'[j].stage = "running"
          <6>1. PICK k \in DOMAIN tasks : k # i /\ tasks'[j] = tasks[k]
            BY <1>1
          <6>2. tasks[k].stage \in {"created", "running"}
            BY <6>1, TasksAre DEF IInv, TaskSet
          <6>3. k < i => tasks[k].stage # "created"
            <7>1. k \in 1..Len(tasks)
              BY <1>2, <6>1
            <7>2. k < i => k \in 1..(i - 1)
              BY <1>2, <1>10, <6>1, <7>1
            <7> QED BY <5>1, <7>2 DEF MayStart
          <6>4. ~(k < i) => tasks[k].stage # "created"
            <7>1. k \in Nat /\ i \in Nat
              BY <1>10, <6>1
            <7>2. ~(k < i) => w <= k
              BY <3>4, <7>1
            <7> QED BY <4>3, <5>2, <6>1, <7>2
          <6> QED BY <6>1, <6>2, <6>3, <6>4
        <5> QED BY <4>1, <5>2 DEF Told
      <4> QED BY <4>2, <4>3
    <3> QED BY <3>3, <3>4
  <2> QED BY <2>1, <2>4, <2>5
<1>8. /\ handlers' \in Seq(Handlers) /\ added' \subseteq Handlers
      /\ closing' \in [stage : {"open", "joining", "closed", "cancelling",
                                "cancelled"}, nested : BOOLEAN]
  BY DEF IInv, TypeOK, Ends
<1>11. UNCHANGED service
  BY DEF Ends
<1> QED BY <1>1, <1>3, <1>5, <1>6, <1>7, <1>8, <1>11, DispatcherOnly

\* The next task is started, and its handler suspends.
LEMMA RunsKeep ==
  ASSUME IInv, NEW i \in DOMAIN tasks, MayStart(i), ~tasks[i].cancel,
         called' = [called EXCEPT ![tasks[i].handler] = tasks[i].event],
         tasks' = [tasks EXCEPT ![i].stage = "running"],
         UNCHANGED <<handlers, added, closing, service>>
  PROVE  IInv'
<1>1. /\ DOMAIN tasks = 1..Len(tasks) /\ Len(tasks) \in Nat
      /\ tasks \in Seq(TaskSet) /\ \A j \in DOMAIN tasks : tasks[j] \in TaskSet
  BY TasksAre DEF IInv
<1>2. /\ i \in Nat /\ \A j \in DOMAIN tasks : j \in Nat
  BY <1>1
<1>3. /\ tasks' \in Seq(TaskSet) /\ DOMAIN tasks' = DOMAIN tasks
      /\ \A j \in DOMAIN tasks :
           tasks'[j] = IF j = i THEN [tasks[i] EXCEPT !.stage = "running"]
                       ELSE tasks[j]
  <2> DEFINE e == [tasks[i] EXCEPT !.stage = "running"]
  <2>1. e \in TaskSet
    BY <1>1 DEF TaskSet
  <2>2. tasks' = [tasks EXCEPT ![i] = e]
    OBVIOUS
  <2> HIDE DEF e
  <2>3. /\ [tasks EXCEPT ![i] = e] \in Seq(TaskSet)
        /\ DOMAIN [tasks EXCEPT ![i] = e] = DOMAIN tasks
        /\ \A j \in DOMAIN tasks :
             [tasks EXCEPT ![i] = e][j] = IF j = i THEN e ELSE tasks[j]
    BY <1>1, <2>1, ExceptSeq
  <2> QED BY <2>2, <2>3 DEF e
<1>4. \A j \in DOMAIN tasks :
        /\ tasks'[j].handler = tasks[j].handler /\ tasks'[j].event = tasks[j].event
        /\ tasks'[j].cancel = tasks[j].cancel /\ tasks'[j].found = tasks[j].found
        /\ tasks'[j].awaited = tasks[j].awaited
        /\ tasks'[j].stage = IF j = i THEN "running" ELSE tasks[j].stage
  BY <1>1, <1>3 DEF TaskSet
<1>5. \A j \in DOMAIN tasks : j < i => tasks[j].stage = "running"
  <2>1. \A j \in DOMAIN tasks : j < i => j \in 1..(i - 1)
    BY <1>1, <1>2
  <2> QED BY <1>1, <2>1 DEF MayStart, TaskSet
<1>6. called' \in [Handlers -> BalanceEvents \cup {NoEvent}]
  BY <1>1 DEF IInv, TypeOK, TaskSet
<1>7. /\ selected' = selected /\ reached' = reached /\ closing' = closing
      /\ Now' = Now
  BY DEF service, Now
<1>8. TasksInv'
  BY <1>2, <1>3, <1>4, <1>5, <1>7 DEF IInv, TasksInv
<1>9. CloseJoinsAll'
  BY <1>3, <1>4, <1>7 DEF IInv, CloseJoinsAll
<1>10. NewsInv'
  <2> SUFFICES ASSUME selected.by \in {"event", "unnamed"},
                      closing.stage \notin {"cancelling", "cancelled"},
                      NEW h \in reached
               PROVE  Told(tasks', called', Now, h) \/ Due(tasks', Now, h)
    BY <1>7 DEF NewsInv, Told, Due
  <2>1. Told(tasks, called, Now, h) \/ Due(tasks, Now, h)
    BY DEF IInv, NewsInv
  <2>2. h \in Handlers /\ called \in [Handlers -> BalanceEvents \cup {NoEvent}]
    BY DEF IInv, TypeOK
  <2>3. CASE Told(tasks, called, Now, h)
    <3>1. tasks[i].handler # h
      BY <2>3 DEF Told, MayStart
    <3>2. called'[h] = called[h]
      BY <2>2, <3>1
    <3> QED BY <1>3, <1>4, <2>3, <3>2 DEF Told
  <2>4. CASE Due(tasks, Now, h)
    <3>1. PICK w \in DOMAIN tasks :
            /\ tasks[w].handler = h /\ tasks[w].stage = "created"
            /\ \A j \in DOMAIN tasks :
                 w <= j /\ tasks[j].handler = h => tasks[j].event = Now
      BY <2>4 DEF Due
    <3>2. w \in Nat /\ i <= w
      BY <1>2, <1>5, <3>1
    <3>3. CASE \E n \in DOMAIN tasks : /\ n # i /\ w <= n /\ tasks[n].handler = h
                                       /\ tasks[n].stage = "created"
      <4>1. PICK n \in DOMAIN tasks : /\ n # i /\ w <= n /\ tasks[n].handler = h
                                      /\ tasks[n].stage = "created"
        BY <3>3
      <4>2. \A j \in DOMAIN tasks : n <= j => w <= j
        BY <1>2, <3>2, <4>1
      <4> QED BY <1>3, <1>4, <3>1, <4>1, <4>2 DEF Due
    <3>4. CASE ~\E n \in DOMAIN tasks : /\ n # i /\ w <= n /\ tasks[n].handler = h
                                        /\ tasks[n].stage = "created"
      <4>1. w = i
        BY <3>1, <3>2, <3>4
      <4>2. called'[h] = Now
        <5>1. tasks[i].event = Now /\ tasks[i].handler = h
          BY <3>1, <3>2, <4>1
        <5> QED BY <2>2, <5>1
      <4>3. ASSUME NEW j \in DOMAIN tasks, tasks[j].handler = h
            PROVE  tasks'[j].stage = "running"
        <5>1. CASE j < i
          BY <1>2, <1>4, <1>5, <5>1
        <5>2. CASE j = i
          BY <1>4, <5>2
        <5>3. CASE i < j
          <6>1. w <= j /\ j # i
            BY <1>2, <4>1, <5>3
          <6>2. tasks[j].stage # "created"
            BY <3>4, <4>3, <6>1
          <6> QED BY <1>1, <1>4, <6>1, <6>2 DEF TaskSet
        <5> QED BY <1>2, <5>1, <5>2, <5>3
      <4> QED BY <1>3, <1>4, <4>2, <4>3 DEF Told
    <3> QED BY <3>3, <3>4
  <2> QED BY <2>1, <2>3, <2>4
<1>11. /\ handlers' \in Seq(Handlers) /\ added' \subseteq Handlers
       /\ closing' \in [stage : {"open", "joining", "closed", "cancelling",
                                 "cancelled"}, nested : BOOLEAN]
  BY DEF IInv, TypeOK
<1> QED BY <1>3, <1>6, <1>8, <1>9, <1>10, <1>11, DispatcherOnly

\* close() starts, is cancelled or ends: it marks tasks, and starts none.
LEMMA ClosingKeeps ==
  ASSUME IInv, Close(0) \/ (\E i \in DOMAIN tasks : Close(i)) \/ CloseEnds
               \/ CloseCancelled,
         UNCHANGED service
  PROVE  IInv'
<1>1. /\ DOMAIN tasks = 1..Len(tasks) /\ Len(tasks) \in Nat
      /\ tasks \in Seq(TaskSet) /\ \A j \in DOMAIN tasks : tasks[j] \in TaskSet
  BY TasksAre DEF IInv
<1>2. /\ selected' = selected /\ reached' = reached /\ Now' = Now
  BY DEF service, Now
<1>3. /\ handlers' \in Seq(Handlers) /\ added' \subseteq Handlers
      /\ called' = called /\ called' \in [Handlers -> BalanceEvents \cup {NoEvent}]
  <2>1. <<>> \in Seq(Handlers)
    BY EmptySeq
  <2> QED BY <2>1 DEF IInv, TypeOK, Close, CloseEnds, CloseReturns, CloseRaises,
                      CloseCancelled
<1>4. closing' \in [stage : {"open", "joining", "closed", "cancelling",
                             "cancelled"}, nested : BOOLEAN]
  <2>1. closing \in [stage : {"open", "joining", "closed", "cancelling",
                              "cancelled"}, nested : BOOLEAN]
    BY DEF IInv, TypeOK
  <2>2. ASSUME NEW closer \in {0} \cup DOMAIN tasks, Close(closer)
        PROVE  \E b \in BOOLEAN, s \in {"closed", "joining"} :
                 closing' = [stage |-> s, nested |-> b]
    <3>1. (closer # 0) \in BOOLEAN
      OBVIOUS
    <3> QED BY <2>2, <3>1 DEF Close
  <2>3. Close(0) \/ (\E i \in DOMAIN tasks : Close(i)) =>
          \E b \in BOOLEAN, s \in {"closed", "joining"} :
            closing' = [stage |-> s, nested |-> b]
    BY <2>2
  <2>4. CASE CloseEnds \/ CloseCancelled
    BY <2>1, <2>4 DEF CloseEnds, CloseReturns, CloseRaises, CloseCancelled
  <2> QED BY <2>1, <2>3, <2>4
<1> DEFINE Marked ==
  /\ DOMAIN tasks' = DOMAIN tasks
  /\ \A j \in DOMAIN tasks :
       /\ tasks'[j] \in TaskSet
       /\ tasks'[j].handler = tasks[j].handler
       /\ tasks'[j].event = tasks[j].event /\ tasks'[j].stage = tasks[j].stage
       /\ tasks'[j].found => tasks'[j].awaited
<1>5. Marked
  <2>1. ASSUME NEW closer \in {0} \cup DOMAIN tasks, Close(closer)
        PROVE  Marked
    BY <1>1, <2>1 DEF Close, Found, TaskSet
  <2>2. CASE CloseEnds
    BY <1>1, <2>2 DEF CloseEnds, CloseReturns, CloseRaises, IInv, TasksInv
  <2>3. CASE CloseCancelled
    BY <1>1, <2>3 DEF CloseCancelled, IInv, TasksInv, TaskSet
  <2> QED BY <2>1, <2>2, <2>3
<1>6. tasks' \in Seq(TaskSet)
  <2>1. tasks' = [j \in 1..Len(tasks) |-> tasks'[j]]
    <3>1. \/ tasks' = tasks
          \/ \E closer \in {0} \cup DOMAIN tasks : tasks' = Found(closer)
          \/ tasks' = [i \in DOMAIN tasks |->
                         [tasks[i] EXCEPT !.cancel = tasks[i].awaited]]
      BY DEF Close, CloseEnds, CloseReturns, CloseRaises, CloseCancelled
    <3>2. tasks = [j \in 1..Len(tasks) |-> tasks[j]]
      BY <1>1, LenProperties
    <3>3. CASE tasks' = tasks
      BY <3>2, <3>3
    <3>4. CASE \E closer \in {0} \cup DOMAIN tasks : tasks' = Found(closer)
      BY <1>1, <3>4 DEF Found
    <3>5. CASE tasks' = [i \in DOMAIN tasks |->
                          [tasks[i] EXCEPT !.cancel = tasks[i].awaited]]
      BY <1>1, <3>5
    <3> QED BY <3>1, <3>3, <3>4, <3>5
  <2> QED BY <1>1, <1>5, <2>1, SeqDef
<1>7. TasksInv'
  <2>1. \A j \in DOMAIN tasks :
          tasks'[j].cancel => closing'.stage \in {"cancelling", "cancelled"}
    <3>1. ASSUME NEW closer \in {0} \cup DOMAIN tasks, Close(closer)
          PROVE  \A j \in DOMAIN tasks : ~tasks'[j].cancel
      <4>1. \A j \in DOMAIN tasks : ~tasks[j].cancel
        BY <3>1 DEF Close, IInv, TasksInv
      <4> QED BY <1>1, <3>1, <4>1 DEF Close, Found, TaskSet
    <3>2. CASE CloseEnds
      BY <3>2 DEF CloseEnds, CloseReturns, CloseRaises, IInv, TypeOK, TasksInv
    <3>3. CASE CloseCancelled
      BY <3>3 DEF CloseCancelled, IInv, TypeOK
    <3> QED BY <3>1, <3>2, <3>3
  <2>2. \A j, k \in DOMAIN tasks :
          j < k /\ tasks'[j].stage = "created" => tasks'[k].stage = "created"
    BY <1>5 DEF IInv, TasksInv
  <2> HIDE DEF Marked
  <2> QED BY <1>5, <2>1, <2>2 DEF TasksInv, Marked
<1>8. CloseJoinsAll'
  <2>1. ASSUME NEW closer \in {0} \cup DOMAIN tasks, Close(closer)
        PROVE  CloseJoinsAll'
    <3>1. tasks # <<>> => closing'.stage = "joining"
      BY <2>1 DEF Close, IInv, TypeOK
    <3>2. tasks = <<>> => DOMAIN tasks' = {}
      BY <1>1, <1>5, EmptySeq
    <3> QED BY <3>1, <3>2 DEF CloseJoinsAll
  <2>2. CASE CloseEnds
    <3>1. tasks' = tasks /\ Joined
      BY <2>2 DEF CloseEnds, CloseReturns, CloseRaises
    <3>2. \A j \in DOMAIN tasks : ~tasks[j].found
      BY <3>1 DEF Joined, IInv, TasksInv
    <3> QED BY <3>1, <3>2 DEF CloseJoinsAll
  <2>3. CASE CloseCancelled
    <3>1. closing'.stage = "cancelling"
      BY <2>3 DEF CloseCancelled, IInv, TypeOK
    <3> QED BY <3>1 DEF CloseJoinsAll
  <2> QED BY <2>1, <2>2, <2>3
<1>9. NewsInv'
  <2> SUFFICES ASSUME selected.by \in {"event", "unnamed"},
                      closing'.stage \notin {"cancelling", "cancelled"},
                      NEW h \in reached
               PROVE  Told(tasks', called', Now, h) \/ Due(tasks', Now, h)
    BY <1>2 DEF NewsInv, Told, Due
  <2>1. closing.stage \notin {"cancelling", "cancelled"}
    BY DEF IInv, TypeOK, Close, CloseEnds, CloseReturns, CloseRaises,
           CloseCancelled
  <2>2. Told(tasks, called, Now, h) \/ Due(tasks, Now, h)
    BY <2>1 DEF IInv, NewsInv
  <2>3. CASE Told(tasks, called, Now, h)
    BY <1>3, <1>5, <2>3 DEF Told
  <2>4. CASE Due(tasks, Now, h)
    BY <1>5, <2>4 DEF Due
  <2> QED BY <2>2, <2>3, <2>4
<1> QED BY <1>3, <1>4, <1>6, <1>7, <1>8, <1>9, DispatcherOnly

LEMMA DispatcherKeeps ==
  ASSUME IInv, DispatcherStep, UNCHANGED service
  PROVE  IInv'
<1>1. ASSUME NEW h \in Handlers, Add(h) \/ RemoveHandler(h)
      PROVE  IInv'
  <2>1. handlers \in Seq(Handlers) /\ added \subseteq Handlers
    BY DEF IInv, TypeOK
  <2>2. handlers' \in Seq(Handlers) /\ added' \subseteq Handlers
    <3>1. CASE Add(h)
      BY <2>1, <3>1, AppendProperties DEF Add
    <3>2. CASE RemoveHandler(h)
      BY <2>1, <3>2, RemoveAtFacts DEF RemoveHandler
    <3> QED BY <1>1, <3>1, <3>2
  <2>3. UNCHANGED <<tasks, called, closing>>
    BY <1>1 DEF Add, RemoveHandler
  <2>4. TasksInv' /\ CloseJoinsAll' /\ NewsInv'
    BY <2>3 DEF IInv, TasksInv, CloseJoinsAll, NewsInv, Told, Due, Now, service
  <2>5. /\ tasks \in Seq(TaskSet) /\ called \in [Handlers -> BalanceEvents \cup {NoEvent}]
        /\ closing \in [stage : {"open", "joining", "closed", "cancelling",
                                 "cancelled"}, nested : BOOLEAN]
    BY DEF IInv, TypeOK, TaskSet
  <2> QED BY <2>2, <2>3, <2>4, <2>5, DispatcherOnly
<1>2. ASSUME NEW i \in DOMAIN tasks, RunTask(i)
      PROVE  IInv'
  <2>1. CASE Start(i)
    <3>1. CASE tasks' = [tasks EXCEPT ![i].stage = "running"]
      BY <2>1, <3>1, RunsKeep DEF Start
    <3>2. CASE \E failed \in BOOLEAN : tasks' = AfterEnd(i, failed)
      <4>1. Ends(i)
        BY <2>1, <3>2 DEF Start, AfterEnd, Ends
      <4> QED BY <4>1, EndKeeps
    <3> QED BY <2>1, <3>1, <3>2 DEF Start
  <2>2. CASE Skip(i)
    <3>1. Ends(i)
      BY <2>2 DEF Skip, AfterEnd, Ends
    <3> QED BY <3>1, EndKeeps
  <2>3. CASE Finish(i)
    <3>1. Ends(i)
      BY <2>3 DEF Finish, AfterEnd, Ends
    <3> QED BY <3>1, EndKeeps
  <2> QED BY <1>2, <2>1, <2>2, <2>3 DEF RunTask
<1>3. CASE \/ \E closer \in {0} \cup DOMAIN tasks : Close(closer)
           \/ CloseEnds \/ CloseCancelled
  BY <1>3, ClosingKeeps
<1> QED BY <1>1, <1>2, <1>3 DEF DispatcherStep

-----------------------------------------------------------------------------
(***************************************************************************)
(* So do the broker, select() and handle_event().                          *)
(***************************************************************************)

\* Selections and bookings leave the handlers and what they are due alone.
LEMMA DispatcherAlone ==
  ASSUME IInv, UNCHANGED <<dispatcher, reached>>,
         TypeOK', BooksInv', BalanceIsOwn',
         selected' = selected \/ selected'.by = "rest"
  PROVE  IInv'
<1>1. TasksInv' /\ CloseJoinsAll'
  BY DEF IInv, TasksInv, CloseJoinsAll, dispatcher
<1>2. NewsInv'
  <2>1. CASE selected' = selected
    BY <2>1 DEF IInv, NewsInv, Told, Due, Now, dispatcher
  <2>2. CASE selected'.by = "rest"
    BY <2>2 DEF NewsInv
  <2> QED BY <2>1, <2>2
<1> QED BY <1>1, <1>2 DEF IInv

\* Losing what is on its way leaves alone what the client knows already.
LEMMA ConnectionEndKeeps ==
  ASSUME IInv, ConnectionEnds
  PROVE  IInv'
<1>1. inbox' \in Seq([id : AccountIds, balance : 0..MaxAmount, named : BOOLEAN])
  BY DEF ConnectionEnds
<1>2. DOMAIN inbox' = {}
  BY EmptySeq DEF ConnectionEnds
<1>3. TypeOK'
  BY <1>1 DEF ConnectionEnds, IInv, TypeOK, dispatcher
<1>4. BooksInv' /\ BalanceIsOwn'
  BY <1>2 DEF ConnectionEnds, IInv, BooksInv, BalanceIsOwn
<1> QED BY <1>3, <1>4, DispatcherAlone DEF ConnectionEnds

LEMMA BookKeeps ==
  ASSUME IInv, NEW a \in AccountIds, NEW named \in BOOLEAN, Book(a, named)
  PROVE  IInv'
<1> DEFINE e == [id |-> a, balance |-> booked', named |-> named]
<1> DEFINE Notices == [id : AccountIds, balance : 0..MaxAmount, named : BOOLEAN]
<1>1. booked' \in 0..MaxAmount /\ e \in Notices
  BY MaxAmountAssumption DEF IInv, TypeOK, Book
<1>2. inbox \in Seq(Notices) /\ inbox' = Append(inbox, e)
  BY DEF IInv, TypeOK, Book
<1>3. /\ past \in [AccountIds -> SUBSET (0..MaxAmount)]
      /\ past' \in [AccountIds -> SUBSET (0..MaxAmount)]
      /\ \A b \in AccountIds :
           past'[b] = IF b = a THEN past[a] \cup {booked'} ELSE past[b]
  BY <1>1 DEF IInv, TypeOK, Book
<1>4. /\ balance' \in [AccountIds -> 0..MaxAmount]
      /\ \A b \in AccountIds : balance'[b] = IF b = a THEN booked' ELSE balance[b]
  BY <1>1 DEF IInv, TypeOK, Book
<1>5. inbox' \in Seq(Notices) /\ Len(inbox') = Len(inbox) + 1 /\ Len(inbox) \in Nat
  BY <1>1, <1>2, AppendProperties, LenProperties
<1>6. TypeOK'
  BY <1>1, <1>3, <1>4, <1>5 DEF IInv, TypeOK, Book, dispatcher
<1>7. BooksInv'
  <2>1. \A b \in AccountIds : balance'[b] \in past'[b] /\ past[b] \subseteq past'[b]
    BY <1>3, <1>4 DEF IInv, BooksInv
  <2>2. ASSUME NEW k \in DOMAIN inbox'
        PROVE  inbox'[k].balance \in past'[inbox'[k].id]
    <3>1. k \in 1..(Len(inbox) + 1)
      BY <1>5, LenProperties
    <3>2. CASE k = Len(inbox) + 1
      <4>1. inbox'[k] = e
        BY <1>2, <1>1, <3>2, AppendProperties
      <4> QED BY <1>3, <4>1
    <3>3. CASE k \in 1..Len(inbox)
      <4>1. inbox'[k] = inbox[k] /\ k \in DOMAIN inbox
        BY <1>2, <1>1, <3>3, AppendProperties, LenProperties
      <4>2. inbox[k] \in Notices
        BY <1>2, <3>3, ElementOfSeq
      <4>3. inbox[k].balance \in past[inbox[k].id]
        BY <4>1 DEF IInv, BooksInv
      <4> QED BY <2>1, <4>1, <4>2, <4>3
    <3> QED BY <1>5, <3>1, <3>2, <3>3
  <2>3. pages' = pages
    BY DEF Book
  <2> QED BY <2>1, <2>2, <2>3 DEF IInv, BooksInv
<1>8. BalanceIsOwn'
  BY <1>3 DEF IInv, TypeOK, BalanceIsOwn, Book
<1> QED BY <1>6, <1>7, <1>8, DispatcherAlone DEF Book

LEMMA SelectKeeps ==
  ASSUME IInv, NEW c \in Selectors, Select(c)
  PROVE  IInv'
<1>1. CASE Ask(c) \/ SelectFails(c)
  <2>1. TypeOK'
    BY <1>1 DEF Ask, SelectFails, IInv, TypeOK, dispatcher
  <2>2. BooksInv' /\ BalanceIsOwn'
    BY <1>1 DEF Ask, SelectFails, IInv, BooksInv, BalanceIsOwn
  <2> QED BY <1>1, <2>1, <2>2, DispatcherAlone DEF Ask, SelectFails
<1>2. CASE Serve(c)
  <2>1. TypeOK'
    BY <1>2 DEF Serve, IInv, TypeOK, dispatcher
  <2>2. BooksInv' /\ BalanceIsOwn'
    BY <1>2 DEF Serve, IInv, TypeOK, BooksInv, BalanceIsOwn
  <2> QED BY <1>2, <2>1, <2>2, DispatcherAlone DEF Serve
<1>3. ASSUME NEW a \in AccountIds, Selected(c, a)
      PROVE  IInv'
  <2>1. selected' = [id |-> a, balance |-> pages[c][a], by |-> "rest"]
    BY <1>3 DEF Selected
  <2>2. TypeOK'
    BY <1>3, <2>1 DEF Selected, IInv, TypeOK, Writers, dispatcher
  <2>3. BooksInv' /\ BalanceIsOwn'
    BY <1>3, <2>1 DEF Selected, IInv, BooksInv, BalanceIsOwn
  <2> QED BY <1>3, <2>1, <2>2, <2>3, DispatcherAlone DEF Selected
<1> QED BY <1>1, <1>2, <1>3 DEF Select

\* The tasks after an event has been emitted: those before it, and one of each
\* registered handler behind them.
LEMMA EmitFacts ==
  ASSUME TypeOK, NEW event \in BalanceEvents, Emit(event)
  PROVE  /\ tasks' \in Seq(TaskSet)
         /\ DOMAIN tasks' = 1..(Len(tasks) + Len(handlers))
         /\ \A j \in 1..Len(tasks) : tasks'[j] = tasks[j]
         /\ \A k \in 1..Len(handlers) :
              tasks'[Len(tasks) + k] = Task(handlers[k], event)
<1> DEFINE new == [i \in DOMAIN handlers |-> Task(handlers[i], event)]
<1>1. /\ handlers \in Seq(Handlers) /\ Len(handlers) \in Nat
      /\ DOMAIN handlers = 1..Len(handlers)
      /\ \A k \in 1..Len(handlers) : handlers[k] \in Handlers
  BY LenProperties, ElementOfSeq DEF TypeOK
<1>2. \A k \in 1..Len(handlers) : Task(handlers[k], event) \in TaskSet
  BY <1>1 DEF Task, TaskSet
<1>3. new \in Seq(TaskSet)
  <2>1. new \in [1..Len(handlers) -> TaskSet]
    BY <1>1, <1>2
  <2> HIDE DEF new
  <2> QED BY <1>1, <2>1, SeqDef
<1>4. /\ Len(new) = Len(handlers)
      /\ \A k \in 1..Len(handlers) : new[k] = Task(handlers[k], event)
  <2>1. DOMAIN new = 1..Len(handlers)
    BY <1>1
  <2>2. DOMAIN new = 1..Len(new) /\ Len(new) \in Nat
    <3> HIDE DEF new
    <3> QED BY <1>3, LenProperties
  <2>3. Len(new) = Len(handlers)
    <3> HIDE DEF new
    <3> QED BY <1>1, <2>1, <2>2
  <2> QED BY <1>1, <2>3
<1>5. tasks \in Seq(TaskSet) /\ Len(tasks) \in Nat
  BY TasksAre
<1>6. tasks' = tasks \o new
  BY DEF Emit
<1> HIDE DEF new
<1>7. /\ tasks' \in Seq(TaskSet) /\ Len(tasks') = Len(tasks) + Len(handlers)
      /\ \A j \in 1..(Len(tasks) + Len(handlers)) :
           tasks'[j] = IF j <= Len(tasks) THEN tasks[j] ELSE new[j - Len(tasks)]
  <2>1. /\ tasks \o new \in Seq(TaskSet)
        /\ Len(tasks \o new) = Len(tasks) + Len(new)
        /\ \A j \in 1..(Len(tasks) + Len(new)) :
             (tasks \o new)[j] =
               IF j <= Len(tasks) THEN tasks[j] ELSE new[j - Len(tasks)]
    BY <1>3, <1>5, ConcatProperties
  <2>2. Len(new) = Len(handlers)
    BY <1>4
  <2> QED BY <1>6, <2>1, <2>2
<1>8. DOMAIN tasks' = 1..(Len(tasks) + Len(handlers))
  BY <1>7, LenProperties
<1>9. \A j \in 1..Len(tasks) : tasks'[j] = tasks[j]
  BY <1>1, <1>5, <1>7
<1>10. ASSUME NEW k \in 1..Len(handlers)
       PROVE  tasks'[Len(tasks) + k] = Task(handlers[k], event)
  <2>1. /\ Len(tasks) + k \in 1..(Len(tasks) + Len(handlers))
        /\ ~(Len(tasks) + k <= Len(tasks)) /\ (Len(tasks) + k) - Len(tasks) = k
    BY <1>1, <1>5
  <2>2. tasks'[Len(tasks) + k] = new[(Len(tasks) + k) - Len(tasks)]
    BY <1>7, <2>1
  <2> QED BY <1>4, <2>1, <2>2
<1> QED BY <1>7, <1>8, <1>9, <1>10

LEMMA HandleEventKeeps ==
  ASSUME IInv, HandleEvent
  PROVE  IInv'
<1> DEFINE Notices == [id : AccountIds, balance : 0..MaxAmount, named : BOOLEAN]
<1> DEFINE e == Head(inbox)
<1>1. /\ e \in Notices /\ inbox' \in Seq(Notices) /\ e.balance \in past[e.id]
      /\ \A k \in DOMAIN inbox' : inbox'[k].balance \in past[inbox'[k].id]
  <2>1. inbox \in Seq(Notices) /\ inbox # <<>> /\ inbox' = Tail(inbox)
    BY DEF IInv, TypeOK, HandleEvent
  <2>2. /\ inbox' \in Seq(Notices) /\ Len(inbox) \in Nat \ {0}
        /\ e = inbox[1] /\ Len(inbox') = Len(inbox) - 1
        /\ \A k \in 1..Len(inbox') : inbox'[k] = inbox[k + 1]
    BY <2>1, HeadTailProperties, EmptySeq
  <2>3. DOMAIN inbox = 1..Len(inbox) /\ DOMAIN inbox' = 1..Len(inbox')
    BY <2>1, <2>2, LenProperties
  <2>4. \A k \in DOMAIN inbox : inbox[k].balance \in past[inbox[k].id]
    BY DEF IInv, BooksInv
  <2>5. 1 \in DOMAIN inbox /\ \A k \in DOMAIN inbox' : k + 1 \in DOMAIN inbox
    BY <2>2, <2>3
  <2>6. e \in Notices
    BY <2>1, HeadTailProperties
  <2> QED BY <2>2, <2>3, <2>4, <2>5, <2>6
<1>2. UNCHANGED <<booked, balance, past, pages, select>>
  BY DEF HandleEvent
<1> HIDE DEF e
<1>3. BooksInv'
  BY <1>1, <1>2 DEF IInv, BooksInv
<1>4. CASE ~Concerns(e)
  <2>1. UNCHANGED <<selected, reached, dispatcher>>
    BY <1>4 DEF HandleEvent, e
  <2>2. TypeOK'
    BY <1>1, <1>2, <2>1 DEF IInv, TypeOK, dispatcher
  <2>3. BalanceIsOwn'
    BY <1>2, <2>1 DEF IInv, BalanceIsOwn
  <2> QED BY <1>3, <2>1, <2>2, <2>3, DispatcherAlone
<1>5. CASE Concerns(e)
  <2>1. /\ selected' = Rebalanced(e) /\ reached' = ToSet(handlers)
        /\ Emit(EventOf(e))
    BY <1>5 DEF HandleEvent, e
  <2>2. /\ selected'.id = selected.id /\ selected'.balance = e.balance
        /\ selected'.by = IF e.named THEN "event" ELSE "unnamed"
        /\ selected' \in [id : AccountIds \cup {Nobody}, balance : 0..MaxAmount,
                          by : Writers]
    BY <1>1, <2>1 DEF Rebalanced, IInv, TypeOK, Writers
  <2>3. EventOf(e) = Now' /\ EventOf(e) \in BalanceEvents
    <3>1. selected.id \in AccountIds
      BY <1>5 DEF Concerns, IInv, TypeOK
    <3>2. Rebalanced(e).balance = e.balance /\ e.balance \in 0..MaxAmount
      BY <1>1, <2>1, <2>2
    <3> QED BY <2>2, <3>1, <3>2 DEF EventOf, Now, BalanceEvents
  <2>4. BalanceIsOwn'
    <3>1. CASE e.named
      <4>1. e.id = selected'.id
        BY <1>5, <2>2, <3>1 DEF Concerns
      <4> QED BY <1>1, <1>2, <2>2, <4>1 DEF BalanceIsOwn
    <3>2. CASE ~e.named
      BY <2>2, <3>2 DEF BalanceIsOwn
    <3> QED BY <3>1, <3>2
  <2>5. /\ tasks \in Seq(TaskSet) /\ Len(tasks) \in Nat
        /\ DOMAIN tasks = 1..Len(tasks) /\ Len(handlers) \in Nat
        /\ handlers \in Seq(Handlers) /\ DOMAIN handlers = 1..Len(handlers)
    BY TasksAre, LenProperties DEF IInv, TypeOK
  <2>6. /\ tasks' \in Seq(TaskSet)
        /\ DOMAIN tasks' = 1..(Len(tasks) + Len(handlers))
        /\ \A j \in 1..Len(tasks) : tasks'[j] = tasks[j]
        /\ \A k \in 1..Len(handlers) :
             tasks'[Len(tasks) + k] = Task(handlers[k], Now')
    BY <2>1, <2>3, EmitFacts DEF IInv
  <2>7. UNCHANGED <<handlers, added, called, closing>>
    BY <2>1 DEF Emit
  <2>8. reached' \subseteq Handlers
    BY <2>1, <2>5, ElementOfSeq DEF ToSet
  <2>9. TypeOK'
    BY <1>1, <1>2, <2>2, <2>6, <2>7, <2>8 DEF IInv, TypeOK, TaskSet
  <2>10. \A j \in DOMAIN tasks' :
           \/ j \in 1..Len(tasks) /\ tasks'[j] = tasks[j]
           \/ \E k \in 1..Len(handlers) :
                j = Len(tasks) + k /\ tasks'[j] = Task(handlers[k], Now')
    <3> SUFFICES ASSUME NEW j \in DOMAIN tasks', ~(j \in 1..Len(tasks))
                 PROVE  \E k \in 1..Len(handlers) :
                          /\ j = Len(tasks) + k
                          /\ tasks'[j] = Task(handlers[k], Now')
      BY <2>6
    <3>1. j - Len(tasks) \in 1..Len(handlers) /\ j = Len(tasks) + (j - Len(tasks))
      BY <2>5, <2>6
    <3> QED BY <2>6, <3>1
  <2>11. TasksInv'
    <3>1. ASSUME NEW i \in DOMAIN tasks', NEW j \in DOMAIN tasks', i < j,
                 tasks'[i].stage = "created"
          PROVE  tasks'[j].stage = "created"
      <4>1. CASE j \in 1..Len(tasks)
        <5>1. i \in 1..Len(tasks)
          BY <2>5, <2>6, <3>1, <4>1
        <5> QED BY <2>5, <2>6, <3>1, <4>1, <5>1 DEF IInv, TasksInv
      <4>2. CASE ~(j \in 1..Len(tasks))
        BY <2>10, <4>2 DEF Task
      <4> QED BY <4>1, <4>2
    <3>2. ASSUME NEW j \in DOMAIN tasks'
          PROVE  /\ tasks'[j].found => tasks'[j].awaited
                 /\ tasks'[j].cancel => closing.stage \in {"cancelling", "cancelled"}
      BY <2>5, <2>10 DEF Task, IInv, TasksInv
    <3> QED BY <2>7, <3>1, <3>2 DEF TasksInv
  <2>12. CloseJoinsAll'
    <3>1. ASSUME closing.stage \in {"closed", "cancelled"}, NEW j \in DOMAIN tasks'
          PROVE  ~tasks'[j].found
      BY <2>5, <2>10, <3>1 DEF Task, IInv, CloseJoinsAll
    <3> QED BY <2>7, <3>1 DEF CloseJoinsAll
  <2>13. NewsInv'
    <3>1. ASSUME NEW h \in reached'
          PROVE  Due(tasks', Now', h)
      <4>1. PICK k \in 1..Len(handlers) : handlers[k] = h
        BY <2>1, <2>5 DEF ToSet
      <4> DEFINE i == Len(tasks) + k
      <4>2. i \in DOMAIN tasks' /\ tasks'[i] = Task(h, Now')
        BY <2>5, <2>6, <4>1
      <4>3. ASSUME NEW j \in DOMAIN tasks', i <= j
            PROVE  tasks'[j].event = Now'
        <5>1. ~(j \in 1..Len(tasks))
          BY <2>5, <4>1, <4>3
        <5> QED BY <2>10, <5>1 DEF Task
      <4>4. tasks'[i].handler = h /\ tasks'[i].stage = "created"
        BY <4>2 DEF Task
      <4> HIDE DEF i
      <4> QED BY <4>2, <4>3, <4>4 DEF Due
    <3> QED BY <3>1 DEF NewsInv, Due
  <2> QED BY <1>3, <2>4, <2>9, <2>11, <2>12, <2>13 DEF IInv
<1> QED BY <1>4, <1>5

LEMMA InitIInv == Init => IInv
<1> SUFFICES ASSUME Init PROVE IInv
  OBVIOUS
<1>1. TypeOK
  <2>1. 0 \in 0..MaxAmount /\ balance \in [AccountIds -> 0..MaxAmount]
    BY MaxAmountAssumption DEF Init
  <2>2. selected \in [id : AccountIds \cup {Nobody}, balance : 0..MaxAmount,
                      by : Writers]
    BY <2>1 DEF Init, NoAccount, Writers
  <2> QED BY <2>1, <2>2 DEF Init, DispatcherInit, TypeOK
<1>2. BooksInv
  <2>1. DOMAIN inbox = {}
    BY EmptySeq DEF Init
  <2> QED BY <2>1 DEF Init, BooksInv
<1>3. TasksInv /\ CloseJoinsAll
  <2>1. DOMAIN tasks = {}
    BY EmptySeq DEF Init, DispatcherInit
  <2> QED BY <2>1 DEF TasksInv, CloseJoinsAll
<1>4. BalanceIsOwn /\ NewsInv
  BY DEF Init, NoAccount, BalanceIsOwn, NewsInv
<1> QED BY <1>1, <1>2, <1>3, <1>4 DEF IInv

LEMMA Invariance == Spec => []IInv
<1>1. IInv /\ [Next]_vars => IInv'
  <2> SUFFICES ASSUME IInv, [Next]_vars PROVE IInv'
    OBVIOUS
  <2>1. CASE UNCHANGED vars
    <3>1. TypeOK' /\ BooksInv' /\ BalanceIsOwn'
      BY <2>1 DEF vars, dispatcher, IInv, TypeOK, BooksInv, BalanceIsOwn
    <3> QED BY <2>1, <3>1, DispatcherAlone DEF vars
  <2>2. ASSUME NEW a \in AccountIds, NEW named \in BOOLEAN, Book(a, named)
        PROVE  IInv'
    BY <2>2, BookKeeps
  <2>3. ASSUME NEW c \in Selectors, Select(c) PROVE IInv'
    BY <2>3, SelectKeeps
  <2> QED BY <2>1, <2>2, <2>3, HandleEventKeeps, ConnectionEndKeeps,
             DispatcherKeeps DEF Next
<1> QED BY <1>1, InitIInv, PTL DEF Spec

-----------------------------------------------------------------------------

\* The variables of the accounts and of their dispatcher keep their types.
THEOREM TypeCorrect == Spec => []TypeOK
<1>1. IInv => TypeOK
  BY DEF IInv
<1> QED BY <1>1, Invariance, PTL

\* The balance shown is one the selected account has had, unless it is from an
\* event that does not say whose it is: a selection or an event that is overtaken
\* leaves nothing of another account behind.
THEOREM OwnBalance == Spec => []BalanceIsOwn
<1>1. IInv => BalanceIsOwn
  BY DEF IInv
<1> QED BY <1>1, Invariance, PTL

\* Every handler registered for the last change of the balance, and since, has
\* been called with it last, once its tasks have had their turn.
THEOREM UpToDate == Spec => []HandlersAreUpToDate
<1>1. IInv => HandlersAreUpToDate
  <2> SUFFICES ASSUME IInv, NEW h \in reached \cap ToSet(handlers),
                      selected.by \in {"event", "unnamed"},
                      closing.stage \notin {"cancelling", "cancelled"},
                      \A i \in DOMAIN tasks :
                        tasks[i].handler = h => tasks[i].stage = "running"
               PROVE  called[h] = Now
    BY DEF HandlersAreUpToDate, Now
  <2>1. ~Due(tasks, Now, h)
    BY DEF Due
  <2>2. Told(tasks, called, Now, h)
    BY <2>1 DEF IInv, NewsInv
  <2> QED BY <2>2 DEF Told
<1> QED BY <1>1, Invariance, PTL

\* A close() that has returned or raised has left none of the tasks it found,
\* whichever of them failed.
THEOREM Joins == Spec => []CloseJoinsAll
<1>1. IInv => CloseJoinsAll
  BY DEF IInv
<1> QED BY <1>1, Invariance, PTL

-----------------------------------------------------------------------------
(***************************************************************************)
(* The order in which a handler hears of changes.                          *)
(***************************************************************************)

\* Amount b was booked before every change that is still on its way.
Before(b) == b <= booked /\ \A k \in DOMAIN inbox : b < inbox[k].balance

\* Changes are on their way in the order of booking.
InboxInv ==
  /\ \A k \in DOMAIN inbox : inbox[k].balance <= booked
  /\ \A k, l \in DOMAIN inbox : k < l => inbox[k].balance < inbox[l].balance

\* A handler is registered once, so that an event makes one task of it.
OnceInv ==
  /\ \A i \in DOMAIN handlers : handlers[i] \in added
  /\ \A i, j \in DOMAIN handlers : i < j => handlers[i] # handlers[j]

\* The tasks of a handler are in the order of their events, and those that wait
\* are about later events than the last one it was called with.
WaitInv ==
  /\ \A i \in DOMAIN tasks : Before(tasks[i].event.balance)
  /\ \A h \in Handlers : called[h] # NoEvent => Before(called[h].balance)
  /\ \A i, j \in DOMAIN tasks :
       i < j /\ tasks[i].handler = tasks[j].handler
         => tasks[i].event.balance < tasks[j].event.balance
  /\ \A i \in DOMAIN tasks :
       tasks[i].stage = "created" /\ called[tasks[i].handler] # NoEvent
         => called[tasks[i].handler].balance < tasks[i].event.balance

QueueInv == InboxInv /\ OnceInv /\ WaitInv

\* Numbers that the arithmetic below is about.
LEMMA Amounts ==
  ASSUME IInv
  PROVE  /\ booked \in Nat
         /\ \A k \in DOMAIN inbox : k \in Nat /\ inbox[k].balance \in Nat
         /\ \A i \in DOMAIN tasks : /\ i \in Nat /\ tasks[i] \in TaskSet
                                    /\ tasks[i].event.balance \in Nat
         /\ \A h \in Handlers : called[h] # NoEvent => called[h].balance \in Nat
         /\ \A i \in DOMAIN handlers : i \in Nat /\ handlers[i] \in Handlers
<1> DEFINE Notices == [id : AccountIds, balance : 0..MaxAmount, named : BOOLEAN]
<1>1. inbox \in Seq(Notices) /\ handlers \in Seq(Handlers) /\ booked \in Nat
  BY DEF IInv, TypeOK
<1>2. \A k \in DOMAIN inbox : k \in Nat /\ inbox[k] \in Notices
  <2> HIDE DEF Notices
  <2>1. DOMAIN inbox = 1..Len(inbox) /\ Len(inbox) \in Nat
    BY <1>1, LenProperties
  <2> QED BY <1>1, <2>1, ElementOfSeq
<1>3. \A k \in DOMAIN inbox : inbox[k].balance \in Nat
  BY <1>2
<1>4. \A i \in DOMAIN handlers : i \in Nat /\ handlers[i] \in Handlers
  <2>1. DOMAIN handlers = 1..Len(handlers) /\ Len(handlers) \in Nat
    BY <1>1, LenProperties
  <2> QED BY <1>1, <2>1, ElementOfSeq
<1>5. \A i \in DOMAIN tasks : /\ i \in Nat /\ tasks[i] \in TaskSet
                              /\ tasks[i].event.balance \in Nat
  BY TasksAre DEF IInv, TaskSet, BalanceEvents
<1>6. \A h \in Handlers : called[h] # NoEvent => called[h].balance \in Nat
  BY DEF IInv, TypeOK, BalanceEvents
<1> QED BY <1>1, <1>2, <1>3, <1>4, <1>5, <1>6

\* Handlers come and go; nobody is called.
LEMMA RegistersInOrder ==
  ASSUME IInv, QueueInv, NEW h \in Handlers, Add(h) \/ RemoveHandler(h),
         UNCHANGED service
  PROVE  QueueInv' /\ called' = called
<1>1. UNCHANGED <<tasks, called, booked, inbox>>
  BY DEF Add, RemoveHandler, service
<1>2. InboxInv' /\ WaitInv'
  BY <1>1 DEF QueueInv, InboxInv, WaitInv, Before
<1>3. /\ handlers \in Seq(Handlers) /\ Len(handlers) \in Nat
      /\ DOMAIN handlers = 1..Len(handlers)
  BY LenProperties DEF IInv, TypeOK
<1>4. CASE Add(h)
  <2>1. /\ handlers' \in Seq(Handlers) /\ Len(handlers') = Len(handlers) + 1
        /\ \A i \in 1..Len(handlers) : handlers'[i] = handlers[i]
        /\ handlers'[Len(handlers) + 1] = h
    BY <1>3, <1>4, AppendProperties DEF Add
  <2>2. DOMAIN handlers' = 1..(Len(handlers) + 1)
    BY <2>1, LenProperties
  <2>3. added' = added \cup {h} /\ h \notin added
    BY <1>4 DEF Add
  <2>4. ASSUME NEW i \in DOMAIN handlers'
        PROVE  handlers'[i] \in added'
    BY <1>3, <2>1, <2>2, <2>3 DEF QueueInv, OnceInv
  <2>5. ASSUME NEW i \in DOMAIN handlers', NEW j \in DOMAIN handlers', i < j
        PROVE  handlers'[i] # handlers'[j]
    <3>1. i \in DOMAIN handlers /\ handlers'[i] = handlers[i]
      BY <1>3, <2>1, <2>2, <2>5
    <3>2. CASE j \in DOMAIN handlers
      BY <1>3, <2>1, <2>5, <3>1, <3>2 DEF QueueInv, OnceInv
    <3>3. CASE j = Len(handlers) + 1
      BY <2>1, <2>3, <3>1, <3>3 DEF QueueInv, OnceInv
    <3> QED BY <1>3, <2>2, <3>2, <3>3
  <2> QED BY <1>1, <1>2, <2>4, <2>5 DEF QueueInv, OnceInv
<1>5. CASE RemoveHandler(h)
  <2>1. PICK r \in DOMAIN handlers : handlers' = RemoveAt(handlers, r)
    BY <1>5 DEF RemoveHandler
  <2>2. /\ handlers' \in Seq(Handlers) /\ Len(handlers') = Len(handlers) - 1
        /\ \A j \in 1..(Len(handlers) - 1) :
             handlers'[j] = IF j < r THEN handlers[j] ELSE handlers[j + 1]
    BY <1>3, <2>1, RemoveAtFacts
  <2>3. DOMAIN handlers' = 1..(Len(handlers) - 1) /\ added' = added
    BY <1>5, <2>2, LenProperties DEF RemoveHandler
  <2>4. ASSUME NEW i \in DOMAIN handlers'
        PROVE  handlers'[i] \in added'
    BY <1>3, <2>2, <2>3 DEF QueueInv, OnceInv
  <2>5. ASSUME NEW i \in DOMAIN handlers', NEW j \in DOMAIN handlers', i < j
        PROVE  handlers'[i] # handlers'[j]
    <3>1. PICK m \in DOMAIN handlers, n \in DOMAIN handlers :
            /\ m < n /\ handlers'[i] = handlers[m] /\ handlers'[j] = handlers[n]
      <4> DEFINE m == IF i < r THEN i ELSE i + 1
      <4> DEFINE n == IF j < r THEN j ELSE j + 1
      <4>1. m \in DOMAIN handlers /\ n \in DOMAIN handlers /\ m < n
        BY <1>3, <2>3, <2>5
      <4>2. handlers'[i] = handlers[m] /\ handlers'[j] = handlers[n]
        BY <2>2, <2>3
      <4> QED BY <4>1, <4>2
    <3> QED BY <3>1 DEF QueueInv, OnceInv
  <2> QED BY <1>1, <1>2, <2>4, <2>5 DEF QueueInv, OnceInv
<1> QED BY <1>1, <1>4, <1>5

\* A task that has been started is about a later event than its handler's last.
LEMMA StartsInOrder ==
  ASSUME IInv, QueueInv, NEW i \in DOMAIN tasks, Start(i)
  PROVE  /\ \A h \in Handlers :
              called[h] # NoEvent /\ called'[h] # called[h]
                => called[h].balance < called'[h].balance
         /\ \A h \in Handlers : called'[h] # NoEvent => Before(called'[h].balance)
         /\ \A j \in DOMAIN tasks :
              j # i /\ tasks[j].stage = "created"
                    /\ called'[tasks[j].handler] # NoEvent
                => called'[tasks[j].handler].balance < tasks[j].event.balance
<1>1. /\ tasks[i].stage = "created"
      /\ called \in [Handlers -> BalanceEvents \cup {NoEvent}]
      /\ tasks[i].handler \in Handlers
      /\ \A h \in Handlers :
           called'[h] = IF h = tasks[i].handler THEN tasks[i].event ELSE called[h]
  BY Amounts DEF Start, MayStart, IInv, TypeOK, TaskSet
<1>2. \A j \in DOMAIN tasks : j # i /\ tasks[j].stage = "created" => i < j
  <2>1. \A j \in DOMAIN tasks : j < i => j \in 1..(i - 1)
    BY TasksAre DEF IInv
  <2>2. \A j \in DOMAIN tasks : j < i => tasks[j].stage # "created"
    BY <2>1 DEF Start, MayStart
  <2>3. i \in Nat /\ \A j \in DOMAIN tasks : j \in Nat
    BY Amounts
  <2> QED BY <2>2, <2>3
<1>3. \A h \in Handlers : called'[h] # NoEvent => Before(called'[h].balance)
  BY <1>1 DEF QueueInv, WaitInv
<1>4. \A h \in Handlers :
        called[h] # NoEvent /\ called'[h] # called[h]
          => called[h].balance < called'[h].balance
  BY <1>1 DEF QueueInv, WaitInv
<1>5. ASSUME NEW j \in DOMAIN tasks, j # i, tasks[j].stage = "created",
             called'[tasks[j].handler] # NoEvent
      PROVE  called'[tasks[j].handler].balance < tasks[j].event.balance
  <2>1. tasks[j].handler \in Handlers /\ i < j
    BY <1>2, <1>5, Amounts DEF TaskSet
  <2>2. CASE tasks[j].handler = tasks[i].handler
    BY <1>1, <2>1, <2>2 DEF QueueInv, WaitInv
  <2>3. CASE tasks[j].handler # tasks[i].handler
    BY <1>1, <1>5, <2>1, <2>3 DEF QueueInv, WaitInv
  <2> QED BY <2>2, <2>3
<1> QED BY <1>3, <1>4, <1>5

\* A task runs: the others keep their order.
LEMMA RunsInOrder ==
  ASSUME IInv, QueueInv, NEW i \in DOMAIN tasks, RunTask(i), UNCHANGED service
  PROVE  /\ QueueInv'
         /\ \A h \in Handlers :
              called[h] # NoEvent /\ called'[h] # called[h]
                => called[h].balance < called'[h].balance
<1>1. UNCHANGED <<handlers, added, booked, inbox>>
  BY DEF RunTask, Start, Skip, Finish, service
<1>2. InboxInv' /\ OnceInv'
  BY <1>1 DEF QueueInv, InboxInv, OnceInv
<1>4. /\ \A h \in Handlers :
           called[h] # NoEvent /\ called'[h] # called[h]
             => called[h].balance < called'[h].balance
      /\ \A h \in Handlers : called'[h] # NoEvent => Before(called'[h].balance)
      /\ \A j \in DOMAIN tasks :
           j # i /\ tasks[j].stage = "created"
                 /\ called'[tasks[j].handler] # NoEvent
             => called'[tasks[j].handler].balance < tasks[j].event.balance
  <2>1. CASE Start(i)
    BY <2>1, StartsInOrder
  <2>2. CASE called' = called
    BY <2>2 DEF QueueInv, WaitInv
  <2> QED BY <2>1, <2>2 DEF RunTask, Skip, Finish
\* What is left of the tasks: each was one, and their order is the same.
<1> DEFINE LeftOf(j, k) == /\ tasks'[j].handler = tasks[k].handler
                           /\ tasks'[j].event = tasks[k].event
                           /\ tasks'[j].stage = "created" =>
                                k # i /\ tasks[k].stage = "created"
<1>5. /\ \A j \in DOMAIN tasks' : \E k \in DOMAIN tasks : LeftOf(j, k)
      /\ \A j, l \in DOMAIN tasks' :
           j < l => \E k, m \in DOMAIN tasks : k < m /\ LeftOf(j, k) /\ LeftOf(l, m)
  <2>1. CASE tasks' = RemoveAt(tasks, i)
    <3>1. /\ \A j \in DOMAIN tasks' :
               LET k == IF j < i THEN j ELSE j + 1
               IN  k \in DOMAIN tasks /\ k # i /\ tasks'[j] = tasks[k]
          /\ DOMAIN tasks' \subseteq Nat /\ DOMAIN tasks \subseteq Nat
      BY <2>1, EndFacts DEF IInv
    <3>2. ASSUME NEW j \in DOMAIN tasks', NEW l \in DOMAIN tasks', j < l
          PROVE  \E k, m \in DOMAIN tasks : k < m /\ LeftOf(j, k) /\ LeftOf(l, m)
      <4> DEFINE k == IF j < i THEN j ELSE j + 1
      <4> DEFINE m == IF l < i THEN l ELSE l + 1
      <4>1. k < m
        BY <3>1, <3>2
      <4>2. /\ k \in DOMAIN tasks /\ k # i /\ tasks'[j] = tasks[k]
            /\ m \in DOMAIN tasks /\ m # i /\ tasks'[l] = tasks[m]
        BY <3>1
      <4> HIDE DEF k, m
      <4> QED BY <4>1, <4>2
    <3> QED BY <3>1, <3>2
  <2>2. CASE tasks' = [tasks EXCEPT ![i].stage = "running"]
    <3>1. /\ DOMAIN tasks' = DOMAIN tasks
          /\ \A j \in DOMAIN tasks : LeftOf(j, j)
      BY <2>2, Amounts DEF TaskSet
    <3> HIDE DEF LeftOf
    <3> QED BY <3>1
  <2> QED BY <2>1, <2>2 DEF RunTask, Start, Skip, Finish, AfterEnd
<1>6. WaitInv'
  <2>1. \A j \in DOMAIN tasks' : Before(tasks'[j].event.balance)
    BY <1>5 DEF QueueInv, WaitInv
  <2>2. ASSUME NEW j \in DOMAIN tasks', NEW l \in DOMAIN tasks',
               j < l, tasks'[j].handler = tasks'[l].handler
        PROVE  tasks'[j].event.balance < tasks'[l].event.balance
    BY <1>5, <2>2 DEF QueueInv, WaitInv
  <2>3. ASSUME NEW j \in DOMAIN tasks', tasks'[j].stage = "created",
               called'[tasks'[j].handler] # NoEvent
        PROVE  called'[tasks'[j].handler].balance < tasks'[j].event.balance
    BY <1>4, <1>5, <2>3
  <2> QED BY <1>1, <1>4, <2>1, <2>2, <2>3 DEF WaitInv, Before
<1> QED BY <1>2, <1>4, <1>6 DEF QueueInv

\* close() marks tasks and forgets handlers.
LEMMA ClosesInOrder ==
  ASSUME IInv, QueueInv,
         (\E closer \in {0} \cup DOMAIN tasks : Close(closer)) \/ CloseEnds
           \/ CloseCancelled,
         UNCHANGED service
  PROVE  QueueInv' /\ called' = called
<1>1. UNCHANGED <<called, booked, inbox, added>>
  BY DEF Close, CloseEnds, CloseReturns, CloseRaises, CloseCancelled, service
<1>2. /\ DOMAIN tasks' = DOMAIN tasks
      /\ \A j \in DOMAIN tasks : /\ tasks'[j].handler = tasks[j].handler
                                 /\ tasks'[j].event = tasks[j].event
                                 /\ tasks'[j].stage = tasks[j].stage
  <2>1. ASSUME NEW closer \in {0} \cup DOMAIN tasks, Close(closer)
        PROVE  tasks' = Found(closer)
    BY <2>1 DEF Close
  <2>2. ASSUME NEW closer \in {0} \cup DOMAIN tasks, tasks' = Found(closer)
        PROVE  /\ DOMAIN tasks' = DOMAIN tasks
               /\ \A j \in DOMAIN tasks : /\ tasks'[j].handler = tasks[j].handler
                                          /\ tasks'[j].event = tasks[j].event
                                          /\ tasks'[j].stage = tasks[j].stage
    <3>1. \A j \in DOMAIN tasks : tasks[j] \in TaskSet
      BY Amounts
    <3> QED BY <2>2, <3>1 DEF Found, TaskSet
  <2>3. CASE CloseEnds
    BY <2>3 DEF CloseEnds, CloseReturns, CloseRaises
  <2>4. CASE CloseCancelled
    BY <2>4, Amounts DEF CloseCancelled, TaskSet
  <2> QED BY <2>1, <2>2, <2>3, <2>4
<1>3. OnceInv'
  <2>1. handlers' = handlers \/ handlers' = <<>>
    BY DEF Close, CloseEnds, CloseReturns, CloseRaises, CloseCancelled
  <2>2. CASE handlers' = <<>>
    <3>1. DOMAIN handlers' = {}
      BY <2>2, EmptySeq
    <3> QED BY <3>1 DEF OnceInv
  <2> QED BY <1>1, <2>1, <2>2 DEF QueueInv, OnceInv
<1>4. InboxInv' /\ WaitInv'
  BY <1>1, <1>2 DEF QueueInv, InboxInv, WaitInv, Before
<1> QED BY <1>1, <1>3, <1>4 DEF QueueInv

\* A change that is booked is later than all before it.
LEMMA BooksInOrder ==
  ASSUME IInv, QueueInv, NEW a \in AccountIds, NEW named \in BOOLEAN,
         Book(a, named)
  PROVE  QueueInv' /\ called' = called
<1> DEFINE e == [id |-> a, balance |-> booked', named |-> named]
<1> DEFINE Notices == [id : AccountIds, balance : 0..MaxAmount, named : BOOLEAN]
<1>1. /\ UNCHANGED <<tasks, called, handlers, added>>
      /\ booked' = booked + 1 /\ booked \in Nat
  BY Amounts DEF Book, dispatcher
<1>2. /\ inbox \in Seq(Notices) /\ inbox' = Append(inbox, e) /\ e \in Notices
  BY MaxAmountAssumption DEF IInv, TypeOK, Book
<1>3. /\ Len(inbox) \in Nat /\ DOMAIN inbox = 1..Len(inbox)
      /\ inbox' \in Seq(Notices) /\ Len(inbox') = Len(inbox) + 1
      /\ \A k \in 1..Len(inbox) : inbox'[k] = inbox[k]
      /\ inbox'[Len(inbox) + 1] = e
  BY <1>2, AppendProperties, LenProperties
<1>4. DOMAIN inbox' = 1..(Len(inbox) + 1)
  BY <1>3, LenProperties
<1>5. \A k \in DOMAIN inbox' : \/ k \in DOMAIN inbox /\ inbox'[k] = inbox[k]
                               \/ k = Len(inbox) + 1 /\ inbox'[k].balance = booked'
  BY <1>3, <1>4
<1> DEFINE StillBefore(b) ==
  b <= booked' /\ \A k \in DOMAIN inbox' : b < inbox'[k].balance
<1>6. \A b \in Nat : Before(b) => StillBefore(b)
  BY <1>1, <1>5 DEF Before
<1> HIDE DEF StillBefore
<1>7. InboxInv'
  <2>1. \A k \in DOMAIN inbox' : inbox'[k].balance <= booked'
    BY <1>1, <1>5, Amounts DEF QueueInv, InboxInv
  <2>2. ASSUME NEW k \in DOMAIN inbox', NEW l \in DOMAIN inbox', k < l
        PROVE  inbox'[k].balance < inbox'[l].balance
    <3>1. k \in DOMAIN inbox /\ inbox'[k] = inbox[k] /\ inbox[k].balance <= booked
      BY <1>3, <1>4, <1>5, <2>2 DEF QueueInv, InboxInv
    <3>2. CASE l \in DOMAIN inbox /\ inbox'[l] = inbox[l]
      BY <2>2, <3>1, <3>2 DEF QueueInv, InboxInv
    <3>3. CASE inbox'[l].balance = booked'
      BY <1>1, <3>1, <3>3, Amounts
    <3> QED BY <1>5, <3>2, <3>3
  <2> QED BY <2>1, <2>2 DEF InboxInv
<1>8. WaitInv'
  <2>1. \A i \in DOMAIN tasks : StillBefore(tasks[i].event.balance)
    BY <1>1, <1>6, Amounts DEF QueueInv, WaitInv
  <2>2. \A h \in Handlers : called[h] # NoEvent => StillBefore(called[h].balance)
    BY <1>1, <1>6, Amounts DEF QueueInv, WaitInv
  <2> QED BY <1>1, <2>1, <2>2 DEF QueueInv, WaitInv, Before, StillBefore
<1> QED BY <1>1, <1>7, <1>8 DEF QueueInv, OnceInv

\* An event leaves the inbox: its tasks are about a later change than all tasks
\* before them.
LEMMA EmitsInOrder ==
  ASSUME IInv, QueueInv, HandleEvent
  PROVE  QueueInv' /\ called' = called
<1> DEFINE Notices == [id : AccountIds, balance : 0..MaxAmount, named : BOOLEAN]
<1> DEFINE e == Head(inbox)
<1>1. /\ inbox \in Seq(Notices) /\ inbox # <<>> /\ inbox' = Tail(inbox)
      /\ booked' = booked
  BY DEF IInv, TypeOK, HandleEvent
<1>2. /\ Len(inbox) \in Nat \ {0} /\ e = inbox[1] /\ e \in Notices
      /\ inbox' \in Seq(Notices) /\ Len(inbox') = Len(inbox) - 1
      /\ \A k \in 1..Len(inbox') : inbox'[k] = inbox[k + 1]
  <2> HIDE DEF Notices
  <2> QED BY <1>1, HeadTailProperties, EmptySeq
<1>3. DOMAIN inbox = 1..Len(inbox) /\ DOMAIN inbox' = 1..Len(inbox')
  BY <1>1, <1>2, LenProperties
<1>4. /\ 1 \in DOMAIN inbox
      /\ \A k \in DOMAIN inbox' : /\ k + 1 \in DOMAIN inbox /\ 1 < k + 1
                                  /\ inbox'[k] = inbox[k + 1]
  BY <1>2, <1>3
<1>5. InboxInv'
  <2>1. \A k, l \in DOMAIN inbox' : k < l => k + 1 < l + 1
    BY <1>2, <1>3
  <2> QED BY <1>1, <1>4, <2>1 DEF QueueInv, InboxInv
<1> DEFINE StillBefore(b) ==
  b <= booked' /\ \A k \in DOMAIN inbox' : b < inbox'[k].balance
<1>6. /\ \A b : Before(b) => StillBefore(b) /\ b < e.balance
      /\ StillBefore(e.balance)
  BY <1>1, <1>2, <1>4 DEF Before, QueueInv, InboxInv
<1> HIDE DEF e, StillBefore
<1>7. CASE UNCHANGED dispatcher
  <2>1. UNCHANGED <<tasks, called, handlers, added>>
    BY <1>7 DEF dispatcher
  <2>2. WaitInv'
    <3>1. /\ \A i \in DOMAIN tasks : StillBefore(tasks[i].event.balance)
          /\ \A h \in Handlers : called[h] # NoEvent => StillBefore(called[h].balance)
      BY <1>6 DEF QueueInv, WaitInv
    <3> QED BY <2>1, <3>1 DEF QueueInv, WaitInv, Before, StillBefore
  <2> QED BY <1>5, <2>1, <2>2 DEF QueueInv, OnceInv
<1>8. CASE Concerns(e) /\ Emit(EventOf(e))
  <2> DEFINE event == EventOf(e)
  <2>1. event \in BalanceEvents /\ event.balance = e.balance
    <3>1. selected.id \in AccountIds
      BY <1>8 DEF Concerns, IInv, TypeOK
    <3>2. Rebalanced(e).balance = e.balance /\ e.balance \in 0..MaxAmount
      BY <1>2 DEF Rebalanced, IInv, TypeOK
    <3> QED BY <3>1, <3>2 DEF EventOf, BalanceEvents
  <2> HIDE DEF event
  <2>2. /\ DOMAIN tasks' = 1..(Len(tasks) + Len(handlers))
        /\ \A j \in 1..Len(tasks) : tasks'[j] = tasks[j]
        /\ \A k \in 1..Len(handlers) :
             tasks'[Len(tasks) + k] = Task(handlers[k], event)
    BY <1>8, <2>1, EmitFacts DEF IInv, event
  <2>3. UNCHANGED <<handlers, added, called>>
    BY <1>8 DEF Emit
  <2>4. /\ Len(tasks) \in Nat /\ DOMAIN tasks = 1..Len(tasks)
        /\ Len(handlers) \in Nat /\ DOMAIN handlers = 1..Len(handlers)
    BY TasksAre, LenProperties DEF IInv, TypeOK
  <2>5. \A j \in DOMAIN tasks' :
          \/ j \in DOMAIN tasks /\ tasks'[j] = tasks[j]
          \/ \E k \in DOMAIN handlers :
               j = Len(tasks) + k /\ tasks'[j] = Task(handlers[k], event)
    <3> SUFFICES ASSUME NEW j \in DOMAIN tasks', ~(j \in 1..Len(tasks))
                 PROVE  \E k \in 1..Len(handlers) :
                          /\ j = Len(tasks) + k
                          /\ tasks'[j] = Task(handlers[k], event)
      BY <2>2, <2>4
    <3>1. j - Len(tasks) \in 1..Len(handlers) /\ j = Len(tasks) + (j - Len(tasks))
      BY <2>2, <2>4
    <3> QED BY <2>2, <3>1
  <2>6. \A k \in DOMAIN handlers :
          /\ Task(handlers[k], event).handler = handlers[k]
          /\ Task(handlers[k], event).event.balance = e.balance
    BY <2>1 DEF Task
  <2>7. \A j \in DOMAIN tasks' : StillBefore(tasks'[j].event.balance)
    <3>1. \A j \in DOMAIN tasks : StillBefore(tasks[j].event.balance)
      BY <1>6 DEF QueueInv, WaitInv
    <3> QED BY <1>6, <2>5, <2>6, <3>1
  <2>8. \A h \in Handlers : called'[h] # NoEvent => StillBefore(called'[h].balance)
    BY <1>6, <2>3 DEF QueueInv, WaitInv
  <2>9. ASSUME NEW i \in DOMAIN tasks', NEW j \in DOMAIN tasks', i < j,
               tasks'[i].handler = tasks'[j].handler
        PROVE  tasks'[i].event.balance < tasks'[j].event.balance
    <3>1. CASE j \in DOMAIN tasks /\ tasks'[j] = tasks[j]
      <4>1. i \in DOMAIN tasks /\ tasks'[i] = tasks[i]
        BY <2>2, <2>4, <2>9, <3>1
      <4> QED BY <2>9, <3>1, <4>1 DEF QueueInv, WaitInv
    <3>2. CASE \E k \in DOMAIN handlers :
                 j = Len(tasks) + k /\ tasks'[j] = Task(handlers[k], event)
      <4>1. PICK k \in DOMAIN handlers :
              j = Len(tasks) + k /\ tasks'[j] = Task(handlers[k], event)
        BY <3>2
      <4>2. CASE i \in DOMAIN tasks /\ tasks'[i] = tasks[i]
        BY <1>6, <2>6, <4>1, <4>2 DEF QueueInv, WaitInv
      <4>3. CASE \E m \in DOMAIN handlers :
                   i = Len(tasks) + m /\ tasks'[i] = Task(handlers[m], event)
        <5>1. PICK m \in DOMAIN handlers :
                i = Len(tasks) + m /\ tasks'[i] = Task(handlers[m], event)
          BY <4>3
        <5>2. m < k
          BY <2>4, <2>9, <4>1, <5>1
        <5> QED BY <2>6, <2>9, <4>1, <5>1, <5>2 DEF QueueInv, OnceInv
      <4> QED BY <2>5, <4>2, <4>3
    <3> QED BY <2>5, <3>1, <3>2
  <2>10. ASSUME NEW j \in DOMAIN tasks', tasks'[j].stage = "created",
                called'[tasks'[j].handler] # NoEvent
         PROVE  called'[tasks'[j].handler].balance < tasks'[j].event.balance
    <3>1. CASE j \in DOMAIN tasks /\ tasks'[j] = tasks[j]
      BY <2>3, <2>10, <3>1 DEF QueueInv, WaitInv
    <3>2. CASE \E k \in DOMAIN handlers :
                 j = Len(tasks) + k /\ tasks'[j] = Task(handlers[k], event)
      <4>1. tasks'[j].handler \in Handlers /\ tasks'[j].event.balance = e.balance
        BY <2>6, <3>2, Amounts
      <4> QED BY <1>6, <2>3, <2>10, <4>1 DEF QueueInv, WaitInv
    <3> QED BY <2>5, <3>1, <3>2
  <2>11. WaitInv'
    BY <2>7, <2>8, <2>9, <2>10 DEF WaitInv, Before, StillBefore
  <2> QED BY <1>5, <2>3, <2>11 DEF QueueInv, OnceInv
<1> QED BY <1>7, <1>8 DEF HandleEvent, e

LEMMA StepsInOrder ==
  ASSUME IInv, QueueInv, [Next]_vars
  PROVE  /\ QueueInv'
         /\ \A h \in Handlers :
              called[h] # NoEvent /\ called'[h] # called[h]
                => called[h].balance < called'[h].balance
<1>1. CASE UNCHANGED <<dispatcher, booked, inbox>>
  BY <1>1 DEF dispatcher, QueueInv, InboxInv, OnceInv, WaitInv, Before
<1>2. ASSUME NEW c \in Selectors, Select(c)
      PROVE  UNCHANGED <<dispatcher, booked, inbox>>
  BY <1>2 DEF Select, Ask, Serve, SelectFails, Selected
<1>3. ASSUME NEW a \in AccountIds, NEW named \in BOOLEAN, Book(a, named)
      PROVE  QueueInv' /\ called' = called
  BY <1>3, BooksInOrder
<1>4. CASE HandleEvent
  BY <1>4, EmitsInOrder
<1>5. CASE DispatcherStep /\ UNCHANGED service
  <2>1. ASSUME NEW h \in Handlers, Add(h) \/ RemoveHandler(h)
        PROVE  QueueInv' /\ called' = called
    BY <1>5, <2>1, RegistersInOrder
  <2>2. ASSUME NEW i \in DOMAIN tasks, RunTask(i)
        PROVE  /\ QueueInv'
               /\ \A h \in Handlers :
                    called[h] # NoEvent /\ called'[h] # called[h]
                      => called[h].balance < called'[h].balance
    BY <1>5, <2>2, RunsInOrder
  <2>3. CASE \/ \E closer \in {0} \cup DOMAIN tasks : Close(closer)
             \/ CloseEnds \/ CloseCancelled
    BY <1>5, <2>3, ClosesInOrder
  <2> QED BY <1>5, <2>1, <2>2, <2>3 DEF DispatcherStep
<1>6. CASE ConnectionEnds
  <2>1. DOMAIN inbox' = {} /\ UNCHANGED <<dispatcher, booked>>
    BY <1>6, EmptySeq DEF ConnectionEnds
  <2>2. OnceInv' /\ InboxInv'
    BY <2>1 DEF dispatcher, QueueInv, OnceInv, InboxInv
  <2>3. \A b : Before(b) => Before(b)'
    BY <2>1 DEF Before
  <2>4. WaitInv'
    BY <2>1, <2>3 DEF dispatcher, QueueInv, WaitInv
  <2> QED BY <2>1, <2>2, <2>4 DEF dispatcher, QueueInv
<1> QED BY <1>1, <1>2, <1>3, <1>4, <1>5, <1>6 DEF Next, vars

\* Whatever handlers do, and whenever they are registered, removed or cancelled,
\* no handler is called with a change that is older than its last one.
THEOREM Ordered == Spec => HeardInOrder
<1>1. Init => QueueInv
  <2> SUFFICES ASSUME Init PROVE QueueInv
    OBVIOUS
  <2>1. DOMAIN tasks = {} /\ DOMAIN inbox = {} /\ DOMAIN handlers = {}
    BY EmptySeq DEF Init, DispatcherInit
  <2>2. \A h \in Handlers : called[h] = NoEvent
    BY DEF Init, DispatcherInit
  <2> QED BY <2>1, <2>2 DEF QueueInv, InboxInv, OnceInv, WaitInv
<1>2. IInv /\ QueueInv /\ [Next]_vars => QueueInv'
  BY StepsInOrder
<1>3. IInv /\ QueueInv /\ [Next]_vars
        => [\A h \in Handlers :
              called[h] # NoEvent /\ called'[h] # called[h]
                => called[h].balance < called'[h].balance]_vars
  BY StepsInOrder
<1> QED BY <1>1, <1>2, <1>3, Invariance, PTL DEF Spec, HeardInOrder
=============================================================================
