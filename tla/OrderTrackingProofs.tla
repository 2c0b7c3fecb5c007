------------------------- MODULE OrderTrackingProofs -------------------------
(***************************************************************************)
(* Theorems about OrderTracking, for any sets of orders, tasks and terminal *)
(* statuses.                                                               *)
(***************************************************************************)
EXTENDS OrderTracking, SequenceTheorems, TLAPS

-----------------------------------------------------------------------------
(***************************************************************************)
(* Statuses and records.                                                   *)
(***************************************************************************)

\* A terminal status is final.
LEMMA TerminalIsFinal ==
  ASSUME NEW s \in Terminal
  PROVE  s \in Statuses /\ s # "none" /\ LegalAfter(s) = {s}
BY TerminalAssumption DEF Statuses, LegalAfter

\* A legal move ends in a status.
LEMMA LegalMovesEndInStatuses ==
  ASSUME NEW s \in Statuses
  PROVE  LegalAfter(s) \subseteq Statuses
BY DEF LegalAfter, Statuses

\* "none" is no status.
LEMMA NoneIsNoStatus == "none" \notin Statuses
BY TerminalAssumption DEF Statuses

\* Merging two records gives one with the new status.
LEMMA MergedIsRecord ==
  ASSUME NEW old \in Records \cup {NoRecord}, NEW new \in Records
  PROVE  /\ Merged(old, new) \in Records
         /\ Merged(old, new).status = new.status
         /\ new.profit => Merged(old, new).profit
BY DEF Merged, Records, NoRecord, Record

-----------------------------------------------------------------------------
(***************************************************************************)
(* The inductive invariant.                                                *)
(***************************************************************************)

\* A record of an order with these statuses that is true, or was at some time.
SoundIn(statuses, record) ==
  /\ record \in Records
  /\ record.status \in statuses
  /\ record.profit => IsTerminal(record)
Sound(o, record) == SoundIn(past[o], record)

\* The broker's status is among those the order has had, and a terminal one
\* is the last.
BrokerInv ==
  \A o \in Orders :
    /\ broker[o] # "none" => broker[o] \in past[o]
    /\ \A s \in past[o] : s \in Terminal => broker[o] = s

\* Every record the client holds, or that is on its way to it, is sound.
RecordInv ==
  /\ \A o \in Orders : tracked[o] = NoRecord \/ Sound(o, tracked[o])
  /\ \A i \in 1..Len(events) : Sound(events[i].order, events[i].record)
  /\ \A t \in Tasks, o \in Orders :
       page[t][o] = NoRecord \/ Sound(o, page[t][o])

IInv == TypeOK /\ BrokerInv /\ RecordInv /\ OutcomesAreTrue

\* The invariant holds before any order exists.
LEMMA InitHolds == ASSUME Init PROVE IInv
<1> USE DEF Init, EmptyPage, NoRecord, Record, Ending, Pending
<1>1. TypeOK
  BY DEF TypeOK, Records
<1>2. BrokerInv /\ RecordInv /\ OutcomesAreTrue
  BY DEF BrokerInv, RecordInv, OutcomesAreTrue
<1> QED
  BY <1>1, <1>2 DEF IInv

-----------------------------------------------------------------------------
(***************************************************************************)
(* Applying records.                                                       *)
(***************************************************************************)

\* Rows that are sound and accepted leave every tracker sound, with a legal
\* move at most.
LEMMA ApplyIsSound ==
  ASSUME IInv, UNCHANGED past,
         NEW rows \in [Orders -> Records \cup {NoRecord}],
         NEW applied \in SUBSET Orders,
         \A o \in applied : Sound(o, rows[o]) /\ Accepts(tracked[o], rows[o]),
         Apply(rows, applied)
  PROVE  /\ tracked' \in [Orders -> Records \cup {NoRecord}]
         /\ \A o \in Orders : tracked'[o] = NoRecord \/ Sound(o, tracked'[o])
         /\ \A o \in Orders :
              tracked'[o] = tracked[o]
                \/ /\ tracked'[o].status \in past[o]
                   /\ \/ tracked[o].status = "none"
                      \/ tracked'[o].status \in LegalAfter(tracked[o].status)
         /\ \A o \in Orders : tracked[o].profit => tracked'[o].profit
<1>1. \A o \in Orders : tracked[o] \in Records \cup {NoRecord}
  BY DEF IInv, TypeOK
<1>2. ASSUME NEW o \in applied
      PROVE  LET m == Merged(tracked[o], rows[o])
             IN  /\ m \in Records /\ m.status = rows[o].status
                 /\ Sound(o, m)
                 /\ tracked[o].profit => m.profit
  <2> DEFINE m == Merged(tracked[o], rows[o])
  <2>1. m \in Records /\ m.status = rows[o].status
    BY <1>1, <1>2, MergedIsRecord DEF SoundIn, Sound
  <2>2. tracked[o].profit => m.profit /\ IsTerminal(m)
    <3> SUFFICES ASSUME tracked[o].profit PROVE m.profit /\ IsTerminal(m)
      OBVIOUS
    <3>1. tracked[o] # NoRecord
      BY DEF NoRecord, Record
    <3>2. tracked[o] \in Records /\ IsTerminal(tracked[o])
      BY <1>1, <3>1, <1>2 DEF IInv, RecordInv, SoundIn, Sound
    <3>3. tracked[o].status # "none"
          /\ LegalAfter(tracked[o].status) = {tracked[o].status}
      BY <3>2, TerminalIsFinal DEF IsTerminal
    <3>4. m.status = tracked[o].status
      BY <2>1, <3>3, <1>2 DEF Accepts
    <3>5. m.profit
      BY <3>2, <1>2 DEF Merged, Records, SoundIn, Sound
    <3> QED
      BY <3>2, <3>4, <3>5 DEF IsTerminal
  <2>3. m.profit => IsTerminal(m)
    <3>1. CASE IsTerminal(tracked[o]) /\ tracked[o].profit
      BY <3>1, <2>2
    <3>2. CASE IsTerminal(tracked[o]) /\ ~tracked[o].profit
      BY <3>2, <2>1, <1>1, <1>2
         DEF Merged, Records, NoRecord, Record, SoundIn, Sound, IsTerminal
    <3>3. CASE ~IsTerminal(tracked[o])
      BY <3>3, <1>2 DEF Merged, SoundIn, Sound
    <3> QED
      BY <3>1, <3>2, <3>3
  <2>4. Sound(o, m)
    BY <2>1, <2>3, <1>2 DEF SoundIn, Sound
  <2> QED
    BY <2>1, <2>2, <2>4
<1>3. \A o \in Orders : tracked'[o] = IF o \in applied
                                        THEN Merged(tracked[o], rows[o])
                                        ELSE tracked[o]
  BY DEF Apply
<1>4. tracked' \in [Orders -> Records \cup {NoRecord}]
  BY <1>1, <1>2, <1>3 DEF Apply
<1>5. ASSUME NEW o \in Orders
      PROVE  tracked'[o] = NoRecord \/ Sound(o, tracked'[o])
  BY <1>2, <1>3 DEF IInv, RecordInv
<1>6. ASSUME NEW o \in Orders, tracked'[o] # tracked[o]
      PROVE  /\ tracked'[o].status \in past[o]
             /\ \/ tracked[o].status = "none"
                \/ tracked'[o].status \in LegalAfter(tracked[o].status)
  BY <1>2, <1>3, <1>6 DEF SoundIn, Sound, Accepts
<1>7. ASSUME NEW o \in Orders, tracked[o].profit
      PROVE  tracked'[o].profit
  BY <1>2, <1>3, <1>7
<1> QED
  BY <1>4, <1>5, <1>6, <1>7

\* What a step that touches only trackers, events, pages and tasks has to show.
LEMMA SoundStep ==
  ASSUME IInv, TypeOK', UNCHANGED <<broker, past>>,
         \A o \in Orders : tracked'[o] = NoRecord \/ Sound(o, tracked'[o]),
         \A i \in 1..Len(events') : Sound(events'[i].order, events'[i].record),
         \A t \in Tasks, o \in Orders :
           page'[t][o] = NoRecord \/ Sound(o, page'[t][o]),
         OutcomesAreTrue'
  PROVE  IInv'
<1>1. \A o : past'[o] = past[o]
  OBVIOUS
<1>2. BrokerInv'
  BY DEF IInv, BrokerInv
<1>3. RecordInv'
  BY <1>1 DEF RecordInv, Sound
<1> QED
  BY <1>2, <1>3 DEF IInv

-----------------------------------------------------------------------------
(***************************************************************************)
(* The broker and the WebSocket.                                           *)
(***************************************************************************)

\* A move of the broker, announced or not, leaves everything on its way sound.
LEMMA MoveKeepsIInv ==
  ASSUME IInv, NEW o \in Orders, NEW status \in Statuses, Move(o, status)
  PROVE  IInv'
<1> USE DEF Move, Life!BrokerMoves
<1>1. status \in LegalAfter(broker[o]) \ {broker[o]} \/ broker[o] = "none"
  BY DEF Life!LegalAfter, LegalAfter, Life!Statuses, Statuses
<1>2. /\ broker \in [Orders -> Statuses \cup {"none"}]
      /\ past \in [Orders -> SUBSET Statuses]
      /\ events \in Seq([order : Orders, record : Records])
  BY DEF IInv, TypeOK
<1>3. \A p \in Orders : broker[p] \notin Terminal \/ broker'[p] = broker[p]
  BY <1>1, <1>2, TerminalIsFinal
<1>4. BrokerInv'
  <2> SUFFICES ASSUME NEW p \in Orders
               PROVE  /\ broker'[p] # "none" => broker'[p] \in past'[p]
                      /\ \A s \in past'[p] : s \in Terminal => broker'[p] = s
    BY DEF BrokerInv
  <2>1. CASE p = o
    BY <2>1, <1>2, <1>3 DEF IInv, BrokerInv
  <2>2. CASE p # o
    BY <2>2, <1>2 DEF IInv, BrokerInv
  <2> QED
    BY <2>1, <2>2
<1>5. \A p \in Orders : \A r : SoundIn(past[p], r) => SoundIn(past'[p], r)
  BY <1>2 DEF SoundIn, Sound, IsTerminal
<1>6. \A r \in RecordsWith(status) : SoundIn(past'[o], r)
  BY <1>2 DEF RecordsWith, SoundIn, Sound, IsTerminal
<1>7. /\ events' \in Seq([order : Orders, record : Records])
      /\ \A i \in 1..Len(events') :
           SoundIn(past'[events'[i].order], events'[i].record)
  <2>1. \A i \in 1..Len(events) :
          /\ events[i].order \in Orders
          /\ SoundIn(past'[events[i].order], events[i].record)
    <3> SUFFICES ASSUME NEW i \in 1..Len(events)
                 PROVE  /\ events[i].order \in Orders
                        /\ SoundIn(past'[events[i].order], events[i].record)
      OBVIOUS
    <3>1. events[i] \in [order : Orders, record : Records]
      BY <1>2, ElementOfSeq
    <3>2. SoundIn(past[events[i].order], events[i].record)
      BY DEF IInv, RecordInv, Sound
    <3>3. events[i].order \in Orders
      BY <3>1
    <3>4. past[events[i].order] \subseteq past'[events[i].order]
      BY <3>3, <1>2
    <3>5. SoundIn(past'[events[i].order], events[i].record)
      BY <3>2, <3>4 DEF SoundIn
    <3> QED
      BY <3>3, <3>5
  <2>2. CASE UNCHANGED events
    BY <2>1, <2>2, <1>2, events' = events
  <2>3. ASSUME NEW r \in RecordsWith(status),
               events' = Append(events, [order |-> o, record |-> r])
        PROVE  /\ events' \in Seq([order : Orders, record : Records])
               /\ \A i \in 1..Len(events') :
                    SoundIn(past'[events'[i].order], events'[i].record)
    <3> DEFINE e == [order |-> o, record |-> r]
    <3>1. e \in [order : Orders, record : Records]
      BY DEF RecordsWith
    <3>2. /\ Len(events') = Len(events) + 1
          /\ \A i \in 1..Len(events) : events'[i] = events[i]
          /\ events'[Len(events) + 1] = e
      BY <2>3, <3>1, <1>2
    <3>3. events' \in Seq([order : Orders, record : Records])
      BY <2>3, <3>1, <1>2
    <3>4. ASSUME NEW i \in 1..Len(events')
          PROVE  SoundIn(past'[events'[i].order], events'[i].record)
      <4>1. CASE i \in 1..Len(events)
        BY <4>1, <3>2, <2>1
      <4>2. CASE i = Len(events) + 1
        <5>1. events'[i].order = o /\ events'[i].record = r
          BY <4>2, <3>2
        <5> QED
          BY <5>1, <1>6
      <4> QED
        BY <4>1, <4>2, <3>2, <1>2
    <3> QED
      BY <3>3, <3>4
  <2> QED
    BY <2>2, <2>3
<1>8. RecordInv'
  BY <1>5, <1>7 DEF IInv, RecordInv, Sound
<1>9. TypeOK'
  BY <1>2, <1>7 DEF IInv, TypeOK
<1>10. OutcomesAreTrue'
  BY <1>3 DEF IInv, TypeOK, OutcomesAreTrue
<1> QED
  BY <1>4, <1>8, <1>9, <1>10 DEF IInv

\* The effect of a step on the trackers: each moves legally to a status its
\* order has had, or not at all, and keeps a known profit.
LegalLearning ==
  /\ \A o \in Orders :
       tracked'[o] = tracked[o]
         \/ /\ tracked'[o].status \in past[o]
            /\ \/ tracked[o].status = "none"
               \/ tracked'[o].status \in LegalAfter(tracked[o].status)
  /\ \A o \in Orders : tracked[o].profit => tracked'[o].profit

\* handle_event applies a sound record, or loses the connection.
LEMMA HandleEventIsSound ==
  ASSUME IInv, HandleEvent
  PROVE  IInv' /\ LegalLearning
<1> USE DEF HandleEvent
<1>1. /\ events \in Seq([order : Orders, record : Records])
      /\ tracked \in [Orders -> Records \cup {NoRecord}]
  BY DEF IInv, TypeOK
<1>2. OutcomesAreTrue'
  BY DEF IInv, OutcomesAreTrue
<1>3. \A t \in Tasks, o \in Orders :
        page'[t][o] = NoRecord \/ Sound(o, page'[t][o])
  BY DEF IInv, RecordInv
<1> DEFINE o == Head(events).order
           new == Head(events).record
           rows == [EmptyPage EXCEPT ![o] = new]
<1>4. /\ 1 \in 1..Len(events) /\ events[1] = Head(events)
      /\ Head(events) \in [order : Orders, record : Records]
  <2>1. Len(events) \in Nat /\ Len(events) # 0
    BY <1>1, EmptySeq
  <2>2. events[1] = Head(events)
    BY <1>1
  <2>3. 1 \in 1..Len(events)
    BY <2>1
  <2>4. events[1] \in [order : Orders, record : Records]
    BY <2>3, <1>1, ElementOfSeq, Zenon
  <2> QED
    BY <2>2, <2>3, <2>4, Zenon
<1>5. o \in Orders /\ new \in Records /\ Sound(o, new)
  BY <1>4 DEF IInv, RecordInv
<1>6. CASE Accepts(tracked[o], new)
  <2>1. Apply(rows, {o}) /\ events' = Tail(events) /\ UNCHANGED link
    BY <1>6
  <2>2. rows \in [Orders -> Records \cup {NoRecord}] /\ rows[o] = new
    BY <1>5 DEF EmptyPage
  <2>3. /\ tracked' \in [Orders -> Records \cup {NoRecord}]
        /\ \A q \in Orders : tracked'[q] = NoRecord \/ Sound(q, tracked'[q])
        /\ LegalLearning
    <3> HIDE DEF o, new, rows
    <3> QED
      BY <2>1, <2>2, <1>5, <1>6, ApplyIsSound DEF LegalLearning
  <2>4. /\ events' \in Seq([order : Orders, record : Records])
        /\ Len(events') = Len(events) - 1
        /\ \A i \in 1..Len(events') : events'[i] = events[i + 1]
    BY <2>1, <1>1
  <2>5. TypeOK'
    BY <2>1, <2>3, <2>4 DEF IInv, TypeOK
  <2>6. \A i \in 1..Len(events') : Sound(events'[i].order, events'[i].record)
    <3>1. \A i \in 1..Len(events') : i + 1 \in 1..Len(events)
      BY <2>4, <1>1
    <3> QED
      BY <3>1, <2>4 DEF IInv, RecordInv
  <2> QED
    BY <2>3, <2>5, <2>6, <1>2, <1>3, SoundStep
<1>7. CASE ~Accepts(tracked[o], new)
  <2>1. events' = <<>> /\ link' = FALSE /\ UNCHANGED tracked
    BY <1>7
  <2>2. TypeOK'
    <3>1. events' \in Seq([order : Orders, record : Records])
      BY <2>1
    <3> QED
      BY <2>1, <3>1 DEF IInv, TypeOK
  <2>3. \A i \in 1..Len(events') : Sound(events'[i].order, events'[i].record)
    BY <2>1
  <2>4. \A q \in Orders : tracked'[q] = NoRecord \/ Sound(q, tracked'[q])
    BY <2>1 DEF IInv, RecordInv
  <2> QED
    BY <2>1, <2>2, <2>3, <2>4, <1>2, <1>3, SoundStep DEF LegalLearning
<1> QED
  BY <1>6, <1>7

\* A lost connection takes its events with it.
LEMMA LinkIsSound ==
  ASSUME IInv, LinkDown \/ LinkUp
  PROVE  IInv' /\ LegalLearning
<1> USE DEF LinkDown, LinkUp
<1>1. TypeOK'
  <2>1. events' = events \/ events' = <<>>
    OBVIOUS
  <2>2. events \in Seq([order : Orders, record : Records])
    BY DEF IInv, TypeOK
  <2>3. <<>> \in Seq([order : Orders, record : Records])
    OBVIOUS
  <2>4. events' \in Seq([order : Orders, record : Records])
    BY <2>1, <2>2, <2>3, Zenon
  <2> QED
    BY <2>4 DEF IInv, TypeOK
<1>2. /\ \A o \in Orders : tracked'[o] = NoRecord \/ Sound(o, tracked'[o])
      /\ \A t \in Tasks, o \in Orders :
           page'[t][o] = NoRecord \/ Sound(o, page'[t][o])
  BY DEF IInv, RecordInv
<1>3. \A i \in 1..Len(events') : Sound(events'[i].order, events'[i].record)
  BY DEF IInv, RecordInv
<1>4. OutcomesAreTrue'
  BY DEF IInv, OutcomesAreTrue
<1> QED
  BY <1>1, <1>2, <1>3, <1>4, SoundStep DEF LegalLearning

-----------------------------------------------------------------------------
(***************************************************************************)
(* The tasks.                                                              *)
(***************************************************************************)

\* A sound terminal record has the broker's final status.
LEMMA SettledIsTrue ==
  ASSUME IInv, NEW o \in Orders, NEW record, Sound(o, record),
         IsTerminal(record)
  PROVE  broker[o] \in Terminal /\ record.status = broker[o]
BY DEF IInv, BrokerInv, Sound, SoundIn, IsTerminal

\* The broker's answer is sound when it is read.
LEMMA ServeIsSound ==
  ASSUME IInv, NEW t \in Tasks, Serve(t)
  PROVE  IInv' /\ LegalLearning
<1> USE DEF Serve
<1>1. PICK p \in [Orders -> Records \cup {NoRecord}] :
        /\ \A o \in Orders :
             \/ p[o] = NoRecord
             \/ broker[o] # "none" /\ p[o] \in RecordsWith(broker[o])
        /\ page' = [page EXCEPT ![t] = p]
  OBVIOUS
<1>2. TypeOK'
  BY <1>1 DEF IInv, TypeOK
<1>3. \A o \in Orders : p[o] = NoRecord \/ Sound(o, p[o])
  BY <1>1 DEF IInv, BrokerInv, RecordsWith, Sound, SoundIn
<1>4. \A u \in Tasks, o \in Orders :
        page'[u][o] = NoRecord \/ Sound(o, page'[u][o])
  BY <1>1, <1>3 DEF IInv, TypeOK, RecordInv
<1>5. /\ \A o \in Orders : tracked'[o] = NoRecord \/ Sound(o, tracked'[o])
      /\ \A i \in 1..Len(events') :
           Sound(events'[i].order, events'[i].record)
  BY DEF IInv, RecordInv
<1>6. OutcomesAreTrue'
  BY DEF IInv, OutcomesAreTrue
<1> QED
  BY <1>2, <1>4, <1>5, <1>6, SoundStep DEF LegalLearning

\* Starting a call, or asking REST at a deadline, touches no record.
LEMMA SuspensionIsSound ==
  ASSUME IInv, NEW t \in Tasks, List(t) \/ Wait(t) \/ Deadline(t)
  PROVE  IInv' /\ LegalLearning
<1> USE DEF List, Wait, Deadline, Ask, Watch
<1>1. TypeOK'
  BY DEF IInv, TypeOK
<1>2. /\ \A o \in Orders : tracked'[o] = NoRecord \/ Sound(o, tracked'[o])
      /\ \A i \in 1..Len(events') :
           Sound(events'[i].order, events'[i].record)
      /\ \A u \in Tasks, o \in Orders :
           page'[u][o] = NoRecord \/ Sound(o, page'[u][o])
  BY DEF IInv, RecordInv
<1>3. OutcomesAreTrue'
  BY DEF IInv, OutcomesAreTrue
<1> QED
  BY <1>1, <1>2, <1>3, SoundStep DEF LegalLearning

\* Outcomes stay true when the only new one is a true settlement or none.
LEMMA EndIsTrue ==
  ASSUME IInv, UNCHANGED <<broker, past, target>>,
         NEW t \in Tasks, NEW kind, NEW o, NEW record,
         outcome' = [outcome EXCEPT ![t] = Ending(kind, o, record)],
         kind = "settled" => Sound(target[t], record) /\ IsTerminal(record)
  PROVE  OutcomesAreTrue'
<1> SUFFICES ASSUME NEW u \in Tasks, outcome'[u].kind = "settled"
             PROVE  /\ broker[target[u]] \in Terminal
                    /\ outcome'[u].record.status = broker[target[u]]
  BY DEF OutcomesAreTrue
<1>1. outcome \in [Tasks -> [kind : {Pending, "listed", "settled", "timeout",
                                    "unknown", "protocol", "rest"},
                            order : Orders,
                            record : Records \cup {NoRecord}]]
      /\ target \in [Tasks -> Orders]
  BY DEF IInv, TypeOK
<1>2. CASE u = t
  <2>1. outcome'[u].kind = kind /\ outcome'[u].record = record
    BY <1>1, <1>2 DEF Ending
  <2> QED
    BY <2>1, <1>1, <1>2, SettledIsTrue
<1>3. CASE u # t
  BY <1>1, <1>3 DEF IInv, OutcomesAreTrue
<1> QED
  BY <1>2, <1>3

\* A page is taken off the wire: what is left is sound.
LEMMA PageTakenIsSound ==
  ASSUME IInv, UNCHANGED <<past, events>>, NEW t \in Tasks,
         page' = [page EXCEPT ![t] = EmptyPage]
  PROVE  /\ page' \in [Tasks -> [Orders -> Records \cup {NoRecord}]]
         /\ \A u \in Tasks, o \in Orders :
              page'[u][o] = NoRecord \/ Sound(o, page'[u][o])
         /\ \A i \in 1..Len(events') :
              Sound(events'[i].order, events'[i].record)
BY DEF IInv, TypeOK, RecordInv, EmptyPage

\* A whole page is applied, and reconciliation settles only what it settles.
LEMMA ApplyPageIsSound ==
  ASSUME IInv, NEW t \in Tasks, ApplyPage(t)
  PROVE  IInv' /\ LegalLearning
<1> USE DEF ApplyPage
<1>1. /\ page \in [Tasks -> [Orders -> Records \cup {NoRecord}]]
      /\ tracked \in [Orders -> Records \cup {NoRecord}]
      /\ target \in [Tasks -> Orders]
      /\ stage' \in [Tasks -> {"idle", "asked", "served", "watching", "done"}]
  BY DEF IInv, TypeOK, End, Watch
<1>2. \A o \in RowsOf(t) :
        Sound(o, page[t][o]) /\ Accepts(tracked[o], page[t][o])
  BY DEF IInv, RecordInv, RowsOf, Refused
<1>3. /\ tracked' \in [Orders -> Records \cup {NoRecord}]
      /\ \A o \in Orders : tracked'[o] = NoRecord \/ Sound(o, tracked'[o])
      /\ LegalLearning
  <2>1. page[t] \in [Orders -> Records \cup {NoRecord}]
        /\ RowsOf(t) \in SUBSET Orders
    BY <1>1 DEF RowsOf
  <2> QED
    BY <1>2, <2>1, ApplyIsSound DEF LegalLearning
<1>4. /\ Found(t) \in Records \cup {NoRecord}
      /\ Found(t) = NoRecord \/ Sound(target[t], Found(t))
  BY <1>1 DEF Found, IInv, RecordInv
<1>5. ASSUME NEW kind \in {"listed", "unknown", "settled", "timeout"},
             NEW record \in Records \cup {NoRecord},
             End(t, kind, target[t], record),
             kind = "settled" => Sound(target[t], record) /\ IsTerminal(record)
      PROVE  TypeOK' /\ OutcomesAreTrue'
  <2>1. outcome' = [outcome EXCEPT ![t] = Ending(kind, target[t], record)]
    BY <1>5 DEF End
  <2>2. OutcomesAreTrue'
    BY <2>1, <1>5, EndIsTrue
  <2>3. page' \in [Tasks -> [Orders -> Records \cup {NoRecord}]]
    BY PageTakenIsSound
  <2>4. TypeOK'
    BY <2>1, <2>3, <1>1, <1>3 DEF IInv, TypeOK, Ending
  <2> QED
    BY <2>2, <2>4
<1>6. ASSUME Watch(t) PROVE TypeOK' /\ OutcomesAreTrue'
  <2>1. OutcomesAreTrue'
    BY <1>6 DEF Watch, IInv, OutcomesAreTrue
  <2>2. page' \in [Tasks -> [Orders -> Records \cup {NoRecord}]]
    BY PageTakenIsSound
  <2>3. TypeOK'
    BY <2>2, <1>1, <1>3, <1>6 DEF IInv, TypeOK, Watch
  <2> QED
    BY <2>1, <2>3
<1>7. NoRecord \in Records \cup {NoRecord}
  OBVIOUS
<1>8. TypeOK' /\ OutcomesAreTrue'
  <2>1. CASE purpose[t] = "list" /\ End(t, "listed", target[t], NoRecord)
    BY <2>1, <1>5, <1>7
  <2>2. CASE purpose[t] = "find" /\ Found(t) = NoRecord
    BY <2>2, <1>5, <1>7
  <2>3. CASE purpose[t] = "find" /\ Found(t) # NoRecord
    BY <2>3, <1>6
  <2>4. CASE purpose[t] = "reconcile"
    <3> DEFINE kind == IF Settles(Found(t)) THEN "settled" ELSE "timeout"
    <3>1. End(t, kind, target[t], Found(t))
      BY <2>4
    <3>2. kind = "settled"
            => Sound(target[t], Found(t)) /\ IsTerminal(Found(t))
      BY <1>4, TerminalAssumption DEF Settles, IsTerminal, NoRecord, Record
    <3>3. kind \in {"listed", "unknown", "settled", "timeout"}
      OBVIOUS
    <3> HIDE DEF kind
    <3> QED
      BY <3>1, <3>2, <3>3, <1>4, <1>5
  <2> QED
    BY <2>1, <2>2, <2>3, <2>4
<1> QED
  BY <1>3, <1>8, PageTakenIsSound, SoundStep

\* A page cut short by a refused row leaves the rows before it applied.
LEMMA ApplyFailsIsSound ==
  ASSUME IInv, NEW t \in Tasks, ApplyFails(t)
  PROVE  IInv' /\ LegalLearning
<1> USE DEF ApplyFails
<1>1. PICK bad \in Refused(t), before \in SUBSET (RowsOf(t) \ Refused(t)) :
        Apply(page[t], before) /\ End(t, "protocol", bad, NoRecord)
  OBVIOUS
<1>2. /\ bad \in Orders /\ before \in SUBSET Orders
      /\ \A o \in before :
           Sound(o, page[t][o]) /\ Accepts(tracked[o], page[t][o])
      /\ page[t] \in [Orders -> Records \cup {NoRecord}]
  BY <1>1 DEF IInv, TypeOK, RecordInv, RowsOf, Refused
<1>3. /\ tracked' \in [Orders -> Records \cup {NoRecord}]
      /\ \A o \in Orders : tracked'[o] = NoRecord \/ Sound(o, tracked'[o])
      /\ LegalLearning
  BY <1>1, <1>2, ApplyIsSound DEF LegalLearning
<1>4. outcome' = [outcome EXCEPT ![t] = Ending("protocol", bad, NoRecord)]
  BY <1>1 DEF End
<1>5. OutcomesAreTrue'
  BY <1>4, EndIsTrue
<1>6. TypeOK'
  <2>1. stage' \in [Tasks -> {"idle", "asked", "served", "watching", "done"}]
    BY <1>1 DEF IInv, TypeOK, End
  <2>2. Ending("protocol", bad, NoRecord)
          \in [kind : {Pending, "listed", "settled", "timeout",
                      "unknown", "protocol", "rest"},
              order : Orders, record : Records \cup {NoRecord}]
    BY <1>2 DEF Ending
  <2>3. outcome' \in [Tasks -> [kind : {Pending, "listed", "settled",
                                       "timeout", "unknown", "protocol",
                                       "rest"},
                               order : Orders,
                               record : Records \cup {NoRecord}]]
    BY <1>4, <2>2 DEF IInv, TypeOK
  <2>4. page' \in [Tasks -> [Orders -> Records \cup {NoRecord}]]
    BY PageTakenIsSound
  <2> QED
    BY <2>1, <2>3, <2>4, <1>3 DEF IInv, TypeOK
<1> QED
  BY <1>3, <1>5, <1>6, PageTakenIsSound, SoundStep

\* A failed request, and a wait that sees a terminal record.
LEMMA EndingIsSound ==
  ASSUME IInv, NEW t \in Tasks, RestFails(t) \/ Settle(t)
  PROVE  IInv' /\ LegalLearning
<1>1. PICK kind \in {"rest", "settled"},
           record \in {NoRecord, tracked[target[t]]} :
        /\ End(t, kind, target[t], record)
        /\ kind = "settled" => /\ record = tracked[target[t]]
                               /\ IsTerminal(record)
  BY DEF RestFails, Settle
<1>2. UNCHANGED <<broker, past, tracked, events, link, purpose, target, page>>
  BY DEF RestFails, Settle
<1>3. /\ target[t] \in Orders
      /\ tracked \in [Orders -> Records \cup {NoRecord}]
      /\ record \in Records \cup {NoRecord}
  BY DEF IInv, TypeOK
<1>4. kind = "settled" => Sound(target[t], record)
  <2> SUFFICES ASSUME kind = "settled" PROVE Sound(target[t], record)
    OBVIOUS
  <2>1. record = tracked[target[t]] /\ IsTerminal(record)
    BY <1>1
  <2>2. record # NoRecord
    BY <2>1, TerminalAssumption DEF IsTerminal, NoRecord, Record
  <2> QED
    BY <2>1, <2>2, <1>3 DEF IInv, RecordInv
<1>5. outcome' = [outcome EXCEPT ![t] = Ending(kind, target[t], record)]
  BY <1>1 DEF End
<1>6. OutcomesAreTrue'
  BY <1>1, <1>2, <1>4, <1>5, EndIsTrue
<1>7. TypeOK'
  <2>1. stage' \in [Tasks -> {"idle", "asked", "served", "watching", "done"}]
    BY <1>1 DEF IInv, TypeOK, End
  <2>2. Ending(kind, target[t], record)
          \in [kind : {Pending, "listed", "settled", "timeout",
                      "unknown", "protocol", "rest"},
              order : Orders, record : Records \cup {NoRecord}]
    BY <1>3 DEF Ending
  <2>3. outcome' \in [Tasks -> [kind : {Pending, "listed", "settled",
                                       "timeout", "unknown", "protocol",
                                       "rest"},
                               order : Orders,
                               record : Records \cup {NoRecord}]]
    BY <1>5, <2>2 DEF IInv, TypeOK
  <2> QED
    BY <1>2, <2>1, <2>3 DEF IInv, TypeOK
<1>8. /\ \A o \in Orders : tracked'[o] = NoRecord \/ Sound(o, tracked'[o])
      /\ \A i \in 1..Len(events') :
           Sound(events'[i].order, events'[i].record)
      /\ \A u \in Tasks, o \in Orders :
           page'[u][o] = NoRecord \/ Sound(o, page'[u][o])
  BY <1>2 DEF IInv, RecordInv, Sound
<1> QED
  BY <1>2, <1>6, <1>7, <1>8, SoundStep DEF LegalLearning
-----------------------------------------------------------------------------
(***************************************************************************)
(* The theorems.                                                           *)
(***************************************************************************)

\* Every step keeps the invariant, and is the broker's or legal learning.
LEMMA StepIsSound ==
  ASSUME IInv, Next
  PROVE  /\ IInv'
         /\ \/ LegalLearning /\ UNCHANGED <<broker, past>>
            \/ /\ \E o \in Orders, status \in Statuses :
                    Life!BrokerMoves(o, status)
               /\ UNCHANGED tracked
<1>1. ASSUME NEW p \in Orders, NEW s \in Statuses, Move(p, s)
      PROVE  IInv' /\ Life!BrokerMoves(p, s) /\ UNCHANGED tracked
  BY <1>1, MoveKeepsIInv DEF Move
<1>2. ASSUME HandleEvent PROVE IInv' /\ LegalLearning
  BY <1>2, HandleEventIsSound
<1>3. ASSUME LinkDown \/ LinkUp PROVE IInv' /\ LegalLearning
  BY <1>3, LinkIsSound
<1>4. ASSUME NEW t \in Tasks, List(t) \/ Wait(t) \/ Deadline(t)
      PROVE  IInv' /\ LegalLearning
  BY <1>4, SuspensionIsSound
<1>5. ASSUME NEW t \in Tasks, Serve(t) PROVE IInv' /\ LegalLearning
  BY <1>5, ServeIsSound
<1>6. ASSUME NEW t \in Tasks, ApplyPage(t) PROVE IInv' /\ LegalLearning
  BY <1>6, ApplyPageIsSound
<1>7. ASSUME NEW t \in Tasks, ApplyFails(t) PROVE IInv' /\ LegalLearning
  BY <1>7, ApplyFailsIsSound
<1>8. ASSUME NEW t \in Tasks, RestFails(t) \/ Settle(t)
      PROVE  IInv' /\ LegalLearning
  BY <1>8, EndingIsSound
<1>9. \/ \E o \in Orders, status \in Statuses : Move(o, status)
      \/ UNCHANGED <<broker, past>>
  BY DEF Next, Answer, HandleEvent, LinkDown, LinkUp, List, Wait, Deadline,
         Serve, ApplyPage, ApplyFails, RestFails, Settle
<1> QED
  BY <1>1, <1>2, <1>3, <1>4, <1>5, <1>6, <1>7, <1>8, <1>9
  DEF Next, Answer
\* A step that leaves the trackers alone keeps it too.
LEMMA StutterIsSound ==
  ASSUME IInv, UNCHANGED vars
  PROVE  IInv'
BY DEF IInv, TypeOK, BrokerInv, RecordInv, Sound, OutcomesAreTrue, vars

\* The inductive invariant holds throughout.
THEOREM Invariance == Spec => []IInv
<1>1. Init => IInv
  BY InitHolds
<1>2. IInv /\ [Next]_vars => IInv'
  BY StepIsSound, StutterIsSound
<1> QED
  BY <1>1, <1>2, PTL DEF Spec

\* Every variable keeps its type: no record or page ever holds a status the
\* broker does not have.
THEOREM TypeCorrect == Spec => []TypeOK
<1>1. IInv => TypeOK
  BY DEF IInv
<1> QED
  BY <1>1, Invariance, PTL

\* wait() reports as settled only what the broker settled, and as it settled
\* it, whether the news came from an event or from a page.
THEOREM Settlements == Spec => []OutcomesAreTrue
<1>1. IInv => OutcomesAreTrue
  BY DEF IInv
<1> QED
  BY <1>1, Invariance, PTL

\* A profit learned of a settled order survives every later event and page.
THEOREM DetailKept == Spec => KnownDetailKept
<1>1. IInv /\ [Next]_vars
        => [\A o \in Orders : tracked[o].profit => tracked'[o].profit]_vars
  BY StepIsSound DEF LegalLearning, vars
<1> QED
  BY <1>1, Invariance, PTL DEF Spec, KnownDetailKept
\* The trackers implement the order's life: every step of theirs is a move of
\* the broker, or the client learning, of some orders, a status they have had
\* and may legally move to.
THEOREM ImplementsLife == Spec => FollowsLife
<1>1. Init => Life!LifeInit
  BY DEF Init, Life!LifeInit, Known, EmptyPage, NoRecord, Record
<1>2. ASSUME IInv, IInv', LegalLearning, UNCHANGED <<broker, past>>
      PROVE  Life!LifeNext
  <2> DEFINE heard == [o \in Orders |-> tracked'[o].status]
  <2>1. Known' = heard
    BY DEF Known
  <2>2. heard \in [Orders -> Life!Statuses \cup {"none"}]
    BY <1>2 DEF IInv, TypeOK, Records, NoRecord, Record, Life!Statuses,
                Statuses
  <2>3. ASSUME NEW o \in Orders, heard[o] # Known[o]
        PROVE  Life!MayLearn(o, heard[o])
    BY <1>2, <2>3 DEF LegalLearning, Known, Life!MayLearn, Life!LegalAfter,
                      LegalAfter, Life!Statuses, Statuses
  <2>4. Life!Learns(heard)
    BY <2>1, <2>3 DEF Life!Learns
  <2> HIDE DEF heard
  <2> QED
    BY <2>2, <2>4, <1>2 DEF Life!LifeNext
<1>3. ASSUME NEW o \in Orders, NEW status \in Statuses,
             Life!BrokerMoves(o, status), UNCHANGED tracked
      PROVE  Life!LifeNext
  BY <1>3 DEF Life!LifeNext, Known, Life!Statuses, Statuses
<1>4. IInv /\ IInv' /\ [Next]_vars => [Life!LifeNext]_(Life!lifeVars)
  BY <1>2, <1>3, StepIsSound DEF vars, Life!lifeVars, Known
<1> QED
  BY <1>1, <1>4, Invariance, PTL DEF Spec, FollowsLife, Life!LifeSpec
=============================================================================
