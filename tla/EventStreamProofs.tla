--------------------------- MODULE EventStreamProofs ---------------------------
(***************************************************************************)
(* Proofs about EventStream, for any consumers, capacity and number of     *)
(* items: types, the newest item kept, the order of delivery, the end that *)
(* is complete or reported, and the subscription given up.                 *)
(***************************************************************************)
EXTENDS EventStream, SequenceTheorems, TLAPS

Items == queue.items
Gone == {"closing", "closing again", "over"}

\* Items are newer towards the back, newer than what was delivered, and no
\* item is behind a sentinel.
OrderInv ==
  /\ \A i \in DOMAIN Items : Items[i] <= published
  /\ \A i, j \in DOMAIN Items :
       i < j /\ Items[j] # CLOSED => Items[i] # CLOSED /\ Items[i] < Items[j]
  /\ \A c \in Consumers : \A old \in received[c] :
       /\ old <= published
       /\ \A i \in DOMAIN Items : Items[i] # CLOSED => old < Items[i]

\* Whatever tells a consumer that the stream is closed, an overflow apart,
\* comes from a close() that has started the cleanup.
ClosedInv ==
  /\ error => closed
  /\ closed /\ ~error => cleanup # "armed"
  /\ cleanup # "armed" => closed
  /\ \A i \in DOMAIN Items : Items[i] = CLOSED => closed /\ cleanup # "armed"
  /\ \A t \in Tasks : pc[t] \in Gone => cleanup # "armed"

\* A lossless stream holds what it has not delivered, until an overflow that
\* is reported; a consumer has been stopped only when nothing is left.
EndInv ==
  /\ \A t \in Tasks : ending[t] # "none" => pc[t] \in Gone
  /\ (\E c \in Consumers : ending[c] = "stopped") =>
       closed /\ \A i \in DOMAIN Items : Items[i] = CLOSED
  /\ ~coalesce =>
       \/ error \/ \E c \in Consumers : ending[c] = "overflowed"
       \/ \A k \in 1..published : \/ \E i \in DOMAIN Items : Items[i] = k
                                  \/ \E c \in Consumers : k \in received[c]

\* NewestKept, item by item.
NewestInv ==
  coalesce /\ published > 0 =>
    \/ \E i \in DOMAIN Items : Items[i] = published
    \/ \E c \in Consumers : published \in received[c]

IInv == TypeOK /\ OrderInv /\ ClosedInv /\ EndInv /\ NewestInv

-----------------------------------------------------------------------------
(***************************************************************************)
(* The queue.                                                              *)
(***************************************************************************)

Queues == {q \in [items : Seq(0..MaxItem), getters : Seq(Consumers)] :
             Len(q.items) <= Capacity}

\* Sequence r is s with sentinels behind it.
Extended(s, r) ==
  /\ Len(s) <= Len(r)
  /\ \A i \in 1..Len(s) : r[i] = s[i]
  /\ \A i \in 1..Len(r) : i > Len(s) => r[i] = CLOSED

LEMMA WakeFirstType ==
  ASSUME NEW g \in Seq(Consumers)
  PROVE  WakeFirst(g) \in Seq(Consumers)
BY DEF WakeFirst

LEMMA PutType ==
  ASSUME NEW q \in Queues, NEW item \in 0..MaxItem, ~Full(q)
  PROVE  /\ Put(q, item) \in Queues
         /\ Put(q, item).items = Append(q.items, item)
<1>1. WakeFirst(q.getters) \in Seq(Consumers)
  BY WakeFirstType DEF Queues
<1>2. Append(q.items, item) \in Seq(0..MaxItem)
  BY DEF Queues
<1>3. Len(Append(q.items, item)) <= Capacity
  BY CapacityAssumption DEF Queues, Full
<1> QED BY <1>1, <1>2, <1>3 DEF Queues, Put

\* Closing puts a sentinel behind the items, if there is room.
LEMMA ShutExtends ==
  ASSUME NEW q \in Queues
  PROVE  Shut(q) \in Queues /\ Extended(q.items, Shut(q).items)
<1>1. CASE Full(q)
  BY <1>1 DEF Shut, Extended, Queues
<1>2. CASE ~Full(q)
  <2>1. /\ Shut(q) \in Queues
        /\ Shut(q).items = Append(q.items, CLOSED)
    BY <1>2, PutType, MaxItemAssumption DEF Shut, CLOSED
  <2>2. Extended(q.items, Append(q.items, CLOSED))
    BY DEF Extended, Queues
  <2> QED BY <2>1, <2>2
<1> QED BY <1>1, <1>2

\* What Leave does, whichever close() it finds.
LEMMA LeaveEffect ==
  ASSUME TypeOK, NEW t \in Tasks, NEW q \in Queues, NEW closes \in 0..2, NEW how,
         Leave(t, q, closes, how)
  PROVE  /\ queue' \in Queues /\ Extended(q.items, queue'.items)
         /\ ending' = [ending EXCEPT ![t] = how]
         /\ \E w \in Gone : pc' = [pc EXCEPT ![t] = w]
         /\ closed' \in BOOLEAN /\ cleanup' \in {"armed", "running", "done"}
         /\ closed => closed'
         /\ cleanup # "armed" => cleanup' # "armed"
         /\ closes > 0 => closed' /\ cleanup' # "armed"
         /\ closes = 0 => UNCHANGED <<closed, cleanup>> /\ queue' = q
<1>1. Extended(q.items, q.items)
  BY DEF Queues, Extended
<1>2. /\ Shut(q) \in Queues /\ Extended(q.items, Shut(q).items)
  BY ShutExtends
<1>3. /\ Shut(Shut(q)) \in Queues
      /\ Extended(Shut(q).items, Shut(Shut(q)).items)
  BY <1>2, ShutExtends
<1>4. Extended(q.items, Shut(Shut(q)).items)
  <2> DEFINE r == Shut(q).items
  <2> DEFINE u == Shut(Shut(q)).items
  <2>1. Len(q.items) \in Nat /\ Len(r) \in Nat /\ Len(u) \in Nat
    BY <1>2, <1>3 DEF Queues
  <2> HIDE DEF r, u
  <2>2. Extended(q.items, r) /\ Extended(r, u)
    BY <1>2, <1>3 DEF r, u
  <2>3. Extended(q.items, u)
    BY <2>1, <2>2 DEF Extended
  <2> QED BY <2>3 DEF u
<1>5. ending' = [ending EXCEPT ![t] = how]
  BY DEF Leave
<1>6. \E w \in Gone : pc' = [pc EXCEPT ![t] = w]
  BY DEF Leave, Go, Gone
<1>7. CASE closes = 0
  <2>1. UNCHANGED <<closed, cleanup>> /\ queue' = q
    BY <1>7 DEF Leave
  <2>2. ~(closes > 0)
    BY <1>7
  <2>3. queue' \in Queues /\ Extended(q.items, queue'.items)
    BY <1>1, <2>1
  <2>4. closed' \in BOOLEAN /\ cleanup' \in {"armed", "running", "done"}
    BY <2>1 DEF TypeOK
  <2> QED BY <1>5, <1>6, <2>1, <2>2, <2>3, <2>4, Zenon
<1>8. CASE closes > 0
  <2>1. closes # 0
    BY <1>8
  <2>2. closed' = TRUE
    BY <2>1 DEF Leave
  <2>3. cleanup' = "running" \/ (cleanup # "armed" /\ cleanup' = cleanup)
    BY <2>1 DEF Leave
  <2>4. queue' = Shut(q) \/ queue' = IF closes = 1 THEN Shut(q) ELSE Shut(Shut(q))
    BY <2>1 DEF Leave
  <2>5. queue' = Shut(q) \/ queue' = Shut(Shut(q))
    BY <2>4
  <2>6. queue' \in Queues /\ Extended(q.items, queue'.items)
    BY <1>2, <1>3, <1>4, <2>5
  <2>7. cleanup' # "armed" /\ cleanup' \in {"armed", "running", "done"}
    BY <2>3 DEF TypeOK
  <2> QED BY <1>5, <1>6, <2>1, <2>2, <2>6, <2>7, Zenon
<1> QED BY <1>7, <1>8

-----------------------------------------------------------------------------
(***************************************************************************)
(* Leaving keeps the invariant, whoever leaves and why.                    *)
(***************************************************************************)

\* What is in the queue when a task leaves: all of it, or what is behind a
\* sentinel.
Remains(q) ==
  \/ q.items = Items
  \/ Items # <<>> /\ Head(Items) = CLOSED /\ q.items = Tail(Items)

\* Items behind a sentinel are sentinels.
LEMMA BehindSentinel ==
  ASSUME TypeOK, OrderInv, Items # <<>>, Head(Items) = CLOSED
  PROVE  \A i \in DOMAIN Items : Items[i] = CLOSED
<1>1. Items \in Seq(0..MaxItem)
  BY DEF TypeOK, Items
<1>2. Items[1] = CLOSED /\ 1 \in DOMAIN Items /\ DOMAIN Items = 1..Len(Items)
  BY <1>1
<1>3. ASSUME NEW i \in DOMAIN Items, Items[i] # CLOSED
      PROVE  FALSE
  <2>1. i = 1 \/ 1 < i
    BY <1>2
  <2> QED BY <1>2, <1>3, <2>1 DEF OrderInv
<1> QED BY <1>3

\* The items afterwards are those there were, or sentinels.
LEMMA RemainsOld ==
  ASSUME TypeOK, NEW q \in Queues, Remains(q), NEW r \in Queues,
         Extended(q.items, r.items)
  PROVE  /\ \A i \in DOMAIN r.items :
              \/ r.items[i] = CLOSED
              \/ \E k \in DOMAIN Items : r.items[i] = Items[k]
         /\ \A i, j \in DOMAIN r.items : i < j /\ r.items[j] # CLOSED =>
              \E k, m \in DOMAIN Items :
                k < m /\ r.items[i] = Items[k] /\ r.items[j] = Items[m]
         /\ \A k \in DOMAIN Items : Items[k] # CLOSED =>
              (\E i \in DOMAIN r.items : r.items[i] = Items[k])
              \/ (Items # <<>> /\ Head(Items) = CLOSED)
<1> DEFINE s == q.items
<1> DEFINE w == r.items
<1>1. Items \in Seq(0..MaxItem) /\ s \in Seq(0..MaxItem) /\ w \in Seq(0..MaxItem)
  BY DEF TypeOK, Items, Queues
<1>2. Extended(s, w) /\ Remains(q)
  OBVIOUS
<1>3. s = Items \/ (Items # <<>> /\ Head(Items) = CLOSED /\ s = Tail(Items))
  BY DEF Remains
<1> HIDE DEF s, w
<1>4. \A i \in DOMAIN w : w[i] # CLOSED => i \in 1..Len(s) /\ w[i] = s[i]
  BY <1>1, <1>2 DEF Extended
<1>5. CASE s = Items
  BY <1>1, <1>2, <1>4, <1>5 DEF Extended, s, w
<1>6. CASE Items # <<>> /\ Head(Items) = CLOSED /\ s = Tail(Items)
  <2>1. /\ Len(Items) = Len(s) + 1
        /\ \A i \in 1..Len(s) : i + 1 \in DOMAIN Items /\ s[i] = Items[i + 1]
    BY <1>1, <1>6
  <2>2. \A i \in DOMAIN w :
           w[i] = CLOSED \/ (i + 1 \in DOMAIN Items /\ w[i] = Items[i + 1])
    BY <1>4, <2>1
  <2>3. ASSUME NEW i \in DOMAIN w, NEW j \in DOMAIN w, i < j, w[j] # CLOSED
        PROVE  \E k, m \in DOMAIN Items :
                 k < m /\ w[i] = Items[k] /\ w[j] = Items[m]
    <3>1. j \in 1..Len(s) /\ i \in 1..Len(s) /\ w[j] = s[j] /\ w[i] = s[i]
      BY <1>1, <1>2, <1>4, <2>3 DEF Extended
    <3>2. i + 1 < j + 1
      BY <2>3, <3>1
    <3> QED BY <2>1, <3>1, <3>2
  <2> QED BY <1>6, <2>2, <2>3 DEF w
<1> QED BY <1>3, <1>5, <1>6

LEMMA LeavesKeep ==
  ASSUME IInv, NEW t \in Tasks, NEW q \in Queues, NEW closes \in 0..2,
         NEW how \in Endings, how # "none", Leave(t, q, closes, how), Remains(q),
         UNCHANGED <<coalesce, direct, published, received>>,
         pc[t] \notin Gone,
         closes = 0 => cleanup # "armed",
         \/ error' = error
         \/ error' = FALSE /\ how = "overflowed" /\ closes > 0 /\ t \in Consumers,
         how = "stopped" => closed /\ \A i \in DOMAIN q.items : q.items[i] = CLOSED
  PROVE  IInv'
<1>1. /\ queue' \in Queues /\ Extended(q.items, Items')
      /\ ending' = [ending EXCEPT ![t] = how]
      /\ \E w \in Gone : pc' = [pc EXCEPT ![t] = w]
      /\ closed' \in BOOLEAN /\ cleanup' \in {"armed", "running", "done"}
      /\ closed => closed'
      /\ cleanup # "armed" => cleanup' # "armed"
      /\ closes > 0 => closed' /\ cleanup' # "armed"
      /\ closes = 0 => UNCHANGED <<closed, cleanup>> /\ queue' = q
  BY LeaveEffect DEF IInv, Items
<1>2. PICK w \in Gone : pc' = [pc EXCEPT ![t] = w]
  BY <1>1
<1>3. /\ \A i \in DOMAIN Items' :
              \/ Items'[i] = CLOSED
              \/ \E k \in DOMAIN Items : Items'[i] = Items[k]
      /\ \A i, j \in DOMAIN Items' : i < j /\ Items'[j] # CLOSED =>
              \E k, m \in DOMAIN Items :
                k < m /\ Items'[i] = Items[k] /\ Items'[j] = Items[m]
      /\ \A k \in DOMAIN Items : Items[k] # CLOSED =>
              (\E i \in DOMAIN Items' : Items'[i] = Items[k])
              \/ (Items # <<>> /\ Head(Items) = CLOSED)
  BY <1>1, RemainsOld DEF IInv, Items
<1>4. /\ Items # <<>> /\ Head(Items) = CLOSED
          => \A k \in DOMAIN Items : Items[k] = CLOSED
  BY BehindSentinel DEF IInv
<1>5. \A k \in DOMAIN Items : Items[k] # CLOSED =>
         \E i \in DOMAIN Items' : Items'[i] = Items[k]
  BY <1>3, <1>4
<1>6. TypeOK'
  <2>1. pc' \in [Tasks -> Stages] /\ ending' \in [Tasks -> Endings]
    BY <1>1, <1>2 DEF IInv, TypeOK, Gone, Stages
  <2>2. error' \in BOOLEAN
    BY DEF IInv, TypeOK
  <2>3. /\ queue' \in [items : Seq(0..MaxItem), getters : Seq(Consumers)]
        /\ Len(queue'.items) <= Capacity
    BY <1>1 DEF Queues
  <2> QED BY <1>1, <2>1, <2>2, <2>3 DEF IInv, TypeOK
<1>7. OrderInv'
  <2>1. \A i \in DOMAIN Items' : Items'[i] <= published'
    BY <1>3 DEF IInv, TypeOK, OrderInv, CLOSED
  <2>2. \A i, j \in DOMAIN Items' : i < j /\ Items'[j] # CLOSED =>
           Items'[i] # CLOSED /\ Items'[i] < Items'[j]
    BY <1>3 DEF IInv, OrderInv
  <2>3. \A c \in Consumers : \A old \in received'[c] :
           /\ old <= published'
           /\ \A i \in DOMAIN Items' : Items'[i] # CLOSED => old < Items'[i]
    BY <1>3 DEF IInv, OrderInv
  <2> QED BY <2>1, <2>2, <2>3 DEF OrderInv
<1>8. cleanup' # "armed"
  BY <1>1
<1>9. ClosedInv'
  <2>1. closed \in BOOLEAN /\ error \in BOOLEAN
    BY DEF IInv, TypeOK
  <2>2. error' => closed'
    BY <1>1, <2>1 DEF IInv, ClosedInv
  <2>3. ASSUME NEW i \in DOMAIN Items', Items'[i] = CLOSED
        PROVE  closed'
    <3>1. CASE closes > 0
      BY <1>1, <3>1
    <3>2. CASE closes = 0
      <4>1. Items' = q.items /\ q.items \in Seq(0..MaxItem)
        BY <1>1, <3>2 DEF Items, Queues
      <4>2. \E k \in DOMAIN Items : Items[k] = CLOSED
        <5>1. CASE q.items = Items
          BY <2>3, <4>1, <5>1
        <5>2. CASE Items # <<>> /\ Head(Items) = CLOSED
          <6>1. Items \in Seq(0..MaxItem)
            BY DEF IInv, TypeOK, Items
          <6> QED BY <5>2, <6>1
        <5> QED BY <5>1, <5>2 DEF Remains
      <4> QED BY <1>1, <3>2, <4>2 DEF IInv, ClosedInv
    <3> QED BY <3>1, <3>2
  <2>4. closed'
    BY <1>1 DEF IInv, ClosedInv
  <2> QED BY <1>8, <2>2, <2>3, <2>4 DEF ClosedInv
<1>10. /\ ending \in [Tasks -> Endings] /\ pc \in [Tasks -> Stages]
       /\ ending[t] = "none"
  BY DEF IInv, TypeOK, EndInv
<1>11. EndInv'
  <2>1. ASSUME NEW u \in Tasks, ending'[u] # "none"
        PROVE  pc'[u] \in Gone
    BY <1>1, <1>2, <1>10, <2>1 DEF IInv, EndInv
  <2>2. ASSUME NEW c \in Consumers, ending'[c] = "stopped"
        PROVE  closed' /\ \A i \in DOMAIN Items' : Items'[i] = CLOSED
    <3>1. CASE c = t
      <4>1. how = "stopped"
        BY <1>1, <1>10, <2>2, <3>1
      <4>2. /\ q.items \in Seq(0..MaxItem) /\ Items' \in Seq(0..MaxItem)
        BY <1>1 DEF Queues, Items
      <4>3. \A i \in DOMAIN Items' : Items'[i] = CLOSED
        BY <1>1, <4>1, <4>2 DEF Extended
      <4> QED BY <1>1, <4>1, <4>3
    <3>2. CASE c # t
      <4>1. ending[c] = "stopped"
        BY <1>1, <1>10, <2>2, <3>2 DEF Tasks
      <4>2. closed /\ \A i \in DOMAIN Items : Items[i] = CLOSED
        BY <4>1 DEF IInv, EndInv
      <4> QED BY <1>1, <1>3, <4>2
    <3> QED BY <3>1, <3>2
  <2>3. ASSUME ~coalesce'
        PROVE  \/ error' \/ \E c \in Consumers : ending'[c] = "overflowed"
               \/ \A k \in 1..published' :
                    \/ \E i \in DOMAIN Items' : Items'[i] = k
                    \/ \E c \in Consumers : k \in received'[c]
    <3>1. CASE error' # error
      BY <1>1, <1>10, <3>1
    <3>2. CASE error' = error
      <4>1. CASE error
        BY <3>2, <4>1
      <4>2. CASE \E c \in Consumers : ending[c] = "overflowed"
        <5>1. PICK c \in Consumers : ending[c] = "overflowed"
          BY <4>2
        <5>2. c # t /\ c \in Tasks
          BY <1>10, <5>1 DEF Tasks
        <5>3. ending'[c] = "overflowed"
          BY <1>1, <1>10, <5>1, <5>2
        <5> QED BY <5>3
      <4>3. CASE \A k \in 1..published : \/ \E i \in DOMAIN Items : Items[i] = k
                                         \/ \E c \in Consumers : k \in received[c]
        <5>1. published \in Nat
          BY MaxItemAssumption DEF IInv, TypeOK
        <5>2. \A k \in 1..published : k # CLOSED
          BY <5>1 DEF CLOSED
        <5>3. \A k \in 1..published : \/ \E i \in DOMAIN Items' : Items'[i] = k
                                      \/ \E c \in Consumers : k \in received'[c]
          BY <1>5, <4>3, <5>2
        <5> QED BY <5>3
      <4> QED BY <2>3, <4>1, <4>2, <4>3 DEF IInv, EndInv
    <3> QED BY <3>1, <3>2
  <2> QED BY <2>1, <2>2, <2>3 DEF EndInv
<1>12. NewestInv'
  <2>1. published \in Nat
    BY MaxItemAssumption DEF IInv, TypeOK
  <2>2. published > 0 => published # CLOSED
    BY <2>1 DEF CLOSED
  <2> QED BY <1>5, <2>2 DEF IInv, NewestInv
<1> QED BY <1>6, <1>7, <1>9, <1>11, <1>12 DEF IInv

-----------------------------------------------------------------------------
(***************************************************************************)
(* The other steps.                                                        *)
(***************************************************************************)

\* What Publish makes of the queue has the new item last.
LEMMA CoalescedType ==
  ASSUME NEW q \in Queues, NEW item \in 0..MaxItem
  PROVE  /\ Coalesced(q, item) \in Queues
         /\ \/ Coalesced(q, item).items = Append(q.items, item)
            \/ Full(q) /\ Coalesced(q, item).items = <<item>>
<1> DEFINE e == [q EXCEPT !.items = <<>>]
<1>1. CASE ~Full(q)
  BY <1>1, PutType DEF Coalesced
<1>2. CASE Full(q)
  <2>1. e \in Queues /\ e.items = <<>>
    <3>1. <<>> \in Seq(0..MaxItem) /\ Len(<<>>) = 0
      OBVIOUS
    <3>2. 0 <= Capacity
      BY CapacityAssumption
    <3> QED BY <3>1, <3>2 DEF Queues
  <2>2. ~Full(e)
    BY <2>1, CapacityAssumption DEF Full
  <2>3. Coalesced(q, item) = Put(e, item)
    BY <1>2 DEF Coalesced, KeptWhenFull
  <2>4. Append(<<>>, item) = <<item>>
    OBVIOUS
  <2> HIDE DEF e
  <2> QED BY <1>2, <2>1, <2>2, <2>3, <2>4, PutType
<1> QED BY <1>1, <1>2

LEMMA PublishKeeps ==
  ASSUME IInv, Publish
  PROVE  IInv'
<1> DEFINE new == published + 1
<1>1. /\ published \in Nat /\ new \in 1..MaxItem /\ published' = new
      /\ new # CLOSED /\ ~closed
      /\ UNCHANGED <<coalesce, direct, cleanup, received, pc, ending>>
  BY MaxItemAssumption DEF IInv, TypeOK, Publish, made, CLOSED
<1>2. /\ queue \in Queues /\ Items \in Seq(0..MaxItem)
      /\ \A i \in DOMAIN Items : Items[i] \in Nat /\ Items[i] <= published
      /\ \A c \in Consumers : \A old \in received[c] : old \in Nat /\ old <= published
  <2>1. queue \in Queues /\ Items \in Seq(0..MaxItem)
    BY DEF IInv, TypeOK, Queues, Items
  <2>2. \A i \in DOMAIN Items : Items[i] \in Nat /\ Items[i] <= published
    BY <2>1, MaxItemAssumption DEF IInv, OrderInv
  <2>3. \A c \in Consumers : \A old \in received[c] : old \in Nat /\ old <= published
    BY MaxItemAssumption DEF IInv, TypeOK, OrderInv
  <2> QED BY <2>1, <2>2, <2>3
<1>3. /\ \A i \in DOMAIN Items : Items[i] # CLOSED
      /\ \A c \in Consumers : ending[c] # "stopped"
  BY <1>1 DEF IInv, ClosedInv, EndInv
<1>4. CASE Full(queue) /\ ~coalesce
  <2>1. error' = TRUE /\ closed' = TRUE /\ queue' = queue
    BY <1>4 DEF Publish
  <2>2. TypeOK'
    BY <1>1, <2>1 DEF IInv, TypeOK
  <2>3. OrderInv'
    <3>1. Items' = Items
      BY <2>1 DEF Items
    <3>2. \A i \in DOMAIN Items : Items[i] <= new
      BY <1>1, <1>2
    <3>3. \A c \in Consumers : \A old \in received[c] : old <= new
      BY <1>1, <1>2
    <3> QED BY <1>1, <3>1, <3>2, <3>3 DEF IInv, OrderInv
  <2>4. ClosedInv'
    BY <1>1, <1>3, <2>1 DEF IInv, ClosedInv, Items
  <2>5. EndInv' /\ NewestInv'
    BY <1>1, <1>3, <1>4, <2>1 DEF IInv, EndInv, NewestInv, Items
  <2> QED BY <2>2, <2>3, <2>4, <2>5 DEF IInv
<1>5. CASE ~(Full(queue) /\ ~coalesce)
  <2>1. queue' = Coalesced(queue, new) /\ error' = error /\ closed' = closed
    BY <1>1, <1>5 DEF Publish
  <2>2. /\ queue' \in Queues /\ Items' \in Seq(0..MaxItem)
        /\ \/ Items' = Append(Items, new)
           \/ coalesce /\ Items' = <<new>>
    <3>1. new \in 0..MaxItem
      BY <1>1
    <3>2. queue' \in Queues
      BY <1>2, <2>1, <3>1, CoalescedType
    <3>3. Items' = Append(Items, new) \/ (Full(queue) /\ Items' = <<new>>)
      BY <1>2, <2>1, <3>1, CoalescedType DEF Items
    <3>4. Items' \in Seq(0..MaxItem)
      BY <3>2 DEF Queues, Items
    <3> QED BY <1>5, <3>2, <3>3, <3>4
  <2>3. \A i \in DOMAIN Items' :
          \/ Items'[i] = new /\ i = Len(Items')
          \/ i \in DOMAIN Items /\ Items'[i] = Items[i]
    <3>1. CASE Items' = <<new>>
      BY <3>1
    <3>2. CASE Items' = Append(Items, new)
      BY <1>2, <3>2
    <3> QED BY <2>2, <3>1, <3>2
  <2>4. \E i \in DOMAIN Items' : Items'[i] = new
    <3>1. CASE Items' = <<new>>
      <4>1. 1 \in DOMAIN Items' /\ Items'[1] = new
        BY <3>1
      <4> QED BY <4>1
    <3>2. CASE Items' = Append(Items, new)
      <4>1. /\ Len(Items) + 1 \in DOMAIN Items'
            /\ Items'[Len(Items) + 1] = new
        BY <1>2, <3>2
      <4> QED BY <4>1
    <3> QED BY <2>2, <3>1, <3>2
  <2>5. TypeOK'
    BY <1>1, <2>1, <2>2 DEF IInv, TypeOK, Queues
  <2>6. OrderInv'
    <3>1. \A i \in DOMAIN Items : Items[i] \in Nat /\ Items[i] <= published
      BY <1>2
    <3>2. \A i \in DOMAIN Items' : Items'[i] <= new
      BY <1>1, <2>3, <3>1
    <3>3. ASSUME NEW i \in DOMAIN Items', NEW j \in DOMAIN Items', i < j
          PROVE  Items'[i] # CLOSED /\ Items'[i] < Items'[j]
      <4>1. i # Len(Items')
        BY <2>2, <3>3
      <4>2. i \in DOMAIN Items /\ Items'[i] = Items[i]
        BY <2>3, <4>1
      <4>3. CASE Items'[j] = new
        BY <1>1, <1>3, <3>1, <4>2, <4>3
      <4>4. CASE j \in DOMAIN Items /\ Items'[j] = Items[j]
        BY <1>3, <3>3, <4>2, <4>4 DEF IInv, OrderInv
      <4> QED BY <2>3, <4>3, <4>4
    <3>4. ASSUME NEW c \in Consumers, NEW old \in received'[c]
          PROVE  /\ old <= new
                 /\ \A i \in DOMAIN Items' : old < Items'[i]
      <4>1. old \in received[c] /\ old \in Nat /\ old <= published
        BY <1>1, <3>4, MaxItemAssumption DEF IInv, TypeOK, OrderInv
      <4>2. \A i \in DOMAIN Items : old < Items[i]
        BY <1>3, <4>1 DEF IInv, OrderInv
      <4> QED BY <1>1, <2>3, <4>1, <4>2
    <3> QED BY <1>1, <3>2, <3>3, <3>4 DEF OrderInv
  <2>7. ClosedInv'
    BY <1>1, <1>3, <2>1, <2>3 DEF IInv, ClosedInv
  <2>8. EndInv'
    <3>1. ~coalesce => Items' = Append(Items, new)
      BY <2>2
    <3>2. ~coalesce => \A i \in DOMAIN Items : \E j \in DOMAIN Items' : Items'[j] = Items[i]
      <4>1. ASSUME ~coalesce, NEW i \in DOMAIN Items
            PROVE  i \in DOMAIN Items' /\ Items'[i] = Items[i]
        BY <1>2, <3>1, <4>1
      <4> QED BY <4>1
    <3>3. \A k \in 1..new : k \in 1..published \/ k = new
      BY <1>1
    <3>4. ~coalesce' =>
            \/ error' \/ \E c \in Consumers : ending'[c] = "overflowed"
            \/ \A k \in 1..published' : \/ \E i \in DOMAIN Items' : Items'[i] = k
                                        \/ \E c \in Consumers : k \in received'[c]
      <4> SUFFICES ASSUME ~coalesce, ~error,
                          ~\E c \in Consumers : ending[c] = "overflowed",
                          NEW k \in 1..new
                   PROVE  \/ \E i \in DOMAIN Items' : Items'[i] = k
                          \/ \E c \in Consumers : k \in received[c]
        BY <1>1, <2>1
      <4>1. k \in 1..published => \/ \E i \in DOMAIN Items : Items[i] = k
                                 \/ \E c \in Consumers : k \in received[c]
        BY DEF IInv, EndInv
      <4> QED BY <2>4, <3>2, <3>3, <4>1
    <3> QED BY <1>1, <1>3, <3>4 DEF IInv, EndInv
  <2>9. NewestInv'
    BY <1>1, <2>4 DEF NewestInv
  <2> QED BY <2>5, <2>6, <2>7, <2>8, <2>9 DEF IInv
<1> QED BY <1>4, <1>5

\* The oldest item goes to a consumer that had not left.
LEMMA TakeItemKeeps ==
  ASSUME IInv, NEW c \in Consumers, pc[c] \notin Gone,
         Items # <<>>, Head(Items) # CLOSED,
         queue' = [queue EXCEPT !.items = Tail(@)],
         received' = [received EXCEPT ![c] = @ \cup {Head(Items)}],
         pc' = [pc EXCEPT ![c] = "running"],
         UNCHANGED <<coalesce, direct, closed, error, cleanup, published, ending>>
  PROVE  /\ IInv'
         /\ \A new \in received'[c] \ received[c] :
              \A d \in Consumers : \A old \in received[d] : old < new
<1> DEFINE item == Head(Items)
<1>1. /\ Items \in Seq(0..MaxItem) /\ 1 \in DOMAIN Items /\ item = Items[1]
      /\ item \in 1..MaxItem /\ c \in Tasks
  BY MaxItemAssumption DEF IInv, TypeOK, Items, CLOSED, Tasks
<1>2. /\ Items' = Tail(Items) /\ Items' \in Seq(0..MaxItem)
      /\ Len(Items') = Len(Items) - 1
      /\ \A i \in DOMAIN Items' : i + 1 \in DOMAIN Items /\ Items'[i] = Items[i + 1]
  <2>1. Items' = Tail(Items)
    BY DEF IInv, TypeOK, Items
  <2> QED BY <1>1, <2>1
<1>3. \A i \in DOMAIN Items : i = 1 \/ (i - 1 \in DOMAIN Items' /\ Items'[i - 1] = Items[i])
  <2>1. \A i \in DOMAIN Items : i = 1 \/ i - 1 \in DOMAIN Items'
    BY <1>1, <1>2
  <2>2. \A i \in DOMAIN Items : (i - 1) + 1 = i
    BY <1>1
  <2> QED BY <1>2, <2>1, <2>2
<1>4. /\ \A d \in Consumers : received'[d] = IF d = c THEN received[c] \cup {item} ELSE received[d]
      /\ \A u \in Tasks : pc'[u] = IF u = c THEN "running" ELSE pc[u]
  BY <1>1 DEF IInv, TypeOK
<1>5. TypeOK'
  <2>1. received' \in [Consumers -> SUBSET (1..MaxItem)]
    BY <1>1 DEF IInv, TypeOK
  <2>2. pc' \in [Tasks -> Stages]
    BY <1>1 DEF IInv, TypeOK, Stages
  <2>3. queue' \in [items : Seq(0..MaxItem), getters : Seq(Consumers)]
    BY <1>2 DEF IInv, TypeOK, Items
  <2>4. Len(queue'.items) <= Capacity
    BY <1>1, <1>2, CapacityAssumption DEF IInv, TypeOK, Items
  <2> QED BY <2>1, <2>2, <2>3, <2>4 DEF IInv, TypeOK
<1>6. OrderInv'
  <2>1. \A i \in DOMAIN Items' : Items'[i] <= published'
    BY <1>2 DEF IInv, OrderInv
  <2>2. ASSUME NEW i \in DOMAIN Items', NEW j \in DOMAIN Items', i < j,
               Items'[j] # CLOSED
        PROVE  Items'[i] # CLOSED /\ Items'[i] < Items'[j]
    <3>1. /\ i + 1 \in DOMAIN Items /\ j + 1 \in DOMAIN Items /\ i + 1 < j + 1
          /\ Items'[i] = Items[i + 1] /\ Items'[j] = Items[j + 1]
      BY <1>2, <2>2
    <3> QED BY <2>2, <3>1 DEF IInv, OrderInv
  <2>3. ASSUME NEW d \in Consumers, NEW old \in received'[d]
        PROVE  /\ old <= published'
               /\ \A i \in DOMAIN Items' : Items'[i] # CLOSED => old < Items'[i]
    <3>1. CASE old \in received[d]
      BY <1>2, <3>1 DEF IInv, OrderInv
    <3>2. CASE old = item
      <4>1. item <= published
        BY <1>1 DEF IInv, OrderInv
      <4>2. \A i \in DOMAIN Items' : 1 < i + 1
        BY <1>2
      <4> QED BY <1>1, <1>2, <3>2, <4>1, <4>2 DEF IInv, OrderInv
    <3> QED BY <1>4, <2>3, <3>1, <3>2
  <2> QED BY <2>1, <2>2, <2>3 DEF OrderInv
<1>7. ClosedInv'
  <2>1. \A i \in DOMAIN Items' : Items'[i] = CLOSED => closed /\ cleanup # "armed"
    BY <1>2 DEF IInv, ClosedInv
  <2>2. ASSUME NEW u \in Tasks, pc'[u] \in Gone
        PROVE  pc[u] \in Gone
    <3>1. "running" \notin Gone
      BY DEF Gone
    <3>2. u # c
      BY <1>4, <2>2, <3>1
    <3> QED BY <1>4, <2>2, <3>2
  <2> QED BY <2>1, <2>2 DEF IInv, ClosedInv
<1>8. ASSUME NEW k
      PROVE  (\E i \in DOMAIN Items : Items[i] = k) \/ (\E d \in Consumers : k \in received[d])
               => (\E i \in DOMAIN Items' : Items'[i] = k)
                    \/ (\E d \in Consumers : k \in received'[d])
  <2>1. ASSUME NEW i \in DOMAIN Items, Items[i] = k
        PROVE  (\E j \in DOMAIN Items' : Items'[j] = k) \/ k \in received'[c]
    BY <1>1, <1>3, <1>4, <2>1
  <2>2. ASSUME NEW d \in Consumers, k \in received[d]
        PROVE  k \in received'[d]
    BY <1>4, <2>2
  <2> QED BY <2>1, <2>2
<1>9. EndInv'
  <2>1. ending[c] = "none"
    BY <1>1 DEF IInv, EndInv
  <2>2. \A u \in Tasks : ending'[u] # "none" => pc'[u] \in Gone
    BY <1>4, <2>1 DEF IInv, EndInv
  <2>3. \A d \in Consumers : ending'[d] # "stopped"
    BY <1>1 DEF IInv, EndInv
  <2>4. ~coalesce' =>
          \/ error' \/ \E d \in Consumers : ending'[d] = "overflowed"
          \/ \A k \in 1..published' : \/ \E i \in DOMAIN Items' : Items'[i] = k
                                      \/ \E d \in Consumers : k \in received'[d]
    BY <1>8 DEF IInv, EndInv
  <2> QED BY <2>2, <2>3, <2>4 DEF EndInv
<1>10. NewestInv'
  BY <1>8 DEF IInv, NewestInv
<1>11. \A new \in received'[c] \ received[c] :
          \A d \in Consumers : \A old \in received[d] : old < new
  BY <1>1, <1>4 DEF IInv, OrderInv
<1> QED BY <1>5, <1>6, <1>7, <1>9, <1>10, <1>11 DEF IInv

\* A task waits, or stops waiting: the items stay.
LEMMA WaitKeeps ==
  ASSUME IInv, NEW c \in Consumers, pc[c] \notin Gone,
         NEW w \in {"running", "getting", "cancelled"}, pc' = [pc EXCEPT ![c] = w],
         queue' \in Queues, Items' = Items,
         UNCHANGED <<coalesce, direct, closed, error, cleanup, published,
                     received, ending>>
  PROVE  IInv'
<1>1. c \in Tasks /\ \A u \in Tasks : pc'[u] = IF u = c THEN w ELSE pc[u]
  BY DEF IInv, TypeOK, Tasks
<1>2. TypeOK'
  BY <1>1 DEF IInv, TypeOK, Stages, Queues
<1>3. OrderInv' /\ NewestInv'
  BY DEF IInv, OrderInv, NewestInv
<1>4. ClosedInv'
  BY <1>1 DEF IInv, ClosedInv, Gone
<1>5. EndInv'
  <2>1. ending[c] = "none"
    BY <1>1 DEF IInv, EndInv
  <2> QED BY <1>1, <2>1 DEF IInv, EndInv
<1> QED BY <1>2, <1>3, <1>4, <1>5 DEF IInv

\* The cleanup ends, and the generator may close once more.
LEMMA CleanupKeeps ==
  ASSUME IInv, NEW t \in Tasks, CleanupEnds(t)
  PROVE  IInv'
<1>1. /\ pc[t] \in Gone /\ cleanup' = "done"
      /\ UNCHANGED <<coalesce, direct, closed, error, published, received, ending>>
      /\ \A u \in Tasks : pc'[u] = IF u = t THEN "over" ELSE pc[u]
  BY DEF IInv, TypeOK, CleanupEnds, made, Go, Gone
<1>2. /\ queue \in Queues /\ Items \in Seq(0..MaxItem)
      /\ queue' \in Queues /\ Extended(Items, Items')
  <2>1. queue \in Queues /\ Items \in Seq(0..MaxItem)
    BY DEF IInv, TypeOK, Queues, Items
  <2>2. Extended(Items, Items)
    BY <2>1 DEF Extended
  <2>3. Shut(queue) \in Queues /\ Extended(Items, Shut(queue).items)
    BY <2>1, ShutExtends DEF Items
  <2>4. queue' = queue \/ queue' = Shut(queue)
    BY DEF CleanupEnds
  <2> QED BY <2>1, <2>2, <2>3, <2>4 DEF Items
<1>3. /\ \A i \in DOMAIN Items : i \in DOMAIN Items' /\ Items'[i] = Items[i]
      /\ \A i \in DOMAIN Items' :
           Items'[i] = CLOSED \/ (i \in DOMAIN Items /\ Items'[i] = Items[i])
  <2>1. Items' \in Seq(0..MaxItem)
    BY <1>2 DEF Queues, Items
  <2> QED BY <1>2, <2>1 DEF Extended
<1>4. closed /\ cleanup # "armed"
  BY <1>1 DEF IInv, ClosedInv
<1>5. TypeOK'
  <2>1. pc' \in [Tasks -> Stages]
    BY DEF IInv, TypeOK, Stages, CleanupEnds, Go
  <2> QED BY <1>1, <1>2, <2>1 DEF IInv, TypeOK, Queues
<1>6. OrderInv'
  <2>1. \A i \in DOMAIN Items' : Items'[i] <= published
    BY <1>3, MaxItemAssumption DEF IInv, TypeOK, OrderInv, CLOSED
  <2>2. ASSUME NEW i \in DOMAIN Items', NEW j \in DOMAIN Items', i < j,
               Items'[j] # CLOSED
        PROVE  Items'[i] # CLOSED /\ Items'[i] < Items'[j]
    <3>1. j \in DOMAIN Items /\ Items'[j] = Items[j]
      BY <1>3, <2>2
    <3>2. i \in DOMAIN Items /\ Items'[i] = Items[i]
      <4>1. Items' \in Seq(0..MaxItem)
        BY <1>2 DEF Queues, Items
      <4>2. i \in DOMAIN Items
        BY <1>2, <2>2, <3>1, <4>1
      <4> QED BY <1>3, <4>2
    <3> QED BY <2>2, <3>1, <3>2 DEF IInv, OrderInv
  <2>3. \A c \in Consumers : \A old \in received'[c] :
           /\ old <= published
           /\ \A i \in DOMAIN Items' : Items'[i] # CLOSED => old < Items'[i]
    BY <1>1, <1>3 DEF IInv, OrderInv
  <2> QED BY <1>1, <2>1, <2>2, <2>3 DEF OrderInv
<1>7. ClosedInv'
  BY <1>1, <1>4 DEF IInv, ClosedInv
<1>8. EndInv'
  <2>1. \A u \in Tasks : ending'[u] # "none" => pc'[u] \in Gone
    BY <1>1 DEF IInv, EndInv, Gone
  <2>2. (\E c \in Consumers : ending'[c] = "stopped") =>
           closed' /\ \A i \in DOMAIN Items' : Items'[i] = CLOSED
    BY <1>1, <1>3, <1>4 DEF IInv, EndInv
  <2>3. ~coalesce' =>
          \/ error' \/ \E c \in Consumers : ending'[c] = "overflowed"
          \/ \A k \in 1..published' : \/ \E i \in DOMAIN Items' : Items'[i] = k
                                      \/ \E c \in Consumers : k \in received'[c]
    BY <1>1, <1>3 DEF IInv, EndInv
  <2> QED BY <2>1, <2>2, <2>3 DEF EndInv
<1>9. NewestInv'
  BY <1>1, <1>3 DEF IInv, NewestInv
<1> QED BY <1>5, <1>6, <1>7, <1>8, <1>9 DEF IInv

-----------------------------------------------------------------------------
(***************************************************************************)
(* One step, whoever makes it.                                             *)
(***************************************************************************)

\* What was delivered is older than what a step delivers.
Delivers ==
  \A c \in Consumers : \A new \in received'[c] \ received[c] :
    \A d \in Consumers : \A old \in received[d] : old < new

LEMMA InitIInv == Init => IInv
<1> SUFFICES ASSUME Init PROVE IInv
  OBVIOUS
<1> USE DEF Init
<1>1. Items = <<>> /\ DOMAIN Items = {}
  BY DEF Items
<1>2. TypeOK
  <2>1. queue \in [items : Seq(0..MaxItem), getters : Seq(Consumers)]
    OBVIOUS
  <2>2. Len(queue.items) <= Capacity
    BY CapacityAssumption
  <2>3. /\ coalesce \in BOOLEAN /\ direct \subseteq Consumers
        /\ closed \in BOOLEAN /\ error \in BOOLEAN
    OBVIOUS
  <2>4. /\ cleanup \in {"armed", "running", "done"} /\ published \in 0..MaxItem
        /\ received \in [Consumers -> SUBSET (1..MaxItem)]
    BY MaxItemAssumption
  <2>5. pc \in [Tasks -> Stages] /\ ending \in [Tasks -> Endings]
    BY DEF Stages, Endings
  <2> QED BY <2>1, <2>2, <2>3, <2>4, <2>5 DEF TypeOK
<1>3. OrderInv /\ ClosedInv
  BY <1>1 DEF OrderInv, ClosedInv, Gone
<1>4. EndInv /\ NewestInv
  <2>1. 1..published = {} /\ ~(published > 0)
    OBVIOUS
  <2>2. \A t \in Tasks : ending[t] = "none"
    OBVIOUS
  <2> QED BY <1>1, <2>1, <2>2 DEF EndInv, NewestInv, Tasks
<1> QED BY <1>2, <1>3, <1>4 DEF IInv

LEMMA TakeKeeps ==
  ASSUME IInv, NEW c \in Consumers, pc[c] \notin Gone, Items # <<>>, Take(c),
         UNCHANGED <<coalesce, direct, error, published>>
  PROVE  IInv' /\ Delivers
<1>1. queue \in Queues /\ Items \in Seq(0..MaxItem) /\ c \in Tasks
  BY DEF IInv, TypeOK, Queues, Items, Tasks
<1>2. CASE Head(Items) = CLOSED
  <2> DEFINE rest == [queue EXCEPT !.items = Tail(@)]
  <2>1. Leave(c, rest, Generator(c), "stopped") /\ received' = received
    BY <1>2 DEF Take, Items
  <2>2. rest \in Queues /\ rest.items = Tail(Items)
    BY <1>1, CapacityAssumption DEF Queues, Items
  <2>3. Generator(c) \in 0..2
    BY DEF Generator
  <2>4. \A i \in DOMAIN Items : Items[i] = CLOSED
    BY <1>2, BehindSentinel DEF IInv
  <2>5. closed /\ cleanup # "armed"
    <3>1. 1 \in DOMAIN Items
      BY <1>1
    <3> QED BY <2>4, <3>1 DEF IInv, ClosedInv
  <2>6. \A i \in DOMAIN Tail(Items) : Tail(Items)[i] = CLOSED
    BY <1>1, <2>4
  <2>7. Remains(rest)
    BY <1>2, <2>2 DEF Remains
  <2>8. "stopped" \in Endings /\ "stopped" # "none"
    BY DEF Endings
  <2> HIDE DEF rest
  <2>9. IInv'
    BY <1>1, <2>1, <2>2, <2>3, <2>5, <2>6, <2>7, <2>8, LeavesKeep
  <2> QED BY <2>1, <2>9 DEF Delivers
<1>3. CASE Head(Items) # CLOSED
  <2>1. /\ queue' = [queue EXCEPT !.items = Tail(@)]
        /\ received' = [received EXCEPT ![c] = @ \cup {Head(Items)}]
        /\ pc' = [pc EXCEPT ![c] = "running"]
        /\ UNCHANGED <<closed, cleanup, ending>>
    BY <1>3 DEF Take, Items, Go
  <2>2. /\ IInv'
        /\ \A new \in received'[c] \ received[c] :
              \A d \in Consumers : \A old \in received[d] : old < new
    BY <1>3, <2>1, TakeItemKeeps
  <2>3. \A d \in Consumers : d # c => received'[d] = received[d]
    BY <2>1 DEF IInv, TypeOK
  <2> QED BY <2>2, <2>3 DEF Delivers
<1> QED BY <1>2, <1>3

\* A getter joins the queue, and the task goes on waiting.
LEMMA JoinKeeps ==
  ASSUME IInv, NEW c \in Consumers, pc[c] \notin Gone,
         queue' = [queue EXCEPT !.getters = Append(@, c)],
         pc' = [pc EXCEPT ![c] = "getting"],
         UNCHANGED <<coalesce, direct, closed, error, cleanup, published,
                     received, ending>>
  PROVE  IInv'
<1>1. queue \in Queues
  BY DEF IInv, TypeOK, Queues
<1>2. Append(queue.getters, c) \in Seq(Consumers)
  BY <1>1 DEF Queues
<1>3. queue' \in Queues /\ Items' = Items
  BY <1>1, <1>2 DEF Queues, Items
<1> QED BY <1>3, WaitKeeps

LEMMA AnextKeeps ==
  ASSUME IInv, NEW c \in Consumers, Anext(c)
  PROVE  IInv' /\ Delivers
<1>1. /\ queue \in Queues /\ Items \in Seq(0..MaxItem) /\ c \in Tasks
      /\ Remains(queue) /\ pc[c] \notin Gone /\ Generator(c) \in 0..1
      /\ UNCHANGED <<coalesce, direct, published>>
  BY DEF IInv, TypeOK, Queues, Items, Tasks, Remains, Anext, made, Gone, Generator
<1>2. CASE error /\ error' = FALSE /\ received' = received
           /\ Leave(c, queue, 1 + Generator(c), "overflowed")
  <2> DEFINE n == 1 + Generator(c)
  <2>1. n \in 0..2 /\ n > 0 /\ n # 0
    BY <1>1
  <2>2. "overflowed" \in Endings /\ "overflowed" # "none" /\ "overflowed" # "stopped"
    BY DEF Endings
  <2>3. Leave(c, queue, n, "overflowed")
    BY <1>2
  <2> HIDE DEF n
  <2>4. IInv'
    BY <1>1, <1>2, <2>1, <2>2, <2>3, LeavesKeep
  <2> QED BY <1>2, <2>4 DEF Delivers
<1>3. CASE ~error /\ Drained /\ error' = error /\ received' = received
           /\ Leave(c, queue, Generator(c), "stopped")
  <2>1. Generator(c) \in 0..2
    BY <1>1
  <2>2. "stopped" \in Endings /\ "stopped" # "none"
    BY DEF Endings
  <2>3. closed /\ cleanup # "armed" /\ DOMAIN queue.items = {}
    BY <1>3 DEF Drained, IInv, ClosedInv
  <2>4. IInv'
    BY <1>1, <1>3, <2>1, <2>2, <2>3, LeavesKeep
  <2> QED BY <1>3, <2>4 DEF Delivers
<1>4. CASE queue.items # <<>> /\ Take(c) /\ error' = error
  BY <1>1, <1>4, TakeKeeps DEF Items
<1>5. CASE /\ queue' = [queue EXCEPT !.getters = Append(@, c)]
           /\ Go(c, "getting")
           /\ UNCHANGED <<closed, error, cleanup, received, ending>>
  <2>1. IInv'
    BY <1>1, <1>5, JoinKeeps DEF Go
  <2> QED BY <1>5, <2>1 DEF Delivers
<1> QED BY <1>2, <1>3, <1>4, <1>5 DEF Anext

LEMMA GetterRunsKeeps ==
  ASSUME IInv, NEW c \in Consumers, GetterRuns(c)
  PROVE  IInv' /\ Delivers
<1>1. pc[c] \notin Gone /\ UNCHANGED <<coalesce, direct, error, published>>
  BY DEF GetterRuns, made, Gone
<1>2. CASE queue.items # <<>>
  BY <1>1, <1>2, TakeKeeps DEF GetterRuns, Items
<1>3. CASE queue.items = <<>>
  <2>1. /\ queue' = [queue EXCEPT !.getters = Append(@, c)]
        /\ UNCHANGED <<closed, cleanup, received, pc, ending>>
    BY <1>3 DEF GetterRuns
  <2>2. pc' = [pc EXCEPT ![c] = "getting"]
    BY <2>1 DEF GetterRuns, IInv, TypeOK
  <2>3. IInv'
    BY <1>1, <2>1, <2>2, JoinKeeps
  <2> QED BY <2>1, <2>3 DEF Delivers
<1> QED BY <1>2, <1>3

LEMMA CancelKeeps ==
  ASSUME IInv, NEW c \in Consumers, Cancel(c)
  PROVE  IInv' /\ Delivers
<1>1. /\ pc[c] \notin Gone /\ pc' = [pc EXCEPT ![c] = "cancelled"]
      /\ UNCHANGED <<coalesce, direct, closed, error, cleanup, published,
                     received, ending>>
  BY DEF Cancel, made, Go, Gone
<1>2. queue \in Queues
  BY DEF IInv, TypeOK, Queues
<1>3. Waiting(c) => Forgotten(queue.getters, c) \in Seq(Consumers)
  <2> DEFINE g == queue.getters
  <2> DEFINE i == CHOOSE j \in DOMAIN g : g[j] = c
  <2> SUFFICES ASSUME Waiting(c) PROVE RemoveAt(g, i) \in Seq(Consumers)
    BY DEF Forgotten
  <2>1. g \in Seq(Consumers) /\ Len(g) \in Nat /\ DOMAIN g = 1..Len(g)
    BY <1>2 DEF Queues
  <2>2. \E j \in DOMAIN g : g[j] = c
    BY DEF Waiting, ToSet
  <2>3. i \in 1..Len(g)
    BY <2>1, <2>2
  <2> HIDE DEF g, i
  <2>4. /\ SubSeq(g, 1, i - 1) \in Seq(Consumers)
        /\ SubSeq(g, i + 1, Len(g)) \in Seq(Consumers)
    BY <2>1, <2>3
  <2> QED BY <2>4 DEF RemoveAt
<1>4. WakeFirst(queue.getters) \in Seq(Consumers)
  BY <1>2, WakeFirstType DEF Queues
<1>5. \/ queue' = queue
      \/ \E g \in Seq(Consumers) : queue' = [queue EXCEPT !.getters = g]
  BY <1>3, <1>4 DEF Cancel
<1>6. queue' \in Queues /\ Items' = Items
  BY <1>2, <1>5 DEF Queues, Items
<1>7. IInv'
  BY <1>1, <1>6, WaitKeeps
<1> QED BY <1>1, <1>7 DEF Delivers

\* Close, CancelCloses and Abandon: a task leaves of its own will.
LEMMA LeftKeeps ==
  ASSUME IInv, NEW t \in Tasks, NEW closes \in 1..2,
         Leave(t, queue, closes, "left"), pc[t] \notin Gone,
         UNCHANGED <<made, error, published, received>>
  PROVE  IInv' /\ Delivers
<1>1. queue \in Queues /\ Remains(queue)
  BY DEF IInv, TypeOK, Queues, Remains, Items
<1>2. "left" \in Endings /\ "left" # "none" /\ "left" # "stopped"
  BY DEF Endings
<1>3. closes \in 0..2 /\ closes # 0
  OBVIOUS
<1>4. IInv'
  BY <1>1, <1>2, <1>3, LeavesKeep DEF made
<1> QED BY <1>4 DEF Delivers

LEMMA StepKeeps ==
  ASSUME IInv, [Next]_vars
  PROVE  IInv' /\ Delivers
<1>1. CASE Publish
  <2>1. IInv'
    BY <1>1, PublishKeeps
  <2> QED BY <1>1, <2>1 DEF Publish, Delivers
<1>2. ASSUME NEW t \in Closers, Close(t) PROVE IInv' /\ Delivers
  <2>1. t \in Tasks /\ pc[t] \notin Gone
    BY <1>2 DEF Tasks, Close, Gone
  <2> QED BY <1>2, <2>1, LeftKeeps DEF Close
<1>3. ASSUME NEW t \in Tasks, CleanupEnds(t) PROVE IInv' /\ Delivers
  <2>1. IInv'
    BY <1>3, CleanupKeeps
  <2> QED BY <1>3, <2>1 DEF CleanupEnds, Delivers
<1>4. ASSUME NEW c \in Consumers, Iterate(c) PROVE IInv' /\ Delivers
  <2>1. CASE CancelCloses(c)
    <3>1. c \in Tasks /\ pc[c] \notin Gone /\ ClosesWhenCancelled(c) \in 1..2
      BY <2>1 DEF Tasks, CancelCloses, Gone, ClosesWhenCancelled, Generator
    <3> QED BY <2>1, <3>1, LeftKeeps DEF CancelCloses
  <2> QED BY <1>4, <2>1, AnextKeeps, GetterRunsKeeps DEF Iterate
<1>5. ASSUME NEW c \in Consumers, Abandon(c) PROVE IInv' /\ Delivers
  <2>1. c \in Tasks /\ pc[c] \notin Gone
    BY <1>5 DEF Tasks, Abandon, Gone
  <2> QED BY <1>5, <2>1, LeftKeeps DEF Abandon
<1>6. CASE UNCHANGED vars
  <2>1. UNCHANGED <<coalesce, direct, queue, closed, error, cleanup, published,
                    received, pc, ending>>
    BY <1>6 DEF vars
  <2>2. TypeOK' /\ OrderInv' /\ ClosedInv'
    BY <2>1 DEF IInv, TypeOK, OrderInv, ClosedInv, Items
  <2>3. EndInv' /\ NewestInv'
    BY <2>1 DEF IInv, EndInv, NewestInv, Items
  <2> QED BY <2>1, <2>2, <2>3 DEF IInv, Delivers
<1> QED BY <1>1, <1>2, <1>3, <1>4, <1>5, <1>6, CancelKeeps DEF Next

LEMMA AlwaysIInv == Spec => []IInv
<1>1. IInv /\ [Next]_vars => IInv'
  BY StepKeeps
<1> QED BY <1>1, InitIInv, PTL DEF Spec

-----------------------------------------------------------------------------
(***************************************************************************)
(* The results.                                                            *)
(***************************************************************************)

\* The stream's variables keep their types and the queue its capacity.
THEOREM TypeCorrect == Spec => []TypeOK
<1>1. IInv => TypeOK
  BY DEF IInv
<1> QED BY <1>1, AlwaysIInv, PTL

\* A coalescing stream never loses the newest item, however full it is.
THEOREM Newest == Spec => []NewestKept
<1>1. IInv => NewestKept
  BY DEF IInv, NewestInv, NewestKept, Items, ToSet, ReceivedByAny
<1> QED BY <1>1, AlwaysIInv, PTL

\* A lossless stream that simply ends has delivered everything or reports an
\* overflow.
THEOREM Complete == Spec => []StopMeansComplete
<1>1. IInv => StopMeansComplete
  <2> SUFFICES ASSUME IInv, ~coalesce, \E c \in Consumers : ending[c] = "stopped",
                      ~error, ~\E c \in Consumers : ending[c] = "overflowed",
                      NEW k \in 1..published
               PROVE  k \in ReceivedByAny
    BY DEF StopMeansComplete
  <2>1. \A i \in DOMAIN Items : Items[i] = CLOSED
    BY DEF IInv, EndInv
  <2>2. k # CLOSED
    BY MaxItemAssumption DEF IInv, TypeOK, CLOSED
  <2>3. \E c \in Consumers : k \in received[c]
    BY <2>1, <2>2 DEF IInv, EndInv
  <2> QED BY <2>3 DEF ReceivedByAny
<1> QED BY <1>1, AlwaysIInv, PTL

\* A task that has left the stream has seen its subscription being given up.
THEOREM Unregistered == Spec => []UnregisteredWhenLeft
<1>1. IInv => UnregisteredWhenLeft
  BY DEF IInv, ClosedInv, UnregisteredWhenLeft, Gone
<1> QED BY <1>1, AlwaysIInv, PTL

\* No consumer is given an item older than one somebody was given before.
THEOREM Ordered == Spec => InOrder
<1>1. IInv /\ [Next]_vars =>
        [\A c \in Consumers : \A new \in received'[c] \ received[c] :
           \A old \in ReceivedByAny : old < new]_vars
  <2> SUFFICES ASSUME IInv, [Next]_vars
               PROVE  \A c \in Consumers : \A new \in received'[c] \ received[c] :
                        \A old \in ReceivedByAny : old < new
    OBVIOUS
  <2>1. Delivers
    BY StepKeeps
  <2> QED BY <2>1 DEF Delivers, ReceivedByAny
<1> QED BY <1>1, AlwaysIInv, PTL DEF Spec, InOrder
=============================================================================
