------------------------------ MODULE EventStream ------------------------------
(***************************************************************************)
(* EventStream (events/streams.py): a bounded asyncio.Queue between one    *)
(* publisher and the tasks that iterate, with close() from any of them.    *)
(*                                                                         *)
(* Items are numbered in the order they are published.  asyncio.Queue is   *)
(* modelled with its waiting getters: putting an item resolves the first    *)
(* of them, which takes an item only when its task runs, so another task   *)
(* may be faster.                                                          *)
(***************************************************************************)
EXTENDS Naturals, Sequences, SequencesExt

CONSTANTS Consumers,  \* tasks that iterate
          Closers,    \* tasks that call close()
          Capacity,   \* capacity of the queue
          MaxItem     \* items published in one behaviour

Tasks == Consumers \cup Closers

ASSUME CapacityAssumption == Capacity \in Nat \ {0}
ASSUME MaxItemAssumption == MaxItem \in Nat

CLOSED == 0  \* the _CLOSED sentinel

VARIABLES
  coalesce,   \* _coalesce: market streams coalesce, raw streams are lossless
  direct,     \* consumers that call __anext__ without __aiter__'s generator
              \* (raw subscriptions, anext())
  queue,      \* _queue: its items, and the consumers whose get() waits
  closed,     \* _closed
  error,      \* _error is set
  cleanup,    \* the cleanup callback: armed, running or done
  published,  \* the last item published
  received,   \* the items each consumer was given
  pc,         \* where each task stands
  ending      \* how its iteration ended

vars == <<coalesce, direct, queue, closed, error, cleanup, published, received,
          pc, ending>>
made == <<coalesce, direct>>

Stages == {"running", "getting", "cancelled", "closing", "closing again",
           "over"}
Endings == {"none", "stopped", "overflowed", "left"}

TypeOK ==
  /\ coalesce \in BOOLEAN /\ direct \subseteq Consumers
  /\ queue \in [items : Seq(0..MaxItem), getters : Seq(Consumers)]
  /\ Len(queue.items) <= Capacity
  /\ closed \in BOOLEAN /\ error \in BOOLEAN
  /\ cleanup \in {"armed", "running", "done"}
  /\ published \in 0..MaxItem
  /\ received \in [Consumers -> SUBSET (1..MaxItem)]
  /\ pc \in [Tasks -> Stages]
  /\ ending \in [Tasks -> Endings]

Init ==
  /\ coalesce \in BOOLEAN /\ direct \in SUBSET Consumers
  /\ queue = [items |-> <<>>, getters |-> <<>>]
  /\ closed = FALSE /\ error = FALSE
  /\ cleanup = "armed"
  /\ published = 0
  /\ received = [c \in Consumers |-> {}]
  /\ pc = [t \in Tasks |-> "running"]
  /\ ending = [t \in Tasks |-> "none"]

-----------------------------------------------------------------------------
(***************************************************************************)
(* asyncio.Queue (external)                                                *)
(***************************************************************************)

Full(q) == Len(q.items) >= Capacity

WakeFirst(getters) == IF getters = <<>> THEN <<>> ELSE Tail(getters)

Put(q, item) == [items |-> Append(q.items, item),
                 getters |-> WakeFirst(q.getters)]

Waiting(c) == c \in ToSet(queue.getters)

\* The getters without c, which waits but once.
Forgotten(getters, c) ==
  RemoveAt(getters, CHOOSE i \in DOMAIN getters : getters[i] = c)

-----------------------------------------------------------------------------
(***************************************************************************)
(* publish()                                                               *)
(***************************************************************************)

\* What coalescing makes of a full queue before the new item goes in.
MutKeptWhenFull(items) == items
KeptWhenFull(items) == <<>>

MutCoalescedDrops(q, item) == IF Full(q) THEN q ELSE Put(q, item)
MutCoalescedInPlace(q, item) ==
  IF Full(q) THEN [q EXCEPT !.items = <<item>> \o Tail(@)] ELSE Put(q, item)
Coalesced(q, item) ==
  Put(IF Full(q) THEN [q EXCEPT !.items = KeptWhenFull(@)] ELSE q, item)

\* A full lossless stream takes no more items and says so.
Publish ==
  /\ ~closed /\ published < MaxItem
  /\ published' = published + 1
  /\ IF Full(queue) /\ ~coalesce
       THEN error' = TRUE /\ closed' = TRUE /\ UNCHANGED queue
       ELSE queue' = Coalesced(queue, published') /\ UNCHANGED <<error, closed>>
  /\ UNCHANGED <<made, cleanup, received, pc, ending>>

-----------------------------------------------------------------------------
(***************************************************************************)
(* close()                                                                 *)
(***************************************************************************)

Go(t, where) == pc' = [pc EXCEPT ![t] = where]

\* What one call of close() does to the queue.
MutShut(q) == Put([q EXCEPT !.items = <<>>], CLOSED)
Shut(q) == IF Full(q) THEN q ELSE Put(q, CLOSED)

\* A task leaves through `closes` calls of close(); the one that finds the
\* cleanup armed waits for it, the others return at once.
Leave(t, q, closes, how) ==
  /\ ending' = [ending EXCEPT ![t] = how]
  /\ \/ /\ closes = 0
        /\ queue' = q
        /\ Go(t, "over")
        /\ UNCHANGED <<closed, cleanup>>
     \/ /\ closes > 0 /\ cleanup = "armed"
        /\ closed' = TRUE
        /\ queue' = Shut(q)
        /\ cleanup' = "running"
        /\ Go(t, IF closes = 1 THEN "closing" ELSE "closing again")
     \/ /\ closes > 0 /\ cleanup # "armed"
        /\ closed' = TRUE
        /\ queue' = IF closes = 1 THEN Shut(q) ELSE Shut(Shut(q))
        /\ Go(t, "over")
        /\ UNCHANGED cleanup

\* The generator of __aiter__ closes the stream whenever it ends; __anext__
\* closes it before it raises an overflow or a cancellation.
MutGenerator(c) == 0
Generator(c) == IF c \in direct THEN 0 ELSE 1
MutClosesWhenCancelled(c) == 0
ClosesWhenCancelled(c) == 1 + Generator(c)

Close(t) ==
  /\ t \in Closers /\ pc[t] = "running"
  /\ Leave(t, queue, 1, "left")
  /\ UNCHANGED <<made, error, published, received>>

\* The unsubscribe returns or raises.
CleanupEnds(t) ==
  /\ pc[t] \in {"closing", "closing again"}
  /\ cleanup' = "done"
  /\ queue' = IF pc[t] = "closing again" THEN Shut(queue) ELSE queue
  /\ Go(t, "over")
  /\ UNCHANGED <<made, closed, error, published, received, ending>>

-----------------------------------------------------------------------------
(***************************************************************************)
(* Iteration                                                               *)
(***************************************************************************)

Take(c) ==
  LET item == Head(queue.items)
      rest == [queue EXCEPT !.items = Tail(@)]
  IN  IF item = CLOSED
        THEN Leave(c, rest, Generator(c), "stopped") /\ UNCHANGED received
        ELSE /\ queue' = rest
             /\ received' = [received EXCEPT ![c] = @ \cup {item}]
             /\ Go(c, "running")
             /\ UNCHANGED <<closed, cleanup, ending>>

\* __anext__ stops at once when the stream is closed and drained.
Drained == closed /\ queue.items = <<>>

\* __anext__, up to its answer or to queue.get()'s wait.
Anext(c) ==
  /\ pc[c] = "running"
  /\ \/ /\ error
        /\ error' = FALSE
        /\ Leave(c, queue, 1 + Generator(c), "overflowed")
        /\ UNCHANGED received
     \/ /\ ~error /\ Drained
        /\ Leave(c, queue, Generator(c), "stopped")
        /\ UNCHANGED <<error, received>>
     \/ /\ ~error /\ ~Drained /\ queue.items # <<>>
        /\ Take(c)
        /\ UNCHANGED error
     \/ /\ ~error /\ ~Drained /\ queue.items = <<>>
        /\ queue' = [queue EXCEPT !.getters = Append(@, c)]
        /\ Go(c, "getting")
        /\ UNCHANGED <<closed, error, cleanup, received, ending>>
  /\ UNCHANGED <<made, published>>

\* A resolved getter's task runs: somebody may have taken the item.
GetterRuns(c) ==
  /\ pc[c] = "getting" /\ ~Waiting(c)
  /\ IF queue.items # <<>>
       THEN Take(c)
       ELSE /\ queue' = [queue EXCEPT !.getters = Append(@, c)]
            /\ UNCHANGED <<closed, cleanup, received, pc, ending>>
  /\ UNCHANGED <<made, error, published>>

\* The task is cancelled in queue.get(), which passes its wakeup on if it had
\* one.  The shielded close() runs as a task of its own, a moment later.
Cancel(c) ==
  /\ pc[c] = "getting"
  /\ queue' = IF Waiting(c)
                THEN [queue EXCEPT !.getters = Forgotten(@, c)]
                ELSE IF queue.items # <<>>
                       THEN [queue EXCEPT !.getters = WakeFirst(@)]
                       ELSE queue
  /\ Go(c, "cancelled")
  /\ UNCHANGED <<made, closed, error, cleanup, published, received, ending>>

CancelCloses(c) ==
  /\ pc[c] = "cancelled"
  /\ Leave(c, queue, ClosesWhenCancelled(c), "left")
  /\ UNCHANGED <<made, error, published, received>>

\* The consumer leaves the loop, and the stream's context with it.
Abandon(c) ==
  /\ pc[c] = "running"
  /\ Leave(c, queue, 1, "left")
  /\ UNCHANGED <<made, error, published, received>>

-----------------------------------------------------------------------------

Iterate(c) == Anext(c) \/ GetterRuns(c) \/ CancelCloses(c)

Next ==
  \/ Publish
  \/ \E t \in Closers : Close(t)
  \/ \E t \in Tasks : CleanupEnds(t)
  \/ \E c \in Consumers : Iterate(c) \/ Cancel(c) \/ Abandon(c)

Spec == Init /\ [][Next]_vars

\* Consumers keep iterating, a runnable task runs, and an unsubscribe returns
\* or raises.
Fairness ==
  /\ \A c \in Consumers : WF_vars(Iterate(c))
  /\ \A t \in Tasks : WF_vars(CleanupEnds(t))

FairSpec == Spec /\ Fairness

-----------------------------------------------------------------------------
(***************************************************************************)
(* What a stream promises.                                                 *)
(***************************************************************************)

ReceivedByAny == UNION {received[c] : c \in Consumers}

\* Coalescing never loses the latest state: the newest item is in the queue or
\* was delivered, however full the queue is and whoever takes from it.
NewestKept ==
  coalesce /\ published > 0
    => published \in ToSet(queue.items) \cup ReceivedByAny

\* Nothing is delivered after something newer: market state never runs back.
InOrder ==
  [][\A c \in Consumers : \A new \in received'[c] \ received[c] :
       \A old \in ReceivedByAny : old < new]_vars

\* A lossless stream that simply ends has delivered everything published into
\* it; what an overflow dropped has been, or will be, reported.
StopMeansComplete ==
  ~coalesce /\ (\E c \in Consumers : ending[c] = "stopped")
    => \/ 1..published \subseteq ReceivedByAny
       \/ error \/ \E c \in Consumers : ending[c] = "overflowed"

\* Whoever left the stream, its subscription has been given up.
UnregisteredWhenLeft ==
  (\E t \in Tasks : pc[t] = "over") => cleanup # "armed"

\* A closed stream that is iterated through its generator lets all its
\* consumers go, the blocked ones too, although one sentinel wakes only one of
\* them and a full queue takes none: each that leaves closes again.
EveryConsumerEnds ==
  \A c \in Consumers :
    direct = {} /\ closed /\ pc[c] = "getting" ~> pc[c] = "over"
=============================================================================
