---------------------------- MODULE OrderTracking ----------------------------
(***************************************************************************)
(* The trackers of OrderService: handle_event, list, get and wait over     *)
(* OrderTracker.update.                                                    *)
(*                                                                         *)
(* A tracker hears of its order twice: through WebSocket events, in order  *)
(* but lost with the connection, and through REST pages, which are read at  *)
(* the broker at one moment and applied at a later one.  list() applies a   *)
(* page without suspending, so a page is one step; everything else         *)
(* interleaves.  Orders carry their status and whether the profit is known. *)
(***************************************************************************)
EXTENDS Sequences, OrderStatus

CONSTANTS Tasks  \* calls of list_orders and wait_order

VARIABLES
  broker,   \* the broker's status of each order, "none" before it exists
  past,     \* the statuses each order has had
  tracked,  \* _trackers: the record of each order, NoRecord if there is none
  events,   \* order events on their way to this connection
  link,     \* whether the WebSocket is up
  stage,    \* where each task stands
  purpose,  \* what the task's REST read is for
  target,   \* the order the task is about
  page,     \* the REST page on its way to the task
  outcome   \* how the task ended

vars == <<broker, past, tracked, events, link, stage, purpose, target,
          page, outcome>>

\* What the client believes of each order.
Known == [o \in Orders |-> tracked[o].status]
Life == INSTANCE OrderLife WITH known <- Known

Record(status, profit) == [status |-> status, profit |-> profit]
NoRecord == Record("none", FALSE)
Records == [status : Statuses, profit : BOOLEAN]
EmptyPage == [o \in Orders |-> NoRecord]

Ending(kind, o, record) == [kind |-> kind, order |-> o, record |-> record]
Pending == "pending"

TypeOK ==
  /\ broker \in [Orders -> Statuses \cup {"none"}]
  /\ past \in [Orders -> SUBSET Statuses]
  /\ tracked \in [Orders -> Records \cup {NoRecord}]
  /\ events \in Seq([order : Orders, record : Records])
  /\ link \in BOOLEAN
  /\ stage \in [Tasks -> {"idle", "asked", "served", "watching", "done"}]
  /\ purpose \in [Tasks -> {"list", "find", "reconcile"}]
  /\ target \in [Tasks -> Orders]
  /\ page \in [Tasks -> [Orders -> Records \cup {NoRecord}]]
  /\ outcome \in [Tasks -> [kind : {Pending, "listed", "settled", "timeout",
                                    "unknown", "protocol", "rest"},
                            order : Orders,
                            record : Records \cup {NoRecord}]]

Init ==
  /\ broker = [o \in Orders |-> "none"]
  /\ past = [o \in Orders |-> {}]
  /\ tracked = EmptyPage
  /\ events = <<>>
  /\ link = TRUE
  /\ stage = [t \in Tasks |-> "idle"]
  /\ purpose = [t \in Tasks |-> "list"]
  /\ target \in [Tasks -> Orders]
  /\ page = [t \in Tasks |-> EmptyPage]
  /\ outcome = [t \in Tasks |-> Ending(Pending, target[t], NoRecord)]

IsTerminal(record) == record.status \in Terminal

-----------------------------------------------------------------------------
(***************************************************************************)
(* OrderTracker.update                                                     *)
(***************************************************************************)

\* Whether the tracker of the old record accepts the new one.
MutAcceptsAnyOpen(old, new) ==
  old.status = "none" \/ ~IsTerminal(old) \/ new.status = old.status
Accepts(old, new) ==
  old.status = "none" \/ new.status \in LegalAfter(old.status)

\* Outside the terminal statuses the record is replaced; inside, a field the
\* new record lacks is kept.
MutMerged(old, new) == new
Merged(old, new) ==
  IF IsTerminal(old) THEN [new EXCEPT !.profit = @ \/ old.profit] ELSE new

\* Several records applied without suspending in between.
Apply(rows, applied) ==
  tracked' = [o \in Orders |-> IF o \in applied
                                 THEN Merged(tracked[o], rows[o])
                                 ELSE tracked[o]]

-----------------------------------------------------------------------------
(***************************************************************************)
(* The broker (external)                                                   *)
(***************************************************************************)

\* A terminal record may still lack its financial fields.
RecordsWith(status) ==
  {r \in Records : r.status = status /\ (r.profit => IsTerminal(r))}

\* Each move is announced once, to the connection that is up at the time.
Move(o, status) ==
  /\ Life!BrokerMoves(o, status)
  /\ IF link
       THEN \E r \in RecordsWith(status) :
              events' = Append(events, [order |-> o, record |-> r])
       ELSE UNCHANGED events
  /\ UNCHANGED <<tracked, link, stage, purpose, target, page, outcome>>

\* The REST read happens at the broker.  get() asks for every status of one
\* symbol and timeframe, so its page holds the target if it exists; list()
\* may filter it out.
Serve(t) ==
  /\ stage[t] = "asked"
  /\ \E rows \in SUBSET {o \in Orders : broker[o] # "none"} :
       /\ purpose[t] # "list" /\ broker[target[t]] # "none"
            => target[t] \in rows
       /\ \E p \in [Orders -> Records \cup {NoRecord}] :
            /\ \A o \in Orders : p[o] \in IF o \in rows
                                           THEN RecordsWith(broker[o])
                                           ELSE {NoRecord}
            /\ page' = [page EXCEPT ![t] = p]
  /\ stage' = [stage EXCEPT ![t] = "served"]
  /\ UNCHANGED <<broker, past, tracked, events, link, purpose, target,
                 outcome>>

-----------------------------------------------------------------------------
(***************************************************************************)
(* The WebSocket side                                                      *)
(***************************************************************************)

\* handle_event creates or updates the tracker.  An update the tracker
\* refuses raises through the receive loop: the connection is lost, and the
\* frames behind it with it.
HandleEvent ==
  /\ link /\ events # <<>>
  /\ LET o == Head(events).order
         new == Head(events).record
     IN  IF Accepts(tracked[o], new)
           THEN /\ Apply([EmptyPage EXCEPT ![o] = new], {o})
                /\ events' = Tail(events)
                /\ UNCHANGED link
           ELSE /\ events' = <<>>
                /\ link' = FALSE
                /\ UNCHANGED tracked
  /\ UNCHANGED <<broker, past, stage, purpose, target, page, outcome>>

LinkDown ==
  /\ link
  /\ link' = FALSE
  /\ events' = <<>>
  /\ UNCHANGED <<broker, past, tracked, stage, purpose, target, page,
                 outcome>>

LinkUp ==
  /\ ~link
  /\ link' = TRUE
  /\ UNCHANGED <<broker, past, tracked, events, stage, purpose, target,
                 page, outcome>>

-----------------------------------------------------------------------------
(***************************************************************************)
(* list, get and wait                                                      *)
(***************************************************************************)

Ask(t, why) ==
  /\ stage' = [stage EXCEPT ![t] = "asked"]
  /\ purpose' = [purpose EXCEPT ![t] = why]

End(t, kind, o, record) ==
  /\ stage' = [stage EXCEPT ![t] = "done"]
  /\ outcome' = [outcome EXCEPT ![t] = Ending(kind, o, record)]

Watch(t) == stage' = [stage EXCEPT ![t] = "watching"] /\ UNCHANGED outcome

List(t) ==
  /\ stage[t] = "idle"
  /\ Ask(t, "list")
  /\ UNCHANGED <<broker, past, tracked, events, link, target, page,
                 outcome>>

\* wait() starts with get(): a tracked order is returned from memory.
Wait(t) ==
  /\ stage[t] = "idle"
  /\ IF tracked[target[t]] # NoRecord
       THEN Watch(t) /\ UNCHANGED purpose
       ELSE Ask(t, "find") /\ UNCHANGED outcome
  /\ UNCHANGED <<broker, past, tracked, events, link, target, page>>

\* The record get() returns once its page is applied: the page's own row, or
\* the tracker's when the page has none.
Found(t) ==
  IF page[t][target[t]] # NoRecord THEN page[t][target[t]]
                                   ELSE tracked[target[t]]

\* Only a terminal record is a settlement; anything else is a timeout.
MutSettles(record) == record # NoRecord
Settles(record) == IsTerminal(record)

RowsOf(t) == {o \in Orders : page[t][o] # NoRecord}
Refused(t) == {o \in RowsOf(t) : ~Accepts(tracked[o], page[t][o])}

\* The whole page is applied and the read has its answer.
ApplyPage(t) ==
  /\ stage[t] = "served"
  /\ Refused(t) = {}
  /\ Apply(page[t], RowsOf(t))
  /\ \/ purpose[t] = "list" /\ End(t, "listed", target[t], NoRecord)
     \/ /\ purpose[t] = "find"
        /\ IF Found(t) = NoRecord THEN End(t, "unknown", target[t], NoRecord)
                                  ELSE Watch(t)
     \/ /\ purpose[t] = "reconcile"
        /\ End(t, IF Settles(Found(t)) THEN "settled" ELSE "timeout",
               target[t], Found(t))
  /\ page' = [page EXCEPT ![t] = EmptyPage]
  /\ UNCHANGED <<broker, past, events, link, purpose, target>>

\* A tracker refuses its row: the rows before it stay applied, those after it
\* are dropped, and the ProtocolError reaches the caller.
ApplyFails(t) ==
  /\ stage[t] = "served"
  /\ \E bad \in Refused(t), before \in SUBSET (RowsOf(t) \ Refused(t)) :
       /\ Apply(page[t], before)
       /\ End(t, "protocol", bad, NoRecord)
  /\ page' = [page EXCEPT ![t] = EmptyPage]
  /\ UNCHANGED <<broker, past, events, link, purpose, target>>

\* The request itself fails with one of the REST errors.
RestFails(t) ==
  /\ stage[t] = "asked"
  /\ End(t, "rest", target[t], NoRecord)
  /\ UNCHANGED <<broker, past, tracked, events, link, purpose, target,
                 page>>

\* wait_terminal sees a terminal record.
Settle(t) ==
  /\ stage[t] = "watching" /\ IsTerminal(tracked[target[t]])
  /\ End(t, "settled", target[t], tracked[target[t]])
  /\ UNCHANGED <<broker, past, tracked, events, link, purpose, target,
                 page>>

\* Every wait has a deadline: its own or config.settlement_timeout.
MutHasDeadline(t) == tracked[target[t]].status = "OPEN"
HasDeadline(t) == TRUE

\* The deadline passes, and REST is asked once more.
Deadline(t) ==
  /\ stage[t] = "watching" /\ HasDeadline(t)
  /\ Ask(t, "reconcile")
  /\ UNCHANGED <<broker, past, tracked, events, link, target, page,
                 outcome>>

-----------------------------------------------------------------------------

Answer(t) == Serve(t) \/ ApplyPage(t) \/ ApplyFails(t) \/ RestFails(t)

Next ==
  \/ \E o \in Orders, status \in Statuses : Move(o, status)
  \/ HandleEvent \/ LinkDown \/ LinkUp
  \/ \E t \in Tasks : List(t) \/ Wait(t) \/ Answer(t) \/ Settle(t)
                      \/ Deadline(t)

Spec == Init /\ [][Next]_vars

\* Requests have timeouts, and a deadline passes.
Fairness ==
  \A t \in Tasks : WF_vars(Answer(t)) /\ WF_vars(Settle(t) \/ Deadline(t))

FairSpec == Spec /\ Fairness

-----------------------------------------------------------------------------
(***************************************************************************)
(* What tracking promises.                                                 *)
(***************************************************************************)

\* The trackers implement the order's life: what the client believes is a
\* status the order really had, and the belief never moves against LEGAL,
\* whatever mixture of events and pages it comes from.
FollowsLife == Life!LifeSpec

\* A settlement reports the status the broker settled the order with; a
\* deadline never invents one.
OutcomesAreTrue ==
  \A t \in Tasks : outcome[t].kind = "settled"
                     => /\ broker[target[t]] \in Terminal
                        /\ outcome[t].record.status = broker[target[t]]

\* A profit once known of a settled order is never forgotten by a later page
\* or event that lacks it.
KnownDetailKept ==
  [][\A o \in Orders : tracked[o].profit => tracked'[o].profit]_vars

\* Every wait ends.
EveryWaitReturns ==
  \A t \in Tasks : stage[t] = "watching" ~> stage[t] = "done"
=============================================================================
