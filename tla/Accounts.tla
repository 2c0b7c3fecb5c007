-------------------------------- MODULE Accounts --------------------------------
(***************************************************************************)
(* AccountService (accounts/service.py) over EventDispatcher: the selected *)
(* account and its balance, which REST answers and balance events both     *)
(* write, and the BalanceEvents the handlers are given.                    *)
(*                                                                         *)
(* Amounts are numbered as the broker books them.  An event on the user    *)
(* topic may leave out the account it is about; handle_event then takes it *)
(* to be about the selected one.                                           *)
(***************************************************************************)
EXTENDS EventDispatcher

CONSTANTS AccountIds,  \* accounts; one for each environment
          Selectors,   \* calls of select(), each made once; balance() makes one
                       \* when nothing is selected
          MaxAmount,   \* bound: amounts booked in one behaviour
          Nobody       \* no account

ASSUME NobodyAssumption == Nobody \notin AccountIds
ASSUME MaxAmountAssumption == MaxAmount \in Nat

VARIABLES
  booked,    \* the last amount booked at the broker
  balance,   \* the balance of each account there
  past,      \* every balance it has had
  inbox,     \* balance events on their way, in order
  selected,  \* accounts.selected: its id, its balance and who wrote that
  pages,     \* each call's answer to listAccounts, between broker and client
  select,    \* where each call of select() stands
  reached    \* handlers registered when the last event was applied

vars == <<dispatcher, booked, balance, past, inbox, selected, pages, select,
          reached>>

NoAccount == [id |-> Nobody, balance |-> 0, by |-> "nobody"]

Writers == {"nobody", "rest", "event", "unnamed"}
BalanceEvents == [id : AccountIds, balance : 0..MaxAmount]

TypeOK ==
  /\ handlers \in Seq(Handlers) /\ added \subseteq Handlers
  /\ tasks \in Seq([handler : Handlers, event : BalanceEvents,
                    stage : {"created", "running"}, cancel : BOOLEAN,
                    found : BOOLEAN, awaited : BOOLEAN, closes : BOOLEAN])
  /\ called \in [Handlers -> BalanceEvents \cup {NoEvent}]
  /\ closing \in [stage : {"open", "joining", "closed", "cancelling",
                          "cancelled"}, nested : BOOLEAN]
  /\ booked \in 0..MaxAmount
  /\ balance \in [AccountIds -> 0..MaxAmount]
  /\ past \in [AccountIds -> SUBSET (0..MaxAmount)]
  /\ inbox \in Seq([id : AccountIds, balance : 0..MaxAmount, named : BOOLEAN])
  /\ selected \in [id : AccountIds \cup {Nobody}, balance : 0..MaxAmount,
                   by : Writers]
  /\ pages \in [Selectors -> [AccountIds -> 0..MaxAmount]]
  /\ select \in [Selectors -> {"idle", "asking", "answered", "over"}]
  /\ reached \subseteq Handlers

Init ==
  /\ DispatcherInit
  /\ booked = 0
  /\ balance = [a \in AccountIds |-> 0]
  /\ past = [a \in AccountIds |-> {0}]
  /\ inbox = <<>>
  /\ selected = NoAccount
  /\ pages = [c \in Selectors |-> balance]
  /\ select = [c \in Selectors |-> "idle"]
  /\ reached = {}

-----------------------------------------------------------------------------
(***************************************************************************)
(* The broker                                                              *)
(***************************************************************************)

\* A balance changes, and the user topic says so.
Book(a, named) ==
  /\ booked < MaxAmount
  /\ booked' = booked + 1
  /\ balance' = [balance EXCEPT ![a] = booked']
  /\ past' = [past EXCEPT ![a] = @ \cup {booked'}]
  /\ inbox' = Append(inbox, [id |-> a, balance |-> booked', named |-> named])
  /\ UNCHANGED <<dispatcher, selected, pages, select, reached>>

\* listAccounts is answered; the answer is on its way.
Serve(c) ==
  /\ select[c] = "asking"
  /\ select' = [select EXCEPT ![c] = "answered"]
  /\ pages' = [pages EXCEPT ![c] = balance]
  /\ UNCHANGED <<dispatcher, booked, balance, past, inbox, selected, reached>>

-----------------------------------------------------------------------------
(***************************************************************************)
(* select() and handle_event()                                             *)
(***************************************************************************)

Ask(c) ==
  /\ select[c] = "idle"
  /\ select' = [select EXCEPT ![c] = "asking"]
  /\ UNCHANGED <<dispatcher, booked, balance, past, inbox, selected, pages,
                 reached>>

\* The account of the wanted environment is taken from the page, balance and
\* all.  What _account_selected does then is in ClientLifecycle.
Selected(c, a) ==
  /\ select[c] = "answered"
  /\ select' = [select EXCEPT ![c] = "over"]
  /\ selected' = [id |-> a, balance |-> pages[c][a], by |-> "rest"]
  /\ UNCHANGED <<dispatcher, booked, balance, past, inbox, pages, reached>>

\* The request fails, or no account has that environment.
SelectFails(c) ==
  /\ select[c] \in {"asking", "answered"}
  /\ select' = [select EXCEPT ![c] = "over"]
  /\ UNCHANGED <<dispatcher, booked, balance, past, inbox, selected, pages,
                 reached>>

\* An event that names another account is not for the selected one.
MutConcerns(e) == selected.id # Nobody
Concerns(e) == selected.id # Nobody /\ (e.named => e.id = selected.id)

Rebalanced(e) ==
  [selected EXCEPT !.balance = e.balance,
                   !.by = IF e.named THEN "event" ELSE "unnamed"]

\* The BalanceEvent carries the account as it is after the event.
MutEventOf(e) == [id |-> selected.id, balance |-> selected.balance]
EventOf(e) == [id |-> selected.id, balance |-> Rebalanced(e).balance]

HandleEvent ==
  /\ inbox # <<>>
  /\ inbox' = Tail(inbox)
  /\ LET e == Head(inbox)
     IN  IF Concerns(e)
           THEN /\ selected' = Rebalanced(e)
                /\ reached' = ToSet(handlers)
                /\ Emit(EventOf(e))
           ELSE UNCHANGED <<selected, reached, dispatcher>>
  /\ UNCHANGED <<booked, balance, past, pages, select>>

\* The connection breaks, or the next event's amount is no number and
\* handle_event raises through the loop that receives, before it has changed
\* anything: what is on its way is lost.
ConnectionEnds ==
  /\ inbox # <<>>
  /\ inbox' = <<>>
  /\ UNCHANGED <<dispatcher, booked, balance, past, selected, pages, select,
                 reached>>

-----------------------------------------------------------------------------

service == <<booked, balance, past, inbox, selected, pages, select, reached>>

Select(c) ==
  \/ Ask(c) \/ Serve(c) \/ SelectFails(c)
  \/ \E a \in AccountIds : Selected(c, a)

Next ==
  \/ \E a \in AccountIds, named \in BOOLEAN : Book(a, named)
  \/ \E c \in Selectors : Select(c)
  \/ HandleEvent \/ ConnectionEnds
  \/ DispatcherStep /\ UNCHANGED service

Spec == Init /\ [][Next]_vars

\* A task that can run runs, and the application's handlers end: so each task
\* does, and with them those close() has found.
Fairness ==
  /\ WF_vars(RunFound /\ UNCHANGED service)
  /\ WF_vars(CloseEnds /\ UNCHANGED service)

FairSpec == Spec /\ Fairness

-----------------------------------------------------------------------------
(***************************************************************************)
(* What accounts and their events promise.                                 *)
(***************************************************************************)

\* The balance shown is one the selected account has had, whatever selections
\* and events of other accounts crossed each other, unless it comes from an
\* event that does not say which account it is about.
BalanceIsOwn ==
  selected.by \in {"rest", "event"} => selected.balance \in past[selected.id]

\* When the balance shown came from an event, that change is the last one
\* each handler that was registered for it, and is still, has been called with,
\* once its tasks have had their turn: events are not handed over late, and no
\* handler misses one because another suspends, fails or is removed, or because
\* the client is closing.  What becomes of a handler that has been removed with
\* a task still due is not said: it should not be called, and is.
HandlersAreUpToDate ==
  \A h \in reached \cap ToSet(handlers) :
    /\ selected.by \in {"event", "unnamed"}
    /\ closing.stage \notin {"cancelling", "cancelled"}
    /\ \A i \in DOMAIN tasks : tasks[i].handler = h => tasks[i].stage = "running"
    => called[h] = [id |-> selected.id, balance |-> selected.balance]

\* No handler is called with a change that is older than one it was called with
\* before, although events wait as tasks while handlers suspend, fail, end, are
\* removed and are cancelled by close(): each hears of the changes in the order
\* in which they were booked, which their amounts number.
HeardInOrder ==
  [][\A h \in Handlers :
       called[h] # NoEvent /\ called'[h] # called[h]
         => called[h].balance < called'[h].balance]_vars

\* A close() that has returned has left no handler running, or due to run, that
\* was when it was called, although any of them may have failed.
CloseJoinsAll ==
  closing.stage \in {"closed", "cancelled"}
    => \A i \in DOMAIN tasks : ~tasks[i].found

\* A close() the application calls ends: it waits for the tasks it found and
\* not for those that events make meanwhile.
ApplicationCloseEnds ==
  closing.stage \in {"joining", "cancelling"} /\ ~closing.nested
    ~> closing.stage \in {"closed", "cancelled"}
=============================================================================
