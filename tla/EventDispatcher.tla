---------------------------- MODULE EventDispatcher ----------------------------
(***************************************************************************)
(* EventDispatcher (events/dispatcher.py): typed handlers, each event      *)
(* handed to each of them in a task of its own, and close(), which joins   *)
(* the tasks it finds.                                                     *)
(*                                                                         *)
(* A handler may return at once, suspend, or make its task fail (an error  *)
(* handler that raises); it may call add, remove, emit and close itself,   *)
(* which the actions below allow at any moment.  The event loop runs new   *)
(* tasks in the order they were created.  This module says what the calls  *)
(* do; who emits what is said by the module that extends it.               *)
(***************************************************************************)
EXTENDS Naturals, Sequences, SequencesExt

CONSTANTS Handlers,  \* handlers, each registered at most once
          NoEvent    \* a handler that has not been called

VARIABLES
  handlers,  \* _handlers in the order of their tokens
  added,     \* handlers that have had a token
  tasks,     \* _tasks in the order of creation: unfinished calls of handlers
  called,    \* the last event each handler was called with
  closing    \* where the call of close() stands, and whether a handler made it

dispatcher == <<handlers, added, tasks, called, closing>>

DispatcherInit ==
  /\ handlers = <<>> /\ added = {}
  /\ tasks = <<>>
  /\ called = [h \in Handlers |-> NoEvent]
  /\ closing = [stage |-> "open", nested |-> FALSE]

\* found: it was there when close() was called; awaited: close() still waits
\* for it; closes: its handler is inside close(); cancel: it was cancelled.
Task(h, event) ==
  [handler |-> h, event |-> event, stage |-> "created", cancel |-> FALSE,
   found |-> FALSE, awaited |-> FALSE, closes |-> FALSE]

-----------------------------------------------------------------------------

Add(h) ==
  /\ h \notin added
  /\ handlers' = Append(handlers, h)
  /\ added' = added \cup {h}
  /\ UNCHANGED <<tasks, called, closing>>

RemoveHandler(h) ==
  /\ \E i \in DOMAIN handlers :
       handlers[i] = h /\ handlers' = RemoveAt(handlers, i)
  /\ UNCHANGED <<added, tasks, called, closing>>

\* emit(): a task for each handler of the moment.
Emit(event) ==
  /\ tasks' = tasks \o [i \in DOMAIN handlers |-> Task(handlers[i], event)]
  /\ UNCHANGED <<handlers, added, called, closing>>

-----------------------------------------------------------------------------
(***************************************************************************)
(* _run()                                                                  *)
(***************************************************************************)

\* What is left of the tasks when one ends, by itself or by failing: to
\* gather(return_exceptions=True) a failure is an end like any other.
MutAfterEndRetried(i, failed) ==
  IF failed THEN [tasks EXCEPT ![i].stage = "created"] ELSE RemoveAt(tasks, i)
MutAfterEnd(i, failed) ==
  [j \in 1..(Len(tasks) - 1) |->
     [RemoveAt(tasks, i)[j] EXCEPT !.awaited = @ /\ ~failed]]
AfterEnd(i, failed) == RemoveAt(tasks, i)

\* The next task the event loop starts.
MayStart(i) ==
  /\ tasks[i].stage = "created"
  /\ \A j \in 1..(i - 1) : tasks[j].stage # "created"

\* The handler is called and suspends, or its task ends at once.
Start(i) ==
  /\ MayStart(i) /\ ~tasks[i].cancel
  /\ called' = [called EXCEPT ![tasks[i].handler] = tasks[i].event]
  /\ \/ tasks' = [tasks EXCEPT ![i].stage = "running"]
     \/ \E failed \in BOOLEAN : tasks' = AfterEnd(i, failed)
  /\ UNCHANGED <<handlers, added, closing>>

\* A task that was cancelled before its turn ends without calling the handler.
Skip(i) ==
  /\ MayStart(i) /\ tasks[i].cancel
  /\ tasks' = AfterEnd(i, FALSE)
  /\ UNCHANGED <<handlers, added, called, closing>>

\* The suspended handler ends, cancelled or not; one that is inside close()
\* does not end before it.
Finish(i) ==
  /\ tasks[i].stage = "running" /\ ~tasks[i].closes
  /\ \E failed \in BOOLEAN : tasks' = AfterEnd(i, failed)
  /\ UNCHANGED <<handlers, added, called, closing>>

-----------------------------------------------------------------------------
(***************************************************************************)
(* close()                                                                 *)
(***************************************************************************)

Found(closer) ==
  [i \in DOMAIN tasks |-> [tasks[i] EXCEPT !.found = TRUE, !.awaited = TRUE,
                                           !.closes = i = closer]]

\* The application calls close(), or the handler of a running task does; with
\* no task to join there is nothing to await.
Close(closer) ==
  /\ closing.stage = "open"
  /\ closer # 0 => tasks[closer].stage = "running"
  /\ closing' = [stage |-> IF tasks = <<>> THEN "closed" ELSE "joining",
                 nested |-> closer # 0]
  /\ handlers' = IF tasks = <<>> THEN <<>> ELSE handlers
  /\ tasks' = Found(closer)
  /\ UNCHANGED <<added, called>>

Joined == \A i \in DOMAIN tasks : ~tasks[i].awaited

CloseReturns ==
  /\ closing.stage = "joining" /\ Joined
  /\ closing' = [closing EXCEPT !.stage = "closed"]
  /\ handlers' = <<>>
  /\ UNCHANGED <<added, tasks, called>>

\* A cancellation of the application's close() cancels the tasks it awaits; it
\* goes on waiting for them, and then leaves the handlers registered.
CloseCancelled ==
  /\ closing.stage = "joining" /\ ~closing.nested /\ ~Joined
  /\ closing' = [closing EXCEPT !.stage = "cancelling"]
  /\ tasks' = [i \in DOMAIN tasks |->
                 [tasks[i] EXCEPT !.cancel = tasks[i].awaited]]
  /\ UNCHANGED <<handlers, added, called>>

CloseRaises ==
  /\ closing.stage = "cancelling" /\ Joined
  /\ closing' = [closing EXCEPT !.stage = "cancelled"]
  /\ UNCHANGED <<handlers, added, tasks, called>>

-----------------------------------------------------------------------------

RunTask(i) == Start(i) \/ Skip(i) \/ Finish(i)
RunFound == \E i \in DOMAIN tasks : tasks[i].found /\ RunTask(i)
CloseEnds == CloseReturns \/ CloseRaises

DispatcherStep ==
  \/ \E h \in Handlers : Add(h) \/ RemoveHandler(h)
  \/ \E i \in DOMAIN tasks : RunTask(i)
  \/ \E closer \in {0} \cup DOMAIN tasks : Close(closer)
  \/ CloseEnds \/ CloseCancelled
=============================================================================
