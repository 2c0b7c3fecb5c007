-------------------------------- MODULE Runner --------------------------------
(***************************************************************************)
(* What the owner of a ConnectionSupervisor sees of it: whether it is ready *)
(* or running, its notifications, and how long stop() takes.  Supervisor    *)
(* implements this (SeenByOwner), and ClientLifecycle reacts to it.         *)
(***************************************************************************)

VARIABLE run

Runs == {"none", "starting", "ready", "breaking", "closing", "lost", "failed",
         "stopping", "stopping loudly"}

\* The two flags: ready is still up while a failed session is being torn down.
Ready == run \in {"ready", "breaking"}
Running == run \notin {"none", "failed"}

NotStarted == run = "none"

\* start(): the runner dials.
Starts == run = "none" /\ run' = "starting"

\* CONNECTED, for the first time or again.
Connects == run \in {"starting", "lost"} /\ run' = "ready"

\* The session fails; its flag falls a little later, as the socket begins to
\* close, and so does a dial that fails.
Slips ==
  \/ run = "ready" /\ run' = "breaking"
  \/ run \in {"breaking", "starting", "lost"} /\ run' = "closing"

\* RECONNECTING, or DISCONNECTED with the terminal error.
Loses == run = "closing" /\ run' = "lost"
Fails == run = "closing" /\ run' = "failed"

\* What stop() does at once.  A task group that is already failing may swallow
\* the cancellation, and its runner goes through the except clause.
Stops ==
  run' = CASE run = "none" -> "none"
           [] run \in {"breaking", "stopping loudly"} -> "stopping loudly"
           [] OTHER -> "stopping"

\* The except clause of a stopped runner is heard, once, or is cut short.
SaysSo == run = "stopping loudly" /\ run' = "stopping"
Hushes == run = "stopping loudly" /\ run' = "stopping"

\* stop() has joined the runner.
Ends == run = "stopping" /\ run' = "none"

Notifies == Connects \/ Loses \/ Fails \/ SaysSo
Quietly == Starts \/ Slips \/ Stops \/ Hushes \/ Ends

Spec == NotStarted /\ [][Notifies \/ Quietly]_run
=============================================================================
