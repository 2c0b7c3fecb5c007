----------------------------- MODULE AuthSession -----------------------------
(***************************************************************************)
(* The session: EbinexClient._request with its one retry after a 401,      *)
(* AuthService.ensure and logout, and FileSessionStore under them.         *)
(*                                                                         *)
(* Sessions are named by their tokens, numbered as the broker issues them. *)
(* The stores never suspend, so a load, save or delete happens in one turn *)
(* of the event loop; but the process or the machine may stop between two  *)
(* steps of a save, so these are steps during which no task runs.          *)
(***************************************************************************)
EXTENDS Naturals

CONSTANTS Requests,  \* calls of _request, each made once
          Connects,  \* calls of connect(): ensure() and the account list
          Logouts,   \* calls of logout()
          MaxToken,  \* bound: tokens the broker issues
          MaxStops   \* bound: how often the process or the machine stops

Callers == Requests \cup Connects
Tasks == Callers \cup Logouts

ASSUME TasksAssumption ==
  Callers \cap Logouts = {} /\ Requests \cap Connects = {}
ASSUME BoundsAssumption == MaxToken \in Nat /\ MaxStops \in Nat

Tokens == 1..MaxToken
None == 0            \* no session; headers() then sends no token
Torn == MaxToken + 1 \* a file that is not a whole session

VARIABLES
  safe,     \* the calls that may be retried after a 401
  issued,   \* the last token the broker issued
  valid,    \* the tokens it accepts
  answer,   \* the login answers on their way, or waiting to be handled
  session,  \* AuthService.session
  file,     \* what the session file holds
  flushed,  \* its bytes are on disk
  disk,     \* what its name on disk is sure to hold
  save,     \* the save in progress: whose, what, how far, and what follows
  pc,       \* where each task stands
  sent,     \* the token of each call's last request
  outcome,  \* how each call ended
  http,     \* the HTTP client
  stops,    \* how often the process or the machine has stopped
  kept,     \* the session of the last save that returned, unless touched since
  gone,     \* the last token issued before the last logout
  late      \* those of them whose login was answered and not yet handled

vars == <<safe, issued, valid, answer, session, file, flushed, disk, save, pc,
          sent, outcome, http, stops, kept, gone, late>>
broker == <<issued, valid, answer>>
store == <<file, flushed, disk>>
ghosts == <<stops, kept, gone, late>>

NoSave == [by |-> "nobody", token |-> None, stage |-> "none", then |-> "none"]

Saves == [by : Callers, token : Tokens,
          stage : {"written", "synced", "replaced"},
          then : {"sent", "resent"}]
Stages == {"idle", "sent", "authenticating", "renewing", "saving", "resent",
           "closing", "over"}

TypeOK ==
  /\ safe \subseteq Callers
  /\ issued \in 0..MaxToken /\ valid \subseteq 1..issued
  /\ answer \in [Callers -> Tokens \cup {None}]
  /\ session \in Tokens \cup {None}
  /\ file \in Tokens \cup {None}
  /\ disk \in Tokens \cup {None}
  /\ flushed \in BOOLEAN
  /\ save \in Saves \cup {NoSave}
  /\ pc \in [Tasks -> Stages]
  /\ sent \in [Callers -> Tokens \cup {None}]
  /\ outcome \in [Callers -> {"none", "ok", "unauthorised", "error"}]
  /\ http \in {"open", "closed"}
  /\ stops \in 0..MaxStops
  /\ kept \in Tokens \cup {None}
  /\ gone \in 0..MaxToken
  /\ late \subseteq Tokens

Init ==
  /\ safe \in SUBSET Callers /\ Connects \subseteq safe
  /\ issued = 0 /\ valid = {} /\ answer = [t \in Callers |-> None]
  /\ session = None
  /\ file = None /\ flushed = TRUE /\ disk = None
  /\ save = NoSave
  /\ pc = [t \in Tasks |-> "idle"]
  /\ sent = [t \in Callers |-> None]
  /\ outcome = [t \in Callers |-> "none"]
  /\ http = "open"
  /\ stops = 0 /\ kept = None /\ gone = 0 /\ late = {}

-----------------------------------------------------------------------------
(***************************************************************************)
(* Decisions of the code, one operator each.                               *)
(***************************************************************************)

\* The event loop is free: no task is inside save().
LoopFree == save = NoSave

\* _connect_lock, held by connect() until it ends.
ConnectLockFree == \A t \in Connects : pc[t] \in {"idle", "over"}

\* Whether save() may replace the session file.
MutMayReplace(stage) == stage \in {"written", "synced"}
MayReplace(stage) == stage = "synced"

\* What logout() and a 401 leave in memory, and in the file.
MutDiscarded(current) == current
Discarded(current) == None
MutDeleted(what) == what
Deleted(what) == None

\* What the name on disk is sure to hold when save() returns.
MutSettled(on, now) == on
Settled(on, now) == now

\* The token of a request: headers() reads the session as it is sent.
MutHeader(current, renewed) == current
Header(current, renewed) == renewed

Go(t, where) == pc' = [pc EXCEPT ![t] = where]

End(t, how) ==
  /\ Go(t, "over")
  /\ outcome' = [outcome EXCEPT ![t] = how]

\* A request goes out with this token; a closed HTTP client raises.
Send(t, where, token) ==
  IF http = "open"
    THEN /\ Go(t, where)
         /\ sent' = [sent EXCEPT ![t] = token]
         /\ UNCHANGED outcome
    ELSE End(t, "error") /\ UNCHANGED sent

LogIn(t, where) ==
  IF http = "open"
    THEN Go(t, where) /\ UNCHANGED outcome
    ELSE End(t, "error")

\* unlink() is not followed by a sync of the directory.
Delete ==
  /\ file' = Deleted(file)
  /\ flushed' = TRUE
  /\ kept' = None
  /\ UNCHANGED disk

-----------------------------------------------------------------------------
(***************************************************************************)
(* The broker (external)                                                   *)
(***************************************************************************)

\* A session expires or is ended from elsewhere.
Revoke(token) ==
  /\ token \in valid
  /\ valid' = valid \ {token}
  /\ UNCHANGED <<safe, issued, answer, session, store, save, pc, sent, outcome, http,
                 ghosts>>

\* A login is granted; its answer takes its time, and the call may have to wait
\* for the event loop when it has come.
Issues(t) ==
  /\ pc[t] \in {"authenticating", "renewing"} /\ answer[t] = None
  /\ issued < MaxToken
  /\ issued' = issued + 1
  /\ valid' = valid \cup {issued'}
  /\ answer' = [answer EXCEPT ![t] = issued']
  /\ UNCHANGED <<safe, session, store, save, pc, sent, outcome, http, ghosts>>

-----------------------------------------------------------------------------
(***************************************************************************)
(* Requests                                                                *)
(***************************************************************************)

Request(t) ==
  /\ LoopFree /\ pc[t] = "idle"
  /\ Send(t, "sent", session)
  /\ UNCHANGED <<safe, broker, session, store, save, http, ghosts>>

\* ensure(): the stored session is used if its own expiry allows it.
Connect(t) ==
  /\ LoopFree /\ pc[t] = "idle" /\ ConnectLockFree
  /\ \/ /\ file \in Tokens
        /\ session' = file
        /\ Send(t, "sent", file)
     \/ /\ LogIn(t, "authenticating")
        /\ UNCHANGED <<session, sent>>
  /\ UNCHANGED <<safe, broker, store, save, http, ghosts>>

Succeeds(t) ==
  /\ LoopFree /\ pc[t] \in {"sent", "resent"} /\ sent[t] \in valid
  /\ End(t, "ok")
  /\ UNCHANGED <<safe, broker, session, store, save, sent, http, ghosts>>

\* A transport error, another HTTP error, or the task is cancelled.  A login's
\* answer that is on its way is lost with it.
RequestFails(t) ==
  /\ LoopFree
  /\ pc[t] \in {"sent", "resent", "authenticating", "renewing"}
  /\ End(t, "error")
  /\ answer' = [answer EXCEPT ![t] = None]
  /\ UNCHANGED <<safe, issued, valid, session, store, save, sent, http, ghosts>>

\* The first 401 of a safe request: the session is discarded, here and in the
\* store, whichever session it is by now, and a new one is asked for.
Renews(t) ==
  /\ LoopFree /\ pc[t] = "sent" /\ sent[t] \notin valid /\ t \in safe
  /\ session' = Discarded(session)
  /\ Delete
  /\ LogIn(t, "renewing")
  /\ UNCHANGED <<safe, broker, save, sent, http, stops, gone, late>>

\* Any other 401 is the caller's.
Unauthorised(t) ==
  /\ LoopFree /\ sent[t] \notin valid
  /\ pc[t] = "resent" \/ (pc[t] = "sent" /\ t \notin safe)
  /\ End(t, "unauthorised")
  /\ UNCHANGED <<safe, broker, session, store, save, sent, http, ghosts>>

-----------------------------------------------------------------------------
(***************************************************************************)
(* The login and FileSessionStore.save                                     *)
(***************************************************************************)

\* The login's answer is handled, whatever has been done meanwhile: the new
\* session is written to a temporary file.
LoggedIn(t) ==
  /\ LoopFree /\ pc[t] \in {"authenticating", "renewing"} /\ answer[t] # None
  /\ save' = [by |-> t, token |-> answer[t], stage |-> "written",
              then |-> IF pc[t] = "renewing" THEN "resent" ELSE "sent"]
  /\ answer' = [answer EXCEPT ![t] = None]
  /\ Go(t, "saving")
  /\ UNCHANGED <<safe, issued, valid, session, store, sent, outcome, http, ghosts>>

SaveSyncs ==
  /\ save.stage = "written"
  /\ save' = [save EXCEPT !.stage = "synced"]
  /\ UNCHANGED <<safe, broker, session, store, pc, sent, outcome, http, ghosts>>

\* os.replace is atomic for whoever reads the file.
SaveReplaces ==
  /\ MayReplace(save.stage)
  /\ save' = [save EXCEPT !.stage = "replaced"]
  /\ file' = save.token
  /\ flushed' = (save.stage = "synced")
  /\ kept' = None
  /\ UNCHANGED <<safe, broker, session, disk, pc, sent, outcome, http, stops,
                 gone, late>>

\* The directory is synced, save() returns, and the call goes on at once with
\* the session it has been given: the retry, or connect()'s first request.
SaveReturns ==
  /\ save.stage = "replaced"
  /\ disk' = Settled(disk, file)
  /\ kept' = file
  /\ save' = NoSave
  /\ session' = save.token
  /\ Send(save.by, save.then, Header(session, save.token))
  /\ UNCHANGED <<safe, broker, file, flushed, http, stops, gone, late>>

\* The file system refuses a step: the temporary file is removed and the login
\* is lost to its caller.
SaveRaises ==
  /\ ~LoopFree
  /\ save' = NoSave
  /\ End(save.by, "error")
  /\ UNCHANGED <<safe, broker, session, store, sent, http, ghosts>>

-----------------------------------------------------------------------------
(***************************************************************************)
(* logout()                                                                *)
(***************************************************************************)

\* disconnect() is over; the session is deleted, and the HTTP client closes.
Logout(t) ==
  /\ LoopFree /\ pc[t] = "idle" /\ ConnectLockFree
  /\ session' = Discarded(session)
  /\ Delete
  /\ gone' = issued
  /\ late' = {answer[c] : c \in Callers} \ {None}
  /\ Go(t, "closing")
  /\ UNCHANGED <<safe, broker, save, sent, outcome, http, stops>>

\* An HTTP client of the application's own stays open.
LogoutReturns(t) ==
  /\ LoopFree /\ pc[t] = "closing"
  /\ http' \in {http, "closed"}
  /\ Go(t, "over")
  /\ UNCHANGED <<safe, broker, session, store, save, sent, outcome, ghosts>>

-----------------------------------------------------------------------------
(***************************************************************************)
(* Stops and restarts                                                      *)
(***************************************************************************)

Restart ==
  /\ stops < MaxStops
  /\ stops' = stops + 1
  /\ session' = None
  /\ save' = NoSave
  /\ http' = "open"
  /\ pc' = [t \in Tasks |-> IF pc[t] = "idle" THEN "idle" ELSE "over"]
  /\ answer' = [t \in Callers |-> None]
  /\ UNCHANGED <<safe, issued, valid, sent, outcome>>

\* The process is killed: the file is what it was.
ProcessStops ==
  /\ Restart
  /\ UNCHANGED <<store, kept, gone, late>>

\* The machine loses power: the name holds what was last synced, or what came
\* after it, whole if its bytes had been synced first.
PowerFails ==
  /\ Restart
  /\ file' \in {disk, IF flushed THEN file ELSE Torn}
  /\ disk' = file'
  /\ flushed' = TRUE
  /\ gone' = 0 /\ late' = {}
  /\ UNCHANGED kept

-----------------------------------------------------------------------------

Answer(t) == Succeeds(t) \/ RequestFails(t) \/ Renews(t) \/ Unauthorised(t)
             \/ LoggedIn(t)
SaveSteps == SaveSyncs \/ SaveReplaces \/ SaveReturns \/ SaveRaises

Next ==
  \/ \E token \in Tokens : Revoke(token)
  \/ \E t \in Requests : Request(t)
  \/ \E t \in Connects : Connect(t)
  \/ \E t \in Callers : Issues(t) \/ Answer(t)
  \/ \E t \in Logouts : Logout(t) \/ LogoutReturns(t)
  \/ SaveSteps \/ ProcessStops \/ PowerFails

Spec == Init /\ [][Next]_vars

-----------------------------------------------------------------------------
(***************************************************************************)
(* What the session handling promises.                                     *)
(***************************************************************************)

\* Whatever the overlapping logins, 401s and logouts, a session in use can be
\* restored by the next process: the store has one, and a whole one.
SessionIsRestorable == session # None => file \in Tokens

\* A power failure does not lose a login whose save has returned: the next
\* process finds that session, unless it has been replaced or deleted since.
SavedSurvives ==
  [][stops' # stops /\ kept # None => file' = kept]_vars

\* A session from before a logout is not put back into use by the calls that
\* were under way, by a later connect() or by a restart.  There are two
\* exceptions: a session whose login had been answered by then, and which the
\* call that waited for it handles afterwards, and a file that a power failure
\* brings back.
LoggedOutStaysOut ==
  [][session' # session =>
       session' = None \/ session' > gone \/ session' \in late]_vars

\* A safe request is refused only if the session of its own renewal has been
\* revoked meanwhile: other calls that discard or replace the session do not
\* make it fail.
RefusedOnlyIfRevoked ==
  \A t \in safe : outcome[t] = "unauthorised" => sent[t] \in Tokens \ valid
=============================================================================
