-------------------------- MODULE AuthSessionProofs --------------------------
(***************************************************************************)
(* Theorems about AuthSession, for any calls and bounds.                   *)
(***************************************************************************)
EXTENDS AuthSession, TLAPS

-----------------------------------------------------------------------------
(***************************************************************************)
(* The inductive invariant.                                                *)
(***************************************************************************)

\* Nothing holds a token that has not been issued.
IssuedInv ==
  /\ {session, file, disk} \subseteq 0..issued
  /\ \A t \in Callers : sent[t] \in 0..issued /\ answer[t] \in 0..issued
  /\ save # NoSave => save.token \in 1..issued

\* The bytes of the session file are always on disk, and a session whose save
\* has returned is what its name is sure to hold.
DiskInv ==
  /\ flushed
  /\ save.stage = "replaced" => file = save.token
  /\ kept # None => file = kept /\ disk = kept

\* A session that was not given up by the last logout.
Kept(token) == token > gone \/ token \in late

\* What was given up by a logout is not in the file, nor on its way into it.
LogoutInv ==
  /\ gone <= issued
  /\ file # None => Kept(file)
  /\ save # NoSave => Kept(save.token)
  /\ \A t \in Callers : answer[t] # None => Kept(answer[t])

\* A save belongs to a call that waits for it, a retry carries a session, and
\* a call that has ended stays as it is.
CallInv ==
  /\ save # NoSave => pc[save.by] = "saving"
  /\ \A t \in Callers : /\ pc[t] = "resent" => sent[t] # None
                        /\ outcome[t] # "none" => pc[t] = "over"

IInv ==
  /\ TypeOK /\ IssuedInv /\ DiskInv /\ LogoutInv /\ CallInv
  /\ SessionIsRestorable /\ RefusedOnlyIfRevoked

USE TasksAssumption, BoundsAssumption
    DEF Callers, Tasks, Tokens, None, NoSave, Stages, LoopFree, broker, store,
        ghosts, Go, End, Kept

\* The invariant holds before any call.
LEMMA InitHolds == ASSUME Init PROVE IInv
BY DEF Init, IInv, TypeOK, IssuedInv, DiskInv, LogoutInv, CallInv,
       SessionIsRestorable, RefusedOnlyIfRevoked

-----------------------------------------------------------------------------
(***************************************************************************)
(* The steps.                                                              *)
(***************************************************************************)

\* The three action properties of a step.
StepIsGood ==
  /\ session' # session => session' = None \/ session' > gone \/ session' \in late
  /\ stops' # stops /\ kept # None => file' = kept

\* Starting a request.
LEMMA RequestIsGood ==
  ASSUME IInv, NEW t \in Requests, Request(t)
  PROVE  IInv' /\ StepIsGood
<1> USE DEF IInv, Request, Send
<1>1. TypeOK'
  BY DEF TypeOK, Saves, IssuedInv, DiskInv, SessionIsRestorable
<1>2. IssuedInv'
  BY DEF TypeOK, Saves, IssuedInv
<1>3. DiskInv'
  BY DEF TypeOK, Saves, DiskInv
<1>4. LogoutInv'
  BY DEF TypeOK, Saves, IssuedInv, LogoutInv
<1>5. CallInv'
  BY DEF TypeOK, Saves, IssuedInv, CallInv
<1>6. SessionIsRestorable'
  BY DEF TypeOK, Saves, DiskInv, SessionIsRestorable
<1>7. RefusedOnlyIfRevoked'
  BY DEF TypeOK, IssuedInv, CallInv, RefusedOnlyIfRevoked
<1>8. StepIsGood
  BY DEF TypeOK, DiskInv, LogoutInv, StepIsGood
<1> QED
  BY <1>1, <1>2, <1>3, <1>4, <1>5, <1>6, <1>7, <1>8

\* Starting a connect().
LEMMA ConnectIsGood ==
  ASSUME IInv, NEW t \in Connects, Connect(t)
  PROVE  IInv' /\ StepIsGood
<1> USE DEF IInv, Connect, Send, LogIn
<1>1. TypeOK'
  BY DEF TypeOK, Saves, IssuedInv, DiskInv, SessionIsRestorable
<1>2. IssuedInv'
  BY DEF TypeOK, Saves, IssuedInv
<1>3. DiskInv'
  BY DEF TypeOK, Saves, DiskInv
<1>4. LogoutInv'
  BY DEF TypeOK, Saves, IssuedInv, LogoutInv
<1>5. CallInv'
  BY DEF TypeOK, Saves, IssuedInv, CallInv
<1>6. SessionIsRestorable'
  BY DEF TypeOK, Saves, DiskInv, SessionIsRestorable
<1>7. RefusedOnlyIfRevoked'
  BY DEF TypeOK, IssuedInv, CallInv, RefusedOnlyIfRevoked
<1>8. StepIsGood
  BY DEF TypeOK, DiskInv, LogoutInv, StepIsGood
<1> QED
  BY <1>1, <1>2, <1>3, <1>4, <1>5, <1>6, <1>7, <1>8

\* A request's answer that ends the call.
LEMMA EndIsGood ==
  ASSUME IInv, NEW t \in Callers,
         Succeeds(t) \/ RequestFails(t) \/ Unauthorised(t)
  PROVE  IInv' /\ StepIsGood
<1> USE DEF IInv, Succeeds, RequestFails, Unauthorised
<1>1. TypeOK'
  BY DEF TypeOK, Saves, IssuedInv, DiskInv, SessionIsRestorable
<1>2. IssuedInv'
  BY DEF TypeOK, Saves, IssuedInv
<1>3. DiskInv'
  BY DEF TypeOK, Saves, DiskInv
<1>4. LogoutInv'
  BY DEF TypeOK, Saves, IssuedInv, LogoutInv
<1>5. CallInv'
  BY DEF TypeOK, Saves, IssuedInv, CallInv
<1>6. SessionIsRestorable'
  BY DEF TypeOK, Saves, DiskInv, SessionIsRestorable
<1>7. RefusedOnlyIfRevoked'
  BY DEF TypeOK, IssuedInv, CallInv, RefusedOnlyIfRevoked
<1>8. StepIsGood
  BY DEF TypeOK, DiskInv, LogoutInv, StepIsGood
<1> QED
  BY <1>1, <1>2, <1>3, <1>4, <1>5, <1>6, <1>7, <1>8

\* A revocation at the broker.
LEMMA RevokeIsGood ==
  ASSUME IInv, NEW token \in Tokens, Revoke(token)
  PROVE  IInv' /\ StepIsGood
<1> USE DEF IInv, Revoke
<1>1. TypeOK'
  BY DEF TypeOK, Saves, IssuedInv, DiskInv, SessionIsRestorable
<1>2. IssuedInv'
  BY DEF TypeOK, Saves, IssuedInv
<1>3. DiskInv'
  BY DEF TypeOK, Saves, DiskInv
<1>4. LogoutInv'
  BY DEF TypeOK, Saves, IssuedInv, LogoutInv
<1>5. CallInv'
  BY DEF TypeOK, Saves, IssuedInv, CallInv
<1>6. SessionIsRestorable'
  BY DEF TypeOK, Saves, DiskInv, SessionIsRestorable
<1>7. RefusedOnlyIfRevoked'
  BY DEF TypeOK, IssuedInv, CallInv, RefusedOnlyIfRevoked
<1>8. StepIsGood
  BY DEF TypeOK, DiskInv, LogoutInv, StepIsGood
<1> QED
  BY <1>1, <1>2, <1>3, <1>4, <1>5, <1>6, <1>7, <1>8

\* A 401 that starts a renewal.
LEMMA RenewIsGood ==
  ASSUME IInv, NEW t \in Callers, Renews(t)
  PROVE  IInv' /\ StepIsGood
<1> USE DEF IInv, Renews, Delete, Deleted, Discarded, LogIn
<1>1. TypeOK'
  BY DEF TypeOK, Saves, IssuedInv, DiskInv, SessionIsRestorable
<1>2. IssuedInv'
  BY DEF TypeOK, Saves, IssuedInv
<1>3. DiskInv'
  BY DEF TypeOK, Saves, DiskInv
<1>4. LogoutInv'
  BY DEF TypeOK, Saves, IssuedInv, LogoutInv
<1>5. CallInv'
  BY DEF TypeOK, Saves, IssuedInv, CallInv
<1>6. SessionIsRestorable'
  BY DEF TypeOK, Saves, DiskInv, SessionIsRestorable
<1>7. RefusedOnlyIfRevoked'
  BY DEF TypeOK, IssuedInv, CallInv, RefusedOnlyIfRevoked
<1>8. StepIsGood
  BY DEF TypeOK, DiskInv, LogoutInv, StepIsGood
<1> QED
  BY <1>1, <1>2, <1>3, <1>4, <1>5, <1>6, <1>7, <1>8

\* logout().
LEMMA LogoutIsGood ==
  ASSUME IInv, NEW t \in Logouts, Logout(t) \/ LogoutReturns(t)
  PROVE  IInv' /\ StepIsGood
<1> USE DEF IInv, Logout, LogoutReturns, Delete, Deleted, Discarded
<1>1. TypeOK'
  <2>1. late' \subseteq Tokens
    <3>1. late \subseteq Tokens /\ \A c \in Callers : answer[c] \in Tokens \cup {None}
      BY DEF TypeOK
    <3>2. \A x : x \in late' =>
            x \in late \/ (x # None /\ \E c \in Callers : x = answer[c])
      OBVIOUS
    <3> HIDE DEF IInv, Logout, LogoutReturns
    <3> QED
      BY <3>1, <3>2
  <2>2. gone' \in 0..MaxToken
    BY DEF TypeOK
  <2>3. pc' \in [Tasks -> Stages]
    BY DEF TypeOK
  <2>4. flushed' \in BOOLEAN
    BY DEF TypeOK
  <2>5. /\ session' \in Tokens \cup {None} /\ file' \in Tokens \cup {None}
        /\ kept' \in Tokens \cup {None} /\ http' \in {"open", "closed"}
        /\ UNCHANGED <<safe, broker, save, sent, outcome, disk, stops>>
    BY DEF TypeOK
  <2>6. TypeOK
    OBVIOUS
  <2> HIDE DEF IInv, Logout, LogoutReturns
  <2> QED
    BY <2>1, <2>2, <2>3, <2>4, <2>5, <2>6 DEF TypeOK
<1>2. IssuedInv'
  BY DEF TypeOK, Saves, IssuedInv
<1>3. DiskInv'
  <2>1. save' = save /\ flushed' /\ (kept' = None \/ UNCHANGED <<kept, store>>)
    BY DEF DiskInv
  <2>2. save = NoSave => save.stage # "replaced"
    OBVIOUS
  <2> QED
    BY <2>1, <2>2 DEF DiskInv
<1>4. LogoutInv'
  BY DEF TypeOK, Saves, IssuedInv, LogoutInv
<1>5. CallInv'
  BY DEF TypeOK, Saves, IssuedInv, CallInv
<1>6. SessionIsRestorable'
  BY DEF TypeOK, Saves, DiskInv, SessionIsRestorable
<1>7. RefusedOnlyIfRevoked'
  BY DEF TypeOK, IssuedInv, CallInv, RefusedOnlyIfRevoked
<1>8. StepIsGood
  BY DEF TypeOK, DiskInv, LogoutInv, StepIsGood
<1> QED
  BY <1>1, <1>2, <1>3, <1>4, <1>5, <1>6, <1>7, <1>8

\* The broker grants a login.
LEMMA GrantIsGood ==
  ASSUME IInv, NEW t \in Callers, Issues(t)
  PROVE  IInv' /\ StepIsGood
<1> USE DEF IInv, Issues
<1>1. TypeOK'
  BY DEF TypeOK, Saves, IssuedInv, DiskInv, SessionIsRestorable
<1>2. IssuedInv'
  BY DEF TypeOK, Saves, IssuedInv
<1>3. DiskInv'
  BY DEF TypeOK, Saves, DiskInv
<1>4. LogoutInv'
  BY DEF TypeOK, Saves, IssuedInv, LogoutInv
<1>5. CallInv'
  BY DEF TypeOK, Saves, IssuedInv, CallInv
<1>6. SessionIsRestorable'
  BY DEF TypeOK, Saves, DiskInv, SessionIsRestorable
<1>7. RefusedOnlyIfRevoked'
  BY DEF TypeOK, IssuedInv, CallInv, RefusedOnlyIfRevoked
<1>8. StepIsGood
  BY DEF TypeOK, DiskInv, LogoutInv, StepIsGood
<1> QED
  BY <1>1, <1>2, <1>3, <1>4, <1>5, <1>6, <1>7, <1>8

\* A login's answer.
LEMMA LoginIsGood ==
  ASSUME IInv, NEW t \in Callers, LoggedIn(t)
  PROVE  IInv' /\ StepIsGood
<1> USE DEF IInv, LoggedIn
<1>1. TypeOK'
  BY DEF TypeOK, Saves, IssuedInv, DiskInv, SessionIsRestorable
<1>2. IssuedInv'
  BY DEF TypeOK, Saves, IssuedInv
<1>3. DiskInv'
  BY DEF TypeOK, Saves, DiskInv
<1>4. LogoutInv'
  BY DEF TypeOK, Saves, IssuedInv, LogoutInv
<1>5. CallInv'
  BY DEF TypeOK, Saves, IssuedInv, CallInv
<1>6. SessionIsRestorable'
  BY DEF TypeOK, Saves, DiskInv, SessionIsRestorable
<1>7. RefusedOnlyIfRevoked'
  BY DEF TypeOK, IssuedInv, CallInv, RefusedOnlyIfRevoked
<1>8. StepIsGood
  BY DEF TypeOK, DiskInv, LogoutInv, StepIsGood
<1> QED
  BY <1>1, <1>2, <1>3, <1>4, <1>5, <1>6, <1>7, <1>8

\* The steps of a save that only move it on.
LEMMA SaveIsGood ==
  ASSUME IInv, SaveSyncs \/ SaveReplaces \/ SaveRaises
  PROVE  IInv' /\ StepIsGood
<1> USE DEF IInv, SaveSyncs, SaveReplaces, SaveRaises, MayReplace
<1>0. /\ save \in Saves /\ save # NoSave
      /\ \/ /\ save' \in Saves
            /\ UNCHANGED <<session, issued, disk, gone, stops>>
            /\ save'.by = save.by /\ save'.token = save.token
            /\ UNCHANGED <<pc, sent, outcome>>
            /\ \/ save'.stage = "synced" /\ UNCHANGED <<kept, file, flushed>>
               \/ /\ save'.stage = "replaced" /\ kept' = None
                  /\ file' = save.token /\ flushed'
         \/ SaveRaises /\ save'.stage = "none"
  <2>1. save # NoSave
    OBVIOUS
  <2>2. save \in Saves
    BY <2>1 DEF TypeOK
  <2>3. CASE SaveSyncs
    BY <2>1, <2>2, <2>3 DEF Saves
  <2>4. CASE SaveReplaces
    BY <2>1, <2>2, <2>4 DEF Saves
  <2>5. CASE SaveRaises
    BY <2>1, <2>2, <2>5
  <2> QED
    BY <2>3, <2>4, <2>5
<1>1. TypeOK'
  BY <1>0 DEF TypeOK, Saves, IssuedInv, DiskInv, SessionIsRestorable
<1>2. IssuedInv'
  BY <1>0 DEF TypeOK, Saves, IssuedInv
<1>3. DiskInv'
  BY <1>0 DEF TypeOK, Saves, DiskInv
<1>4. LogoutInv'
  BY <1>0 DEF TypeOK, Saves, IssuedInv, LogoutInv
<1>5. CallInv'
  BY <1>0 DEF TypeOK, Saves, IssuedInv, CallInv
<1>6. SessionIsRestorable'
  BY <1>0 DEF TypeOK, Saves, DiskInv, SessionIsRestorable
<1>7. RefusedOnlyIfRevoked'
  BY DEF TypeOK, IssuedInv, CallInv, RefusedOnlyIfRevoked
<1>8. StepIsGood
  BY DEF TypeOK, DiskInv, LogoutInv, StepIsGood
<1> QED
  BY <1>1, <1>2, <1>3, <1>4, <1>5, <1>6, <1>7, <1>8

\* The end of a save, and what its call does next.
LEMMA SaveReturnsIsGood ==
  ASSUME IInv, SaveReturns
  PROVE  IInv' /\ StepIsGood
<1> USE DEF IInv, SaveReturns, Settled, Header, Send
<1>1. TypeOK'
  BY DEF TypeOK, Saves, IssuedInv, DiskInv, SessionIsRestorable
<1>2. IssuedInv'
  BY DEF TypeOK, Saves, IssuedInv
<1>3. DiskInv'
  BY DEF TypeOK, Saves, DiskInv
<1>4. LogoutInv'
  BY DEF TypeOK, Saves, IssuedInv, LogoutInv
<1>5. CallInv'
  BY DEF TypeOK, Saves, IssuedInv, CallInv
<1>6. SessionIsRestorable'
  BY DEF TypeOK, Saves, DiskInv, SessionIsRestorable
<1>7. RefusedOnlyIfRevoked'
  BY DEF TypeOK, IssuedInv, CallInv, RefusedOnlyIfRevoked
<1>8. StepIsGood
  BY DEF TypeOK, DiskInv, LogoutInv, StepIsGood
<1> QED
  BY <1>1, <1>2, <1>3, <1>4, <1>5, <1>6, <1>7, <1>8

\* The process or the machine stops, also in the middle of a save.
LEMMA StopIsGood ==
  ASSUME IInv, ProcessStops \/ PowerFails
  PROVE  IInv' /\ StepIsGood
<1> USE DEF IInv, ProcessStops, PowerFails, Restart
<1>0. /\ file' \in {file, disk} /\ disk' \in {file, disk}
      /\ flushed' /\ save' = NoSave /\ save'.stage = "none"
      /\ gone' = 0 \/ (gone' = gone /\ late' = late /\ file' = file)
      /\ UNCHANGED <<issued, kept, sent>>
      /\ \A t \in Callers : answer'[t] = None
      /\ session' = None
      /\ kept # None => file' = kept /\ disk' = kept
  <2>1. CASE ProcessStops
    BY <2>1 DEF DiskInv
  <2>2. CASE PowerFails
    <3>1. file' \in {file, disk} /\ disk' = file' /\ flushed'
      BY <2>2 DEF DiskInv
    <3> QED
      BY <2>2, <3>1 DEF DiskInv
  <2> QED
    BY <2>1, <2>2
<1>1. TypeOK'
  <2>1. pc' \in [Tasks -> Stages]
    BY DEF TypeOK
  <2>2. /\ UNCHANGED <<safe, issued, valid, sent, outcome, kept>>
        /\ http' = "open" /\ stops' \in 0..MaxStops
    BY DEF TypeOK
  <2>5. answer' \in [Callers -> Tokens \cup {None}]
    OBVIOUS
  <2>6. late' \subseteq Tokens /\ gone' \in 0..MaxToken
    <3>1. late \subseteq Tokens /\ gone \in 0..MaxToken /\ 0 \in 0..MaxToken
      BY DEF TypeOK
    <3>2. late' \in {late, {}} /\ gone' \in {gone, 0}
      OBVIOUS
    <3> QED
      BY <3>1, <3>2
  <2>3. file' \in Tokens \cup {None} /\ disk' \in Tokens \cup {None}
    BY <1>0 DEF TypeOK
  <2> HIDE DEF IInv, ProcessStops, PowerFails, Restart
  <2>4. TypeOK
    BY DEF IInv
  <2> QED
    BY <1>0, <2>1, <2>2, <2>3, <2>4, <2>5, <2>6 DEF TypeOK
<1>2. IssuedInv'
  BY <1>0 DEF TypeOK, Saves, IssuedInv
<1>3. DiskInv'
  BY <1>0 DEF TypeOK, Saves, DiskInv
<1>4. LogoutInv'
  BY <1>0 DEF TypeOK, Saves, IssuedInv, LogoutInv
<1>5. CallInv'
  BY DEF TypeOK, Saves, IssuedInv, CallInv
<1>6. SessionIsRestorable'
  BY DEF TypeOK, Saves, DiskInv, SessionIsRestorable
<1>7. RefusedOnlyIfRevoked'
  BY DEF TypeOK, IssuedInv, CallInv, RefusedOnlyIfRevoked
<1>8. StepIsGood
  BY DEF TypeOK, DiskInv, LogoutInv, StepIsGood
<1> QED
  BY <1>1, <1>2, <1>3, <1>4, <1>5, <1>6, <1>7, <1>8

-----------------------------------------------------------------------------
(***************************************************************************)
(* The theorems.                                                           *)
(***************************************************************************)

\* Every step keeps the invariant and is good.
LEMMA NextIsGood ==
  ASSUME IInv, [Next]_vars
  PROVE  IInv' /\ (StepIsGood \/ UNCHANGED vars)
<1>1. CASE Next
  BY <1>1, RequestIsGood, ConnectIsGood, EndIsGood, RevokeIsGood, RenewIsGood,
     LogoutIsGood, GrantIsGood, LoginIsGood, SaveIsGood, SaveReturnsIsGood, StopIsGood
     DEF Next, Answer, SaveSteps
<1>2. CASE UNCHANGED vars
  BY <1>2 DEF vars, IInv, TypeOK, IssuedInv, DiskInv, LogoutInv, CallInv,
              SessionIsRestorable, RefusedOnlyIfRevoked
<1> QED
  BY <1>1, <1>2

\* The inductive invariant holds throughout.
THEOREM Invariance == Spec => []IInv
<1>1. Init => IInv
  BY InitHolds
<1>2. IInv /\ [Next]_vars => IInv'
  BY NextIsGood
<1> QED
  BY <1>1, <1>2, PTL DEF Spec

\* Every variable keeps its type; in particular no torn session is ever read.
THEOREM TypeCorrect == Spec => []TypeOK
<1>1. IInv => TypeOK
  BY DEF IInv
<1> QED
  BY <1>1, Invariance, PTL

\* The session in use is always one the store can give back.
THEOREM Restorable == Spec => []SessionIsRestorable
<1>1. IInv => SessionIsRestorable
  BY DEF IInv
<1> QED
  BY <1>1, Invariance, PTL

\* A retried request is refused only with the session of its own renewal.
THEOREM Refusals == Spec => []RefusedOnlyIfRevoked
<1>1. IInv => RefusedOnlyIfRevoked
  BY DEF IInv
<1> QED
  BY <1>1, Invariance, PTL

\* A power failure keeps what a returned save has stored.
THEOREM Durable == Spec => SavedSurvives
<1>1. IInv /\ [Next]_vars
        => [stops' # stops /\ kept # None => file' = kept]_vars
  BY NextIsGood DEF StepIsGood
<1> QED
  BY <1>1, Invariance, PTL DEF Spec, SavedSurvives

\* No session from before a logout comes back into use, but one whose login had
\* been answered and was still to be handled.
THEOREM LogoutIsFinal == Spec => LoggedOutStaysOut
<1>1. IInv /\ [Next]_vars
        => [session' # session =>
              session' = None \/ session' > gone \/ session' \in late]_vars
  BY NextIsGood DEF StepIsGood
<1> QED
  BY <1>1, Invariance, PTL DEF Spec, LoggedOutStaysOut
=============================================================================
