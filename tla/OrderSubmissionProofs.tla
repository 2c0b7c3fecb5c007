------------------------ MODULE OrderSubmissionProofs ------------------------
(***************************************************************************)
(* Theorems about OrderSubmission, for any sets of calls.                  *)
(***************************************************************************)
EXTENDS OrderSubmission, TLAPS

USE DEF Senders, Environments, Stages, Endings, ReplyKinds, NoRawTraffic

-----------------------------------------------------------------------------
(***************************************************************************)
(* Every step keeps the types.                                             *)
(***************************************************************************)

\* A step of place() keeps every variable in its type.
LEMMA PlaceKeepsTypes ==
  ASSUME TypeOK, NEW c \in Calls, Place(c)
  PROVE  TypeOK'
<1> USE DEF TypeOK, Return, Result, LeaveLock, HolderAfter
<1>1. CASE Begin(c)
  BY <1>1 DEF Begin
<1>2. CASE PreflightPasses(c)
  BY <1>2 DEF PreflightPasses
<1>3. CASE PreflightRefuses(c)
  BY <1>3 DEF PreflightRefuses
<1>4. CASE AcquireBlocked(c)
  BY <1>4 DEF AcquireBlocked
<1>5. CASE AcquireNotConnected(c)
  BY <1>5 DEF AcquireNotConnected
<1>6. CASE AcquireTransmit(c)
  BY <1>6 DEF AcquireTransmit, CommandAccount
<1>7. CASE SendReturns(c)
  BY <1>7 DEF SendReturns
<1>8. CASE SendRaises(c)
  BY <1>8 DEF SendRaises
<1>9. CASE Resume(c)
  BY <1>9 DEF Resume
<1>10. CASE Timeout(c)
  BY <1>10 DEF Timeout
<1>11. CASE CancelOutsideLock(c)
  BY <1>11 DEF CancelOutsideLock
<1>12. CASE CancelInsideLock(c)
  BY <1>12 DEF CancelInsideLock, UncertainAfterCancel
<1> QED
  BY <1>1, <1>2, <1>3, <1>4, <1>5, <1>6, <1>7, <1>8, <1>9, <1>10, <1>11,
     <1>12 DEF Place, Preflight, Acquire, FinishSend, FinishWait

\* A step of the broker, the connection or the rest of the application keeps
\* every variable in its type.
LEMMA SurroundingsKeepTypes ==
  ASSUME TypeOK,
         \/ \E d \in Senders, kind \in ReplyKinds : Deliver(d, kind)
         \/ \E environment \in Environments : Select(environment)
         \/ \E r \in RawSenders : RawSend(r)
         \/ Connection
  PROVE  TypeOK'
<1> USE DEF TypeOK
<1>1. ASSUME NEW d \in Senders, NEW kind \in ReplyKinds, Deliver(d, kind)
      PROVE  TypeOK'
  BY <1>1 DEF Deliver, ConfAfter
<1>2. ASSUME NEW environment \in Environments, Select(environment)
      PROVE  TypeOK'
  BY <1>2 DEF Select
<1>3. ASSUME NEW r \in RawSenders, RawSend(r)
      PROVE  TypeOK'
  BY <1>3 DEF RawSend
<1>4. CASE Connection
  BY <1>4 DEF Connection, LinkFails, LinkUp, LinkDown, Disconnect, Lose
<1> QED
  BY <1>1, <1>2, <1>3, <1>4

\* Type correctness of the whole specification, raw senders included.
THEOREM TypeCorrect == Spec => []TypeOK
<1>1. Init => TypeOK
  <2> SUFFICES ASSUME Init PROVE TypeOK
    OBVIOUS
  <2>1. Result("none", NoOne) \in [kind : Endings, from : Senders \cup {NoOne}]
    BY DEF Result
  <2>2. result \in [Calls -> [kind : Endings, from : Senders \cup {NoOne}]]
    BY <2>1 DEF Init
  <2> QED
    BY <2>2 DEF Init, TypeOK
<1>2. TypeOK /\ [Next]_vars => TypeOK'
  <2> SUFFICES ASSUME TypeOK, [Next]_vars PROVE TypeOK'
    OBVIOUS
  <2>1. CASE UNCHANGED vars
    BY <2>1 DEF vars, TypeOK
  <2>2. CASE Next
    BY <2>2, PlaceKeepsTypes, SurroundingsKeepTypes DEF Next
  <2> QED
    BY <2>1, <2>2
<1> QED
  BY <1>1, <1>2, PTL DEF Spec

-----------------------------------------------------------------------------
(***************************************************************************)
(* The REAL gate: the command names the account that passed the guard.     *)
(***************************************************************************)

\* No command of place() names a REAL account unless the configuration opted
\* in, whatever is selected while the call waits.
THEOREM RealGate == Spec => []NoUnauthorisedReal
<1> DEFINE Inv == GateInv /\ NoUnauthorisedReal
<1>1. Init => Inv
  BY DEF Init, GateInv, NoUnauthorisedReal, MayTrade
<1>2. TypeOK /\ Inv /\ [Next]_vars => Inv'
  <2> SUFFICES ASSUME TypeOK, Inv, [Next]_vars PROVE Inv'
    OBVIOUS
  <2> USE DEF TypeOK, GateInv, NoUnauthorisedReal, MayTrade
  <2>1. CASE UNCHANGED vars
    BY <2>1 DEF vars
  <2>2. ASSUME NEW c \in Calls, Place(c) PROVE Inv'
    <3> USE DEF Return, LeaveLock
    <3>1. CASE Begin(c)
      BY <3>1 DEF Begin
    <3>2. CASE Preflight(c)
      BY <3>2 DEF Preflight, PreflightPasses, PreflightRefuses
    <3>3. CASE AcquireBlocked(c) \/ AcquireNotConnected(c)
      BY <3>3 DEF AcquireBlocked, AcquireNotConnected
    <3>4. CASE AcquireTransmit(c)
      BY <3>4 DEF AcquireTransmit, AtLock, CommandAccount
    <3>5. CASE FinishSend(c) \/ FinishWait(c)
      BY <3>5 DEF FinishSend, SendReturns, SendRaises, FinishWait, Resume,
                  Timeout
    <3>6. CASE CancelOutsideLock(c) \/ CancelInsideLock(c)
      BY <3>6 DEF CancelOutsideLock, CancelInsideLock
    <3> QED
      BY <2>2, <3>1, <3>2, <3>3, <3>4, <3>5, <3>6 DEF Place, Acquire
  <2>3. CASE UNCHANGED <<pc, account, billed>>
    BY <2>3
  <2>4. ASSUME \/ \E d \in Senders, kind \in ReplyKinds : Deliver(d, kind)
               \/ \E environment \in Environments : Select(environment)
               \/ \E r \in RawSenders : RawSend(r)
               \/ Connection
        PROVE  UNCHANGED <<pc, account, billed>>
    BY <2>4 DEF Deliver, Select, RawSend, Connection, LinkFails, LinkUp,
                LinkDown, Disconnect
  <2> QED
    BY <2>1, <2>2, <2>3, <2>4 DEF Next
<1>3. Inv => NoUnauthorisedReal
  OBVIOUS
<1> QED
  BY <1>1, <1>2, <1>3, TypeCorrect, PTL DEF Spec

-----------------------------------------------------------------------------
(***************************************************************************)
(* Correlation: with nobody else on the execute destination, an answer     *)
(* reaches the call whose command it answers.                              *)
(***************************************************************************)

\* While the lock is free no call is inside, no future exists, and unless the
\* service is uncertain nothing is outstanding.
LEMMA FreeLock ==
  ASSUME TypeOK, SerialInv, holder = NoOne
  PROVE  /\ conf = "none"
         /\ \A c \in Calls : pc[c] \notin {"sending", "awaiting"}
         /\ ~uncertain => \A c \in Calls : cmd[c] # "outstanding"
<1>1. NoOne \notin Calls
  BY NoOneAssumption
<1> QED
  BY <1>1 DEF TypeOK, SerialInv, LockInv, WindowInv

\* A step of place() outside the critical section keeps the invariant.
LEMMA OutsideKeepsSerial ==
  ASSUME TypeOK, SerialInv, NoRawTraffic, NEW c \in Calls,
         Begin(c) \/ Preflight(c) \/ AcquireBlocked(c) \/ CancelOutsideLock(c)
  PROVE  SerialInv'
<1> USE DEF TypeOK, Return, Result
<1>1. /\ UNCHANGED <<holder, uncertain, conf, confFrom, cmd>>
      /\ pc[c] \in {"idle", "preflight", "queued"}
      /\ pc' = [pc EXCEPT ![c] = pc'[c]]
      /\ pc'[c] \in {"preflight", "queued", "returned"}
      /\ \/ UNCHANGED result
         \/ \E kind \in {"refused", "blocked", "cancelled"} :
              result' = [result EXCEPT ![c] = Result(kind, NoOne)]
  BY DEF Begin, Preflight, PreflightPasses, PreflightRefuses, AcquireBlocked,
         AtLock, CancelOutsideLock
<1>2. LockInv'
  BY <1>1 DEF SerialInv, LockInv
<1>3. WindowInv'
  BY <1>1 DEF SerialInv, WindowInv, AtMostOneUncorrelated, Outstanding
<1>4. StageInv'
  BY <1>1 DEF SerialInv, StageInv
<1>5. NoCrossing'
  BY <1>1 DEF SerialInv, NoCrossing
<1> QED
  BY <1>2, <1>3, <1>4, <1>5 DEF SerialInv

\* Entering the critical section keeps the invariant: nothing is outstanding
\* at that moment, or the call is not let through.
LEMMA EnteringKeepsSerial ==
  ASSUME TypeOK, SerialInv, NoRawTraffic, NEW c \in Calls,
         AcquireNotConnected(c) \/ AcquireTransmit(c)
  PROVE  SerialInv'
<1> USE DEF TypeOK, Return, Result, SubmissionBlocked
<1>1. /\ holder = NoOne
      /\ ~uncertain
      /\ pc[c] \in {"preflight", "queued"}
  BY DEF AcquireNotConnected, AcquireTransmit, AtLock, LockFree
<1>2. /\ conf = "none"
      /\ \A d \in Calls : /\ pc[d] \notin {"sending", "awaiting"}
                          /\ cmd[d] # "outstanding"
  BY <1>1, FreeLock
<1>3. CASE AcquireNotConnected(c)
  <2>1. LockInv'
    BY <1>1, <1>2, <1>3 DEF AcquireNotConnected, SerialInv, LockInv
  <2>2. WindowInv'
    BY <1>1, <1>2, <1>3 DEF AcquireNotConnected, WindowInv,
       AtMostOneUncorrelated, Outstanding
  <2>3. StageInv'
    BY <1>3 DEF AcquireNotConnected, SerialInv, StageInv
  <2>4. NoCrossing'
    BY <1>3 DEF AcquireNotConnected, SerialInv, NoCrossing
  <2> QED
    BY <2>1, <2>2, <2>3, <2>4 DEF SerialInv
<1>4. CASE AcquireTransmit(c)
  <2>1. c # NoOne
    BY NoOneAssumption
  <2>2. LockInv'
    BY <1>1, <1>2, <1>4, <2>1 DEF AcquireTransmit, LockInv
  <2>3. WindowInv'
    <3>1. \A d \in Calls : cmd'[d] = "outstanding" <=> d = c
      BY <1>2, <1>4 DEF AcquireTransmit
    <3>2. holder' = c /\ conf' = "pending" /\ ~uncertain'
      BY <1>1, <1>4 DEF AcquireTransmit
    <3> QED
      BY <3>1, <3>2 DEF WindowInv, AtMostOneUncorrelated, Outstanding
  <2>4. StageInv'
    BY <1>4 DEF AcquireTransmit, SerialInv, StageInv
  <2>5. NoCrossing'
    BY <1>4 DEF AcquireTransmit, SerialInv, NoCrossing
  <2> QED
    BY <2>2, <2>3, <2>4, <2>5 DEF SerialInv
<1> QED
  BY <1>3, <1>4

\* Leaving the critical section keeps the invariant: the answer reported is
\* the holder's own, and a command left unanswered leaves the service
\* uncertain.
LEMMA LeavingKeepsSerial ==
  ASSUME TypeOK, SerialInv, NoRawTraffic, NEW c \in Calls,
         SendRaises(c) \/ FinishWait(c) \/ CancelInsideLock(c)
  PROVE  SerialInv'
<1> USE DEF TypeOK, Return, Result, LeaveLock, HolderAfter
<1>1. /\ pc[c] \in {"sending", "awaiting"}
      /\ holder = c
      /\ holder' = NoOne /\ conf' = "none"
      /\ pc' = [pc EXCEPT ![c] = "returned"]
      /\ cmd' = cmd
  BY DEF SerialInv, LockInv, SendRaises, FinishWait, Resume, Timeout,
         CancelInsideLock
<1>2. LockInv'
  <2>1. \A d \in Calls : pc'[d] \notin {"sending", "awaiting"}
    BY <1>1 DEF SerialInv, LockInv
  <2>2. NoOne \notin Calls
    BY NoOneAssumption
  <2> QED
    BY <1>1, <2>1, <2>2 DEF LockInv
<1>3. WindowInv'
  <2>1. uncertain' \/ (~uncertain' /\ conf # "pending" /\ ~uncertain)
    BY <1>1 DEF SerialInv, WindowInv, SendRaises, FinishWait, Resume, Timeout,
                CancelInsideLock, UncertainAfterCancel
  <2>2. CASE uncertain'
    BY <1>1, <2>2 DEF SerialInv, WindowInv, AtMostOneUncorrelated, Outstanding
  <2>3. CASE ~uncertain' /\ conf # "pending" /\ ~uncertain
    BY <1>1, <2>3 DEF SerialInv, WindowInv, AtMostOneUncorrelated, Outstanding
  <2> QED
    BY <2>1, <2>2, <2>3
<1>4. StageInv'
  BY <1>1 DEF SerialInv, StageInv
<1>5. NoCrossing'
  <2>1. \/ \E kind \in {"unknown", "cancelled"} :
             result' = [result EXCEPT ![c] = Result(kind, NoOne)]
        \/ result' = [result EXCEPT ![c] = Result(conf, c)]
    BY <1>1 DEF SerialInv, LockInv, SendRaises, FinishWait, Resume, Timeout,
                CancelInsideLock
  <2> QED
    BY <2>1 DEF SerialInv, NoCrossing
<1> QED
  BY <1>2, <1>3, <1>4, <1>5 DEF SerialInv

\* A reply resolves the future of the call whose command it answers, because
\* no other command is outstanding while a future is pending.
LEMMA DeliverKeepsSerial ==
  ASSUME TypeOK, SerialInv, NoRawTraffic, NEW d \in Senders,
         NEW kind \in ReplyKinds, Deliver(d, kind)
  PROVE  SerialInv'
<1> USE DEF TypeOK
<1>1. /\ d \in Calls
      /\ cmd[d] = "outstanding"
      /\ cmd' = [cmd EXCEPT ![d] = "answered"]
      /\ UNCHANGED <<pc, holder, result>>
      /\ ~uncertain'
  BY DEF Deliver
<1>2. conf = "pending" => holder = d
  BY <1>1, NoOneAssumption DEF SerialInv, LockInv, WindowInv
<1>3. /\ conf' = "none" <=> conf = "none"
      /\ conf' \in {"order", "error"} =>
           \/ conf = "pending" /\ confFrom' = d
           \/ conf = conf' /\ confFrom' = confFrom
  BY DEF Deliver, ConfAfter
<1>4. LockInv'
  BY <1>1, <1>2, <1>3 DEF SerialInv, LockInv
<1>5. WindowInv'
  <2>1. \A c \in Calls : cmd'[c] # "outstanding"
    BY <1>1 DEF SerialInv, WindowInv, AtMostOneUncorrelated, Outstanding
  <2> QED
    BY <1>1, <2>1 DEF WindowInv, AtMostOneUncorrelated, Outstanding
<1>6. StageInv'
  BY <1>1 DEF SerialInv, StageInv
<1>7. NoCrossing'
  BY <1>1 DEF SerialInv, NoCrossing
<1> QED
  BY <1>4, <1>5, <1>6, <1>7 DEF SerialInv

\* The connection and the selection never add an outstanding command.
LEMMA ConnectionKeepsSerial ==
  ASSUME TypeOK, SerialInv, NoRawTraffic,
         Connection \/ \E environment \in Environments : Select(environment)
  PROVE  SerialInv'
<1> USE DEF TypeOK
<1>1. /\ UNCHANGED <<pc, holder, uncertain, conf, confFrom, result>>
      /\ \A c \in Calls : /\ cmd'[c] = "outstanding" => cmd[c] = "outstanding"
                          /\ cmd[c] = "none" => cmd'[c] = "none"
  BY DEF Connection, LinkFails, LinkUp, LinkDown, Disconnect, Lose, Select,
         Outstanding
<1>2. LockInv'
  BY <1>1 DEF SerialInv, LockInv
<1>3. WindowInv'
  BY <1>1 DEF SerialInv, WindowInv, AtMostOneUncorrelated, Outstanding
<1>4. StageInv' /\ NoCrossing'
  BY <1>1 DEF SerialInv, StageInv, NoCrossing
<1> QED
  BY <1>2, <1>3, <1>4 DEF SerialInv

\* A raw command is never forgotten.
LEMMA RawTrafficStays ==
  ASSUME TypeOK, [Next]_vars, NoRawTraffic'
  PROVE  NoRawTraffic
<1> USE CallsAssumption DEF TypeOK
<1>1. CASE UNCHANGED vars
  BY <1>1 DEF vars
<1>2. ASSUME NEW c \in Calls, Place(c) PROVE \A r \in RawSenders : cmd'[r] = cmd[r]
  BY <1>2 DEF Place, Begin, Preflight, PreflightPasses, PreflightRefuses,
     Acquire, AcquireBlocked, AcquireNotConnected, AcquireTransmit, FinishSend,
     SendReturns, SendRaises, FinishWait, Resume, Timeout, CancelOutsideLock,
     CancelInsideLock
<1>3. ASSUME NEW d \in Senders, NEW kind \in ReplyKinds, Deliver(d, kind)
      PROVE  NoRawTraffic
  BY <1>3 DEF Deliver
<1>4. CASE \E environment \in Environments : Select(environment)
  BY <1>4 DEF Select
<1>5. ASSUME NEW r \in RawSenders, RawSend(r) PROVE NoRawTraffic
  BY <1>5 DEF RawSend
<1>6. CASE Connection
  BY <1>6 DEF Connection, LinkFails, LinkUp, LinkDown, Disconnect, Lose,
     Outstanding
<1> QED
  BY <1>1, <1>2, <1>3, <1>4, <1>5, <1>6 DEF Next

\* The lock and the window that holds it together keep the answers apart.
LEMMA Serialised == Spec => [](NoCrossing /\ AtMostOneUncorrelated)
<1> DEFINE Inv == NoRawTraffic => SerialInv
<1>1. Init => Inv
  BY NoOneAssumption DEF Init, Result, SerialInv, LockInv, WindowInv,
     AtMostOneUncorrelated, Outstanding, StageInv, NoCrossing
<1>2. TypeOK /\ Inv /\ [Next]_vars => Inv'
  <2> SUFFICES ASSUME TypeOK, Inv, [Next]_vars, NoRawTraffic' PROVE SerialInv'
    OBVIOUS
  <2>1. NoRawTraffic /\ SerialInv
    BY RawTrafficStays
  <2>2. CASE UNCHANGED vars
    BY <2>1, <2>2 DEF vars, SerialInv, LockInv, WindowInv,
       AtMostOneUncorrelated, Outstanding, StageInv, NoCrossing
  <2>3. ASSUME NEW c \in Calls, Place(c) PROVE SerialInv'
    <3>1. CASE SendReturns(c)
      BY <2>1, <3>1 DEF SendReturns, TypeOK, SerialInv, LockInv, WindowInv,
         AtMostOneUncorrelated, Outstanding, StageInv, NoCrossing
    <3> QED
      BY <2>1, <2>3, <3>1, OutsideKeepsSerial, EnteringKeepsSerial,
         LeavingKeepsSerial DEF Place, Acquire, FinishSend
  <2>4. ~\E r \in RawSenders : RawSend(r)
    BY DEF RawSend, TypeOK
  <2> QED
    BY <2>1, <2>2, <2>3, <2>4, DeliverKeepsSerial, ConnectionKeepsSerial
    DEF Next
<1>3. Inv => NoCrossing /\ AtMostOneUncorrelated
  BY DEF SerialInv, WindowInv, NoCrossing, AtMostOneUncorrelated
<1> QED
  BY <1>1, <1>2, <1>3, TypeCorrect, PTL DEF Spec

\* As long as there is no raw traffic on the execute destination, every answer
\* a call of place() reports is the answer to its own command.
THEOREM Correlated == Spec => []NoCrossing
BY Serialised, PTL

\* As long as there is none, at most one command is uncorrelated at the broker:
\* the submission lock is held until the answer is in or the connection gone.
THEOREM OneUncorrelated == Spec => []AtMostOneUncorrelated
BY Serialised, PTL
=============================================================================
