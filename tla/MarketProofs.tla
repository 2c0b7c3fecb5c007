------------------------------ MODULE MarketProofs ------------------------------
(***************************************************************************)
(* Proofs about the market service: MarketStreams (types, the reference    *)
(* counts of every registry, the subscription behind every open stream,    *)
(* the routing of frames) and CandlePaging (types, and a range that is     *)
(* returned has no gap the broker's history had not).                      *)
(***************************************************************************)
EXTENDS MarketStreams, CandlePaging, FiniteSetTheorems, WellFoundedInduction,
        TLAPS

-----------------------------------------------------------------------------
(***************************************************************************)
(* Streams.                                                                *)
(***************************************************************************)

\* A call that has counted a reference and not given it back.
Holds(s) ==
  stage[s] \in {"queued", "subscribing", "open", "failed"} /\ sub[s].dest # Nothing

\* Registered handles have been handed out, and each but once.
HandleInv ==
  \A g \in Supervisors, d \in Dests :
    registry[g][d].refs > 0 =>
      /\ registry[g][d].handle < minted[g]
      /\ \A e \in Dests : /\ registry[g][e].refs > 0
                          /\ registry[g][e].handle = registry[g][d].handle
                          => e = d

\* A holder's handle is that of the subscription it asked for.
HoldInv ==
  \A s \in Streams : Holds(s) =>
    /\ sub[s].at \in Supervisors /\ sub[s].dest \in Dests
    /\ registry[sub[s].at][sub[s].dest].refs > 0
    /\ registry[sub[s].at][sub[s].dest].handle = sub[s].handle

\* On a ready connection the broker has what the registry has, or its SUBSCRIBE
\* has not been written.
RemoteInv ==
  /\ link # "none" => built \in Supervisors
  /\ Ready => Registered(built) \subseteq remote \cup unsent

\* Open streams, and only they, are registered for their feed.
FeedInv ==
  /\ fed = {s \in Streams : stage[s] = "open"}
  /\ \A s \in Streams : stage[s] \in {"queued", "subscribing", "open"} =>
       kind[s] \in Kinds /\ market[s] \in Markets

IInv ==
  /\ TypeOK /\ HandleInv /\ HoldInv /\ RemoteInv /\ FeedInv
  /\ ReferencesAreHeld


USE DEF Supervisors, Stages

-----------------------------------------------------------------------------
(***************************************************************************)
(* Constants and helpers                                                   *)
(***************************************************************************)

LEMMA DestFacts ==
  /\ Nothing \notin Dests /\ Nothing \notin Markets
  /\ \A k \in Kinds, m \in Markets, e \in Envs :
       environment = e => DestinationsOf(k, m) \subseteq Dests \cup {Nothing}
BY NothingAssumption DEF Dests, DestinationsOf, Graph, Book, Kinds

LEMMA DestTopics == \A d \in Dests : d.market \in Markets
BY DEF Dests, Graph, Book

LEMMA NoSubType == NoSub \in [handle : Nat, refs : Nat] /\ NoSub.refs = 0
BY DEF NoSub

\* A reference more: the subscription has one more than it had.
LEMMA AcquiredFacts ==
  ASSUME TypeOK, NEW g \in Supervisors, NEW d \in Dests
  PROVE  /\ Acquired(g, d) \in [handle : Nat, refs : Nat]
         /\ Acquired(g, d).refs = registry[g][d].refs + 1
         /\ Acquired(g, d).handle = IF d \in Registered(g)
                                      THEN registry[g][d].handle ELSE minted[g]
<1>0. /\ registry \in [Supervisors -> [Dests -> [handle : Nat, refs : Nat]]]
      /\ minted \in [Supervisors -> Nat]
  BY DEF TypeOK
<1>1. registry[g][d] \in [handle : Nat, refs : Nat] /\ minted[g] \in Nat
  BY <1>0
<1>2. CASE d \in Registered(g)
  BY <1>1, <1>2 DEF Acquired, Registered
<1>3. CASE d \notin Registered(g)
  <2>1. registry[g][d].refs = 0
    BY <1>1, <1>3 DEF Registered
  <2> QED
    BY <1>1, <1>3, <2>1 DEF Acquired
<1> QED
  BY <1>2, <1>3

\* A holder's handle leads to its own subscription and to no other.
LEMMA ByHandleFacts ==
  ASSUME TypeOK, HandleInv, HoldInv, NEW s \in Streams, Holds(s)
  PROVE  ByHandle(sub[s].at, sub[s].handle) = {sub[s].dest}
BY DEF ByHandle, HandleInv, HoldInv, Registered

\* A reference less, for that subscription alone.
LEMMA ReleasedFacts ==
  ASSUME TypeOK, HandleInv, HoldInv, NEW s \in Streams, Holds(s), NEW d \in Dests
  PROVE  LET g == sub[s].at
             new == Released(g, sub[s].handle)[d]
         IN  /\ Released(g, sub[s].handle) \in [Dests -> [handle : Nat, refs : Nat]]
             /\ d # sub[s].dest => new = registry[g][d]
             /\ d = sub[s].dest =>
                  /\ new.refs = registry[g][d].refs - 1
                  /\ new.refs > 0 => new.handle = registry[g][d].handle
<1> DEFINE g == sub[s].at
           new(e) == Released(g, sub[s].handle)[e]
<1>1. ByHandle(g, sub[s].handle) = {sub[s].dest}
  BY ByHandleFacts
<1>2. g \in Supervisors /\ registry[g] \in [Dests -> [handle : Nat, refs : Nat]]
  BY DEF TypeOK, HoldInv
<1>3. \A e \in Dests :
        new(e) = IF e = sub[s].dest
                   THEN IF registry[g][e].refs = 1 THEN NoSub
                        ELSE [registry[g][e] EXCEPT !.refs = @ - 1]
                   ELSE registry[g][e]
  BY <1>1 DEF Released
<1>4. registry[g][sub[s].dest].refs > 0
  BY DEF HoldInv
<1>5. \A e \in Dests : new(e) \in [handle : Nat, refs : Nat]
  <2> SUFFICES ASSUME NEW e \in Dests PROVE new(e) \in [handle : Nat, refs : Nat]
    OBVIOUS
  <2>1. registry[g][e] \in [handle : Nat, refs : Nat]
    BY <1>2
  <2>2. CASE e = sub[s].dest /\ registry[g][e].refs = 1
    BY <1>3, <2>2, NoSubType
  <2>3. CASE e = sub[s].dest /\ registry[g][e].refs # 1
    <3>1. registry[g][e].refs - 1 \in Nat
      BY <1>4, <2>1, <2>3
    <3> QED
      BY <1>3, <2>1, <2>3, <3>1
  <2>4. CASE e # sub[s].dest
    BY <1>3, <2>1, <2>4
  <2> QED
    BY <2>2, <2>3, <2>4
<1>6. Released(g, sub[s].handle) \in [Dests -> [handle : Nat, refs : Nat]]
  BY <1>5 DEF Released
<1>7. ASSUME d = sub[s].dest
      PROVE  /\ new(d).refs = registry[g][d].refs - 1
             /\ new(d).refs > 0 => new(d).handle = registry[g][d].handle
  <2>1. registry[g][d] \in [handle : Nat, refs : Nat]
    BY <1>2
  <2>2. CASE registry[g][d].refs = 1
    <3>1. new(d) = NoSub
      BY <1>3, <1>7, <2>2
    <3> HIDE DEF new
    <3> QED
      BY <2>2, <3>1 DEF NoSub
  <2>3. CASE registry[g][d].refs # 1
    <3>1. new(d) = [registry[g][d] EXCEPT !.refs = @ - 1]
      BY <1>3, <1>7, <2>3
    <3> HIDE DEF new
    <3> QED
      BY <2>1, <3>1
  <2> QED
    BY <2>2, <2>3
<1> QED
  BY <1>3, <1>6, <1>7

LEMMA HoldersFinite ==
  ASSUME NEW g, NEW d
  PROVE  IsFiniteSet(Holders(g, d))
BY StreamsAssumption, FS_Subset DEF Holders

-----------------------------------------------------------------------------
(***************************************************************************)
(* Steps                                                                   *)
(***************************************************************************)

\* Steps that leave every call, reference and handle alone.
LEMMA QuietStep ==
  ASSUME IInv, UNCHANGED <<registry, minted, stage, calls, fed>>,
         environment' \in Envs,
         link' \in {"none", "down", "ready", "failing", "failed"},
         built' \in 0..Lives, remote' \subseteq Dests, unsent' \subseteq Dests,
         RemoteInv'
  PROVE  IInv'
<1>1. TypeOK'
  BY DEF IInv, TypeOK, calls
<1>2. HandleInv'
  BY DEF IInv, HandleInv, calls
<1>3. HoldInv'
  BY DEF IInv, HoldInv, Holds, calls
<1>4. FeedInv'
  BY DEF IInv, FeedInv, calls
<1>5. ReferencesAreHeld'
  BY DEF IInv, ReferencesAreHeld, Holders, calls
<1> QED
  BY <1>1, <1>2, <1>3, <1>4, <1>5 DEF IInv

LEMMA RegisteredType ==
  \A g : Registered(g) \subseteq Dests
BY DEF Registered

LEMMA ConnectionStep ==
  ASSUME IInv, Connection
  PROVE  IInv'
<1> USE LivesAssumption, RegisteredType
<1>1. CASE Connect
  <2>1. built' \in Supervisors
    BY <1>1 DEF IInv, TypeOK, Connect
  <2> QED
    BY <1>1, <2>1, QuietStep DEF IInv, TypeOK, Connect, RemoteInv, Ready
<1>2. CASE GoReady
  <2>1. Registered(built)' = Registered(built)
    BY <1>2 DEF GoReady, Registered
  <2> QED
    BY <1>2, <2>1, QuietStep DEF IInv, TypeOK, GoReady, RemoteInv
<1>3. CASE LinkFails
  <2>1. Registered(built)' = Registered(built)
    BY <1>3 DEF LinkFails, Registered
  <2> QED
    BY <1>3, <2>1, QuietStep DEF IInv, TypeOK, LinkFails, RemoteInv, Ready
<1>4. ASSUME NEW how \in {"down", "failed", "none"}, LinkDown(how)
      PROVE  IInv'
  BY <1>4, QuietStep DEF IInv, TypeOK, LinkDown, RemoteInv, Ready
<1> QED
  BY <1>1, <1>2, <1>3, <1>4 DEF Connection

LEMMA ReceiveStep ==
  ASSUME IInv, NEW f \in Frames, Receive(f)
  PROVE  IInv'
<1>1. Registered(built)' = Registered(built)
  BY DEF Receive, Registered
<1> QED
  BY <1>1, QuietStep DEF IInv, TypeOK, Receive, RemoteInv, Ready

LEMMA SelectStep ==
  ASSUME IInv, NEW e \in Envs, Select(e)
  PROVE  IInv'
<1>1. Registered(built)' = Registered(built)
  BY DEF Select, Registered
<1> QED
  BY <1>1, QuietStep DEF IInv, TypeOK, Select, RemoteInv, Ready

\* The steps of a SUBSCRIBE, up to its end either way: the call goes on holding
\* its reference.
LEMMA SubscribeEnds ==
  ASSUME IInv, NEW s \in Streams,
         SubscribeIsWritten(s) \/ Subscribed(s) \/ SubscribeGivesUp(s)
  PROVE  IInv'
<1>1. /\ stage[s] \in {"queued", "subscribing"}
      /\ stage'[s] \in {"subscribing", "open", "failed"}
      /\ \A t \in Streams \ {s} : stage'[t] = stage[t]
      /\ stage' \in [Streams -> Stages]
      /\ UNCHANGED <<environment, link, built, registry, minted, calls>>
      /\ remote \cup unsent = remote' \cup unsent'
      /\ remote' \subseteq Dests /\ unsent' \subseteq Dests
      /\ fed' = IF stage'[s] = "open" THEN fed \cup {s} ELSE fed
  BY DEF SubscribeIsWritten, Subscribed, SubscribeGivesUp, Enter, IInv, TypeOK
<1>2. \A t \in Streams : Holds(t)' = Holds(t)
  BY <1>1 DEF Holds, calls
<1>3. TypeOK'
  BY <1>1 DEF IInv, TypeOK, calls
<1>4. HandleInv'
  BY <1>1 DEF IInv, HandleInv
<1>5. HoldInv'
  BY <1>1, <1>2 DEF IInv, HoldInv, calls
<1>6. RemoteInv'
  BY <1>1 DEF IInv, RemoteInv, Ready, Registered
<1>7. FeedInv'
  BY <1>1 DEF IInv, FeedInv, calls
<1>8. \A g, d : Holders(g, d)' = Holders(g, d)
  BY <1>1 DEF Holders, calls
<1>9. ReferencesAreHeld'
  BY <1>1, <1>8 DEF IInv, ReferencesAreHeld
<1> QED
  BY <1>3, <1>4, <1>5, <1>6, <1>7, <1>9 DEF IInv

\* A stream without a subscription of its own: the ticker's.
LEMMA OpenPlain ==
  ASSUME IInv, NEW s \in Streams, NEW k \in Kinds, NEW m \in Markets,
         Open(s, k, m, Nothing)
  PROVE  IInv'
<1> USE DEF calls
<1>1. /\ stage[s] = "idle" /\ s \notin fed
      /\ kind' = [kind EXCEPT ![s] = k] /\ market' = [market EXCEPT ![s] = m]
      /\ sub' = [sub EXCEPT ![s] = [Unsubscribed EXCEPT !.at = built]]
      /\ stage' = [stage EXCEPT ![s] = "open"] /\ fed' = fed \cup {s}
      /\ UNCHANGED <<environment, link, built, registry, minted, remote, unsent>>
  BY DEF Open, Enter, IInv, FeedInv
<1>2. sub'[s] = [at |-> built, dest |-> Nothing, handle |-> 0]
  BY <1>1 DEF IInv, TypeOK, Unsubscribed
<1>3. TypeOK'
  BY <1>1, <1>2 DEF IInv, TypeOK
<1>4. ~Holds(s)' /\ \A t \in Streams \ {s} : Holds(t)' = Holds(t)
  BY <1>1, <1>2 DEF IInv, TypeOK, Holds
<1>5. HandleInv'
  BY <1>1 DEF IInv, HandleInv
<1>6. HoldInv'
  BY <1>1, <1>4 DEF IInv, TypeOK, HoldInv
<1>7. RemoteInv'
  BY <1>1 DEF IInv, RemoteInv, Ready, Registered
<1>8. FeedInv'
  BY <1>1 DEF IInv, TypeOK, FeedInv
<1>9. \A g \in Supervisors, d \in Dests : Holders(g, d)' = Holders(g, d)
  BY <1>1, <1>2, DestFacts DEF IInv, TypeOK, Holders
<1>10. ReferencesAreHeld'
  BY <1>1, <1>9 DEF IInv, ReferencesAreHeld
<1> QED
  BY <1>3, <1>5, <1>6, <1>7, <1>8, <1>10 DEF IInv

\* A stream or a raw subscription with a destination: one more reference, and
\* one more holder of it.
LEMMA OpenSubscribing ==
  ASSUME IInv, NEW s \in Streams, NEW k \in Kinds, NEW m \in Markets,
         NEW d \in Dests, Open(s, k, m, d)
  PROVE  IInv'
<1> USE DEF calls
<1> DEFINE new == Acquired(built, d)
           fresh == d \notin Registered(built)
<1>1. built \in Supervisors /\ d # Nothing
  BY DestFacts DEF Open, IInv, RemoteInv, Ready
<1>2. /\ stage[s] = "idle" /\ s \notin fed
      /\ kind' = [kind EXCEPT ![s] = k] /\ market' = [market EXCEPT ![s] = m]
      /\ registry' = [registry EXCEPT ![built][d] = new]
      /\ sub' = [sub EXCEPT ![s] = [at |-> built, dest |-> d, handle |-> new.handle]]
      /\ IF fresh
           THEN /\ minted' = [minted EXCEPT ![built] = @ + 1]
                /\ unsent' = unsent \cup {d}
                /\ stage' = [stage EXCEPT ![s] = "queued"]
                /\ UNCHANGED fed
           ELSE /\ stage' = [stage EXCEPT ![s] = "open"] /\ fed' = fed \cup {s}
                /\ UNCHANGED <<minted, unsent>>
      /\ UNCHANGED <<environment, link, built, remote>> /\ Ready
  BY <1>1 DEF Open, Enter, IInv, FeedInv
<1>3. /\ new \in [handle : Nat, refs : Nat]
      /\ new.refs = registry[built][d].refs + 1
      /\ new.handle = IF fresh THEN minted[built] ELSE registry[built][d].handle
  BY <1>1, AcquiredFacts DEF IInv
<1> HIDE DEF new
<1>4. registry \in [Supervisors -> [Dests -> [handle : Nat, refs : Nat]]]
      /\ minted \in [Supervisors -> Nat]
  BY DEF IInv, TypeOK
<1>5. /\ registry' \in [Supervisors -> [Dests -> [handle : Nat, refs : Nat]]]
      /\ \A g \in Supervisors, e \in Dests :
           registry'[g][e] = IF g = built /\ e = d THEN new ELSE registry[g][e]
  BY <1>1, <1>2, <1>3, <1>4
<1>6. /\ minted' \in [Supervisors -> Nat]
      /\ \A g \in Supervisors : minted'[g] >= minted[g]
      /\ fresh => minted'[built] = minted[built] + 1
  <2>1. CASE fresh
    <3>1. minted' = [minted EXCEPT ![built] = @ + 1]
      BY <1>2, <2>1
    <3>2. minted[built] + 1 \in Nat /\ \A g \in Supervisors : minted[g] \in Nat
      BY <1>1, <1>4
    <3> QED
      BY <1>1, <1>4, <3>1, <3>2
  <2>2. CASE ~fresh
    <3>1. minted' = minted
      BY <1>2, <2>2
    <3>2. \A g \in Supervisors : minted[g] \in Nat
      BY <1>4
    <3> QED
      BY <1>4, <2>2, <3>1, <3>2
  <2> QED
    BY <2>1, <2>2
<1>7. /\ sub'[s] = [at |-> built, dest |-> d, handle |-> new.handle]
      /\ stage'[s] = IF fresh THEN "queued" ELSE "open"
      /\ \A t \in Streams \ {s} : sub'[t] = sub[t] /\ stage'[t] = stage[t]
  <2>1. DOMAIN sub = Streams /\ DOMAIN stage = Streams
    BY DEF IInv, TypeOK
  <2>2. /\ sub' = [sub EXCEPT ![s] = [at |-> built, dest |-> d, handle |-> new.handle]]
        /\ stage' = [stage EXCEPT ![s] = IF fresh THEN "queued" ELSE "open"]
    BY <1>2
  <2>3. sub'[s] = [at |-> built, dest |-> d, handle |-> new.handle]
    BY <2>1, <2>2
  <2> HIDE DEF fresh
  <2> QED
    BY <2>1, <2>2, <2>3
<1>8. TypeOK'
  <2>1. /\ environment' \in Envs /\ built' \in 0..Lives
        /\ remote' \subseteq Dests /\ unsent' \subseteq Dests
        /\ link' \in {"none", "down", "ready", "failing", "failed"}
        /\ stage' \in [Streams -> Stages]
        /\ kind' \in [Streams -> Kinds \cup {Nothing}]
        /\ market' \in [Streams -> Markets \cup {Nothing}]
        /\ fed' \subseteq Streams
    BY <1>2 DEF IInv, TypeOK
  <2>2. sub' \in [Streams -> [at : 0..Lives, dest : Dests \cup {Nothing}, handle : Nat]]
    <3>1. sub'[s] \in [at : 0..Lives, dest : Dests \cup {Nothing}, handle : Nat]
      BY <1>1, <1>3, <1>7, LivesAssumption
    <3> QED
      BY <1>2, <1>7, <3>1 DEF IInv, TypeOK
  <2> QED
    BY <1>5, <1>6, <2>1, <2>2 DEF TypeOK
<1>9. \A t \in Streams \ {s} : Holds(t)' = Holds(t)
  BY <1>7 DEF Holds
<1>10. HandleInv'
  <2> SUFFICES ASSUME NEW g \in Supervisors, NEW e \in Dests,
                      registry'[g][e].refs > 0
               PROVE  /\ registry'[g][e].handle < minted'[g]
                      /\ \A f \in Dests : /\ registry'[g][f].refs > 0
                                          /\ registry'[g][f].handle
                                               = registry'[g][e].handle
                                          => f = e
    BY DEF HandleInv
  <2>1. CASE g # built
    <3>1. \A f \in Dests : registry'[g][f] = registry[g][f]
      BY <1>5, <2>1
    <3>2. registry[g][e].handle \in Nat /\ minted[g] \in Nat /\ minted'[g] \in Nat
      BY <1>4, <1>6
    <3>3. /\ registry[g][e].handle < minted[g]
          /\ \A f \in Dests : /\ registry[g][f].refs > 0
                              /\ registry[g][f].handle = registry[g][e].handle
                              => f = e
      BY <3>1 DEF IInv, HandleInv
    <3> QED
      BY <1>6, <3>1, <3>2, <3>3
  <2>2. CASE g = built /\ ~fresh
    <3>1. registry[g][d].refs > 0 /\ new.handle = registry[g][d].handle
      BY <1>3, <2>2 DEF Registered
    <3>2. \A f \in Dests : /\ registry'[g][f].handle = registry[g][f].handle
                           /\ registry'[g][f].refs > 0 => registry[g][f].refs > 0
      <4> SUFFICES ASSUME NEW f \in Dests
                   PROVE  /\ registry'[g][f].handle = registry[g][f].handle
                          /\ registry'[g][f].refs > 0 => registry[g][f].refs > 0
        OBVIOUS
      <4>1. CASE f = d
        BY <1>5, <2>2, <3>1, <4>1
      <4>2. CASE f # d
        <5>1. registry'[g][f] = registry[g][f]
          BY <1>5, <4>2
        <5> QED
          BY <5>1
      <4> QED
        BY <4>1, <4>2
    <3>3. registry[g][e].handle \in Nat /\ minted[g] \in Nat /\ minted'[g] \in Nat
      BY <1>4, <1>6
    <3>4. /\ registry[g][e].handle < minted[g]
          /\ \A f \in Dests : /\ registry[g][f].refs > 0
                              /\ registry[g][f].handle = registry[g][e].handle
                              => f = e
      BY <3>2 DEF IInv, HandleInv
    <3> QED
      BY <1>6, <3>2, <3>3, <3>4
  <2>3. CASE g = built /\ fresh
    <3>1. new.handle = minted[g] /\ minted'[g] = minted[g] + 1
      BY <1>3, <1>6, <2>3
    <3>2. \A f \in Dests \ {d} : /\ registry'[g][f] = registry[g][f]
                                 /\ registry[g][f].refs > 0
                                      => registry[g][f].handle < minted[g]
      BY <1>5 DEF IInv, HandleInv
    <3>3. registry'[g][d].handle = minted[g]
      BY <1>5, <2>3, <3>1
    <3>4. minted[g] \in Nat /\ \A f \in Dests : registry[g][f].handle \in Nat
      BY <1>4
    <3>5. CASE e = d
      BY <3>1, <3>2, <3>3, <3>4, <3>5
    <3>6. CASE e # d
      BY <3>1, <3>2, <3>3, <3>4, <3>6 DEF IInv, HandleInv
    <3> QED
      BY <3>5, <3>6
  <2> QED
    BY <2>1, <2>2, <2>3
<1>11. HoldInv'
  <2> SUFFICES ASSUME NEW t \in Streams, Holds(t)'
               PROVE  /\ sub'[t].at \in Supervisors /\ sub'[t].dest \in Dests
                      /\ registry'[sub'[t].at][sub'[t].dest].refs > 0
                      /\ registry'[sub'[t].at][sub'[t].dest].handle = sub'[t].handle
    BY DEF HoldInv
  <2>1. CASE t = s
    <3>1. registry'[built][d] = new /\ registry[built][d].refs \in Nat
      BY <1>1, <1>4, <1>5
    <3> QED
      BY <1>1, <1>3, <1>7, <2>1, <3>1
  <2>2. CASE t # s
    <3>1. /\ sub[t].at \in Supervisors /\ sub[t].dest \in Dests
          /\ registry[sub[t].at][sub[t].dest].refs > 0
          /\ registry[sub[t].at][sub[t].dest].handle = sub[t].handle
      BY <1>9, <2>2 DEF IInv, HoldInv
    <3>2. CASE sub[t].at = built /\ sub[t].dest = d
      <4>1. ~fresh
        BY <3>1, <3>2 DEF Registered
      <4>2. registry[built][d].refs \in Nat
        BY <1>1, <1>4
      <4>3. new.handle = sub[t].handle /\ new.refs > 0
        BY <1>3, <3>1, <3>2, <4>1, <4>2
      <4>4. registry'[built][d] = new /\ sub'[t] = sub[t]
        BY <1>1, <1>5, <1>7, <2>2
      <4> HIDE DEF fresh
      <4> QED
        BY <3>1, <3>2, <4>3, <4>4
    <3>3. CASE ~(sub[t].at = built /\ sub[t].dest = d)
      <4>1. PICK h \in Supervisors, e \in Dests : h = sub[t].at /\ e = sub[t].dest
        BY <3>1
      <4>2. registry'[h][e] = registry[h][e]
        BY <1>5, <3>3, <4>1
      <4>3. sub'[t] = sub[t]
        BY <1>7, <2>2
      <4> QED
        BY <3>1, <4>1, <4>2, <4>3
    <3> QED
      BY <3>2, <3>3
  <2> QED
    BY <2>1, <2>2
<1>12. RemoteInv'
  <2>1. Registered(built)' = Registered(built) \cup {d}
    <3>1. \A e \in Dests : registry'[built][e].refs > 0
                             <=> registry[built][e].refs > 0 \/ e = d
      BY <1>1, <1>3, <1>4, <1>5
    <3> QED
      BY <1>2, <3>1 DEF Registered
  <2>2. Registered(built) \cup {d} \subseteq remote' \cup unsent'
    BY <1>2 DEF IInv, RemoteInv
  <2> QED
    BY <1>1, <1>2, <2>1, <2>2 DEF IInv, RemoteInv
<1>13. FeedInv'
  BY <1>2, <1>7 DEF IInv, TypeOK, FeedInv
<1>14. ReferencesAreHeld'
  <2>1. s \notin Holders(built, d)
    BY <1>2 DEF Holders
  <2>2. \A g \in Supervisors, e \in Dests :
          Holders(g, e)' = IF g = built /\ e = d THEN Holders(g, e) \cup {s}
                                                 ELSE Holders(g, e)
    BY <1>2, <1>7 DEF Holders
  <2>3. Cardinality(Holders(built, d) \cup {s}) = Cardinality(Holders(built, d)) + 1
    BY <2>1, HoldersFinite, FS_AddElement
  <2>4. \A g \in Supervisors, e \in Dests :
          registry[g][e].refs = Cardinality(Holders(g, e))
    BY DEF IInv, ReferencesAreHeld
  <2> SUFFICES ASSUME NEW g \in Supervisors, NEW e \in Dests
               PROVE  registry'[g][e].refs = Cardinality(Holders(g, e)')
    BY DEF ReferencesAreHeld
  <2>5. CASE g = built /\ e = d
    <3>1. registry'[g][e] = new /\ new.refs = registry[g][e].refs + 1
      BY <1>1, <1>3, <1>5, <2>5
    <3>2. Holders(g, e)' = Holders(built, d) \cup {s}
      BY <2>2, <2>5
    <3> HIDE DEF new
    <3> QED
      BY <2>3, <2>4, <2>5, <3>1, <3>2
  <2>6. CASE ~(g = built /\ e = d)
    <3>1. registry'[g][e] = registry[g][e]
      BY <1>5, <2>6
    <3>2. Holders(g, e)' = Holders(g, e)
      BY <2>2, <2>6
    <3> QED
      BY <2>4, <3>1, <3>2
  <2> QED
    BY <2>5, <2>6
<1> QED
  BY <1>8, <1>10, <1>11, <1>12, <1>13, <1>14 DEF IInv

\* The reference given back is the closing stream's own, at the supervisor it
\* was taken at.
LEMMA CloseStep ==
  ASSUME IInv, NEW s \in Streams, Close(s)
  PROVE  IInv'
<1> USE DEF calls
<1>1. /\ stage[s] = "open"
      /\ stage' = [stage EXCEPT ![s] = "closed"]
      /\ kind' = [kind EXCEPT ![s] = Nothing]
      /\ market' = [market EXCEPT ![s] = Nothing]
      /\ sub' = [sub EXCEPT ![s] = Unsubscribed]
      /\ fed' = fed \ {s}
      /\ UNCHANGED <<environment, link, built, minted, unsent>>
  BY DEF Close, Forget, FedWithout
<1>2. /\ sub'[s] = Unsubscribed /\ stage'[s] = "closed"
      /\ \A t \in Streams \ {s} : sub'[t] = sub[t] /\ stage'[t] = stage[t]
      /\ ~Holds(s)' /\ \A t \in Streams \ {s} : Holds(t)' = Holds(t)
  BY <1>1 DEF IInv, TypeOK, Holds
<1>3. /\ environment' \in Envs /\ built' \in 0..Lives
      /\ link' \in {"none", "down", "ready", "failing", "failed"}
      /\ minted' \in [Supervisors -> Nat]
      /\ stage' \in [Streams -> Stages]
      /\ kind' \in [Streams -> Kinds \cup {Nothing}]
      /\ market' \in [Streams -> Markets \cup {Nothing}]
      /\ sub' \in [Streams -> [at : 0..Lives, dest : Dests \cup {Nothing}, handle : Nat]]
      /\ fed' \subseteq Streams
      /\ unsent' \subseteq Dests
  BY <1>1, LivesAssumption DEF IInv, TypeOK, Unsubscribed, Stages
<1>4. FeedInv'
  BY <1>1, <1>2 DEF IInv, TypeOK, FeedInv
<1>5. CASE sub[s].dest = Nothing
  <2>1. UNCHANGED <<registry, remote>>
    BY <1>5 DEF Close
  <2>2. TypeOK' /\ HandleInv'
    BY <1>1, <1>3, <2>1 DEF IInv, TypeOK, HandleInv
  <2>3. HoldInv'
    BY <1>2, <2>1 DEF IInv, HoldInv
  <2>4. RemoteInv'
    BY <1>1, <2>1 DEF IInv, RemoteInv, Ready, Registered
  <2>5. \A h \in Supervisors, e \in Dests : Holders(h, e)' = Holders(h, e)
    BY <1>1, <1>2, <1>5, DestFacts DEF Holders, Unsubscribed
  <2>6. ReferencesAreHeld'
    BY <2>1, <2>5 DEF IInv, ReferencesAreHeld
  <2> QED
    BY <1>4, <2>2, <2>3, <2>4, <2>6 DEF IInv
<1>6. CASE sub[s].dest # Nothing
  <2>0. Holds(s) /\ sub[s].at \in Supervisors /\ sub[s].dest \in Dests
    BY <1>1, <1>6 DEF Holds, IInv, HoldInv
  <2>1. PICK g \in Supervisors, d \in Dests : g = sub[s].at /\ d = sub[s].dest
    BY <2>0
  <2> DEFINE new(e) == Released(g, sub[s].handle)[e]
  <2>2. /\ Released(g, sub[s].handle) \in [Dests -> [handle : Nat, refs : Nat]]
        /\ \A e \in Dests : e # d => new(e) = registry[g][e]
        /\ new(d).refs = registry[g][d].refs - 1
        /\ new(d).refs > 0 => new(d).handle = registry[g][d].handle
    BY <2>0, <2>1, ReleasedFacts DEF IInv
  <2>3. /\ registry' = [registry EXCEPT ![g] = Released(g, sub[s].handle)]
        /\ LET gone == IF g = built /\ Ready
                         THEN {e \in ByHandle(g, sub[s].handle) :
                                 registry[g][e].refs = 1}
                         ELSE {}
           IN  remote' \in {remote, remote \ gone}
    BY <1>6, <2>1 DEF Close, ReleasesAt
  <2>4. registry \in [Supervisors -> [Dests -> [handle : Nat, refs : Nat]]]
    BY DEF IInv, TypeOK
  <2>5. /\ registry' \in [Supervisors -> [Dests -> [handle : Nat, refs : Nat]]]
        /\ \A h \in Supervisors, e \in Dests :
             registry'[h][e] = IF h = g /\ e = d THEN new(d) ELSE registry[h][e]
    BY <2>1, <2>2, <2>3, <2>4
  <2> HIDE DEF new
  <2>6. TypeOK'
    <3>1. remote' \subseteq Dests
      BY <2>3 DEF IInv, TypeOK
    <3> QED
      BY <1>3, <2>5, <3>1 DEF TypeOK
  <2>7. \A h \in Supervisors, e \in Dests :
          registry'[h][e].refs > 0 =>
            registry[h][e].refs > 0 /\ registry'[h][e].handle = registry[h][e].handle
    <3> SUFFICES ASSUME NEW h \in Supervisors, NEW e \in Dests, registry'[h][e].refs > 0
                 PROVE  /\ registry[h][e].refs > 0
                        /\ registry'[h][e].handle = registry[h][e].handle
      OBVIOUS
    <3>1. CASE h = g /\ e = d
      <4>1. registry'[g][d] = new(d) /\ registry[g][d].refs \in Nat
        BY <2>1, <2>4, <2>5
      <4> QED
        BY <2>2, <3>1, <4>1
    <3>2. CASE ~(h = g /\ e = d)
      BY <2>5, <3>2
    <3> QED
      BY <3>1, <3>2
  <2>8. HandleInv'
    BY <1>1, <2>7 DEF IInv, HandleInv
  <2>9. \A h \in Supervisors, e \in Dests :
          Holders(h, e)' = IF h = g /\ e = d THEN Holders(h, e) \ {s} ELSE Holders(h, e)
    BY <1>2, <2>1 DEF Holders, Unsubscribed
  <2>10. ReferencesAreHeld'
    <3>1. s \in Holders(g, d)
      BY <1>1, <2>1 DEF Holders
    <3>2. Cardinality(Holders(g, d) \ {s}) = Cardinality(Holders(g, d)) - 1
      BY <3>1, HoldersFinite, FS_RemoveElement
    <3> SUFFICES ASSUME NEW h \in Supervisors, NEW e \in Dests
                 PROVE  registry'[h][e].refs = Cardinality(Holders(h, e)')
      BY DEF ReferencesAreHeld
    <3>3. CASE h = g /\ e = d
      <4>1. registry'[g][d] = new(d) /\ Holders(g, d)' = Holders(g, d) \ {s}
        BY <2>1, <2>5, <2>9
      <4>2. registry[g][d].refs = Cardinality(Holders(g, d))
        BY <2>1 DEF IInv, ReferencesAreHeld
      <4> QED
        BY <2>2, <3>2, <3>3, <4>1, <4>2
    <3>4. CASE ~(h = g /\ e = d)
      BY <2>5, <2>9, <3>4 DEF IInv, ReferencesAreHeld
    <3> QED
      BY <3>3, <3>4
  <2>11. HoldInv'
    <3> SUFFICES ASSUME NEW t \in Streams, Holds(t)'
                 PROVE  /\ sub'[t].at \in Supervisors /\ sub'[t].dest \in Dests
                        /\ registry'[sub'[t].at][sub'[t].dest].refs > 0
                        /\ registry'[sub'[t].at][sub'[t].dest].handle = sub'[t].handle
      BY DEF HoldInv
    <3>1. t # s /\ Holds(t) /\ sub'[t] = sub[t]
      BY <1>2
    <3>2. PICK h \in Supervisors, e \in Dests :
            h = sub[t].at /\ e = sub[t].dest /\ registry[h][e].handle = sub[t].handle
      BY <3>1 DEF IInv, HoldInv
    <3>3. t \in Holders(h, e)'
      BY <1>2, <3>1, <3>2 DEF Holders, Holds
    <3>4. IsFiniteSet(Holders(h, e)')
      BY <2>9, HoldersFinite, FS_RemoveElement
    <3>5. Cardinality(Holders(h, e)') # 0
      BY <3>3, <3>4, FS_EmptySet
    <3>6. registry'[h][e].refs > 0
      BY <2>5, <2>10, <3>5 DEF ReferencesAreHeld
    <3> QED
      BY <2>7, <3>1, <3>2, <3>6
  <2>12. RemoteInv'
    <3>1. ByHandle(g, sub[s].handle) = {d}
      BY <2>0, <2>1, ByHandleFacts DEF IInv
    <3>2. CASE ~Ready
      BY <1>1, <3>2 DEF IInv, RemoteInv, Ready
    <3>3. CASE Ready /\ g # built
      <4>1. \A e \in Dests : registry'[built][e] = registry[built][e]
        BY <2>5, <3>3 DEF IInv, RemoteInv, Ready
      <4>2. Registered(built)' = Registered(built)
        BY <1>1, <4>1 DEF Registered
      <4> QED
        BY <1>1, <2>3, <3>3, <4>2 DEF IInv, RemoteInv, Ready
    <3>4. CASE Ready /\ g = built
      <4>1. registry[g][d].refs \in Nat /\ registry[g][d].refs > 0
        BY <2>0, <2>1, <2>4 DEF IInv, HoldInv
      <4>2. \A e \in Dests : registry'[g][e].refs > 0
              <=> registry[g][e].refs > 0 /\ ~(e = d /\ registry[g][d].refs = 1)
        <5> SUFFICES ASSUME NEW e \in Dests
                     PROVE  registry'[g][e].refs > 0
                              <=> /\ registry[g][e].refs > 0
                                  /\ ~(e = d /\ registry[g][d].refs = 1)
          OBVIOUS
        <5>1. CASE e = d
          <6>1. registry'[g][d] = new(d)
            BY <2>1, <2>5
          <6> QED
            BY <2>2, <4>1, <5>1, <6>1
        <5>2. CASE e # d
          BY <2>1, <2>5, <5>2
        <5> QED
          BY <5>1, <5>2
      <4>3. Registered(g)' = Registered(g)
                               \ {e \in {d} : registry[g][e].refs = 1}
        <5>1. Registered(g)' = {e \in Dests : registry'[g][e].refs > 0}
          BY <1>2 DEF Registered
        <5> QED
          BY <4>2, <5>1 DEF Registered
      <4> QED
        BY <1>1, <2>3, <3>1, <3>4, <4>3 DEF IInv, RemoteInv, Ready
    <3> QED
      BY <3>2, <3>3, <3>4
  <2> QED
    BY <1>4, <2>6, <2>8, <2>10, <2>11, <2>12 DEF IInv
<1> QED
  BY <1>5, <1>6

-----------------------------------------------------------------------------
(***************************************************************************)
(* Theorems                                                                *)
(***************************************************************************)

LEMMA InitIsSound == Init => IInv
<1> SUFFICES ASSUME Init PROVE IInv
  OBVIOUS
<1>1. TypeOK
  BY LivesAssumption, NoSubType DEF Init, TypeOK, Unsubscribed
<1>2. HandleInv
  BY DEF Init, HandleInv, NoSub
<1>3. HoldInv
  BY DEF Init, HoldInv, Holds
<1>4. RemoteInv /\ FeedInv
  BY DEF Init, RemoteInv, FeedInv, Ready
<1>5. ReferencesAreHeld
  <2> SUFFICES ASSUME NEW g \in Supervisors, NEW d \in Dests
               PROVE  registry[g][d].refs = Cardinality(Holders(g, d))
    BY DEF ReferencesAreHeld
  <2>1. Holders(g, d) = {}
    BY DEF Init, Holders
  <2>2. registry[g][d].refs = 0
    BY DEF Init, NoSub
  <2> QED
    BY <2>1, <2>2, FS_EmptySet
<1> QED
  BY <1>1, <1>2, <1>3, <1>4, <1>5 DEF IInv

LEMMA NextIsSound == IInv /\ [Next]_vars => IInv'
<1> SUFFICES ASSUME IInv, [Next]_vars PROVE IInv'
  OBVIOUS
<1>1. ASSUME NEW s \in Streams, NEW k \in Kinds, NEW m \in Markets,
             NEW d \in DestinationsOf(k, m), Open(s, k, m, d)
      PROVE  IInv'
  <2>1. d \in Dests \cup {Nothing}
    BY DestFacts DEF IInv, TypeOK
  <2> QED
    BY <1>1, <2>1, OpenPlain, OpenSubscribing
<1>2. ASSUME NEW s \in Streams,
             SubscribeIsWritten(s) \/ Subscribed(s) \/ SubscribeGivesUp(s)
      PROVE  IInv'
  BY <1>2, SubscribeEnds
<1>3. ASSUME NEW s \in Streams, Close(s) PROVE IInv'
  BY <1>3, CloseStep
<1>4. ASSUME NEW f \in Frames, Receive(f) PROVE IInv'
  BY <1>4, ReceiveStep
<1>5. ASSUME NEW e \in Envs, Select(e) PROVE IInv'
  BY <1>5, SelectStep
<1>6. CASE Connection
  BY <1>6, ConnectionStep
<1>7. CASE UNCHANGED vars
  <2>1. RemoteInv'
    BY <1>7 DEF IInv, RemoteInv, Ready, Registered, vars
  <2> QED
    BY <1>7, <2>1, QuietStep DEF IInv, TypeOK, vars
<1> QED
  BY <1>1, <1>2, <1>3, <1>4, <1>5, <1>6, <1>7 DEF Next

LEMMA Invariance == Spec => []IInv
BY InitIsSound, NextIsSound, PTL DEF Spec

\* Every variable keeps its type, whatever streams, markets and lives there are.
THEOREM TypeCorrect == Spec => []TypeOK
<1>1. IInv => TypeOK
  BY DEF IInv
<1> QED
  BY <1>1, Invariance, PTL

\* The references every registry counts, those of supervisors the client has
\* replaced included, are the calls that took them.
THEOREM References == Spec => []ReferencesAreHeld
<1>1. IInv => ReferencesAreHeld
  BY DEF IInv
<1> QED
  BY <1>1, Invariance, PTL

\* On a ready connection an open stream of the client's supervisor is subscribed
\* at the broker, unless the SUBSCRIBE of its destination has not been written,
\* and registered for its feed.
THEOREM Feeds == Spec => []OpenStreamsAreFed
<1>1. IInv => OpenStreamsAreFed
  <2> SUFFICES ASSUME IInv, NEW s \in Streams,
                      link = "ready", stage[s] = "open", sub[s].at = built
               PROVE  s \in fed /\ sub[s].dest \in remote \cup unsent \cup {Nothing}
    BY DEF OpenStreamsAreFed
  <2>1. s \in fed
    BY DEF IInv, FeedInv
  <2>2. Registered(built) \subseteq remote \cup unsent
    BY DEF IInv, RemoteInv, Ready
  <2>3. CASE sub[s].dest # Nothing
    BY <2>1, <2>2, <2>3 DEF IInv, HoldInv, Holds, Registered
  <2>4. CASE sub[s].dest = Nothing
    BY <2>1, <2>4
  <2> QED
    BY <2>3, <2>4
<1> QED
  BY <1>1, Invariance, PTL

\* Whatever frame arrives is published into streams of its own market only.
THEOREM Routing == Spec => []ItemsAreOwn
<1>1. IInv => ItemsAreOwn
  <2> SUFFICES ASSUME IInv, NEW f \in Frames, NEW s \in Fed(f)
               PROVE  OwnMarket(f, s)
    BY DEF ItemsAreOwn
  <2>1. CASE s \in RawOf(f)
    BY <2>1 DEF RawOf, OwnMarket
  <2>2. CASE s \in Keyed(f)
    <3>1. kind[s] = f.event /\ kind[s] # "raw" /\ market[s] = EventKey(f)
      BY <2>2 DEF Keyed, Frames, Kinds
    <3>2. market[s] \in Markets
      BY <2>2 DEF Keyed, IInv, FeedInv
    <3>3. f.dest.market \in Markets /\ f.key \in Markets \cup {"absent", "partial"}
      BY DestTopics DEF Frames, PayloadKeys
    <3>4. f.key \in {market[s], "absent"}
      BY <3>1, <3>2, <3>3, NothingAssumption DEF EventKey
    <3>5. f.dest.topic = TopicOf(f.event) => f.dest.market = market[s]
      BY <3>1, <3>2, <3>3, NothingAssumption DEF EventKey
    <3> QED
      BY <3>1, <3>4, <3>5 DEF OwnMarket
  <2> QED
    BY <2>1, <2>2 DEF Fed
<1> QED
  BY <1>1, Invariance, PTL

-----------------------------------------------------------------------------
(***************************************************************************)
(* Paging.                                                                 *)
(***************************************************************************)

\* History only grows, and what was collected is in it, none from behind the
\* end.
HistoryInv ==
  /\ before \subseteq history
  /\ candles \subseteq {t \in history : t <= end}

\* Everything before the cursor that was there at the call is collected; the
\* whole range is once the call has returned, unless an answer cut it short.
CoverInv ==
  /\ status = "asking" => limit > 0
  /\ status \in {"asking", "truncated"} =>
       \A t \in before : start <= t /\ t <= end /\ t < cursor => t \in candles
  /\ status = "returned" =>
       \A t \in before : start <= t /\ t <= end => t \in candles

\* A candle from before the start is the last one before it, and stays the
\* last: a candle as new as the start has been seen.
EdgeInv ==
  /\ start <= cursor
  /\ status = "called" => candles = {} /\ cursor = start
  /\ status \in {"asking", "returned", "truncated"} /\ candles # {} =>
       \E h \in history : start < h + Frame
  /\ status \in {"asking", "returned", "truncated"} =>
       \A t \in candles : t < start => \A u \in history : u < start => u <= t

PagingIInv == PagingTypeOK /\ HistoryInv /\ CoverInv /\ EdgeInv

-----------------------------------------------------------------------------
(***************************************************************************)
(* Candles open a whole timeframe apart, and a page has a newest one.      *)
(***************************************************************************)

\* Two multiples of a number are at least that number apart.
LEMMA MultiplesApart ==
  ASSUME NEW f \in Nat, NEW m \in Nat, NEW n \in Nat, m * f < n * f
  PROVE  m * f + f <= n * f
<1>1. m < n
  <2>1. SUFFICES ASSUME n <= m PROVE FALSE
    OBVIOUS
  <2>2. PICK k \in Nat : m = n + k
    BY <2>1
  <2>3. m * f = n * f + k * f /\ k * f >= 0
    BY <2>2
  <2> QED BY <2>3
<1>2. PICK k \in Nat : n = (m + 1) + k
  <2>1. n - (m + 1) \in Nat
    BY <1>1
  <2> QED BY <2>1
<1>3. n * f = (m * f + f) + k * f /\ k * f >= 0
  BY <1>2
<1> QED BY <1>3

\* Open times are natural numbers up to the horizon, a timeframe apart.
LEMMA OpenTimesApart ==
  /\ OpenTimes \subseteq Nat
  /\ \A t \in OpenTimes : t <= Horizon
  /\ \A t, u \in OpenTimes : t < u => t + Frame <= u
<1>1. /\ OpenTimes \subseteq Nat
      /\ \A t \in OpenTimes : t <= Horizon
  BY HorizonAssumption DEF OpenTimes, Instants
<1>2. ASSUME NEW t \in OpenTimes, NEW u \in OpenTimes, t < u
      PROVE  t + Frame <= u
  <2>1. PICK m \in 0..Horizon : t = m * Frame
    BY DEF OpenTimes
  <2>2. PICK n \in 0..Horizon : u = n * Frame
    BY DEF OpenTimes
  <2>3. m \in Nat /\ n \in Nat
    BY HorizonAssumption
  <2>4. m * Frame < n * Frame
    BY <1>2, <2>1, <2>2
  <2>5. m * Frame + Frame <= n * Frame
    BY <2>3, <2>4, MultiplesApart, FrameAssumption
  <2> QED BY <2>1, <2>2, <2>5
<1> QED BY <1>1, <1>2

\* A set of open times is finite.
LEMMA PageIsFinite ==
  ASSUME NEW page \in SUBSET OpenTimes
  PROVE  IsFiniteSet(page)
BY OpenTimesApart, HorizonAssumption, FS_BoundedSetOfNaturals

\* A page that is not empty has a newest candle.
LEMMA NewestOfPage ==
  ASSUME NEW page \in SUBSET OpenTimes, page # {}
  PROVE  Newest(page) \in page /\ Newest(page) \in Nat
<1> DEFINE Newer(t) == {u \in page : t < u}
<1> DEFINE Tails == {Newer(t) : t \in page}
<1>1. IsWellFoundedOn(StrictSubsetOrdering(page), SUBSET page)
  BY PageIsFinite, FS_StrictSubsetOrderingWellFounded, FS_FiniteSubsetsOfFinite
<1>2. Tails \subseteq SUBSET page /\ Tails # {}
  OBVIOUS
<1>3. PICK T \in Tails :
        \A S \in Tails : <<S, T>> \notin StrictSubsetOrdering(page)
  BY <1>1, <1>2, WFMin
<1>4. PICK t \in page : T = Newer(t)
  OBVIOUS
<1>5. page \subseteq Nat
  BY OpenTimesApart
<1>6. ASSUME NEW u \in page, ~(u <= t)
      PROVE  FALSE
  <2>1. t < u /\ t \in Nat /\ u \in Nat
    BY <1>5, <1>6
  <2>2. ASSUME NEW v \in Newer(u)
        PROVE  v \in Newer(t)
    <3>1. v \in page /\ u < v
      OBVIOUS
    <3>2. v \in Nat
      BY <1>5, <3>1
    <3>3. t < v
      BY <2>1, <3>1, <3>2
    <3> QED BY <3>1, <3>3
  <2>3. u \in Newer(t) /\ u \notin Newer(u)
    BY <2>1
  <2>4. Newer(u) \in Tails /\ Newer(u) # T
    BY <1>4, <2>3
  <2>5. <<Newer(u), T>> \in StrictSubsetOrdering(page)
    BY <1>4, <2>2, <2>4 DEF StrictSubsetOrdering
  <2> QED BY <1>3, <2>4, <2>5
<1>7. \A u \in page : u <= t
  BY <1>6
<1>8. Newest(page) \in page
  BY <1>7 DEF Newest
<1> QED BY <1>5, <1>8

-----------------------------------------------------------------------------
(***************************************************************************)
(* The invariant.                                                          *)
(***************************************************************************)

LEMMA InitPagingIInv == PagingInit => PagingIInv
<1> SUFFICES ASSUME PagingInit PROVE PagingIInv
  OBVIOUS
<1> USE DEF PagingInit
<1>1. PagingTypeOK
  <2>1. Cardinality(OpenTimes) \in Nat
    BY PageIsFinite, FS_CardinalityType
  <2> QED BY <2>1, HorizonAssumption DEF PagingTypeOK, Instants
<1>2. HistoryInv /\ CoverInv
  BY DEF HistoryInv, CoverInv
<1>3. EdgeInv
  BY HorizonAssumption DEF EdgeInv, Instants
<1> QED BY <1>1, <1>2, <1>3 DEF PagingIInv

\* A new candle is newer than all: whatever is known of the old ones stays.
LEMMA OpensKeeps ==
  ASSUME PagingIInv, NEW t \in OpenTimes, Opens(t)
  PROVE  PagingIInv'
<1> USE DEF Opens, asked
<1>0. /\ history' = history \cup {t}
      /\ UNCHANGED <<start, end, limit, overlaps, before, cursor, candles, status>>
  OBVIOUS
<1> HIDE DEF Opens, asked
<1>1. PagingTypeOK'
  BY <1>0 DEF PagingIInv, PagingTypeOK
<1>2. HistoryInv' /\ CoverInv'
  <2>1. HistoryInv'
    BY <1>0 DEF PagingIInv, HistoryInv
  <2>2. CoverInv'
    BY <1>0 DEF PagingIInv, CoverInv
  <2> QED BY <2>1, <2>2
<1>3. EdgeInv'
  <2>1. history \subseteq OpenTimes /\ start \in Nat /\ candles \subseteq history
    BY HorizonAssumption DEF PagingIInv, PagingTypeOK, HistoryInv, Instants
  <2>2. ASSUME status \in {"asking", "returned", "truncated"}, NEW c \in candles, c < start,
               NEW u \in history', u < start
        PROVE  u <= c
    <3>1. CASE u \in history
      BY <2>2, <3>1 DEF PagingIInv, EdgeInv
    <3>2. CASE u = t
      <4>1. PICK h \in history : start < h + Frame
        BY <2>2 DEF PagingIInv, EdgeInv
      <4>2. h < t /\ h \in OpenTimes
        BY <2>1, <4>1 DEF Opens
      <4>3. h + Frame <= t
        BY <4>2, OpenTimesApart
      <4>4. h \in Nat /\ t \in Nat /\ Frame \in Nat /\ start \in Nat
        BY <2>1, <4>2, OpenTimesApart, FrameAssumption
      <4>5. t < start
        BY <2>2, <3>2
      <4> HIDE DEF OpenTimes, Instants
      <4> QED BY <4>1, <4>3, <4>4, <4>5
    <3> QED BY <2>2, <3>1, <3>2, <1>0
  <2> QED BY <2>2, <1>0, <2>1 DEF PagingIInv, EdgeInv
<1> QED BY <1>1, <1>2, <1>3 DEF PagingIInv

\* A page that advances the cursor leaves no candle of the range behind it.
LEMMA TurnPageKeeps ==
  ASSUME PagingIInv, NEW page \in SUBSET history, TurnPage(page)
  PROVE  PagingIInv'
<1> DEFINE n == Newest(page)
<1> USE DEF asked
<1>1. /\ start \in Nat /\ end \in Nat /\ cursor \in Nat /\ limit \in Nat
      /\ Frame \in Nat /\ Frame > 0
      /\ history \subseteq OpenTimes /\ OpenTimes \subseteq Nat
      /\ page \subseteq OpenTimes /\ before \subseteq history
      /\ start <= cursor /\ cursor <= end /\ limit > 0 /\ status = "asking"
  BY HorizonAssumption, FrameAssumption, OpenTimesApart
     DEF PagingIInv, PagingTypeOK, HistoryInv, EdgeInv, CoverInv, Instants, TurnPage
<1>2. page # {} => n \in page /\ n \in Nat
  BY <1>1, NewestOfPage
<1>3. UNCHANGED <<start, end, limit, overlaps, history, before>>
  BY DEF TurnPage
<1>4. \A t \in page : t <= end /\ (t < cursor => t \in Preceding(cursor))
  BY <1>1 DEF TurnPage, IsPage, InRange, Preceding
<1>5. \A t \in page, u \in history : t < cursor /\ u < cursor => u <= t
  BY <1>4 DEF Preceding
<1>6. ASSUME NEW t \in history, cursor <= t, t <= end, t \notin page
      PROVE  /\ Cardinality(page) >= limit
             /\ \A u \in page : u + Frame <= t
  <2>1. t \in InRange(cursor, end) \ page
    BY <1>6 DEF InRange
  <2>2. \A u \in page : u < t
    BY <2>1 DEF TurnPage, IsPage
  <2>3. ~(Cardinality(page) < limit)
    BY <2>1 DEF TurnPage, IsPage
  <2>4. Cardinality(page) \in Nat
    BY <1>1, PageIsFinite, FS_CardinalityType
  <2> QED BY <1>1, <2>2, <2>3, <2>4, OpenTimesApart
<1>7. CASE page = {}
  <2>1. status' = "returned" /\ UNCHANGED <<cursor, candles>>
    BY <1>7 DEF TurnPage
  <2>2. \A t \in before : start <= t /\ t <= end => t \in candles
    <3>1. Cardinality(page) = 0
      BY <1>7, FS_EmptySet
    <3>2. \A t \in history : ~(cursor <= t /\ t <= end)
      BY <1>1, <1>6, <1>7, <3>1
    <3> QED BY <1>1, <3>2 DEF PagingIInv, CoverInv
  <2>3. PagingTypeOK'
    BY <1>3, <2>1 DEF PagingIInv, PagingTypeOK
  <2>4. HistoryInv' /\ CoverInv'
    BY <1>3, <2>1, <2>2 DEF PagingIInv, HistoryInv, CoverInv
  <2>5. EdgeInv'
    BY <1>1, <1>3, <2>1 DEF PagingIInv, EdgeInv
  <2> QED BY <2>3, <2>4, <2>5 DEF PagingIInv
<1>8. CASE page # {} /\ n + Frame <= cursor
  <2>1. status' = "stuck" /\ UNCHANGED cursor /\ candles' = candles \cup page
    BY <1>8 DEF TurnPage, NextCursor
  <2>2. PagingTypeOK'
    BY <1>1, <1>3, <2>1 DEF PagingIInv, PagingTypeOK
  <2>3. HistoryInv' /\ CoverInv'
    BY <1>3, <1>4, <2>1 DEF PagingIInv, HistoryInv, CoverInv
  <2>4. EdgeInv'
    BY <1>3, <2>1 DEF PagingIInv, EdgeInv
  <2> QED BY <2>2, <2>3, <2>4 DEF PagingIInv
<1>9. CASE page # {} /\ ~(n + Frame <= cursor)
  <2>1. /\ cursor' = n + Frame /\ candles' = candles \cup page
        /\ status' = IF IsLast(page) THEN "returned" ELSE status
    BY <1>9 DEF TurnPage, NextCursor
  <2>2. n \in page /\ n \in Nat /\ cursor < n + Frame
    BY <1>1, <1>2, <1>9
  <2>3. PagingTypeOK'
    <3>1. cursor' \in Nat /\ status' \in {"asking", "returned"}
      BY <1>1, <2>1, <2>2
    <3>2. candles' \subseteq OpenTimes
      BY <1>1, <2>1 DEF PagingIInv, PagingTypeOK
    <3> QED BY <1>3, <3>1, <3>2 DEF PagingIInv, PagingTypeOK
  <2>4. HistoryInv'
    BY <1>3, <1>4, <2>1 DEF PagingIInv, HistoryInv
  <2>5. CoverInv'
    <3>1. ASSUME NEW t \in before, start <= t, t <= end, t < n + Frame
          PROVE  t \in candles'
      <4>1. CASE t < cursor
        BY <1>1, <2>1, <3>1, <4>1 DEF PagingIInv, CoverInv
      <4>2. CASE cursor <= t
        <5>1. t \notin page => n + Frame <= t
          BY <1>1, <1>6, <2>2, <3>1, <4>2
        <5> QED BY <1>1, <2>1, <2>2, <3>1, <5>1
      <4> QED BY <1>1, <4>1, <4>2
    <3>2. ASSUME IsLast(page), NEW t \in before, start <= t, t <= end
          PROVE  t \in candles'
      <4>1. CASE t < cursor
        BY <1>1, <2>1, <3>2, <4>1 DEF PagingIInv, CoverInv
      <4>2. CASE cursor <= t
        <5>1. Cardinality(page) < limit /\ Cardinality(page) \in Nat
          BY <1>1, <3>2, PageIsFinite, FS_CardinalityType DEF IsLast
        <5>2. t \in page
          BY <1>1, <1>6, <3>2, <4>2, <5>1
        <5> QED BY <2>1, <5>2
      <4> QED BY <1>1, <4>1, <4>2
    <3> QED BY <1>1, <1>3, <2>1, <3>1, <3>2 DEF CoverInv
  <2>6. EdgeInv'
    <3>1. start <= cursor' /\ \E h \in history : start < h + Frame
      BY <1>1, <2>1, <2>2
    <3>2. ASSUME NEW t \in candles', t < start, NEW u \in history, u < start
          PROVE  u <= t
      <4>1. CASE t \in candles
        BY <1>1, <3>2, <4>1 DEF PagingIInv, EdgeInv
      <4>2. CASE t \in page
        BY <1>1, <1>5, <3>2, <4>2
      <4> QED BY <2>1, <3>2, <4>1, <4>2
    <3>3. status' # "called"
      BY <1>1, <2>1
    <3> QED BY <1>3, <3>1, <3>2, <3>3 DEF EdgeInv
  <2> QED BY <2>3, <2>4, <2>5, <2>6 DEF PagingIInv
<1> QED BY <1>7, <1>8, <1>9

LEMMA PagingStepKeeps == PagingIInv /\ [PagingNext]_pagingVars => PagingIInv'
<1> SUFFICES ASSUME PagingIInv, [PagingNext]_pagingVars PROVE PagingIInv'
  OBVIOUS
<1> USE DEF asked
<1>1. ASSUME NEW t \in OpenTimes, Opens(t) PROVE PagingIInv'
  BY <1>1, OpensKeeps
<1>2. CASE Begin
  <2>1. PagingTypeOK' /\ HistoryInv'
    BY <1>2 DEF Begin, PagingIInv, PagingTypeOK, HistoryInv
  <2>2. limit \in Nat /\ before' \subseteq Nat /\ start \in Nat /\ cursor = start
    BY <1>2, OpenTimesApart, HorizonAssumption
       DEF Begin, PagingIInv, PagingTypeOK, EdgeInv, Instants
  <2>3. CoverInv'
    BY <1>2, <2>2 DEF Begin, PagingIInv, CoverInv
  <2>4. EdgeInv'
    BY <1>2 DEF Begin, PagingIInv, EdgeInv
  <2> QED BY <2>1, <2>3, <2>4 DEF PagingIInv
<1>3. CASE Turn
  BY <1>3, TurnPageKeeps DEF Turn
<1>4. CASE Exhausted
  <2>1. /\ start \in Nat /\ end \in Nat /\ cursor \in Nat /\ cursor > end
        /\ before \subseteq Nat
    BY <1>4, HorizonAssumption, OpenTimesApart
       DEF Exhausted, PagingIInv, PagingTypeOK, Instants
  <2>2. PagingTypeOK' /\ HistoryInv' /\ EdgeInv'
    BY <1>4 DEF Exhausted, PagingIInv, PagingTypeOK, HistoryInv, EdgeInv
  <2>3. CoverInv'
    BY <1>4, <2>1 DEF Exhausted, PagingIInv, CoverInv
  <2> QED BY <2>2, <2>3 DEF PagingIInv
<1>5. CASE RequestFails \/ NotAList
  BY <1>5 DEF RequestFails, NotAList, PagingIInv, PagingTypeOK, HistoryInv, CoverInv, EdgeInv
<1>6. CASE UNCHANGED pagingVars
  BY <1>6 DEF pagingVars, PagingIInv, PagingTypeOK, HistoryInv, CoverInv, EdgeInv
<1> QED BY <1>1, <1>2, <1>3, <1>4, <1>5, <1>6 DEF PagingNext

LEMMA AlwaysPagingIInv == PagingSpec => []PagingIInv
BY InitPagingIInv, PagingStepKeeps, PTL DEF PagingSpec

-----------------------------------------------------------------------------

\* The variables of get_candles keep their types.
THEOREM PagingTypeCorrect == PagingSpec => []PagingTypeOK
<1>1. PagingIInv => PagingTypeOK
  BY DEF PagingIInv
<1> QED BY <1>1, AlwaysPagingIInv, PTL

\* The range that get_candles returns is complete, up to the cursor if an answer
\* that was no list cut it short, has nothing from behind its end, and at most the
\* one candle before its start that the broker threw in.
THEOREM Complete == PagingSpec => []RangeIsComplete
<1>1. PagingIInv => RangeIsComplete
  <2> SUFFICES ASSUME PagingIInv, status \in {"returned", "truncated"}
               PROVE  /\ Wanted \subseteq candles
                      /\ candles \subseteq {t \in history : t <= end}
                      /\ Cardinality({t \in candles : t < start}) <= 1
    BY DEF RangeIsComplete
  <2> DEFINE Early == {t \in candles : t < start}
  <2>1. Wanted \subseteq candles
    BY DEF PagingIInv, CoverInv, Wanted
  <2>2. candles \subseteq {t \in history : t <= end}
    BY DEF PagingIInv, HistoryInv
  <2>3. candles \subseteq Nat
    <3>1. candles \subseteq OpenTimes
      BY DEF PagingIInv, PagingTypeOK
    <3> QED BY <3>1, OpenTimesApart
  <2>4. ASSUME NEW t \in candles, t < start, NEW u \in candles, u < start
        PROVE  u <= t
    <3>1. \A v \in history : v < start => v <= t
      BY <2>4 DEF PagingIInv, EdgeInv
    <3>2. u \in history
      BY DEF PagingIInv, HistoryInv
    <3> QED BY <2>4, <3>1, <3>2
  <2>5. \A t, u \in Early : t = u
    <3> SUFFICES ASSUME NEW t \in candles, t < start, NEW u \in candles, u < start
                 PROVE  t = u
      OBVIOUS
    <3>1. u <= t /\ t <= u
      BY <2>4
    <3>2. t \in Nat /\ u \in Nat
      BY <2>3
    <3> QED BY <3>1, <3>2
  <2>6. CASE Early = {}
    BY <2>6, <2>1, <2>2, FS_EmptySet
  <2>7. CASE Early # {}
    <3>1. PICK t \in Early : TRUE
      BY <2>7
    <3>2. Early = {t}
      BY <2>5, <3>1
    <3> HIDE DEF Early
    <3>3. Cardinality(Early) = 1
      BY <3>2, FS_Singleton
    <3>4. Cardinality(Early) <= 1
      BY <3>3
    <3> QED BY <2>1, <2>2, <3>4 DEF Early
  <2> QED BY <2>6, <2>7
<1> QED BY <1>1, AlwaysPagingIInv, PTL
=============================================================================
