------------------------------ MODULE OrderLife ------------------------------
(***************************************************************************)
(* What an order may do, and what a client may believe of it: the state    *)
(* machine of orders/state.py without messages.  The broker moves an order *)
(* along LEGAL; the client learns statuses the order really has or had, and *)
(* its belief moves along LEGAL too.                                       *)
(***************************************************************************)
EXTENDS OrderStatus

VARIABLES broker,  \* the broker's status of each order, "none" before it exists
          past,    \* the statuses each order has had
          known    \* the client's belief, "none" before it has heard of it

lifeVars == <<broker, past, known>>

LifeInit ==
  /\ broker = [o \in Orders |-> "none"]
  /\ past = [o \in Orders |-> {}]
  /\ known = [o \in Orders |-> "none"]

\* The broker accepts an order, opens it or settles it.
BrokerMoves(o, status) ==
  /\ \/ broker[o] = "none" /\ status = "PENDING"
     \/ broker[o] # "none" /\ status \in LegalAfter(broker[o]) \ {broker[o]}
  /\ broker' = [broker EXCEPT ![o] = status]
  /\ past' = [past EXCEPT ![o] = @ \cup {status}]

MayLearn(o, status) ==
  /\ status \in past[o]
  /\ known[o] = "none" \/ status \in LegalAfter(known[o])

\* One step of the client may learn about several orders.
Learns(heard) ==
  /\ \A o \in Orders : heard[o] # known[o] => MayLearn(o, heard[o])
  /\ known' = heard

LifeNext ==
  \/ \E o \in Orders, status \in Statuses :
       BrokerMoves(o, status) /\ UNCHANGED known
  \/ \E heard \in [Orders -> Statuses \cup {"none"}] :
       Learns(heard) /\ UNCHANGED <<broker, past>>

LifeSpec == LifeInit /\ [][LifeNext]_lifeVars
=============================================================================
