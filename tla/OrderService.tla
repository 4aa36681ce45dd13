---------------------------- MODULE OrderService ----------------------------
(***************************************************************************)
(* What the push server promises about test orders: each client's orders   *)
(* are taken in turn, each is answered at most once, to the client that    *)
(* placed it, and an order that is lost is lost for good.  The answers     *)
(* carry no order number, so it is their turn that tells a client which    *)
(* order an answer is about.  PushServer implements this specification.    *)
(***************************************************************************)
EXTENDS Naturals, Sequences

CONSTANTS
    Client,         \* those who place orders
    OrderNo         \* the numbers of orders

VARIABLES
    pending,        \* each client's orders that are neither answered nor lost, oldest first
    answers         \* how many answers each client has been sent

orderVars == <<pending, answers>>

OrderInit ==
    /\ pending = [c \in Client |-> <<>>]
    /\ answers = [c \in Client |-> 0]

Place(c) ==
    /\ \E n \in OrderNo : pending' = [pending EXCEPT ![c] = Append(@, n)]
    /\ UNCHANGED answers

\* The client's oldest order leaves the service.
Settle(c) ==
    /\ pending[c] # <<>>
    /\ pending' = [pending EXCEPT ![c] = Tail(@)]

Answer(c) ==
    /\ Settle(c)
    /\ answers' = [answers EXCEPT ![c] = @ + 1]

Lose(c) ==
    /\ Settle(c)
    /\ UNCHANGED answers

OrderNext == \E c \in Client : Place(c) \/ Answer(c) \/ Lose(c)

OrderSpec == OrderInit /\ [][OrderNext]_orderVars
=============================================================================
