--------------------------- MODULE EventDelivery ---------------------------
(***************************************************************************)
(* What the indexer promises the event handlers: an event runs until one   *)
(* of its runs is recorded and never after that, and it runs only when     *)
(* every earlier event is done or was passed over.  It may run more than   *)
(* once, also after later events have run.                                 *)
(***************************************************************************)
EXTENDS Naturals

CONSTANT Event          \* events, by their position in the chain

VARIABLES runs,         \* how often the handler of an event ran
          done,         \* events whose run was recorded
          passed        \* events that later ones do not wait for

delivery == <<runs, done, passed>>

DeliveryInit ==
    /\ runs = [e \in Event |-> 0]
    /\ done = {}
    /\ passed = {}

Ready(e) == e \notin done /\ \A d \in Event : d < e => d \in done \cup passed

Run(e) ==
    /\ Ready(e)
    /\ runs' = [runs EXCEPT ![e] = @ + 1]
    /\ UNCHANGED <<done, passed>>

Finish(e) ==
    /\ e \notin done /\ runs[e] > 0
    /\ done' = done \cup {e}
    /\ UNCHANGED <<runs, passed>>

Pass(S) ==
    /\ passed' = passed \cup S
    /\ UNCHANGED <<runs, done>>

DeliveryNext ==
    \/ \E e \in Event : Run(e) \/ Finish(e)
    \/ \E S \in SUBSET Event : Pass(S)

DeliverySpec == DeliveryInit /\ [][DeliveryNext]_delivery
=============================================================================
