---------------------------- MODULE AtLeastOnce ----------------------------
(***************************************************************************)
(* What the gateway may promise a consumer of its events (README.md 138):  *)
(* delivery at least once.  A payload is offered as numbered copies.  A    *)
(* new copy is offered only when the last one is in doubt, a copy may      *)
(* arrive long after it was doubted, and success is reported only for a    *)
(* copy that has arrived, after which there are no more copies.            *)
(***************************************************************************)
EXTENDS Naturals

CONSTANTS Payloads, MaxCopies

VARIABLES
    offered,   \* copies offered, for each payload
    doubted,   \* the last one is in doubt, or nobody waits for it any more
    arrived,   \* copies the broker has
    confirmed  \* payloads reported as published

vars == <<offered, doubted, arrived, confirmed>>

Init ==
    /\ offered = [p \in Payloads |-> 0]
    /\ doubted = [p \in Payloads |-> TRUE]
    /\ arrived = {}
    /\ confirmed = {}

Offer(p) ==
    /\ p \notin confirmed
    /\ doubted[p]
    /\ offered[p] < MaxCopies
    /\ offered' = [offered EXCEPT ![p] = @ + 1]
    /\ doubted' \in {doubted, [doubted EXCEPT ![p] = FALSE]}
    /\ UNCHANGED <<arrived, confirmed>>

Doubt(p) ==
    /\ ~doubted[p]
    /\ doubted' = [doubted EXCEPT ![p] = TRUE]
    /\ UNCHANGED <<offered, arrived, confirmed>>

Arrive(p) ==
    /\ \E n \in 1 .. offered[p] : arrived' = arrived \cup {<<p, n>>}
    /\ UNCHANGED <<offered, doubted, confirmed>>

Confirm(p) ==
    /\ ~doubted[p]
    /\ <<p, offered[p]>> \in arrived
    /\ confirmed' = confirmed \cup {p}
    /\ UNCHANGED <<offered, doubted, arrived>>

Next == \E p \in Payloads : Offer(p) \/ Doubt(p) \/ Arrive(p) \/ Confirm(p)

Spec == Init /\ [][Next]_vars
=============================================================================
