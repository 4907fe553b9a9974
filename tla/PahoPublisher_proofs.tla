------------------------ MODULE PahoPublisher_proofs -----------------------
(***************************************************************************)
(* Proofs that the publisher implements at-least-once delivery and stays   *)
(* closed, for any set of payloads and any number of calls.                *)
(***************************************************************************)
EXTENDS PahoPublisher, TLAPS

\* A copy exists only after its call, and is acknowledged only on arrival.
CopiesInOrder ==
    /\ \A c \in Copies : c \in outbox \cup received \/ call[c] # "none" => c[2] <= calls[c[1]]
    /\ acked \subseteq received

\* The network thread runs, and the flag may be set, only while it is meant to.
ThreadInOrder == phase \in {"new", "closed"} => ~connected /\ ~loop

\* The inductive invariant.
IInv == TypeOK /\ CopiesInOrder /\ ThreadInOrder

\* A copy is a payload with the number of its attempt.
LEMMA CopyFacts ==
    /\ MaxCalls \in Nat \ {0}
    /\ \A c \in Copies : c[1] \in Payloads /\ c[2] \in 1 .. MaxCalls /\ c = <<c[1], c[2]>>
    /\ \A p \in Payloads, n \in 1 .. MaxCalls :
         <<p, n>> \in Copies /\ <<p, n>>[1] = p /\ <<p, n>>[2] = n
  BY PublisherAssumption DEF Copies

-----------------------------------------------------------------------------
(* The invariant                                                           *)

\* A new publisher has no call and its thread does not run.
LEMMA InitIInv == Init => IInv
<1> SUFFICES ASSUME Init PROVE IInv
  OBVIOUS
<1>1. TypeOK
  <2>1. 0 \in 0 .. MaxCalls
    BY CopyFacts
  <2>2. calls \in [Payloads -> 0 .. MaxCalls]
    BY <2>1 DEF Init
  <2>3. call \in [Copies -> CallStates] /\ caller \in [Payloads -> CallerStates]
    BY DEF Init, CallStates, CallerStates
  <2> QED
    BY <2>2, <2>3 DEF Init, TypeOK, Phases, Links
<1>2. CopiesInOrder /\ ThreadInOrder
  BY DEF Init, CopiesInOrder, ThreadInOrder
<1> QED
  BY <1>1, <1>2 DEF IInv

\* Connecting and closing: no call changes and no copy moves.
LEMMA PhaseStep ==
    ASSUME IInv, Connect \/ ConnectFails \/ Connected \/ Disconnect \/ StopLoop
    PROVE  IInv'
<1>1. UNCHANGED <<outbox, received, acked, calls, call, caller>>
  BY DEF Connect, ConnectFails, Connected, Disconnect, StopLoop, clientVars, callVars
<1>2. TypeOK'
  <2>1. phase' \in Phases /\ connected' \in BOOLEAN /\ link' \in Links /\ loop' \in BOOLEAN
    BY DEF IInv, TypeOK, Connect, ConnectFails, Connected, Disconnect, StopLoop,
           Phases, Links, clientVars
  <2> QED
    BY <1>1, <2>1 DEF IInv, TypeOK
<1>3. CopiesInOrder'
  BY <1>1 DEF IInv, CopiesInOrder
<1>4. ThreadInOrder'
  BY DEF IInv, ThreadInOrder, Connect, ConnectFails, Connected, Disconnect, StopLoop,
         clientVars
<1> QED
  BY <1>2, <1>3, <1>4 DEF IInv

\* The client and its thread: no call changes.
LEMMA ClientStep == ASSUME IInv, Client PROVE IInv'
<1>1. UNCHANGED <<phase, calls, call, caller>>
  BY DEF Client, OnConnect, OnDisconnect, LinkBreaks, Reconnect, Transmit, Acknowledge, callVars
<1>2. CASE OnConnect \/ OnDisconnect \/ LinkBreaks \/ Reconnect
  <2>1. UNCHANGED <<loop, outbox, received, acked>>
    BY <1>2 DEF OnConnect, OnDisconnect, LinkBreaks, Reconnect
  <2>2. /\ connected' \in BOOLEAN /\ link' \in Links
        /\ connected' => connected \/ loop
    <3>1. connected \in BOOLEAN
      BY DEF IInv, TypeOK
    <3>2. CASE OnConnect
      BY <3>2 DEF OnConnect, Links
    <3>3. CASE OnDisconnect
      BY <3>3 DEF OnDisconnect, Links
    <3>4. CASE LinkBreaks \/ Reconnect
      BY <3>1, <3>4 DEF LinkBreaks, Reconnect, Links
    <3> QED
      BY <1>2, <3>2, <3>3, <3>4
  <2>3. TypeOK'
    BY <1>1, <2>1, <2>2 DEF IInv, TypeOK
  <2>4. CopiesInOrder' /\ ThreadInOrder'
    BY <1>1, <2>1, <2>2 DEF IInv, TypeOK, CopiesInOrder, ThreadInOrder
  <2> QED
    BY <2>3, <2>4 DEF IInv
<1>3. CASE \E c \in Copies : Transmit(c) \/ Acknowledge(c)
  <2>1. UNCHANGED <<connected, link, loop>>
    BY <1>3 DEF Transmit, Acknowledge
  <2>2. /\ outbox' \subseteq outbox /\ received' \subseteq received \cup outbox
        /\ acked' \subseteq received'
    BY <1>3 DEF Transmit, Acknowledge, IInv, CopiesInOrder
  <2>3. TypeOK'
    BY <1>1, <2>1, <2>2 DEF IInv, TypeOK
  <2>4. CopiesInOrder' /\ ThreadInOrder'
    BY <1>1, <2>1, <2>2 DEF IInv, CopiesInOrder, ThreadInOrder
  <2> QED
    BY <2>3, <2>4 DEF IInv
<1> QED
  BY <1>2, <1>3 DEF Client

\* The end of a call touches that call alone.
LEMMA CallEndsFacts ==
    ASSUME IInv, NEW c \in Copies, NEW how \in {"ok", "error"}, CallEnds(c, how)
    PROVE  /\ call' \in [Copies -> CallStates]
           /\ caller' \in [Payloads -> CallerStates]
           /\ \A d \in Copies \ {c} : call'[d] = call[d]
  BY CopyFacts DEF CallEnds, IInv, TypeOK, CallStates, CallerStates

\* client.publish: the copy goes to the client's outbox.
LEMMA EnqueueStep == ASSUME IInv, NEW c \in Copies, Enqueue(c) PROVE IInv'
<1> USE CopyFacts
<1>1. /\ call[c] = "checked" /\ outbox' = outbox \cup {c}
      /\ UNCHANGED <<phase, connected, link, loop, received, acked, calls>>
  BY DEF Enqueue
<1>2. /\ call' \in [Copies -> CallStates]
      /\ caller' \in [Payloads -> CallerStates]
      /\ \A d \in Copies \ {c} : call'[d] = call[d]
  BY CallEndsFacts DEF Enqueue, IInv, TypeOK, CallStates
<1>3. TypeOK'
  BY <1>1, <1>2 DEF IInv, TypeOK
<1>4. CopiesInOrder' /\ ThreadInOrder'
  BY <1>1, <1>2 DEF IInv, CopiesInOrder, ThreadInOrder
<1> QED
  BY <1>3, <1>4 DEF IInv

\* The thread of a call returns: the publication succeeds or is tried again.
LEMMA ReturnStep == ASSUME IInv, NEW c \in Copies, Return(c) PROVE IInv'
<1> USE CopyFacts
<1>1. /\ call[c] = "waiting"
      /\ UNCHANGED <<phase, connected, link, loop, outbox, received, acked, calls>>
  BY DEF Return, clientVars
<1>2. /\ call' \in [Copies -> CallStates]
      /\ caller' \in [Payloads -> CallerStates]
      /\ \A d \in Copies \ {c} : call'[d] = call[d]
  BY CallEndsFacts DEF Return
<1>3. TypeOK'
  BY <1>1, <1>2 DEF IInv, TypeOK
<1>4. CopiesInOrder' /\ ThreadInOrder'
  BY <1>1, <1>2 DEF IInv, CopiesInOrder, ThreadInOrder
<1> QED
  BY <1>3, <1>4 DEF IInv

\* A coroutine calls publish, for the first time or after a pause.
LEMMA PublishStep == ASSUME IInv, NEW p \in Payloads, Publish(p) PROVE IInv'
<1> USE CopyFacts
<1> DEFINE copy == <<p, calls'[p]>>
<1>1. /\ calls' = [calls EXCEPT ![p] = calls[p] + 1] /\ calls[p] < MaxCalls
      /\ UNCHANGED <<phase, connected, link, loop, outbox, received, acked>>
      /\ calls \in [Payloads -> 0 .. MaxCalls]
  BY DEF Publish, clientVars, IInv, TypeOK
<1>2. /\ calls'[p] = calls[p] + 1 /\ calls'[p] \in 1 .. MaxCalls
      /\ \A q \in Payloads \ {p} : calls'[q] = calls[q]
      /\ calls' \in [Payloads -> 0 .. MaxCalls]
      /\ copy \in Copies /\ copy[1] = p /\ copy[2] = calls'[p]
  BY <1>1
<1> HIDE DEF copy
<1>3. /\ call' \in [Copies -> CallStates]
      /\ caller' \in [Payloads -> CallerStates]
      /\ \A d \in Copies \ {copy} : call'[d] = call[d]
  BY <1>2 DEF Publish, IInv, TypeOK, CallStates, CallerStates, copy
<1>4. TypeOK'
  BY <1>1, <1>2, <1>3 DEF IInv, TypeOK
<1>5. CopiesInOrder'
  <2>1. \A c \in Copies : calls[c[1]] <= calls'[c[1]]
    BY <1>1, <1>2
  <2>2. \A c \in Copies : c[2] <= calls[c[1]] => c[2] <= calls'[c[1]]
    BY <1>1, <1>2, <2>1
  <2> QED
    BY <1>1, <1>2, <1>3, <2>2 DEF IInv, CopiesInOrder
<1>6. ThreadInOrder'
  BY <1>1 DEF IInv, ThreadInOrder
<1> QED
  BY <1>4, <1>5, <1>6 DEF IInv

\* The coroutine goes; its call, if any, is left to the thread.
LEMMA GiveUpStep == ASSUME IInv, NEW p \in Payloads, GiveUp(p) PROVE IInv'
  BY CopyFacts DEF GiveUp, IInv, TypeOK, CopiesInOrder, ThreadInOrder, clientVars, CallerStates

\* Each step of the publisher, client and broker keeps the inductive invariant.
LEMMA NextIInv == IInv /\ [Next]_vars => IInv'
<1> SUFFICES ASSUME IInv, [Next]_vars PROVE IInv'
  OBVIOUS
<1>1. CASE Connect \/ ConnectFails \/ Connected \/ Disconnect \/ StopLoop \/ Client
  BY <1>1, ClientStep, PhaseStep
<1>2. CASE \E p \in Payloads : Publish(p) \/ GiveUp(p)
  BY <1>2, PublishStep, GiveUpStep
<1>3. CASE \E c \in Copies : Enqueue(c) \/ Return(c)
  BY <1>3, EnqueueStep, ReturnStep
<1>4. CASE UNCHANGED vars
  BY <1>4 DEF vars, clientVars, callVars, IInv, TypeOK, CopiesInOrder, ThreadInOrder
<1> QED
  BY <1>1, <1>2, <1>3, <1>4 DEF Next

\* Every reachable state of the publisher satisfies the inductive invariant.
THEOREM Invariant == Spec => []IInv
<1> QED
  BY InitIInv, NextIInv, PTL DEF Spec

\* The publisher's variables have their types.
THEOREM TypeCorrect == Spec => []TypeOK
<1>1. IInv => TypeOK
  BY DEF IInv
<1> QED
  BY <1>1, Invariant, PTL

-----------------------------------------------------------------------------
(* Closing                                                                 *)

\* A publisher that has been closed stays closed, whatever its thread, late
\* callbacks and threads of cancelled coroutines still do.
THEOREM StaysClosed == Spec => ClosedStaysClosed
<1>1. IInv /\ [Next]_vars =>
        (phase = "closed" => ~connected /\ ~connected' /\ received' = received)
  <2> SUFFICES ASSUME IInv, [Next]_vars, phase = "closed"
               PROVE  ~connected /\ ~connected' /\ received' = received
    OBVIOUS
  <2>1. ~connected /\ ~loop
    BY DEF IInv, ThreadInOrder
  <2>2. CASE UNCHANGED vars
    BY <2>1, <2>2 DEF vars, clientVars
  <2>3. CASE Client
    BY <2>1, <2>3 DEF Client, OnConnect, OnDisconnect, LinkBreaks, Reconnect, Transmit, Acknowledge
  <2>4. CASE Connect \/ ConnectFails \/ Connected \/ Disconnect \/ StopLoop
    BY <2>4 DEF Connect, ConnectFails, Connected, Disconnect, StopLoop
  <2>5. CASE \/ \E p \in Payloads : Publish(p) \/ GiveUp(p)
             \/ \E c \in Copies : Enqueue(c) \/ Return(c)
    BY <2>1, <2>5 DEF Publish, GiveUp, Enqueue, Return, clientVars
  <2> QED
    BY <2>2, <2>3, <2>4, <2>5 DEF Next
<1> QED
  BY <1>1, Invariant, PTL DEF Spec, ClosedStaysClosed

-----------------------------------------------------------------------------
(* At-least-once delivery                                                  *)

\* The abstract state: the payloads in doubt and those reported as published.
Doubted(cl) == [p \in Payloads |-> cl[p] # "calling" /\ cl[p] # "done"]
Confirmed(cl) == {p \in Payloads : cl[p] = "done"}

DeliveryStep == [Delivery!Next]_(Delivery!vars)

\* The actions of AtLeastOnce, by what becomes of the parts of its state.
LEMMA StutterByParts ==
    ASSUME UNCHANGED <<calls, received>>, Doubted(caller)' = Doubted(caller),
           Confirmed(caller)' = Confirmed(caller)
    PROVE  DeliveryStep
  BY DEF DeliveryStep, Delivery!vars, Doubted, Confirmed

\* Offer: one more copy of a payload in doubt.
LEMMA OfferByParts ==
    ASSUME NEW p \in Payloads, p \notin Confirmed(caller), Doubted(caller)[p],
           calls[p] < MaxCalls, calls' = [calls EXCEPT ![p] = @ + 1],
           Doubted(caller)' \in {Doubted(caller), [Doubted(caller) EXCEPT ![p] = FALSE]},
           received' = received, Confirmed(caller)' = Confirmed(caller)
    PROVE  DeliveryStep
  BY DEF DeliveryStep, Delivery!Next, Delivery!Offer, Doubted, Confirmed

\* Doubt: nobody waits for the newest copy any more.
LEMMA DoubtByParts ==
    ASSUME NEW p \in Payloads, ~Doubted(caller)[p],
           Doubted(caller)' = [Doubted(caller) EXCEPT ![p] = TRUE],
           UNCHANGED <<calls, received>>, Confirmed(caller)' = Confirmed(caller)
    PROVE  DeliveryStep
  BY DEF DeliveryStep, Delivery!Next, Delivery!Doubt, Doubted, Confirmed

\* Confirm: the newest copy has arrived, and its caller hears so.
LEMMA ConfirmByParts ==
    ASSUME NEW p \in Payloads, ~Doubted(caller)[p], <<p, calls[p]>> \in received,
           Confirmed(caller)' = Confirmed(caller) \cup {p},
           UNCHANGED <<calls, received>>, Doubted(caller)' = Doubted(caller)
    PROVE  DeliveryStep
  BY DEF DeliveryStep, Delivery!Next, Delivery!Confirm, Doubted, Confirmed

\* A coroutine leaves its call for `next'.
LEMMA CallerLeaves ==
    ASSUME caller \in [Payloads -> CallerStates], NEW p \in Payloads, NEW next,
           caller' = [caller EXCEPT ![p] = next], caller[p] = "calling",
           UNCHANGED <<calls, received>>,
           \/ next \in {"pausing", "gone"}
           \/ next = "done" /\ <<p, calls[p]>> \in received
    PROVE  DeliveryStep
<1>1. ~Doubted(caller)[p]
  BY DEF Doubted
<1>2. \A q \in Payloads : caller'[q] = IF q = p THEN next ELSE caller[q]
  OBVIOUS
<1>3. CASE next \in {"pausing", "gone"}
  <2>1. Doubted(caller)' = [Doubted(caller) EXCEPT ![p] = TRUE]
    BY <1>2, <1>3 DEF Doubted
  <2>2. Confirmed(caller)' = Confirmed(caller)
    BY <1>2, <1>3 DEF Confirmed
  <2> QED
    BY <1>1, <2>1, <2>2, DoubtByParts
<1>4. CASE next = "done" /\ <<p, calls[p]>> \in received
  <2>1. Doubted(caller)' = Doubted(caller)
    BY <1>2, <1>4 DEF Doubted
  <2>2. Confirmed(caller)' = Confirmed(caller) \cup {p}
    BY <1>2, <1>4 DEF Confirmed
  <2> QED
    BY <1>1, <1>4, <2>1, <2>2, ConfirmByParts
<1> QED
  BY <1>3, <1>4

\* With the callers unchanged, doubts and confirmations are.
LEMMA SameCaller ==
    ASSUME UNCHANGED <<calls, received, caller>>
    PROVE  DeliveryStep
  BY StutterByParts DEF Doubted, Confirmed

\* The end of a call confirms its payload only if the broker has the copy.
LEMMA CallEndsMaps ==
    ASSUME IInv, NEW c \in Copies, NEW how \in {"ok", "error"}, CallEnds(c, how),
           UNCHANGED <<calls, received>>, how = "ok" => c \in received
    PROVE  DeliveryStep
<1>1. c[1] \in Payloads /\ c = <<c[1], c[2]>> /\ caller \in [Payloads -> CallerStates]
  BY CopyFacts DEF IInv, TypeOK
<1>2. CASE caller[c[1]] = "calling" /\ c[2] = calls[c[1]]
  <2> DEFINE next == IF how = "ok" THEN "done" ELSE "pausing"
  <2>1. caller' = [caller EXCEPT ![c[1]] = next]
    BY <1>2 DEF CallEnds
  <2>2. \/ next \in {"pausing", "gone"}
        \/ next = "done" /\ <<c[1], calls[c[1]]>> \in received
    BY <1>1, <1>2
  <2> HIDE DEF next
  <2> QED
    BY <1>1, <1>2, <2>1, <2>2, CallerLeaves
<1>3. CASE ~(caller[c[1]] = "calling" /\ c[2] = calls[c[1]])
  BY <1>3, SameCaller DEF CallEnds
<1> QED
  BY <1>2, <1>3

\* A publication offers its payload, or retries one that was offered.
LEMMA PublishMaps == ASSUME IInv, NEW p \in Payloads, Publish(p) PROVE DeliveryStep
<1>1. /\ caller \in [Payloads -> CallerStates] /\ caller[p] \in {"idle", "pausing"}
      /\ calls[p] < MaxCalls /\ calls' = [calls EXCEPT ![p] = @ + 1]
      /\ received' = received
      /\ \/ caller' = [caller EXCEPT ![p] = "calling"]
         \/ caller' = [caller EXCEPT ![p] = "pausing"]
  BY DEF Publish, clientVars, IInv, TypeOK
<1>2. Doubted(caller)[p] /\ p \notin Confirmed(caller)
  BY <1>1 DEF Doubted, Confirmed
<1>3. Confirmed(caller)' = Confirmed(caller)
  BY <1>1 DEF Confirmed
<1>4. Doubted(caller)' \in {Doubted(caller), [Doubted(caller) EXCEPT ![p] = FALSE]}
  <2>1. CASE caller' = [caller EXCEPT ![p] = "calling"]
    BY <1>1, <2>1 DEF Doubted
  <2>2. CASE caller' = [caller EXCEPT ![p] = "pausing"]
    BY <1>1, <2>2 DEF Doubted
  <2> QED
    BY <1>1, <2>1, <2>2
<1> QED
  BY <1>1, <1>2, <1>3, <1>4, OfferByParts

\* A payload that is given up stays in doubt.
LEMMA GiveUpMaps == ASSUME IInv, NEW p \in Payloads, GiveUp(p) PROVE DeliveryStep
<1>1. /\ caller \in [Payloads -> CallerStates] /\ caller[p] \in {"calling", "pausing"}
      /\ caller' = [caller EXCEPT ![p] = "gone"]
      /\ UNCHANGED <<calls, received>>
  BY DEF GiveUp, clientVars, IInv, TypeOK
<1>2. CASE caller[p] = "calling"
  BY <1>1, <1>2, CallerLeaves
<1>3. CASE caller[p] = "pausing"
  <2>1. Doubted(caller)' = Doubted(caller) /\ Confirmed(caller)' = Confirmed(caller)
    BY <1>1, <1>3 DEF Doubted, Confirmed
  <2> QED
    BY <1>1, <2>1, StutterByParts
<1> QED
  BY <1>1, <1>2, <1>3

\* A copy that reaches the broker is an arrival.
LEMMA TransmitMaps == ASSUME IInv, NEW c \in Copies, Transmit(c) PROVE DeliveryStep
<1>1. /\ received' = received \cup {c} /\ UNCHANGED <<calls, caller>>
      /\ c[1] \in Payloads /\ c = <<c[1], c[2]>> /\ c[2] \in 1 .. calls[c[1]]
  <2>1. c[2] <= calls[c[1]] /\ c[2] \in 1 .. MaxCalls /\ calls[c[1]] \in 0 .. MaxCalls
    BY CopyFacts DEF Transmit, IInv, CopiesInOrder, TypeOK
  <2>2. c[2] \in 1 .. calls[c[1]]
    BY <2>1, CopyFacts
  <2> QED
    BY <2>2, CopyFacts DEF Transmit, callVars
<1>2. Delivery!Arrive(c[1])
  BY <1>1 DEF Delivery!Arrive
<1> QED
  BY <1>1, <1>2 DEF DeliveryStep, Delivery!Next

\* Nothing has been offered and nothing has arrived.
LEMMA InitMaps == Init => Delivery!Init
<1> SUFFICES ASSUME Init PROVE Delivery!Init
  OBVIOUS
<1>1. Doubted(caller) = [p \in Payloads |-> TRUE] /\ Confirmed(caller) = {}
  BY DEF Init, Doubted, Confirmed
<1> QED
  BY <1>1 DEF Init, Delivery!Init, Doubted, Confirmed

\* Each step of the publisher is a step of the delivery or a stutter.
LEMMA NextMaps == IInv /\ [Next]_vars => DeliveryStep
<1> SUFFICES ASSUME IInv, [Next]_vars PROVE DeliveryStep
  OBVIOUS
<1>1. CASE Connect \/ ConnectFails \/ Connected \/ Disconnect \/ StopLoop
  BY <1>1, SameCaller DEF Connect, ConnectFails, Connected, Disconnect, StopLoop,
                          clientVars, callVars
<1>2. CASE OnConnect \/ OnDisconnect \/ LinkBreaks \/ Reconnect
  BY <1>2, SameCaller DEF OnConnect, OnDisconnect, LinkBreaks, Reconnect, callVars
<1>3. CASE \E c \in Copies : Transmit(c)
  BY <1>3, TransmitMaps
<1>4. CASE \E c \in Copies : Acknowledge(c)
  BY <1>4, SameCaller DEF Acknowledge, callVars
<1>5. CASE \E p \in Payloads : Publish(p) \/ GiveUp(p)
  BY <1>5, PublishMaps, GiveUpMaps
<1>6. CASE \E c \in Copies : Enqueue(c)
  <2> PICK c \in Copies : Enqueue(c)
    BY <1>6
  <2>1. UNCHANGED <<calls, received>>
    BY DEF Enqueue
  <2> QED
    BY <2>1, CallEndsMaps, SameCaller DEF Enqueue
<1>7. CASE \E c \in Copies : Return(c)
  <2> PICK c \in Copies : Return(c)
    BY <1>7
  <2> DEFINE how == IF c \in acked THEN "ok" ELSE "error"
  <2>1. UNCHANGED <<calls, received>> /\ CallEnds(c, how) /\ how \in {"ok", "error"}
    BY DEF Return, clientVars
  <2>2. how = "ok" => c \in received
    BY DEF IInv, CopiesInOrder
  <2> HIDE DEF how
  <2> QED
    BY <2>1, <2>2, CallEndsMaps
<1>8. CASE UNCHANGED vars
  BY <1>8, SameCaller DEF vars, clientVars, callVars
<1> QED
  BY <1>1, <1>2, <1>3, <1>4, <1>5, <1>6, <1>7, <1>8 DEF Next, Client

\* The publisher, with its threads, its broken connections and the client that
\* keeps what it was given, delivers at least once.
THEOREM Refinement == Spec => ImplementsAtLeastOnce
<1> QED
  BY InitMaps, NextMaps, Invariant, PTL
     DEF Spec, ImplementsAtLeastOnce, Delivery!Spec, DeliveryStep
=============================================================================
