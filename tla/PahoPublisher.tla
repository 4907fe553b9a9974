--------------------------- MODULE PahoPublisher ---------------------------
(***************************************************************************)
(* PahoPublisher (mqtt.py) between the workers, which publish each payload *)
(* from a coroutine of their own and try again when publish raises, and    *)
(* the paho client, whose network thread keeps the connection to the       *)
(* broker.  publish runs in a thread: cancelling the coroutine does not    *)
(* end it.                                                                 *)
(*                                                                         *)
(* The client is modelled from how mqtt.py uses it, with QoS 1: a message  *)
(* handed to it is kept until the broker acknowledges it, over as many     *)
(* connections as that takes, whatever its caller has been told meanwhile. *)
(***************************************************************************)
EXTENDS Naturals

CONSTANTS
    Payloads,  \* an activation and a transcript event
    MaxCalls   \* bound of the model: calls of publish for one payload

ASSUME PublisherAssumption == MaxCalls \in Nat \ {0}

VARIABLES
    phase,      \* of the publisher: see Phases
    connected,  \* _connected
    link,       \* of the client: see Links
    loop,       \* whether the network thread runs
    outbox,     \* copies the client has and the broker has not acknowledged
    received,   \* copies the broker has
    acked,      \* copies the client has seen acknowledged
    calls,      \* calls of publish so far, for each payload
    call,       \* what the thread of each call does
    caller      \* what the coroutine that publishes each payload does

clientVars == <<link, loop, outbox, received, acked>>
callVars == <<calls, call, caller>>
vars == <<phase, connected, clientVars, callVars>>

Phases == {"new", "connecting", "open", "closing", "closed"}

\* "lost": the connection is gone and the network thread has not noticed.
Links == {"down", "opening", "up", "lost"}
CallStates == {"none", "checked", "waiting", "ok", "error"}
CallerStates == {"idle", "calling", "pausing", "done", "gone"}
Copies == Payloads \X (1 .. MaxCalls)

Init ==
    /\ phase = "new"
    /\ connected = FALSE
    /\ link = "down"
    /\ loop = FALSE
    /\ outbox = {}
    /\ received = {}
    /\ acked = {}
    /\ calls = [p \in Payloads |-> 0]
    /\ call = [c \in Copies |-> "none"]
    /\ caller = [p \in Payloads |-> "idle"]

-----------------------------------------------------------------------------
(* Connecting and closing                                                  *)

\* client.connect and loop_start; the thread then waits for on_connect.
Connect ==
    /\ phase = "new"
    /\ phase' = "connecting"
    /\ link' = "opening"
    /\ loop' = TRUE
    /\ UNCHANGED <<connected, outbox, received, acked, callVars>>

\* client.connect raises, and nothing was started.
ConnectFails ==
    /\ phase = "new"
    /\ phase' = "closed"
    /\ UNCHANGED <<connected, clientVars, callVars>>

Connected ==
    /\ phase = "connecting"
    /\ connected
    /\ phase' = "open"
    /\ UNCHANGED <<connected, clientVars, callVars>>

\* disconnect(), when on_connect did not come in time or the worker has ended.
\* No coroutine publishes any more, but threads may still be about.
Disconnect ==
    /\ \/ phase = "connecting"
       \/ phase = "open" /\ \A p \in Payloads : caller[p] \in {"idle", "done", "gone"}
    /\ phase' = "closing"
    /\ link' = IF link = "opening" THEN link ELSE "lost"
    /\ UNCHANGED <<connected, loop, outbox, received, acked, callVars>>

\* Slip for StopLoop: close_sync leaves the flag to on_disconnect.
StopLoopOnly ==
    /\ phase = "closing"
    /\ phase' = "closed"
    /\ loop' = FALSE
    /\ link' = "down"
    /\ UNCHANGED <<connected, outbox, received, acked, callVars>>

\* loop_stop() joins the network thread, and the flag is cleared after it.
StopLoop ==
    /\ phase = "closing"
    /\ phase' = "closed"
    /\ loop' = FALSE
    /\ link' = "down"
    /\ connected' = FALSE
    /\ UNCHANGED <<outbox, received, acked, callVars>>

-----------------------------------------------------------------------------
(* The network thread and its callbacks                                    *)

\* CONNACK with reason_code 0, also one that disconnect() has crossed.
OnConnect ==
    /\ loop
    /\ link = "opening"
    /\ connected' = TRUE
    /\ link' = "up"
    /\ UNCHANGED <<phase, loop, outbox, received, acked, callVars>>

OnDisconnect ==
    /\ loop
    /\ link = "lost"
    /\ connected' = FALSE
    /\ link' = "down"
    /\ UNCHANGED <<phase, loop, outbox, received, acked, callVars>>

\* A connection is refused or breaks.
LinkBreaks ==
    /\ link \in {"opening", "up"}
    /\ link' = "lost"
    /\ UNCHANGED <<phase, connected, loop, outbox, received, acked, callVars>>

Reconnect ==
    /\ loop
    /\ phase \in {"connecting", "open"}
    /\ link = "down"
    /\ link' = "opening"
    /\ UNCHANGED <<phase, connected, loop, outbox, received, acked, callVars>>

\* A PUBLISH reaches the broker, for the first time or again.
Transmit(c) ==
    /\ loop
    /\ link = "up"
    /\ c \in outbox
    /\ received' = received \cup {c}
    /\ UNCHANGED <<phase, connected, link, loop, outbox, acked, callVars>>

\* Its PUBACK reaches the client.
Acknowledge(c) ==
    /\ loop
    /\ link = "up"
    /\ c \in outbox \cap received
    /\ outbox' = outbox \ {c}
    /\ acked' = acked \cup {c}
    /\ UNCHANGED <<phase, connected, link, loop, received, callVars>>

-----------------------------------------------------------------------------
(* Publishing                                                              *)

\* The thread's call ends; its coroutine, if it still waits, is told.
CallEnds(c, how) ==
    /\ call' = [call EXCEPT ![c] = how]
    /\ caller' = IF caller[c[1]] = "calling" /\ c[2] = calls[c[1]]
                 THEN [caller EXCEPT ![c[1]] = IF how = "ok" THEN "done" ELSE "pausing"]
                 ELSE caller

\* _publish_sync looks at the flag: it raises, or goes on to client.publish.
Publish(p) ==
    /\ phase = "open"
    /\ caller[p] \in {"idle", "pausing"}
    /\ calls[p] < MaxCalls
    /\ calls' = [calls EXCEPT ![p] = @ + 1]
    /\ \/ /\ connected
          /\ call' = [call EXCEPT ![<<p, calls'[p]>>] = "checked"]
          /\ caller' = [caller EXCEPT ![p] = "calling"]
       \/ /\ ~connected
          /\ call' = [call EXCEPT ![<<p, calls'[p]>>] = "error"]
          /\ caller' = [caller EXCEPT ![p] = "pausing"]
    /\ UNCHANGED <<phase, connected, clientVars>>

\* client.publish.  Without a connection wait_for_publish raises, and the
\* client keeps the message all the same.
Enqueue(c) ==
    /\ call[c] = "checked"
    /\ outbox' = outbox \cup {c}
    /\ IF link = "down" THEN CallEnds(c, "error")
                        ELSE call' = [call EXCEPT ![c] = "waiting"] /\ UNCHANGED caller
    /\ UNCHANGED <<phase, connected, link, loop, received, acked, calls>>

\* Slip for Return: is_published() is not asked after the wait.
ReturnAnyway(c) ==
    /\ call[c] = "waiting"
    /\ CallEnds(c, "ok")
    /\ UNCHANGED <<phase, connected, clientVars, calls>>

\* Slip for Return: wait_for_publish without a timeout.
ReturnAcked(c) ==
    /\ call[c] = "waiting"
    /\ c \in acked
    /\ CallEnds(c, "ok")
    /\ UNCHANGED <<phase, connected, clientVars, calls>>

\* wait_for_publish returns after the PUBACK or after ten seconds.
Return(c) ==
    /\ call[c] = "waiting"
    /\ CallEnds(c, IF c \in acked THEN "ok" ELSE "error")
    /\ UNCHANGED <<phase, connected, clientVars, calls>>

\* The coroutine is cancelled, or gives the payload up between two calls.
GiveUp(p) ==
    /\ caller[p] \in {"calling", "pausing"}
    /\ caller' = [caller EXCEPT ![p] = "gone"]
    /\ UNCHANGED <<phase, connected, clientVars, calls, call>>

-----------------------------------------------------------------------------

Client ==
    \/ OnConnect \/ OnDisconnect \/ LinkBreaks \/ Reconnect
    \/ \E c \in Copies : Transmit(c) \/ Acknowledge(c)

Next ==
    \/ Connect \/ ConnectFails \/ Connected \/ Disconnect \/ StopLoop
    \/ \E p \in Payloads : Publish(p) \/ GiveUp(p)
    \/ \E c \in Copies : Enqueue(c) \/ Return(c)
    \/ Client

Spec == Init /\ [][Next]_vars

\* Threads run, and wait_for_publish is called with a timeout.
FairSpec == Spec /\ \A c \in Copies : WF_vars(Enqueue(c)) /\ WF_vars(Return(c))

-----------------------------------------------------------------------------
(* Properties                                                              *)

\* Every variable has its type.
TypeOK ==
    /\ phase \in Phases
    /\ connected \in BOOLEAN
    /\ link \in Links
    /\ loop \in BOOLEAN
    /\ outbox \subseteq Copies
    /\ received \subseteq Copies
    /\ acked \subseteq Copies
    /\ calls \in [Payloads -> 0 .. MaxCalls]
    /\ call \in [Copies -> CallStates]
    /\ caller \in [Payloads -> CallerStates]

\* Success is reported only for a payload the broker has, and a second copy
\* exists only because the outcome of the first was unknown: each publication
\* loop over this publisher delivers at least once, and nothing more often
\* than its doubts ask for.
Delivery == INSTANCE AtLeastOnce WITH
    MaxCopies <- MaxCalls,
    offered <- calls,
    doubted <- [p \in Payloads |-> caller[p] # "calling" /\ caller[p] # "done"],
    arrived <- received,
    confirmed <- {p \in Payloads : caller[p] = "done"}

ImplementsAtLeastOnce == Delivery!Spec

\* A publisher that has been closed stays closed: the network thread cannot
\* mark it connected again, and nothing that threads of cancelled coroutines
\* still hand to the client goes out.
ClosedStaysClosed ==
    [][phase = "closed" => ~connected /\ ~connected' /\ received' = received]_vars

\* No call of publish hangs, however the connection behaves, not even one that
\* the closing of the publisher overtakes.
CallsReturn == \A c \in Copies : call[c] \in {"checked", "waiting"} ~> call[c] \in {"ok", "error"}
=============================================================================
