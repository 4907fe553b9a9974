-------------------------- MODULE WyomingDetector --------------------------
(***************************************************************************)
(* WyomingDetector.detect (wyoming_client.py): feed the microphone to a    *)
(* remote wake word provider until it reports one of the models.  Three    *)
(* tasks race in each round: event_task reads from the provider,           *)
(* chunk_task reads from the microphone, stop_task waits for the stop      *)
(* event.  The reader that chunk_task runs also feeds the speech           *)
(* collector, so a chunk that is read has been heard by the collector.     *)
(*                                                                         *)
(* A task that the loop has woken (`ready') has not run yet and can still  *)
(* be cancelled.                                                           *)
(***************************************************************************)
EXTENDS Naturals

CONSTANT MaxChunks  \* bound of the model: chunks the microphone delivers

ASSUME DetectorAssumption == MaxChunks \in Nat \ {0}

VARIABLES
    main,       \* where detect is suspended
    stop,       \* stop_event
    event_task, \* "none", "waiting", "failed" or the kind of event it read
    chunk_task, \* "none", "waiting", "ready", "done" or "failed"
    stop_task,  \* "none", "waiting" or "done"
    connection, \* to the provider: "none", "open" or "closed"
    arrived,    \* chunks that ffmpeg has written to its pipe
    collected,  \* chunks that were read, and fed to the collector
    sent,       \* chunks that the provider was sent
    answer      \* what detect returns: a detection, None or an exception

tasks == <<event_task, chunk_task, stop_task>>
chunks == <<arrived, collected, sent>>
detectVars == <<main, stop, tasks, connection, chunks, answer>>

MainStates == {"connecting", "greeting", "racing", "writing", "cancelling",
               "closing", "ending", "returned"}

\* "unknown" is a Detection of a model nobody asked for, "end" the end of the
\* provider's stream.
Events == {"detection", "unknown", "other", "end"}
EventDone == event_task \in Events \cup {"failed"}
ChunkDone == chunk_task \in {"done", "failed"}
StopDone == stop_task = "done"

DetectInit ==
    /\ main = "connecting"
    /\ stop \in BOOLEAN
    /\ event_task = "none"
    /\ chunk_task = "none"
    /\ stop_task = "none"
    /\ connection = "none"
    /\ arrived = 0
    /\ collected = 0
    /\ sent = 0
    /\ answer = "pending"

-----------------------------------------------------------------------------
(* The other parties and the tasks                                         *)

Others == UNCHANGED <<main, connection, answer>>

Stop ==
    /\ ~stop
    /\ stop' = TRUE
    /\ Others
    /\ UNCHANGED <<tasks, chunks>>

\* stop_event.wait() returns.
StopSeen ==
    /\ stop
    /\ stop_task = "waiting"
    /\ stop_task' = "done"
    /\ Others
    /\ UNCHANGED <<stop, event_task, chunk_task, chunks>>

ProviderSends ==
    /\ event_task = "waiting"
    /\ event_task' \in Events \cup {"failed"}
    /\ Others
    /\ UNCHANGED <<stop, chunk_task, stop_task, chunks>>

\* A chunk arrives and wakes its reader, if there is one.
ChunkArrives ==
    /\ arrived < MaxChunks
    /\ arrived' = arrived + 1
    /\ chunk_task' = IF chunk_task = "waiting" THEN "ready" ELSE chunk_task
    /\ Others
    /\ UNCHANGED <<stop, event_task, stop_task, collected, sent>>

\* chunk_task runs: it takes the chunk from the pipe and feeds the collector.
ChunkRead ==
    /\ chunk_task = "ready"
    /\ chunk_task' = "done"
    /\ collected' = collected + 1
    /\ Others
    /\ UNCHANGED <<stop, event_task, stop_task, arrived, sent>>

\* The stream ends, or voice activity detection fails.
ChunkFails ==
    /\ chunk_task \in {"waiting", "ready"}
    /\ chunk_task' = "failed"
    /\ Others
    /\ UNCHANGED <<stop, event_task, stop_task, chunks>>

-----------------------------------------------------------------------------
(* detect                                                                  *)

\* Into the finally clause: every task is cancelled and awaited.
Leave(how) ==
    /\ main' = "closing"
    /\ answer' = how
    /\ UNCHANGED <<chunk_task, stop_task, event_task, collected, sent>>

\* open_connection, with its timeout.
Connect ==
    /\ main = "connecting"
    /\ \/ main' = "greeting" /\ connection' = "open" /\ answer' = answer
       \/ main' = "returned" /\ answer' = "error" /\ connection' = connection
    /\ UNCHANGED <<stop, tasks, chunks>>

\* Slip for NextRound: stop_task is not created again.
NextRoundWithoutStop ==
    /\ main' = "racing"
    /\ chunk_task' = IF arrived > collected THEN "ready" ELSE "waiting"
    /\ stop_task' = "none"

\* The next round: chunk_task and stop_task are created.  A chunk that lies in
\* the pipe is there for the new reader.  The new stop_task runs before detect
\* is resumed, and is done at once when the event is set.
NextRound ==
    /\ main' = "racing"
    /\ chunk_task' = IF arrived > collected THEN "ready" ELSE "waiting"
    /\ stop_task' = IF stop THEN "done" ELSE "waiting"

\* Detect and AudioStart are written, then the first round begins.
Greet ==
    /\ main = "greeting"
    /\ \/ /\ NextRound
          /\ event_task' = "waiting"
          /\ UNCHANGED <<answer, collected, sent>>
       \/ Leave("error")
    /\ UNCHANGED <<stop, connection, arrived>>

\* Slip for ReadOn: a chunk read in the same round as an event is forgotten.
ReadOnAfterEvent ==
    \/ /\ ~EventDone /\ ChunkDone
       /\ main' = "writing"
       /\ UNCHANGED chunk_task
    \/ /\ EventDone \/ ~ChunkDone
       /\ main' = "cancelling"
       /\ chunk_task' = "none"

\* The chunk that was read goes to the provider; a reader that has not run is
\* cancelled and takes nothing with it.
ReadOn ==
    \/ ChunkDone /\ main' = "writing" /\ UNCHANGED chunk_task
    \/ ~ChunkDone /\ main' = "cancelling" /\ chunk_task' = "none"

\* asyncio.wait returns with all that is done by now.
Resume ==
    /\ main = "racing"
    /\ EventDone \/ ChunkDone \/ StopDone
    /\ \/ StopDone /\ Leave("none")
       \/ ~StopDone /\ event_task \in {"end", "failed"} /\ Leave("error")
       \/ ~StopDone /\ event_task = "detection" /\ Leave("detection")
       \/ /\ ~StopDone
          /\ event_task \in {"waiting", "unknown", "other"}
          /\ chunk_task = "failed"
          /\ Leave("error")
       \/ /\ ~StopDone
          /\ event_task \in {"waiting", "unknown", "other"}
          /\ chunk_task # "failed"
          /\ ReadOn
          /\ event_task' = "waiting"
          /\ UNCHANGED <<stop_task, answer, collected, sent>>
    /\ UNCHANGED <<stop, connection, arrived>>

\* AudioChunk is written and drained: it waits for a provider that is slow to
\* read, and fails when the connection does.
Write ==
    /\ main = "writing"
    /\ \/ /\ sent' = sent + 1
          /\ NextRound
          /\ UNCHANGED <<event_task, answer, collected>>
       \/ Leave("error")
    /\ UNCHANGED <<stop, connection, arrived>>

\* The cancelled reader is gone.
Cancelled ==
    /\ main = "cancelling"
    /\ NextRound
    /\ UNCHANGED <<stop, event_task, connection, chunks, answer>>

\* Slip for Close: the reader of the microphone is not among the tasks.
CloseWithoutReader ==
    /\ main = "closing"
    /\ main' = "ending"
    /\ event_task' = "none"
    /\ stop_task' = "none"
    /\ UNCHANGED <<stop, chunk_task, connection, chunks, answer>>

\* The tasks are cancelled and gathered.
Close ==
    /\ main = "closing"
    /\ main' = "ending"
    /\ event_task' = "none"
    /\ chunk_task' = "none"
    /\ stop_task' = "none"
    /\ UNCHANGED <<stop, connection, chunks, answer>>

\* AudioStop is written, or not, and the connection is closed.  When the
\* connection was lost by an OSError that is no ConnectionError, the error
\* passes through and takes the place of the answer.
Disconnect ==
    /\ main = "ending"
    /\ main' = "returned"
    /\ connection' = "closed"
    /\ answer' \in {answer, "error"}
    /\ UNCHANGED <<stop, tasks, chunks>>

-----------------------------------------------------------------------------

\* What the loop and the timeout of the connection see to.
Driven == Connect \/ Resume \/ Cancelled \/ Close

\* What waits for the provider to read or to hang up: drain and wait_closed have
\* no timeout and do not look at the stop event.
Writing == Greet \/ Write \/ Disconnect

Detector == Driven \/ Writing

DetectNext ==
    \/ Detector \/ Stop \/ StopSeen \/ ProviderSends
    \/ ChunkArrives \/ ChunkRead \/ ChunkFails

DetectSpec == DetectInit /\ [][DetectNext]_detectVars

\* Tasks that are ready run.  Nothing makes a write end.
FairSpec ==
    /\ DetectSpec
    /\ WF_detectVars(Driven)
    /\ WF_detectVars(StopSeen)
    /\ WF_detectVars(ChunkRead)

-----------------------------------------------------------------------------
(* Properties                                                              *)

\* Every variable has its type.
DetectTypes ==
    /\ main \in MainStates
    /\ stop \in BOOLEAN
    /\ event_task \in {"none", "waiting", "failed"} \cup Events
    /\ chunk_task \in {"none", "waiting", "ready", "done", "failed"}
    /\ stop_task \in {"none", "waiting", "done"}
    /\ connection \in {"none", "open", "closed"}
    /\ arrived \in 0 .. MaxChunks
    /\ collected \in 0 .. arrived
    /\ sent \in 0 .. MaxChunks
    /\ answer \in {"pending", "detection", "none", "error"}

\* README.md 80: the provider and the speech collector hear the same stream.
\* Whatever is cancelled in a race, no chunk reaches only one of them, but for
\* the one that is on its way when detect ends.
SameStream ==
    /\ sent <= collected
    /\ collected <= sent + 1
    /\ collected = sent + 1 =>
         \/ chunk_task = "done"
         \/ main \in {"ending", "returned"}
    /\ main = "racing" /\ ~ChunkDone => collected = sent

\* Nothing of detect is left when it returns.  A reader still at work would
\* take the next chunk from the caller, who goes on reading the command.
NothingLeftBehind ==
    main = "returned" =>
        /\ event_task = "none"
        /\ chunk_task = "none"
        /\ stop_task = "none"
        /\ connection # "open"

\* The stop event ends detect in whatever round and task it arrives, unless one
\* of its writes waits for a provider that neither reads nor hangs up, for ever:
\* no read, no task and no further round keeps detect from returning.
EndsOnStop ==
    stop ~> \/ main = "returned"
            \/ \E write \in {"greeting", "writing", "ending"} : [](main = write)
=============================================================================
