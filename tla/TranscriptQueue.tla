-------------------------- MODULE TranscriptQueue --------------------------
(***************************************************************************)
(* LatestTranscriptQueue with the TranscriptProcessor and the              *)
(* TranscriptEventPublisher it drives (transcript.py): one speech segment  *)
(* in transcription, the newest other segment waiting, older ones dropped. *)
(*                                                                         *)
(* Tasks of the event loop: the submitter (the worker's reading side), the *)
(* runner (LatestTranscriptQueue.run) and get_task, the queue.get() the    *)
(* runner races against the stop event.  A step is what one task does      *)
(* between two awaits.  A job is the number of its submission within the   *)
(* session; its two futures are result[job] and published[job].            *)
(***************************************************************************)
EXTENDS Naturals, Sequences, FiniteSets

CONSTANTS
    MaxAttempts,  \* TranscriptEventPublisher.attempts
    MaxJobs       \* bound of the model: segments submitted in one session

ASSUME QueueAssumption ==
    /\ MaxAttempts \in Nat \ {0}
    /\ MaxJobs \in Nat \ {0}

Jobs == 1 .. MaxJobs
NoJob == 0

VARIABLES
    stop,             \* stop_event
    queue,            \* asyncio.Queue(maxsize=1)
    submitted,        \* segments submitted in this session
    dropped_segments, \* how many of them a newer one replaced
    result,           \* each job's result future: TranscriptResult or None
    published,        \* each job's published future
    get_task, got,    \* the racing queue.get() and the job it returned
    runner,           \* where the runner is suspended
    current,          \* the job the runner holds
    attempt,          \* the publication attempt under way
    cancelled         \* the session has called transcript_task.cancel()

taskVars == <<get_task, got, runner, current, attempt>>
futures == <<result, published>>
vars == <<stop, queue, submitted, dropped_segments, futures, taskVars, cancelled>>

\* "dropped" and "failed" are both None to whoever awaits the future.
Answers == {"dropped", "failed", "denied", "empty", "text"}
Results == {"unsent", "pending"} \cup Answers
Deliveries == {"unsent", "pending", "yes", "no"}
RunnerStates == {"absent", "starting", "waiting", "stopping", "taken",
                 "recognize", "publish", "backoff", "blocked", "ended"}

Queued == {queue[i] : i \in DOMAIN queue}

Init ==
    /\ stop = FALSE
    /\ queue = <<>>
    /\ submitted = 0
    /\ dropped_segments = 0
    /\ result = [j \in Jobs |-> "unsent"]
    /\ published = [j \in Jobs |-> "unsent"]
    /\ get_task = "none"
    /\ got = NoJob
    /\ runner = "absent"
    /\ current = NoJob
    /\ attempt = 0
    /\ cancelled = FALSE

-----------------------------------------------------------------------------
(* Futures                                                                 *)

\* Slip for DroppedResult: _resolve_dropped settles `published' only.
ForgottenResult(res, S) == res

\* _resolve_dropped for the jobs of S: a future already done is left alone.
DroppedResult(res, S) ==
    [j \in Jobs |-> IF j \in S /\ res[j] = "pending" THEN "dropped" ELSE res[j]]

\* Slip for DroppedDelivery: _resolve_dropped settles `result' only.
ForgottenDelivery(pub, S) == pub

DroppedDelivery(pub, S) ==
    [j \in Jobs |-> IF j \in S /\ pub[j] = "pending" THEN "no" ELSE pub[j]]

Drop(S) ==
    /\ result' = DroppedResult(result, S)
    /\ published' = DroppedDelivery(published, S)

-----------------------------------------------------------------------------
(* The submitter                                                           *)

\* Slip for Enqueue: a full queue keeps what it has and drops the new segment.
EnqueueIfRoom(job) ==
    LET opened == [result EXCEPT ![job] = "pending"]
        promised == [published EXCEPT ![job] = "pending"]
    IN  /\ queue' = IF queue = <<>> THEN <<job>> ELSE queue
        /\ result' = IF queue = <<>> THEN opened ELSE DroppedResult(opened, {job})
        /\ published' = IF queue = <<>> THEN promised ELSE DroppedDelivery(promised, {job})

\* A full queue drops what it has for the new segment.
Enqueue(job) ==
    /\ queue' = <<job>>
    /\ result' = DroppedResult([result EXCEPT ![job] = "pending"], Queued)
    /\ published' = DroppedDelivery([published EXCEPT ![job] = "pending"], Queued)

\* submit.  The session stops reading before it cancels the runner, so nothing
\* is submitted afterwards.
Submit ==
    /\ runner # "absent"
    /\ ~cancelled
    /\ submitted < MaxJobs
    /\ submitted' = submitted + 1
    /\ Enqueue(submitted')
    /\ dropped_segments' = dropped_segments + Len(queue)
    /\ UNCHANGED <<stop, taskVars, cancelled>>

\* asyncio.create_task(transcript_queue.run(stop_event))
Start ==
    /\ runner = "absent"
    /\ runner' = "starting"
    /\ UNCHANGED <<stop, queue, submitted, dropped_segments, futures,
                   get_task, got, current, attempt, cancelled>>

\* The session's cleanup: transcript_task.cancel() ...
Cancel ==
    /\ runner # "absent"
    /\ ~cancelled
    /\ cancelled' = TRUE
    /\ UNCHANGED <<stop, queue, submitted, dropped_segments, futures, taskVars>>

\* ... and, once the task is gone, discard_pending().
DiscardPending ==
    /\ cancelled
    /\ runner = "ended"
    /\ queue' = <<>>
    /\ Drop(Queued)
    /\ UNCHANGED <<stop, submitted, dropped_segments, taskVars, cancelled>>

\* The next session builds a queue of its own.  What the last one left behind (a
\* get_task, an open future) stays with the old queue, out of everybody's reach.
NewSession ==
    /\ ~stop
    /\ runner \in {"absent", "ended"}
    /\ runner = "ended" => cancelled /\ queue = <<>>
    /\ queue' = <<>>
    /\ submitted' = 0
    /\ dropped_segments' = 0
    /\ result' = [j \in Jobs |-> "unsent"]
    /\ published' = [j \in Jobs |-> "unsent"]
    /\ get_task' = "none"
    /\ got' = NoJob
    /\ runner' = "absent"
    /\ current' = NoJob
    /\ attempt' = 0
    /\ cancelled' = FALSE
    /\ UNCHANGED stop

\* SIGTERM or SIGINT
Stop ==
    /\ ~stop
    /\ stop' = TRUE
    /\ UNCHANGED <<queue, submitted, dropped_segments, futures, taskVars, cancelled>>

-----------------------------------------------------------------------------
(* get_task                                                                *)

\* queue.get() returns.  A cancelled runner leaves its get_task behind, and
\* that one may still take a job nobody will look at.
GetJob ==
    /\ get_task = "waiting"
    /\ queue # <<>>
    /\ got' = Head(queue)
    /\ queue' = Tail(queue)
    /\ get_task' = "done"
    /\ UNCHANGED <<stop, submitted, dropped_segments, futures, runner, current,
                   attempt, cancelled>>

-----------------------------------------------------------------------------
(* The runner                                                              *)

RunnerSame == UNCHANGED <<stop, submitted, dropped_segments, cancelled>>

\* `while not stop_event.is_set()' reached with the futures as given: race a
\* new get_task against the stop event, or discard what waits and return.
LoopTop(res, pub) ==
    /\ current' = NoJob
    /\ attempt' = 0
    /\ got' = NoJob
    /\ \/ /\ ~stop
          /\ runner' = "waiting"
          /\ get_task' = "waiting"
          /\ result' = res
          /\ published' = pub
          /\ UNCHANGED queue
       \/ /\ stop
          /\ runner' = "ended"
          /\ get_task' = "none"
          /\ result' = DroppedResult(res, Queued)
          /\ published' = DroppedDelivery(pub, Queued)
          /\ queue' = <<>>

\* The current job ends with this answer, which is not an event to publish.
FinishUnpublished(answer) ==
    LoopTop([result EXCEPT ![current] = answer],
            [published EXCEPT ![current] = "no"])

FinishPublished(delivery) ==
    LoopTop(result, [published EXCEPT ![current] = delivery])

RunnerStarts ==
    /\ runner = "starting"
    /\ ~cancelled
    /\ LoopTop(result, published)
    /\ RunnerSame

\* asyncio.wait returned for get_task.  A stop event set in the meantime may
\* not have woken stop_task yet, so the job can be taken all the same.
RunnerTakes ==
    /\ runner = "waiting"
    /\ ~cancelled
    /\ get_task = "done"
    /\ current' = got
    /\ got' = NoJob
    /\ get_task' = "none"
    /\ runner' = "taken"
    /\ UNCHANGED <<queue, futures, attempt>>
    /\ RunnerSame

\* asyncio.wait returned for stop_task: a job get_task already has is dropped.
RunnerStops ==
    /\ runner = "waiting"
    /\ ~cancelled
    /\ stop
    /\ Drop({got})
    /\ got' = NoJob
    /\ get_task' = "none"
    /\ runner' = "stopping"
    /\ UNCHANGED <<queue, current, attempt>>
    /\ RunnerSame

RunnerExits ==
    /\ runner = "stopping"
    /\ ~cancelled
    /\ LoopTop(result, published)
    /\ RunnerSame

\* recognize up to its first await: the budget is charged before the provider
\* is contacted.  It may admit the segment, deny it, or fail to save.
RunnerConsumes ==
    /\ runner = "taken"
    /\ ~cancelled
    /\ \/ /\ runner' = "recognize"
          /\ UNCHANGED <<queue, futures, get_task, got, current, attempt>>
       \/ /\ result' = [result EXCEPT ![current] = "denied"]
          /\ published' = [published EXCEPT ![current] = "no"]
          /\ runner' = "blocked"
          /\ UNCHANGED <<queue, get_task, got, current, attempt>>
       \/ FinishUnpublished("failed")
    /\ RunnerSame

\* Slip for RunnerFails: the exception handler settles `published' only.
RunnerFailsSilently ==
    LoopTop(result, [published EXCEPT ![current] = "no"])

RunnerFails == FinishUnpublished("failed")

\* The provider answered.  The first publication attempt starts at once,
\* unless the gateway is stopping.
RunnerRecognizes ==
    /\ runner = "recognize"
    /\ ~cancelled
    /\ \/ RunnerFails
       \/ FinishUnpublished("empty")
       \/ /\ stop
          /\ FinishUnpublished("text")
       \/ /\ ~stop
          /\ result' = [result EXCEPT ![current] = "text"]
          /\ runner' = "publish"
          /\ attempt' = 1
          /\ UNCHANGED <<queue, published, get_task, got, current>>
    /\ RunnerSame

LastAttempt == attempt >= MaxAttempts

RunnerPublishes ==
    /\ runner = "publish"
    /\ ~cancelled
    /\ \/ FinishPublished("yes")
       \/ /\ LastAttempt
          /\ FinishPublished("no")
       \/ /\ ~LastAttempt
          /\ runner' = "backoff"
          /\ UNCHANGED <<queue, futures, get_task, got, current, attempt>>
    /\ RunnerSame

\* asyncio.wait_for hands back a stop event that is already set even to a task
\* being cancelled, so after a stop the two timed waits end normally.
WaitEnds == ~cancelled \/ stop

\* The backoff ran out or the stop event ended it.
RunnerRetries ==
    /\ runner = "backoff"
    /\ WaitEnds
    /\ \/ /\ stop
          /\ FinishPublished("no")
       \/ /\ ~stop
          /\ attempt' = attempt + 1
          /\ runner' = "publish"
          /\ UNCHANGED <<queue, futures, get_task, got, current>>
    /\ RunnerSame

\* The retry_after of a denied segment ran out or the stop event ended it.
RunnerUnblocks ==
    /\ runner = "blocked"
    /\ WaitEnds
    /\ LoopTop(result, published)
    /\ RunnerSame

\* CancelledError reaches the await the runner is suspended in.  The futures
\* of its job stay as they are and its get_task, if any, lives on.
RunnerCancelled ==
    /\ cancelled
    /\ runner \notin {"absent", "ended"}
    /\ runner' = "ended"
    /\ current' = NoJob
    /\ attempt' = 0
    /\ UNCHANGED <<queue, futures, get_task, got>>
    /\ RunnerSame

Runner ==
    \/ RunnerStarts \/ RunnerTakes \/ RunnerStops \/ RunnerExits
    \/ RunnerConsumes \/ RunnerRecognizes \/ RunnerPublishes
    \/ RunnerRetries \/ RunnerUnblocks \/ RunnerCancelled

Session == Start \/ Submit \/ Cancel \/ DiscardPending \/ NewSession

Next == Session \/ Stop \/ GetJob \/ Runner

Spec == Init /\ [][Next]_vars

\* asyncio resumes every task whose awaitable is done.  The awaitables end: the
\* request has a deadline (ha_stt.py), each delivery waits at most 10 s for its
\* acknowledgement (mqtt.py), and the two pauses are timed waits.
FairSpec == Spec /\ WF_vars(GetJob) /\ WF_vars(Runner)

-----------------------------------------------------------------------------
(* Properties                                                              *)

\* Every variable has its type.
TypeOK ==
    /\ stop \in BOOLEAN
    /\ queue \in Seq(Jobs) /\ Len(queue) <= 1
    /\ submitted \in 0 .. MaxJobs
    /\ dropped_segments \in 0 .. MaxJobs
    /\ result \in [Jobs -> Results]
    /\ published \in [Jobs -> Deliveries]
    /\ get_task \in {"none", "waiting", "done"}
    /\ got \in Jobs \cup {NoJob}
    /\ runner \in RunnerStates
    /\ current \in Jobs \cup {NoJob}
    /\ attempt \in 0 .. MaxAttempts
    /\ cancelled \in BOOLEAN

Held == (Queued \cup {got, current}) \ {NoJob}

\* The jobs with an open future.
Unresolved == {j \in Jobs : result[j] = "pending" \/ published[j] = "pending"}

\* Nobody waits on a future that nobody will resolve: as long as the session
\* has not cancelled the runner, a job with an open future is in the queue, in
\* get_task's hands or in the runner's, in every interleaving of submissions,
\* failures, denials and the stop event.
NoAbandonedJob ==
    ~cancelled =>
        \A j \in Jobs : result[j] = "pending" \/ published[j] = "pending" => j \in Held

\* Old speech is not hoarded: no more than one segment waits beside the one
\* that is served, the one served is the older, and what waits is the newest.
OneServedOneWaiting ==
    /\ ~(got # NoJob /\ current # NoJob)
    /\ \A j \in Queued : j = submitted /\ got < j /\ current < j

\* A segment is dropped without an answer only for a newer one, until the
\* gateway stops or the session ends; dropped_segments counts exactly those.
DropsAreCounted ==
    ~stop /\ ~cancelled =>
        dropped_segments = Cardinality({j \in Jobs : result[j] = "dropped"})

\* The queue implements the mailbox its documentation promises.
Fate(answer) ==
    CASE answer = "unsent" -> "none"
      [] answer = "pending" -> "open"
      [] answer = "dropped" -> "skipped"
      [] OTHER -> "answered"

Mailbox == INSTANCE LatestMailbox WITH
    sent <- submitted,
    waiting <- IF queue = <<>> THEN NoJob ELSE Head(queue),
    serving <- IF current # NoJob THEN current ELSE got,
    fate <- [j \in Jobs |-> Fate(result[j])],
    closing <- stop \/ cancelled

ImplementsMailbox == Mailbox!Spec

\* Every submission gets both its answers in the end, the result as well as the
\* delivery, unless the session cancels the runner or the runner has ended: no
\* segment stays open behind a failing provider, a denied one or a failing broker.
EverySubmissionSettles ==
    \A j \in Jobs :
        j \in Unresolved ~> j \notin Unresolved \/ cancelled \/ runner = "ended"
=============================================================================
