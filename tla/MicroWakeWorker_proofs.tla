----------------------- MODULE MicroWakeWorker_proofs ----------------------
(***************************************************************************)
(* Proofs that the microWakeWord worker can rely on its queue: what it     *)
(* awaits is served, the command is not dropped, and a session leaves at   *)
(* most one unanswered segment behind; for any number of segments,         *)
(* attempts and chunks.                                                    *)
(***************************************************************************)
EXTENDS MicroWakeWorker, TLAPS

\* What is proved about the queue by itself.
Queue == INSTANCE TranscriptQueue_proofs

Resting == {"idle", "sleeping", "stopped"}

\* The types of the worker's own variables.
WorkerTypes ==
    /\ transcripts \in BOOLEAN
    /\ main \in MainStates
    /\ source \in {"open", "closed"}
    /\ open \in 0 .. MaxChunks - 1
    /\ heard \in 0 .. MaxJobs
    /\ fresh \in BOOLEAN
    /\ chosen \in Segments \cup {NoSegment}
    /\ ret \in Returns

\* What the worker needs of the queue in every reachable state.
QueueServes ==
    /\ Q!TypeOK
    /\ runner = "absent" => submitted = 0 /\ queue = <<>>
    /\ runner = "ended" => stop \/ cancelled
    /\ runner = "ended" /\ ~cancelled => got = Q!NoJob /\ current = Q!NoJob
    /\ \A j \in Segments : j <= submitted => result[j] # "unsent"
    /\ ~cancelled => \A j \in Segments : result[j] = "pending" => j \in Q!Held
    /\ ~stop /\ ~cancelled => \A j \in Segments : result[j] = "dropped" => j < submitted
    /\ get_task # "none" => runner = "waiting" \/ (cancelled /\ runner = "ended")
    /\ got # NoSegment => got \in Q!Unresolved
    /\ \A i, j \in Q!Unresolved \ Q!Queued : i = j

\* The session's resources, by where the worker is suspended.
Resources ==
    /\ main \in Resting \cup {"starting"} => source = "closed"
    /\ main \in Resting \cup {"starting", "joining", "releasing"} => open = 0
    /\ main \in Resting \cup {"releasing"} => runner \in {"absent", "ended"} /\ queue = <<>>
    /\ main \notin Resting \cup {"joining", "releasing"} => ~cancelled

\* Segments are numbered as the queue numbers them.  The worker awaits the
\* newest one, and nothing is submitted meanwhile: a runner that ends leaves the
\* queue empty for good.
Association ==
    /\ transcripts => heard = submitted
    /\ last \in {NoSegment, heard}
    /\ main = "awaitResult" =>
         /\ transcripts
         /\ chosen # NoSegment
         /\ chosen = heard
         /\ runner = "ended" => queue = <<>>

\* The inductive invariant, beside what holds of the queue.
IInv == WorkerTypes /\ Resources /\ Association /\ NoBusyLoop

-----------------------------------------------------------------------------
(* The worker and the queue                                                *)

\* The queue of the proofs is the queue the worker uses.
LEMMA SameQueue == Q!Spec => Queue!Spec
<1> USE DEF Q!taskVars, Q!futures, Q!Queued, Q!NoJob, Q!Jobs, Q!Drop, Q!DroppedResult,
            Q!DroppedDelivery, Queue!taskVars, Queue!futures, Queue!Queued, Queue!NoJob,
            Queue!Jobs, Queue!Drop, Queue!DroppedResult, Queue!DroppedDelivery
<1>1. Q!Init => Queue!Init
  BY DEF Q!Init, Queue!Init
<1>2. Q!Session => Queue!Session
  <2>1. Q!Submit => Queue!Submit
    BY DEF Q!Submit, Queue!Submit, Q!Enqueue, Queue!Enqueue
  <2>2. Q!DiscardPending => Queue!DiscardPending
    BY DEF Q!DiscardPending, Queue!DiscardPending
  <2>3. Q!Start \/ Q!Cancel \/ Q!NewSession => Queue!Start \/ Queue!Cancel \/ Queue!NewSession
    BY DEF Q!Start, Queue!Start, Q!Cancel, Queue!Cancel, Q!NewSession, Queue!NewSession
  <2> QED
    BY <2>1, <2>2, <2>3 DEF Q!Session, Queue!Session
<1>3. Q!Stop \/ Q!GetJob => Queue!Stop \/ Queue!GetJob
  BY DEF Q!Stop, Queue!Stop, Q!GetJob, Queue!GetJob
<1>4. /\ Q!RunnerSame => Queue!RunnerSame
      /\ \A res, pub : Q!LoopTop(res, pub) => Queue!LoopTop(res, pub)
  BY DEF Q!RunnerSame, Queue!RunnerSame, Q!LoopTop, Queue!LoopTop
<1>5. /\ \A answer : Q!FinishUnpublished(answer) => Queue!FinishUnpublished(answer)
      /\ \A delivery : Q!FinishPublished(delivery) => Queue!FinishPublished(delivery)
  BY <1>4 DEF Q!FinishUnpublished, Queue!FinishUnpublished, Q!FinishPublished,
              Queue!FinishPublished
<1>6. Q!Runner => Queue!Runner
  <2> USE <1>4, <1>5
  <2>1. Q!RunnerStarts \/ Q!RunnerExits => Queue!RunnerStarts \/ Queue!RunnerExits
    BY DEF Q!RunnerStarts, Queue!RunnerStarts, Q!RunnerExits, Queue!RunnerExits
  <2>2. Q!RunnerTakes \/ Q!RunnerStops => Queue!RunnerTakes \/ Queue!RunnerStops
    BY DEF Q!RunnerTakes, Queue!RunnerTakes, Q!RunnerStops, Queue!RunnerStops
  <2>3. Q!RunnerConsumes => Queue!RunnerConsumes
    BY DEF Q!RunnerConsumes, Queue!RunnerConsumes
  <2>4. Q!RunnerRecognizes => Queue!RunnerRecognizes
    BY DEF Q!RunnerRecognizes, Queue!RunnerRecognizes, Q!RunnerFails, Queue!RunnerFails
  <2>5. Q!RunnerPublishes => Queue!RunnerPublishes
    BY DEF Q!RunnerPublishes, Queue!RunnerPublishes, Q!LastAttempt, Queue!LastAttempt
  <2>6. Q!RunnerRetries \/ Q!RunnerUnblocks => Queue!RunnerRetries \/ Queue!RunnerUnblocks
    BY DEF Q!RunnerRetries, Queue!RunnerRetries, Q!RunnerUnblocks, Queue!RunnerUnblocks,
           Q!WaitEnds, Queue!WaitEnds
  <2>7. Q!RunnerCancelled => Queue!RunnerCancelled
    BY DEF Q!RunnerCancelled, Queue!RunnerCancelled
  <2> QED
    BY <2>1, <2>2, <2>3, <2>4, <2>5, <2>6, <2>7 DEF Q!Runner, Queue!Runner
<1>7. [Q!Next]_(Q!vars) => [Queue!Next]_(Queue!vars)
  BY <1>2, <1>3, <1>6 DEF Q!Next, Queue!Next, Q!vars, Queue!vars
<1> QED
  BY <1>1, <1>7, PTL DEF Q!Spec, Queue!Spec

\* The worker's steps on the queue are the queue's own, so that what is proved of
\* the queue alone holds of it beside the worker.
LEMMA QueueUsed == Spec => Q!Spec
<1>1. Init => Q!Init
  BY DEF Init
<1>2. ASSUME [Next]_vars PROVE [Q!Next]_(Q!vars)
  <2> USE DEF Q!vars, Q!futures, Q!taskVars, queueVars, Alone
  <2>1. CASE Begin \/ End \/ StartSource
    BY <2>1 DEF Begin, End, StartSource, Q!Next, Q!Session
  <2>2. CASE ReadForWake \/ Capture
    BY <2>2 DEF ReadForWake, Capture, Complete, Q!Next, Q!Session
  <2>3. CASE SessionFails \/ Detect \/ DetectStops \/ Expire \/ Associate
    BY <2>3 DEF SessionFails, Detect, DetectStops, Expire, Associate
  <2>4. CASE TakeResult \/ Transcribe \/ Publish \/ PublishAgain \/ AwaitPublished
    BY <2>4 DEF TakeResult, Transcribe, Publish, PublishAgain, AwaitPublished
  <2>5. CASE Close \/ Join \/ Release
    BY <2>5 DEF Close, Join, Release, Q!Next, Q!Session
  <2>6. CASE Other \/ UNCHANGED vars
    BY <2>6 DEF Other, vars, Q!Next
  <2> QED
    BY <1>2, <2>1, <2>2, <2>3, <2>4, <2>5, <2>6 DEF Next, Worker, Progress
<1> QED
  BY <1>1, <1>2, PTL DEF Spec, Q!Spec

\* The queue's invariants, as the worker needs them.
LEMMA QueueInvariants ==
    ASSUME Queue!IInv, Queue!Kept, Queue!EndsForAReason, Queue!Leftover
    PROVE  QueueServes
<1>1. MaxJobs \in Nat \ {0} /\ MaxAttempts \in Nat \ {0}
  BY WorkerAssumption
<1>2. Queue!TypeOK /\ Queue!Numbering /\ Queue!Holders /\ Queue!NoAbandonedJob
  BY DEF Queue!IInv
<1>3. Q!TypeOK
  BY <1>2 DEF Q!TypeOK, Queue!TypeOK, Q!Jobs, Queue!Jobs, Q!NoJob, Queue!NoJob,
              Q!Results, Queue!Results, Q!Answers, Queue!Answers, Q!Deliveries,
              Queue!Deliveries, Q!RunnerStates, Queue!RunnerStates
<1>4. runner = "absent" => submitted = 0 /\ queue = <<>>
  BY <1>2 DEF Queue!Holders, Queue!Numbering, Queue!Jobs
<1>5. /\ runner = "ended" => stop \/ cancelled
      /\ runner = "ended" /\ ~cancelled => got = Q!NoJob /\ current = Q!NoJob
  BY <1>2 DEF Queue!EndsForAReason, Queue!Holders, Queue!TypeOK, Queue!Busy,
              Queue!NoJob, Q!NoJob
<1>6. \A j \in Segments : result[j] \in Queue!Results
  BY <1>2 DEF Queue!TypeOK, Queue!Jobs, Segments
<1>7. /\ \A j \in Segments : j <= submitted => result[j] # "unsent"
      /\ ~stop /\ ~cancelled => \A j \in Segments : result[j] = "dropped" => j < submitted
  BY <1>6 DEF Queue!Kept, Queue!Closing, Queue!Fates, Queue!Fate, Queue!Jobs, Segments
<1>8. ~cancelled => \A j \in Segments : result[j] = "pending" => j \in Q!Held
  BY <1>2 DEF Queue!NoAbandonedJob, Queue!Held, Q!Held, Queue!Queued, Q!Queued,
              Queue!NoJob, Q!NoJob, Queue!Jobs, Segments
<1>9. get_task # "none" => runner = "waiting" \/ (cancelled /\ runner = "ended")
  BY <1>2 DEF Queue!Holders
<1>10. /\ got # NoSegment => got \in Q!Unresolved
       /\ \A i, j \in Q!Unresolved \ Q!Queued : i = j
  BY DEF Queue!Leftover, Queue!Unresolved, Q!Unresolved, Queue!Queued, Q!Queued,
         Queue!NoJob, NoSegment, Queue!Jobs, Q!Jobs
<1> QED
  BY <1>3, <1>4, <1>5, <1>7, <1>8, <1>9, <1>10 DEF QueueServes

\* The worker's queue keeps what TranscriptQueue's proofs promise a submitter.
LEMMA QueueReliable == Spec => []QueueServes
<1>1. MaxJobs \in Nat \ {0} /\ MaxAttempts \in Nat \ {0}
  BY WorkerAssumption
<1>2. Queue!Spec => [](Queue!IInv /\ Queue!Kept /\ Queue!EndsForAReason /\ Queue!Leftover)
  BY <1>1, Queue!SubmitterServed
<1>3. Queue!IInv /\ Queue!Kept /\ Queue!EndsForAReason /\ Queue!Leftover => QueueServes
  BY QueueInvariants
<1> QED
  BY <1>2, <1>3, QueueUsed, SameQueue, PTL

-----------------------------------------------------------------------------
(* The inductive invariant                                                 *)

\* The bounds, as facts to cite.
LEMMA Bounds ==
    /\ MaxJobs \in Nat \ {0}
    /\ 0 \in 0 .. MaxJobs
    /\ 0 \in 0 .. MaxChunks - 1
  BY WorkerAssumption

\* Nothing has been started.
LEMMA InitIInv == Init => IInv
<1> SUFFICES ASSUME Init PROVE IInv
  OBVIOUS
<1>1. WorkerTypes
  BY Bounds DEF Init, WorkerTypes, MainStates, Returns, NoSegment
<1>2. Resources /\ Association /\ NoBusyLoop
  BY DEF Init, Q!Init, Resources, Association, NoBusyLoop, Resting, NoSegment
<1> QED
  BY <1>1, <1>2 DEF IInv

\* A session begins with everything closed, or its detectors cannot be built;
\* the stop event ends the loop.
LEMMA BeginStep == ASSUME IInv, Begin \/ End PROVE IInv'
<1>1. WorkerTypes'
  BY Bounds DEF Begin, End, Alone, IInv, WorkerTypes, MainStates, Returns, NoSegment
<1>2. Resources'
  BY DEF Begin, End, Alone, queueVars, Q!NewSession, IInv, Resources, Resting
<1>3. Association'
  BY DEF Begin, End, Alone, queueVars, Q!NewSession, IInv, Association, NoSegment
<1>4. NoBusyLoop'
  BY DEF Begin, End, NoBusyLoop
<1> QED
  BY <1>1, <1>2, <1>3, <1>4 DEF IInv

\* The source starts, and with it the runner, or the session fails.
LEMMA StartSourceStep == ASSUME IInv, StartSource PROVE IInv'
<1>1. WorkerTypes'
  BY DEF StartSource, Return, IInv, WorkerTypes, MainStates, Returns
<1>2. Resources'
  BY DEF StartSource, Return, queueVars, Q!Start, IInv, Resources, Resting
<1>3. Association'
  BY DEF StartSource, Return, queueVars, Q!Start, IInv, Association
<1>4. NoBusyLoop'
  BY DEF StartSource, Return, NoBusyLoop
<1> QED
  BY <1>1, <1>2, <1>3, <1>4 DEF IInv

\* A chunk through the collector keeps the open segment within its bound.
LEMMA CollectorBounded ==
    ASSUME open \in 0 .. MaxChunks - 1, Listen \/ Discard
    PROVE  open' \in 0 .. MaxChunks - 1
  BY WorkerAssumption DEF Listen, Discard

\* A completed segment is numbered as the queue numbers it.
LEMMA CompletedNumber ==
    ASSUME IInv, heard < MaxJobs, heard' = heard + 1, UNCHANGED transcripts,
           IF transcripts THEN Q!Submit ELSE UNCHANGED queueVars
    PROVE  /\ heard' \in 0 .. MaxJobs /\ heard' \in Segments
           /\ transcripts' => heard' = submitted'
           /\ UNCHANGED <<stop, cancelled, runner>>
<1>1. heard \in 0 .. MaxJobs /\ MaxJobs \in Nat
  BY WorkerAssumption DEF IInv, WorkerTypes
<1> QED
  BY <1>1 DEF IInv, Association, Q!Submit, Q!taskVars, queueVars, Segments

\* Reading under the wake detector.
LEMMA ReadStep == ASSUME IInv, ReadForWake PROVE IInv'
<1>1. main = "detecting" /\ UNCHANGED <<main, source, chosen, ret, transcripts>>
  BY DEF ReadForWake
<1>2. CASE Complete
  <2>1. /\ heard' \in 0 .. MaxJobs
        /\ transcripts' => heard' = submitted'
        /\ UNCHANGED <<stop, cancelled, runner>>
    BY <1>1, <1>2, CompletedNumber DEF Complete
  <2>2. open' = 0 /\ last' = heard' /\ fresh' = TRUE
    BY <1>2 DEF Complete
  <2> QED
    BY <1>1, <2>1, <2>2, Bounds DEF IInv, WorkerTypes, Resources, Association,
                                    NoBusyLoop, Resting
<1>3. CASE (Listen \/ Discard) /\ UNCHANGED <<heard, last, fresh, queueVars>>
  <2>1. open' \in 0 .. MaxChunks - 1
    BY <1>3, CollectorBounded DEF IInv, WorkerTypes
  <2> QED
    BY <1>1, <1>3, <2>1 DEF IInv, WorkerTypes, Resources, Association, NoBusyLoop,
                            Resting, queueVars
<1> QED
  BY <1>2, <1>3 DEF ReadForWake

\* Steps of the worker that leave the collector and the queue alone and neither
\* reach nor leave a state the invariant speaks of, but to close.
LEMMA QuietStep ==
    ASSUME IInv, main \notin Resting \cup {"starting", "joining", "releasing"},
           main' \in MainStates \ (Resting \cup {"starting", "joining", "releasing", "awaitResult"}),
           ret' \in Returns, main' = "closing" /\ ret' = "none" => stop,
           last' \in {last, NoSegment}, chosen' \in {chosen, NoSegment},
           UNCHANGED <<queueVars, source, open, heard, fresh, transcripts>>
    PROVE  IInv'
<1>1. WorkerTypes'
  BY DEF IInv, WorkerTypes
<1>2. Resources' /\ Association' /\ NoBusyLoop'
  BY DEF IInv, Resources, Association, NoBusyLoop, queueVars, Resting
<1> QED
  BY <1>1, <1>2 DEF IInv

\* The way from the detector to the capture and from the command to the broker,
\* with every early end.
LEMMA SessionStep ==
    ASSUME IInv,
           \/ SessionFails \/ Detect \/ DetectStops
           \/ TakeResult \/ Transcribe \/ Publish \/ PublishAgain \/ AwaitPublished
    PROVE  IInv'
<1> USE DEF MainStates, Returns, Resting, Alone
<1>1. CASE SessionFails \/ Detect \/ DetectStops
  BY <1>1, QuietStep DEF SessionFails, Detect, DetectStops, Return, IInv, WorkerTypes
<1>2. CASE TakeResult
  BY <1>2, QuietStep DEF TakeResult, Return, GiveUp, Command, IInv, WorkerTypes
<1>3. CASE Transcribe
  BY <1>3, QuietStep DEF Transcribe, Return, Command, IInv, WorkerTypes
<1>4. CASE Publish \/ PublishAgain \/ AwaitPublished
  BY <1>4, QuietStep DEF Publish, PublishAgain, AwaitPublished, Return, IInv, WorkerTypes
<1> QED
  BY <1>1, <1>2, <1>3, <1>4

\* The end of the association's grace changes nothing else.
LEMMA ExpireStep == ASSUME IInv, Expire PROVE IInv'
<1>1. UNCHANGED <<queueVars, main, source, open, heard, last, chosen, ret, transcripts>>
      /\ fresh' = FALSE
  BY DEF Expire, Alone
<1> QED
  BY <1>1 DEF IInv, WorkerTypes, Resources, Association, NoBusyLoop, queueVars

\* What becomes of an association: the worker awaits a result only of a segment,
\* and only as long as the gateway goes on.
LEMMA ProceedFacts ==
    ASSUME NEW segment, NEW lastCompleted, Proceed(segment, lastCompleted), ret \in Returns
    PROVE  /\ chosen' = segment /\ last' = lastCompleted
           /\ main' \in {"awaitPublished", "awaitResult", "transcribing", "closing"}
           /\ ret' \in Returns
           /\ main' = "closing" => ret' # "none"
           /\ main' = "awaitResult" => segment # NoSegment /\ ~stop /\ transcripts
  BY DEF Proceed, GiveUp, Return, Returns

\* The worker goes on with the newest segment or with none.
LEMMA AssociatedStep ==
    ASSUME IInv, QueueServes, main \in {"detected", "capturing"},
           NEW segment \in {NoSegment, heard'}, NEW lastCompleted \in {NoSegment, heard'},
           Proceed(segment, lastCompleted),
           open' \in 0 .. MaxChunks - 1, heard' \in 0 .. MaxJobs, fresh' \in BOOLEAN,
           transcripts' => heard' = submitted',
           UNCHANGED <<source, stop, cancelled, runner, transcripts>>
    PROVE  IInv'
<1>1. /\ chosen' = segment /\ last' = lastCompleted
      /\ main' \in {"awaitPublished", "awaitResult", "transcribing", "closing"}
      /\ ret' \in Returns
      /\ main' = "closing" => ret' # "none"
      /\ main' = "awaitResult" => segment # NoSegment /\ ~stop /\ transcripts
  BY ProceedFacts DEF IInv, WorkerTypes
<1>2. heard' \in Segments \cup {NoSegment}
  BY Bounds DEF Segments, NoSegment
<1>3. WorkerTypes'
  BY <1>1, <1>2 DEF IInv, WorkerTypes, MainStates
<1>4. Resources' /\ NoBusyLoop' /\ ~cancelled
  BY <1>1 DEF IInv, Resources, NoBusyLoop, Resting
<1>5. main' = "awaitResult" => runner' # "ended"
  BY <1>1, <1>4 DEF QueueServes
<1>6. Association'
  BY <1>1, <1>5 DEF Association
<1> QED
  BY <1>3, <1>4, <1>6 DEF IInv

\* The detection is associated with the last segment, or an open one is captured.
LEMMA AssociateStep == ASSUME IInv, QueueServes, Associate PROVE IInv'
<1>1. /\ main = "detected"
      /\ UNCHANGED <<source, open, heard, fresh, transcripts, queueVars>>
  BY DEF Associate, Alone
<1>2. CASE main' = "capturing" /\ last' = NoSegment /\ UNCHANGED <<chosen, ret>>
  BY <1>1, <1>2, QuietStep DEF IInv, WorkerTypes, MainStates, Resting
<1>3. ASSUME NEW segment \in {NoSegment, heard}, NEW lastCompleted \in {NoSegment, heard},
             Proceed(segment, lastCompleted)
      PROVE  IInv'
  BY <1>1, <1>3, AssociatedStep DEF IInv, WorkerTypes, Association, queueVars
<1>4. CASE open = 0 /\ Proceed(IF fresh THEN last ELSE NoSegment, last)
  <2>1. last \in {NoSegment, heard}
    BY DEF IInv, Association
  <2> QED
    BY <1>3, <1>4, <2>1
<1>5. CASE Proceed(NoSegment, NoSegment)
  BY <1>3, <1>5
<1> QED
  BY <1>2, <1>4, <1>5 DEF Associate

\* One chunk of the capture: the open segment grows, or its end is associated.
LEMMA CaptureStep == ASSUME IInv, QueueServes, Capture PROVE IInv'
<1>1. main = "capturing" /\ UNCHANGED <<source, transcripts>>
  BY DEF Capture
<1>2. CASE Listen /\ UNCHANGED <<main, last, chosen, ret, heard, fresh, queueVars>>
  <2>1. open' \in 0 .. MaxChunks - 1
    BY <1>2, CollectorBounded DEF IInv, WorkerTypes
  <2> QED
    BY <1>1, <1>2, <2>1 DEF IInv, WorkerTypes, Resources, Association, NoBusyLoop,
                            Resting, queueVars
<1>3. CASE /\ Listen \/ Discard
           /\ Proceed(NoSegment, NoSegment)
           /\ UNCHANGED <<heard, fresh, queueVars>>
  <2>1. open' \in 0 .. MaxChunks - 1
    BY <1>3, CollectorBounded DEF IInv, WorkerTypes
  <2>2. /\ UNCHANGED <<stop, cancelled, runner, submitted>>
        /\ heard' \in 0 .. MaxJobs /\ fresh' \in BOOLEAN
        /\ transcripts' => heard' = submitted'
    BY <1>1, <1>3 DEF IInv, WorkerTypes, Association, queueVars
  <2> QED
    BY <1>1, <1>3, <2>1, <2>2, AssociatedStep
<1>4. CASE /\ heard < MaxJobs
           /\ open' = 0
           /\ heard' = heard + 1
           /\ fresh' = TRUE
           /\ Proceed(heard', heard')
           /\ IF transcripts THEN Q!Submit ELSE UNCHANGED queueVars
  BY <1>1, <1>4, CompletedNumber, AssociatedStep, Bounds
<1> QED
  BY <1>2, <1>3, <1>4 DEF Capture

\* The end of a session: the runner is cancelled, its queue emptied once it is
\* gone, and the source closed.
LEMMA EndStep == ASSUME IInv, QueueServes, Close \/ Join \/ Release PROVE IInv'
<1>1. CASE Close
  <2>1. /\ main = "closing" /\ main' \in {"releasing", "joining"} /\ open' = 0
        /\ UNCHANGED <<source, heard, last, fresh, chosen, ret, transcripts,
                       stop, submitted, queue, runner>>
        /\ main' = "releasing" => runner = "absent"
    BY <1>1 DEF Close, Q!Cancel, Q!futures, Q!taskVars, queueVars
  <2>2. WorkerTypes'
    BY <2>1, Bounds DEF IInv, WorkerTypes, MainStates
  <2>3. Resources' /\ Association' /\ NoBusyLoop'
    BY <2>1 DEF IInv, QueueServes, Resources, Association, NoBusyLoop, Resting
  <2> QED
    BY <2>2, <2>3 DEF IInv
<1>2. CASE Join
  <2>1. /\ main = "joining" /\ main' = "releasing" /\ queue' = <<>> /\ runner' = "ended"
        /\ UNCHANGED <<source, open, heard, last, fresh, chosen, ret, transcripts,
                       stop, submitted>>
    BY <1>2 DEF Join, Q!DiscardPending, Q!taskVars
  <2> QED
    BY <2>1 DEF IInv, WorkerTypes, MainStates, Resources, Association, NoBusyLoop, Resting
<1>3. CASE Release
  <2>1. /\ main = "releasing" /\ main' \in {"stopped", "idle", "sleeping"}
        /\ source' = "closed"
        /\ UNCHANGED <<open, heard, last, fresh, chosen, ret, transcripts, queueVars>>
    BY <1>3 DEF Release, Alone
  <2> QED
    BY <2>1 DEF IInv, WorkerTypes, MainStates, Resources, Association, NoBusyLoop, Resting,
                queueVars
<1> QED
  BY <1>1, <1>2, <1>3

\* A step of the runner: there is one, and if it ends uncancelled it leaves an
\* empty queue.
LEMMA RunnerFacts ==
    ASSUME Q!Runner
    PROVE  /\ runner \notin {"absent", "ended"}
           /\ UNCHANGED <<stop, submitted, cancelled>>
           /\ runner' = "ended" => cancelled \/ queue' = <<>>
<1>1. ASSUME NEW res, NEW pub, Q!LoopTop(res, pub)
      PROVE  runner' = "ended" => queue' = <<>>
  BY <1>1 DEF Q!LoopTop
<1> USE DEF Q!RunnerSame
<1>2. CASE Q!RunnerStarts \/ Q!RunnerTakes \/ Q!RunnerStops \/ Q!RunnerExits
  BY <1>1, <1>2 DEF Q!RunnerStarts, Q!RunnerTakes, Q!RunnerStops, Q!RunnerExits
<1>3. CASE Q!RunnerConsumes \/ Q!RunnerRecognizes
  BY <1>1, <1>3 DEF Q!RunnerConsumes, Q!RunnerRecognizes, Q!RunnerFails, Q!FinishUnpublished
<1>4. CASE Q!RunnerPublishes \/ Q!RunnerRetries \/ Q!RunnerUnblocks
  BY <1>1, <1>4 DEF Q!RunnerPublishes, Q!RunnerRetries, Q!RunnerUnblocks, Q!FinishPublished
<1>5. CASE Q!RunnerCancelled
  BY <1>5 DEF Q!RunnerCancelled
<1> QED
  BY <1>2, <1>3, <1>4, <1>5 DEF Q!Runner

\* The stop event, get_task and the runner beside the worker.
LEMMA OtherStep == ASSUME IInv, Other PROVE IInv'
<1>1. UNCHANGED <<main, source, open, heard, last, fresh, chosen, ret, transcripts>>
  BY DEF Other, workerVars
<1>2. WorkerTypes'
  BY <1>1 DEF IInv, WorkerTypes
<1>3. CASE Q!Stop
  BY <1>1, <1>2, <1>3 DEF Q!Stop, Q!futures, Q!taskVars, IInv, Resources, Association, NoBusyLoop
<1>4. CASE Q!GetJob
  <2>1. queue # <<>> /\ UNCHANGED <<stop, submitted, runner, cancelled>>
    BY <1>4 DEF Q!GetJob
  <2> QED
    BY <1>1, <1>2, <2>1 DEF IInv, Resources, Association, NoBusyLoop
<1>5. CASE Q!Runner
  BY <1>1, <1>2, <1>5, RunnerFacts DEF IInv, Resources, Association, NoBusyLoop, Resting
<1> QED
  BY <1>3, <1>4, <1>5 DEF Other

\* Each step of the worker and beside it keeps the inductive invariant.
LEMMA NextIInv == IInv /\ QueueServes /\ [Next]_vars => IInv'
<1> SUFFICES ASSUME IInv, QueueServes, [Next]_vars PROVE IInv'
  OBVIOUS
<1>1. CASE Begin \/ End \/ StartSource
  BY <1>1, BeginStep, StartSourceStep
<1>2. CASE ReadForWake \/ Expire
  BY <1>2, ReadStep, ExpireStep
<1>3. CASE Associate \/ Capture
  BY <1>3, AssociateStep, CaptureStep
<1>4. CASE \/ SessionFails \/ Detect \/ DetectStops
           \/ TakeResult \/ Transcribe \/ Publish \/ PublishAgain \/ AwaitPublished
  BY <1>4, SessionStep
<1>5. CASE Close \/ Join \/ Release
  BY <1>5, EndStep
<1>6. CASE Other
  BY <1>6, OtherStep
<1>7. CASE UNCHANGED vars
  BY <1>7 DEF vars, queueVars, workerVars, IInv, WorkerTypes, Resources, Association,
              NoBusyLoop
<1> QED
  BY <1>1, <1>2, <1>3, <1>4, <1>5, <1>6, <1>7 DEF Next, Worker, Progress

-----------------------------------------------------------------------------
(* The theorems                                                            *)

\* Every reachable state of the worker satisfies the inductive invariant, and
\* its queue keeps its promises.
THEOREM Invariant == Spec => [](IInv /\ QueueServes)
<1> QED
  BY InitIInv, NextIInv, QueueReliable, PTL DEF Spec

\* The worker's variables and the queue's have their types in every interleaving.
THEOREM TypeCorrect == Spec => []TypeOK
<1>1. IInv /\ QueueServes => TypeOK
  BY Bounds DEF IInv, WorkerTypes, Association, QueueServes, TypeOK, Segments, NoSegment
<1> QED
  BY <1>1, Invariant, PTL

\* The result the worker waits for without a timeout always has somebody who
\* works on it, whatever the runner, its failures and the stop event do.
THEOREM ResultIsServed == Spec => []AwaitedJobIsServed
<1>1. ASSUME IInv, QueueServes PROVE AwaitedJobIsServed
  <2> SUFFICES ASSUME main = "awaitResult" 
               PROVE  /\ chosen \in Segments
                      /\ \/ result[chosen] \in Q!Answers
                         \/ /\ chosen \in Q!Held
                            /\ runner \notin {"absent", "ended"}
                            /\ ~cancelled
    BY DEF AwaitedJobIsServed
  <2>1. chosen \in Segments /\ chosen = submitted /\ ~cancelled
    BY <1>1 DEF IInv, WorkerTypes, Association, Resources, Resting, NoSegment
  <2>2. result[chosen] \in Q!Answers \cup {"pending"}
    <3>1. result[chosen] \in Q!Results /\ result[chosen] # "unsent"
      BY <1>1, <2>1 DEF QueueServes, Q!TypeOK, Q!Jobs, Segments
    <3> QED
      BY <3>1 DEF Q!Results
  <2>3. result[chosen] = "pending" => chosen \in Q!Held
    BY <1>1, <2>1 DEF QueueServes
  <2>4. chosen \in Q!Held => runner \notin {"absent", "ended"}
    <3>1. runner = "absent" => submitted = 0
      BY <1>1 DEF QueueServes
    <3>2. runner = "ended" => queue = <<>> /\ got = Q!NoJob /\ current = Q!NoJob
      BY <1>1, <2>1 DEF QueueServes, IInv, Association
    <3>3. queue = <<>> => Q!Queued = {}
      BY DEF Q!Queued
    <3>4. chosen # 0
      BY <2>1 DEF Segments
    <3> QED
      BY <2>1, <3>1, <3>2, <3>3, <3>4 DEF Q!Held
  <2> QED
    BY <2>1, <2>2, <2>3, <2>4
<1> QED
  BY <1>1, Invariant, PTL

\* The segment chosen for a detection is not the one that newer speech drops.
THEOREM CommandKept == Spec => []CommandNotDropped
<1>1. ASSUME IInv, QueueServes PROVE CommandNotDropped
  <2> SUFFICES ASSUME main = "awaitResult", ~stop PROVE result[chosen] # "dropped"
    BY DEF CommandNotDropped
  <2>1. chosen \in Segments /\ chosen = submitted /\ ~cancelled /\ submitted \in Nat
    BY <1>1 DEF IInv, WorkerTypes, Association, Resources, Resting, NoSegment, Segments
  <2> QED
    BY <1>1, <2>1 DEF QueueServes
<1> QED
  BY <1>1, Invariant, PTL

\* Between two sessions ffmpeg, the collector and the runner have ended and the
\* queue is empty; get_task is left only by a cancelled runner, and at most one
\* segment is unanswered, get_task's if it has one.
THEOREM LittleLeft == Spec => []SessionLeavesLittle
<1>1. ASSUME IInv, QueueServes PROVE SessionLeavesLittle
  <2> SUFFICES ASSUME main \in Resting PROVE SessionLeavesLittle
    BY DEF SessionLeavesLittle, Resting
  <2>1. source = "closed" /\ open = 0 /\ runner \in {"absent", "ended"} /\ queue = <<>>
    BY <1>1 DEF IInv, Resources
  <2>2. /\ get_task # "none" => cancelled
        /\ got # NoSegment => got \in Q!Unresolved
    BY <1>1, <2>1 DEF QueueServes
  <2>3. \A i, j \in Q!Unresolved : i = j
    <3>1. Q!Queued = {}
      BY <2>1 DEF Q!Queued
    <3> QED
      BY <1>1, <3>1 DEF QueueServes
  <2> QED
    BY <2>1, <2>2, <2>3 DEF SessionLeavesLittle
<1> QED
  BY <1>1, Invariant, PTL

\* run_forever begins again at once only when the gateway stops.
THEOREM PausesBetweenSessions == Spec => []NoBusyLoop
<1>1. IInv => NoBusyLoop
  BY DEF IInv
<1> QED
  BY <1>1, Invariant, PTL
=============================================================================
