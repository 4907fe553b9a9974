-------------------------- MODULE MicroWakeWorker --------------------------
(***************************************************************************)
(* MicroWakeWordActivationWorker (microwake_worker.py): listen for a wake  *)
(* word on a remote detector, find the speech segment that belongs to the  *)
(* detection, have it transcribed once and publish the command.  With      *)
(* transcript events enabled every segment goes through the                *)
(* LatestTranscriptQueue, whose runner works beside this worker; the       *)
(* worker's steps on it are steps of TranscriptQueue.                      *)
(*                                                                         *)
(* A segment is named by its place in the session.  The collector is       *)
(* reduced to `open', the length of the segment it is collecting, which    *)
(* SpeechSegment bounds.                                                   *)
(***************************************************************************)
EXTENDS Naturals, Sequences, FiniteSets

CONSTANTS
    MaxAttempts, MaxJobs,  \* see TranscriptQueue
    MaxChunks              \* length at which the collector closes a segment

ASSUME WorkerAssumption ==
    /\ MaxAttempts \in Nat \ {0}
    /\ MaxJobs \in Nat \ {0}
    /\ MaxChunks \in Nat \ {0, 1}

VARIABLES
    stop, queue, submitted, dropped_segments, result, published,
    get_task, got, runner, current, attempt, cancelled

queueVars == <<stop, queue, submitted, dropped_segments, result, published,
               get_task, got, runner, current, attempt, cancelled>>

Q == INSTANCE TranscriptQueue

Segments == 1 .. MaxJobs
NoSegment == 0

VARIABLES
    transcripts,  \* transcript_config was given (fixed)
    main,         \* where run_forever and run_once are suspended
    source,       \* whether ffmpeg runs
    open,         \* length of the collector's open segment, 0 if not active
    heard,        \* segments completed in this session
    last,         \* last_completed
    fresh,        \* it was completed within association_grace_seconds
    chosen,       \* the segment associated with the detection
    ret           \* how run_once ends: the processed and wait_seconds it returns

workerVars == <<main, source, open, heard, last, fresh, chosen, ret>>
vars == <<queueVars, workerVars, transcripts>>

\* "cooldown": (True, cooldown_seconds); "retry": (False, retry_after);
\* "none": (False, 0); "error": an exception.
Returns == {"cooldown", "retry", "none", "error"}
MainStates == {"idle", "starting", "detecting", "detected", "capturing",
               "awaitResult", "transcribing", "publish", "publishBackoff",
               "awaitPublished", "closing", "joining", "releasing",
               "sleeping", "stopped"}

Init ==
    /\ Q!Init
    /\ transcripts \in BOOLEAN
    /\ main = "idle"
    /\ source = "closed"
    /\ open = 0
    /\ heard = 0
    /\ last = NoSegment
    /\ fresh = FALSE
    /\ chosen = NoSegment
    /\ ret = "none"

\* A step of the worker alone, which leaves the queue and the event as they are.
Alone == UNCHANGED <<queueVars, transcripts>>

Return(how) ==
    /\ main' = "closing"
    /\ ret' = how

-----------------------------------------------------------------------------
(* run_forever and the beginning of run_once                               *)

\* `while not stop_event.is_set()': a new session, unless its detectors cannot
\* be built.  Nothing has been started then, and nothing is cleaned up.
Begin ==
    /\ main \in {"idle", "sleeping"}
    /\ ~stop
    /\ \/ /\ main' = "starting"
          /\ Q!NewSession
          /\ open' = 0
          /\ heard' = 0
          /\ last' = NoSegment
          /\ fresh' = FALSE
          /\ chosen' = NoSegment
          /\ ret' = "none"
          /\ UNCHANGED <<source, transcripts>>
       \/ /\ main' = "sleeping"
          /\ UNCHANGED <<source, open, heard, last, fresh, chosen, ret>>
          /\ Alone

End ==
    /\ main \in {"idle", "sleeping"}
    /\ stop
    /\ main' = "stopped"
    /\ UNCHANGED <<source, open, heard, last, fresh, chosen, ret>>
    /\ Alone

\* source.start(), then create_task(transcript_queue.run(...)).
StartSource ==
    /\ main = "starting"
    /\ \/ /\ source' = "open"
          /\ main' = "detecting"
          /\ ret' = ret
          /\ IF transcripts THEN Q!Start ELSE UNCHANGED queueVars
       \/ /\ Return("error")
          /\ UNCHANGED <<source, queueVars>>
    /\ UNCHANGED <<open, heard, last, fresh, chosen, transcripts>>

-----------------------------------------------------------------------------
(* Reading                                                                 *)

\* Slip for Listen: the maximum is compared with > instead of >=.
ListenPastMaximum ==
    \/ open = 0 /\ open' \in 0 .. MaxChunks - 1
    \/ open # 0 /\ open + 1 <= MaxChunks /\ open' = open + 1

\* One chunk through the collector.  Speech may open a segment together with
\* its pre-roll, an open one grows, and it is closed at its maximum at the
\* latest.
Listen ==
    \/ open = 0 /\ open' \in 0 .. MaxChunks - 1
    \/ open # 0 /\ open + 1 < MaxChunks /\ open' = open + 1

\* A closed segment was too short or too quiet.
Discard ==
    /\ open # 0
    /\ open' = 0

\* A closed segment is usable.  With transcripts it is submitted at once.
Complete ==
    /\ open # 0
    /\ heard < MaxJobs
    /\ open' = 0
    /\ heard' = heard + 1
    /\ last' = heard'
    /\ fresh' = TRUE
    /\ IF transcripts THEN Q!Submit ELSE UNCHANGED queueVars

\* Slip for ReadForWake: the reader goes on while the command is awaited.
ReadOn ==
    /\ main \in {"detecting", "awaitResult"}
    /\ \/ Complete
       \/ (Listen \/ Discard) /\ UNCHANGED <<heard, last, fresh, queueVars>>
    /\ UNCHANGED <<main, source, chosen, ret, transcripts>>

\* read_for_wake, under the wake detector
ReadForWake ==
    /\ main = "detecting"
    /\ \/ Complete
       \/ (Listen \/ Discard) /\ UNCHANGED <<heard, last, fresh, queueVars>>
    /\ UNCHANGED <<main, source, chosen, ret, transcripts>>

\* The session ends: the source or the wake provider failed.
SessionFails ==
    /\ main \in {"detecting", "capturing"}
    /\ Return("error")
    /\ UNCHANGED <<source, open, heard, last, fresh, chosen>>
    /\ Alone

\* The provider reports a wake word.  detect still has to put its tasks and its
\* connection away before run_once goes on; nothing more is read meanwhile.
Detect ==
    /\ main = "detecting"
    /\ main' = "detected"
    /\ UNCHANGED <<source, open, heard, last, fresh, chosen, ret>>
    /\ Alone

\* detect returns None.
DetectStops ==
    /\ main = "detecting"
    /\ stop
    /\ Return("none")
    /\ UNCHANGED <<source, open, heard, last, fresh, chosen>>
    /\ Alone

\* Time passes.
Expire ==
    /\ fresh
    /\ fresh' = FALSE
    /\ UNCHANGED <<main, source, open, heard, last, chosen, ret>>
    /\ Alone

-----------------------------------------------------------------------------
(* From the detection to the command                                       *)

\* No segment belongs to the detection, or the gateway stops.
GiveUp(lastCompleted) ==
    IF transcripts /\ lastCompleted # NoSegment
    THEN main' = "awaitPublished" /\ ret' = ret
    ELSE Return("cooldown")

\* Slip for Proceed: the stop event is not looked at before the await.
ProceedRegardless(segment, lastCompleted) ==
    /\ chosen' = segment
    /\ last' = lastCompleted
    /\ \/ /\ segment = NoSegment
          /\ GiveUp(lastCompleted)
       \/ /\ segment # NoSegment
          /\ main' = IF transcripts THEN "awaitResult" ELSE "transcribing"
          /\ ret' = ret

\* The association is decided: go on to the next await.  Without transcripts
\* the worker charges the budget itself, which may refuse or fail.
Proceed(segment, lastCompleted) ==
    /\ chosen' = segment
    /\ last' = lastCompleted
    /\ \/ /\ segment = NoSegment \/ stop
          /\ GiveUp(lastCompleted)
       \/ /\ segment # NoSegment
          /\ ~stop
          /\ transcripts
          /\ main' = "awaitResult"
          /\ ret' = ret
       \/ /\ segment # NoSegment
          /\ ~stop
          /\ ~transcripts
          /\ \/ main' = "transcribing" /\ ret' = ret
             \/ \E how \in {"retry", "error"} : Return(how)

\* An open segment is captured to its end; otherwise the last one counts if it
\* is recent enough.
Associate ==
    /\ main = "detected"
    /\ \/ /\ open # 0
          /\ ~stop
          /\ main' = "capturing"
          /\ last' = NoSegment
          /\ UNCHANGED <<chosen, ret>>
       \/ /\ open # 0
          /\ stop
          /\ Proceed(NoSegment, NoSegment)
       \/ /\ open = 0
          /\ Proceed(IF fresh THEN last ELSE NoSegment, last)
    /\ UNCHANGED <<source, open, heard, fresh>>
    /\ Alone

\* One chunk of the capture loop, which looks at the stop event before each
\* read and not after it.
Capture ==
    /\ main = "capturing"
    /\ \/ /\ Listen
          /\ ~stop
          /\ UNCHANGED <<main, last, chosen, ret, heard, fresh, queueVars>>
       \/ /\ Listen
          /\ stop
          /\ Proceed(NoSegment, NoSegment)
          /\ UNCHANGED <<heard, fresh, queueVars>>
       \/ /\ Discard
          /\ Proceed(NoSegment, NoSegment)
          /\ UNCHANGED <<heard, fresh, queueVars>>
       \/ /\ open # 0
          /\ heard < MaxJobs
          /\ open' = 0
          /\ heard' = heard + 1
          /\ fresh' = TRUE
          /\ Proceed(heard', heard')
          /\ IF transcripts THEN Q!Submit ELSE UNCHANGED queueVars
    /\ UNCHANGED <<source, transcripts>>

\* Slip for Command: a rejected command returns (False, 0).
CommandOrNothing ==
    \/ IF stop THEN Return("none") ELSE main' = "publish" /\ ret' = ret
    \/ Return("none")

\* command_from_transcript and the length check: a command, or nothing fit to
\* be one.
Command ==
    \/ IF stop THEN Return("none") ELSE main' = "publish" /\ ret' = ret
    \/ Return("cooldown")

\* The awaited result future is done.
TakeResult ==
    /\ main = "awaitResult"
    /\ result[chosen] \in Q!Answers
    /\ \/ result[chosen] = "denied" /\ Return("retry")
       \/ result[chosen] # "denied" /\ stop /\ GiveUp(last)
       \/ result[chosen] \in {"dropped", "failed", "empty"} /\ ~stop /\ Return("cooldown")
       \/ result[chosen] = "text" /\ ~stop /\ Command
    /\ UNCHANGED <<source, open, heard, last, fresh, chosen>>
    /\ Alone

\* Without transcripts: the worker's own STT request ends.
Transcribe ==
    /\ main = "transcribing"
    /\ Command \/ Return("error")
    /\ UNCHANGED <<source, open, heard, last, fresh, chosen>>
    /\ Alone

\* The activation is published, as often as it takes.
Publish ==
    /\ main = "publish"
    /\ \/ /\ stop
          /\ Return("none")
       \/ /\ ~stop
          /\ IF transcripts THEN main' = "awaitPublished" /\ ret' = ret
                            ELSE Return("cooldown")
       \/ main' = "publishBackoff" /\ ret' = ret
    /\ UNCHANGED <<source, open, heard, last, fresh, chosen>>
    /\ Alone

\* Slip for PublishAgain: `while True'.
PublishRegardless ==
    /\ main = "publishBackoff"
    /\ main' = "publish"
    /\ UNCHANGED <<source, open, heard, last, fresh, chosen, ret>>
    /\ Alone

PublishAgain ==
    /\ main = "publishBackoff"
    /\ IF stop THEN Return("none") ELSE main' = "publish" /\ ret' = ret
    /\ UNCHANGED <<source, open, heard, last, fresh, chosen>>
    /\ Alone

\* Slip for AwaitPublished: no timeout.
AwaitPublishedForever ==
    /\ main = "awaitPublished"
    /\ published[last] # "pending"
    /\ Return("cooldown")
    /\ UNCHANGED <<source, open, heard, last, fresh, chosen>>
    /\ Alone

\* The transcript event gets one second more: whether it is out or not, the
\* session ends.
AwaitPublished ==
    /\ main = "awaitPublished"
    /\ Return("cooldown")
    /\ UNCHANGED <<source, open, heard, last, fresh, chosen>>
    /\ Alone

-----------------------------------------------------------------------------
(* The end of run_once                                                     *)

\* collector.reset() and transcript_task.cancel(), if there is such a task.
Close ==
    /\ main = "closing"
    /\ open' = 0
    /\ IF runner = "absent"
       THEN main' = "releasing" /\ UNCHANGED queueVars
       ELSE main' = "joining" /\ Q!Cancel
    /\ UNCHANGED <<source, heard, last, fresh, chosen, ret, transcripts>>

\* Slip for Join: pending jobs are discarded before the task has ended.
JoinAtOnce ==
    /\ main = "joining"
    /\ queue' = <<>>
    /\ Q!Drop(Q!Queued)
    /\ main' = "releasing"
    /\ UNCHANGED <<stop, submitted, dropped_segments, get_task, got, runner,
                   current, attempt, cancelled>>
    /\ UNCHANGED <<source, open, heard, last, fresh, chosen, ret, transcripts>>

\* The task is gone: discard_pending().
Join ==
    /\ main = "joining"
    /\ Q!DiscardPending
    /\ main' = "releasing"
    /\ UNCHANGED <<source, open, heard, last, fresh, chosen, ret, transcripts>>

\* source.close(), and back in run_forever.
Release ==
    /\ main = "releasing"
    /\ source' = "closed"
    /\ main' = IF stop THEN "stopped" ELSE IF ret = "none" THEN "idle" ELSE "sleeping"
    /\ UNCHANGED <<open, heard, last, fresh, chosen, ret>>
    /\ Alone

-----------------------------------------------------------------------------

\* The steps the worker takes by itself sooner or later: a timer, a timeout or
\* the stop event ends each of these waits.
Progress ==
    \/ Begin \/ End \/ StartSource \/ DetectStops \/ Associate \/ Capture
    \/ TakeResult \/ Transcribe \/ Publish \/ PublishAgain \/ AwaitPublished
    \/ Close \/ Join \/ Release

Worker == Progress \/ ReadForWake \/ SessionFails \/ Detect \/ Expire

Other == (Q!Stop \/ Q!GetJob \/ Q!Runner) /\ UNCHANGED <<workerVars, transcripts>>

Next == Worker \/ Other

Spec == Init /\ [][Next]_vars

FairSpec ==
    /\ Spec
    /\ WF_vars(Progress)
    /\ WF_vars(Q!GetJob /\ UNCHANGED <<workerVars, transcripts>>)
    /\ WF_vars(Q!Runner /\ UNCHANGED <<workerVars, transcripts>>)

-----------------------------------------------------------------------------
(* Properties                                                              *)

\* Every variable of the worker has its type.
TypeOK ==
    /\ Q!TypeOK
    /\ transcripts \in BOOLEAN
    /\ main \in MainStates
    /\ source \in {"open", "closed"}
    /\ open \in 0 .. MaxChunks - 1
    /\ heard \in 0 .. MaxJobs
    /\ last \in Segments \cup {NoSegment}
    /\ fresh \in BOOLEAN
    /\ chosen \in Segments \cup {NoSegment}
    /\ ret \in Returns

\* The worker waits without a timeout for the result of the segment it chose.
\* Somebody always works on it: the future is done, or the job is queued, in
\* get_task's hands or in the runner's, and the runner lives.
AwaitedJobIsServed ==
    main = "awaitResult" =>
        /\ chosen \in Segments
        /\ \/ result[chosen] \in Q!Answers
           \/ /\ chosen \in Q!Held
              /\ runner \notin {"absent", "ended"}
              /\ ~cancelled

\* The spoken command is never the segment that is dropped for newer speech:
\* only a stopping gateway may drop a segment the worker has chosen.
CommandNotDropped ==
    main = "awaitResult" /\ ~stop => result[chosen] # "dropped"

\* Between two sessions, and after the last one, ffmpeg is stopped, the collector
\* is closed, the runner is gone and the queue is empty.  A session that cancels
\* its runner may leave get_task behind and at most one segment unanswered: the
\* job in get_task's hands, if it has one.  Every other segment has its answers.
SessionLeavesLittle ==
    main \in {"idle", "sleeping", "stopped"} =>
        /\ source = "closed"
        /\ open = 0
        /\ runner \in {"absent", "ended"}
        /\ queue = <<>>
        /\ get_task # "none" => cancelled
        /\ got # NoSegment => got \in Q!Unresolved
        /\ \A i, j \in Q!Unresolved : i = j

\* run_forever goes round without a pause only on its way out.
NoBusyLoop == main \in {"closing", "joining", "releasing"} /\ ret = "none" => stop

\* A stop event ends the worker, whatever it is doing.
StopsEventually == stop ~> main = "stopped"

\* No activation turn hangs: the worker always returns to listening, stops, or
\* keeps offering the command to the broker.
ListensAgain == []<>(main \in {"detecting", "publish", "stopped", "sleeping"})

\* README.md 170: transcript delivery "is allowed to drop rather than block
\* wake activation".  The worker never waits for its command while the runner
\* sits between two attempts to deliver some other segment's transcript.
NotBlockedByDelivery ==
    main = "awaitResult" /\ result[chosen] = "pending" => runner # "backoff"
=============================================================================
