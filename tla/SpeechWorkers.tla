--------------------------- MODULE SpeechWorkers ---------------------------
(***************************************************************************)
(* The three workers whose session is one turn after another, without a    *)
(* second task: HaSttWorker (stt_worker.py), with or without transcript    *)
(* events, AmbientTranscriptWorker (transcript.py) and PassiveCanaryWorker *)
(* (worker.py).  `mode' says which of them main.py has built.              *)
(*                                                                         *)
(* Each opens the microphone, waits for speech or a wake word, handles it, *)
(* closes the microphone and pauses.  The collector, the budget and the    *)
(* event queue have modules of their own; here they answer as they may.    *)
(***************************************************************************)
EXTENDS Naturals

CONSTANTS
    MaxAttempts,     \* TranscriptEventPublisher.attempts
    maximum_backoff, \* in units of minimum_backoff
    MaxFailures      \* bound of the model: the history stops counting here

PowerOfTwo[n \in Nat] == IF n = 0 THEN 1 ELSE 2 * PowerOfTwo[n - 1]

\* The history counts at least until the pause has reached its maximum.
ASSUME WorkersAssumption ==
    /\ MaxAttempts \in Nat \ {0}
    /\ maximum_backoff \in Nat \ {0}
    /\ MaxFailures \in Nat \ {0}
    /\ PowerOfTwo[MaxFailures - 1] >= maximum_backoff

VARIABLES
    mode,            \* "canary", "stt", "both" (stt with events) or "ambient"
    stop,            \* stop_event
    main,            \* where run_forever and run_once are suspended
    ret,             \* what run_once returns, or "error"
    backoff,         \* of run_forever
    publish_backoff, \* of the activation under way
    attempt,         \* of the transcript event under way
    activation,      \* the session's command: "none", "due" or "sent"
    event,           \* the session's transcript event, which may be "dropped" too
    failures, tries  \* history: sessions failed in a row, publications failed

turnVars == <<activation, event, publish_backoff, attempt, tries>>
vars == <<mode, stop, main, ret, backoff, turnVars, failures>>

\* "cooldown": (True, cooldown_seconds), True of the canary; "retry": (False,
\* retry_after); "at once": (True, 0) of the ambient worker; "none": (False, 0).
Returns == {"cooldown", "retry", "at once", "none", "error"}
MainStates == {"idle", "starting", "listening", "transcribing", "publish",
               "publishBackoff", "publishEvent", "eventBackoff", "closing",
               "sleeping", "stopped"}

Init ==
    /\ mode \in {"canary", "stt", "both", "ambient"}
    /\ stop = FALSE
    /\ main = "idle"
    /\ ret = "none"
    /\ backoff = 1
    /\ publish_backoff = 1
    /\ attempt = 0
    /\ activation = "none"
    /\ event = "none"
    /\ failures = 0
    /\ tries = 0

AtMost(bound, n) == IF n < bound THEN n ELSE bound

Twice(pause) == AtMost(maximum_backoff, 2 * pause)

Return(how) ==
    /\ main' = "closing"
    /\ ret' = how

-----------------------------------------------------------------------------
(* The microphone                                                          *)

\* FfmpegPcmSource.start, which may fail.
StartSource ==
    /\ main = "starting"
    /\ \/ main' = "listening" /\ ret' = ret
       \/ Return("error")
    /\ UNCHANGED <<mode, stop, backoff, turnVars, failures>>

\* The source ends, a read times out or the detection fails.
SessionFails ==
    /\ main = "listening"
    /\ Return("error")
    /\ UNCHANGED <<mode, stop, backoff, turnVars, failures>>

\* capture_speech_segment returns None: it looks at the stop event before each
\* read, and every read ends within READ_TIMEOUT_SECONDS.
CaptureStops ==
    /\ main = "listening"
    /\ mode # "canary"
    /\ stop
    /\ Return("none")
    /\ UNCHANGED <<mode, stop, backoff, turnVars, failures>>

\* The collector completes a segment, stop or no stop, and the budget answers
\* before the next await.
CaptureSegment ==
    /\ main = "listening"
    /\ mode # "canary"
    /\ \/ main' = "transcribing" /\ ret' = ret
       \/ \E how \in {"retry", "error"} : Return(how)
    /\ UNCHANGED <<mode, stop, backoff, turnVars, failures>>

-----------------------------------------------------------------------------
(* HaSttWorker                                                             *)

\* Publication of the command begins, unless the gateway stops.
Command ==
    /\ activation' = "due"
    /\ IF stop THEN Return("none") ELSE main' = "publish" /\ ret' = ret
    /\ publish_backoff' = 1
    /\ tries' = 0

\* Publication of the transcript event begins, unless the gateway stops.
BeginEvent(how) ==
    IF stop
    THEN Return(how) /\ UNCHANGED attempt
    ELSE main' = "publishEvent" /\ ret' = how /\ attempt' = 1

\* The provider answered.  A transcript that is no command is still an event,
\* if it is not empty and events are wanted.
SttAnswers ==
    /\ mode \in {"stt", "both"}
    /\ \/ /\ event' = IF mode = "both" THEN "due" ELSE "none"
          /\ Command
          /\ UNCHANGED attempt
       \/ /\ mode = "both"
          /\ event' = "due"
          /\ BeginEvent("cooldown")
          /\ UNCHANGED <<activation, publish_backoff, tries>>
       \/ /\ event' = "none"
          /\ Return("cooldown")
          /\ UNCHANGED <<activation, publish_backoff, attempt, tries>>

\* Slip for SttPublished: the event is left out.
SttPublishedOnly ==
    /\ IF stop THEN Return("none") ELSE Return("cooldown")
    /\ UNCHANGED attempt

\* The command is out: the event follows.  A stop event that came meanwhile
\* ends the turn instead.
SttPublished ==
    \/ stop /\ Return("none") /\ UNCHANGED attempt
    \/ ~stop /\ event = "due" /\ BeginEvent("cooldown")
    \/ ~stop /\ event # "due" /\ Return("cooldown") /\ UNCHANGED attempt

\* run_forever pauses for whatever run_once asks.
SttPauses(how) == how \in {"cooldown", "retry"}

-----------------------------------------------------------------------------
(* AmbientTranscriptWorker                                                 *)

AmbientAnswers ==
    /\ mode = "ambient"
    /\ \/ event' = "due" /\ BeginEvent("at once")
       \/ event' = "none" /\ Return("at once") /\ UNCHANGED attempt
    /\ UNCHANGED <<activation, publish_backoff, tries>>

\* Slip for AmbientPauses: `if processed and wait_seconds'.
AmbientNeverPauses(how) == how = "cooldown"

\* Only a denied segment makes the ambient worker pause.
AmbientPauses(how) == how = "retry"

-----------------------------------------------------------------------------
(* PassiveCanaryWorker                                                     *)

DetectStops ==
    /\ main = "listening"
    /\ mode = "canary"
    /\ stop
    /\ Return("none")
    /\ UNCHANGED <<mode, stop, backoff, turnVars, failures>>

\* A detection is published as it is, without a transcription.
Detect ==
    /\ main = "listening"
    /\ mode = "canary"
    /\ Command
    /\ UNCHANGED <<mode, stop, backoff, event, attempt, failures>>

CanaryPublished ==
    /\ IF stop THEN Return("none") ELSE Return("cooldown")
    /\ UNCHANGED attempt

CanaryPauses(how) == how = "cooldown"

-----------------------------------------------------------------------------
(* The turn                                                                *)

TranscribeFails ==
    /\ Return("error")
    /\ UNCHANGED <<activation, event, publish_backoff, attempt, tries>>

Transcribe ==
    /\ main = "transcribing"
    /\ SttAnswers \/ AmbientAnswers \/ TranscribeFails
    /\ UNCHANGED <<mode, stop, backoff, failures>>

\* publisher.publish returns, or raises.
Publish ==
    /\ main = "publish"
    /\ \/ /\ activation' = "sent"
          /\ IF mode = "canary" THEN CanaryPublished ELSE SttPublished
          /\ UNCHANGED tries
       \/ /\ main' = "publishBackoff"
          /\ tries' = AtMost(MaxFailures, tries + 1)
          /\ UNCHANGED <<activation, attempt, ret>>
    /\ UNCHANGED <<mode, stop, backoff, publish_backoff, event, failures>>

\* Slip for PublishAgain: `while True'.
PublishRegardless ==
    /\ main = "publishBackoff"
    /\ publish_backoff' = Twice(publish_backoff)
    /\ main' = "publish"
    /\ UNCHANGED <<mode, stop, ret, backoff, activation, event, attempt, failures, tries>>

\* The pause is over, or the stop event has ended it.
PublishAgain ==
    /\ main = "publishBackoff"
    /\ publish_backoff' = Twice(publish_backoff)
    /\ IF stop THEN Return("none") ELSE main' = "publish" /\ ret' = ret
    /\ UNCHANGED <<mode, stop, backoff, activation, event, attempt, failures, tries>>

\* TranscriptEventPublisher.publish: one attempt.
PublishEvent ==
    /\ main = "publishEvent"
    /\ \/ event' = "sent" /\ Return(ret)
       \/ attempt >= MaxAttempts /\ event' = "dropped" /\ Return(ret)
       \/ attempt < MaxAttempts /\ main' = "eventBackoff" /\ UNCHANGED <<event, ret>>
    /\ UNCHANGED <<mode, stop, backoff, activation, publish_backoff, attempt, failures, tries>>

PublishEventAgain ==
    /\ main = "eventBackoff"
    /\ IF stop
       THEN Return(ret) /\ UNCHANGED attempt
       ELSE main' = "publishEvent" /\ attempt' = attempt + 1 /\ ret' = ret
    /\ UNCHANGED <<mode, stop, backoff, activation, event, publish_backoff, failures, tries>>

-----------------------------------------------------------------------------
(* run_forever                                                             *)

Pauses(how) ==
    CASE mode = "canary" -> CanaryPauses(how)
      [] mode = "ambient" -> AmbientPauses(how)
      [] OTHER -> SttPauses(how)

\* The pause after a failure is doubled when it is over.
BackoffAfterSleep ==
    IF main = "sleeping" /\ ret = "error" THEN Twice(backoff) ELSE backoff

\* The next session, which begins with nothing of the last one.  HaSttWorker
\* builds its detector before there is anything to close, and may fail.
Begin ==
    /\ main \in {"idle", "sleeping"}
    /\ ~stop
    /\ \/ main' = "starting" /\ ret' = "none" /\ failures' = failures
       \/ /\ mode \in {"stt", "both"}
          /\ main' = "sleeping"
          /\ ret' = "error"
          /\ failures' = AtMost(MaxFailures, failures + 1)
    /\ backoff' = BackoffAfterSleep
    /\ activation' = "none"
    /\ event' = "none"
    /\ publish_backoff' = 1
    /\ attempt' = 0
    /\ tries' = 0
    /\ UNCHANGED <<mode, stop>>

End ==
    /\ main \in {"idle", "sleeping"}
    /\ stop
    /\ main' = "stopped"
    /\ backoff' = BackoffAfterSleep
    /\ UNCHANGED <<mode, stop, ret, turnVars, failures>>

\* Slip for Close: the backoff survives a session that went well.
CloseKeepingBackoff ==
    /\ main = "closing"
    /\ \/ ret = "error" /\ main' = "sleeping"
          /\ failures' = AtMost(MaxFailures, failures + 1)
       \/ ret # "error" /\ stop /\ main' = "stopped" /\ UNCHANGED failures
       \/ ret # "error" /\ ~stop /\ failures' = 0
          /\ main' = IF Pauses(ret) THEN "sleeping" ELSE "idle"
    /\ UNCHANGED <<mode, stop, ret, turnVars, backoff>>

\* source.close(), and run_forever decides how to go on.
Close ==
    /\ main = "closing"
    /\ \/ /\ ret = "error"
          /\ main' = "sleeping"
          /\ failures' = AtMost(MaxFailures, failures + 1)
          /\ UNCHANGED backoff
       \/ /\ ret # "error"
          /\ stop
          /\ main' = "stopped"
          /\ UNCHANGED <<backoff, failures>>
       \/ /\ ret # "error"
          /\ ~stop
          /\ backoff' = 1
          /\ failures' = 0
          /\ main' = IF Pauses(ret) THEN "sleeping" ELSE "idle"
    /\ UNCHANGED <<mode, stop, ret, turnVars>>

Stop ==
    /\ ~stop
    /\ stop' = TRUE
    /\ UNCHANGED <<mode, main, ret, backoff, turnVars, failures>>

-----------------------------------------------------------------------------

\* Every wait of these steps ends: by a timer, a timeout or the stop event.
Progress ==
    \/ StartSource \/ CaptureStops \/ DetectStops \/ Transcribe \/ Publish
    \/ PublishAgain \/ PublishEvent \/ PublishEventAgain \/ Begin \/ End \/ Close

Next == Progress \/ SessionFails \/ CaptureSegment \/ Detect \/ Stop

Spec == Init /\ [][Next]_vars

FairSpec == Spec /\ WF_vars(Progress)

-----------------------------------------------------------------------------
(* Properties                                                              *)

\* Every variable has its type.
TypeOK ==
    /\ mode \in {"canary", "stt", "both", "ambient"}
    /\ stop \in BOOLEAN
    /\ main \in MainStates
    /\ ret \in Returns
    /\ backoff \in 1 .. maximum_backoff
    /\ publish_backoff \in 1 .. maximum_backoff
    /\ attempt \in 0 .. MaxAttempts
    /\ activation \in {"none", "due", "sent"}
    /\ event \in {"none", "due", "sent", "dropped"}
    /\ failures \in 0 .. MaxFailures
    /\ tries \in 0 .. MaxFailures

\* CONDUCTOR.md 279-281: transcript delivery does not suppress an activation.
\* While its command is due no worker is busy with the event, and until the
\* gateway stops no session ends with a command unpublished or with an event
\* that was neither delivered nor given up after the last attempt.
ResultsAreDelivered ==
    /\ activation = "due" =>
         /\ main \in {"publish", "publishBackoff"} \/ stop
         /\ event \in {"none", "due"}
    /\ main \in {"closing", "idle", "sleeping"} /\ ~stop => event # "due"
    /\ event = "dropped" => attempt = MaxAttempts

\* The pause after n failures: a power of two, up to the maximum.
Pause(n) == AtMost(maximum_backoff, PowerOfTwo[n])

\* Pauses double from one failure to the next, up to the maximum, and begin
\* anew after a session that went well; those of a publication begin anew with
\* each command.
BackoffMatchesFailures ==
    /\ main = "sleeping" /\ ret = "error" => backoff = Pause(failures - 1)
    /\ main \in MainStates \ {"sleeping", "stopped"} => backoff = Pause(failures)
    /\ main = "publishBackoff" => publish_backoff = Pause(tries - 1)
    /\ main = "publish" => publish_backoff = Pause(tries)

\* run_forever goes round without a pause only after a segment was handled by
\* the ambient worker, or on its way out.
NoBusyLoop == main = "closing" /\ ~Pauses(ret) /\ ret # "error" =>
                stop \/ (mode = "ambient" /\ ret = "at once")

\* A stop event ends the worker, whatever it is doing.
StopsEventually == stop ~> main = "stopped"
=============================================================================
