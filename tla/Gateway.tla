------------------------------ MODULE Gateway ------------------------------
(***************************************************************************)
(* The add-on's process (main.py): it loads the options, connects to the   *)
(* broker, builds the one worker they ask for and runs it until SIGTERM.   *)
(*                                                                         *)
(* Every worker's session opens one FfmpegPcmSource, uses it and closes it *)
(* on every way out; what happens while it is open has modules of its own. *)
(***************************************************************************)
EXTENDS Configuration, FfmpegSource

CONSTANTS
    SectionChoices,  \* sections of the options
    PassiveChoices,  \* the one of passive_canary, which has no limits
    SourceChoices    \* the list of sources

VARIABLES
    options,    \* /data/options.json
    stop,       \* stop_event
    main,       \* where run is suspended
    active,     \* the ID of the source it has chosen
    publisher,  \* "none", "open" or "closed"
    worker      \* what build_worker returned

mainVars == <<options, stop, main, active, publisher, worker>>
vars == <<mainVars, sourceVars>>

Options ==
    [wellformed : BOOLEAN,
     sources : SourceChoices,
     passive_canary : PassiveChoices,
     ha_stt_canary : SectionChoices,
     ha_stt_activation : SectionChoices,
     microwakeword_activation : SectionChoices,
     transcript_events : SectionChoices]

Working == {"session", "using", "closing", "pausing"}

NoWorker == [outputs |-> {}]

Init ==
    /\ options \in Options
    /\ stop = FALSE
    /\ main = "loading"
    /\ active = Blank
    /\ publisher = "none"
    /\ worker = NoWorker
    /\ SourceInit

-----------------------------------------------------------------------------
(* The choice of the source and of the worker                              *)

ActiveSourceId ==
    CASE options["passive_canary"].enabled -> options["passive_canary"].source_id
      [] options["ha_stt_canary"].enabled -> options["ha_stt_canary"].source_id
      [] options["ha_stt_activation"].enabled -> options["ha_stt_activation"].source_id
      [] options["microwakeword_activation"].enabled ->
            options["microwakeword_activation"].source_id
      [] OTHER -> options["transcript_events"].source_id

Limits(section) ==
    <<section.max_requests_per_minute, section.max_audio_seconds_per_hour,
      section.max_audio_seconds_per_day>>

\* A worker of one section, which transcribes with its pipeline and its budget.
WorkerOf(name) ==
    [outputs |-> {name},
     source_id |-> active,
     pipeline_id |-> options[name].pipeline_id,
     limits |-> Limits(options[name])]

\* An activation shares its requests with the transcript events: the processor
\* uses the pipeline of transcript_events and the budget of the activation.
ActivationWorker(name) ==
    IF options["transcript_events"].enabled
    THEN [WorkerOf(name) EXCEPT
            !.outputs = {name, "transcript_events"},
            !.pipeline_id = options["transcript_events"].pipeline_id]
    ELSE WorkerOf(name)

BuildWorker ==
    CASE options["passive_canary"].enabled ->
            [outputs |-> {"passive_canary"}, source_id |-> active]
      [] options["ha_stt_canary"].enabled -> WorkerOf("ha_stt_canary")
      [] options["ha_stt_activation"].enabled -> ActivationWorker("ha_stt_activation")
      [] options["microwakeword_activation"].enabled ->
            ActivationWorker("microwakeword_activation")
      [] OTHER -> WorkerOf("transcript_events")

-----------------------------------------------------------------------------
(* run                                                                     *)

\* Options that cannot be read or are refused end the process.
Load ==
    /\ main = "loading"
    /\ main' = CASE ~Accepted(options) -> "exited"
                 [] Accepted(options) /\ Enabled(options) = {} -> "idle"
                 [] OTHER -> "credentials"
    /\ active' = IF main' = "credentials" THEN ActiveSourceId ELSE active
    /\ UNCHANGED <<options, stop, publisher, worker, sourceVars>>

IdleEnds ==
    /\ main = "idle"
    /\ stop
    /\ main' = "exited"
    /\ UNCHANGED <<options, stop, active, publisher, worker, sourceVars>>

\* fetch_mqtt_credentials, which may fail.
FetchCredentials ==
    /\ main = "credentials"
    /\ main' \in {"connecting", "exited"}
    /\ UNCHANGED <<options, stop, active, publisher, worker, sourceVars>>

\* publisher.connect raises, having closed what it opened, or the worker is built.
Connect ==
    /\ main = "connecting"
    /\ \/ main' = "exited" /\ UNCHANGED <<publisher, worker>>
       \/ main' = "session" /\ publisher' = "open" /\ worker' = BuildWorker
    /\ UNCHANGED <<options, stop, active, sourceVars>>

Disconnect ==
    /\ main = "session"
    /\ stop
    /\ publisher' = "closed"
    /\ main' = "exited"
    /\ UNCHANGED <<options, stop, active, worker, sourceVars>>

\* The signal handlers are installed once the options are loaded.
Signal ==
    /\ ~stop
    /\ main # "exited"
    /\ stop' = TRUE
    /\ main' = IF main = "loading" THEN "exited" ELSE main
    /\ UNCHANGED <<options, active, publisher, worker, sourceVars>>

-----------------------------------------------------------------------------
(* run_forever, as every worker has it                                     *)

BeginSession ==
    /\ main = "session"
    /\ ~stop
    /\ \/ SourceStarts /\ main' = "using"
       \/ SourceFails /\ main' = "closing"
    /\ UNCHANGED <<options, stop, active, publisher, worker>>

\* run_once returns or raises, and its finally clause closes the source.
EndSession ==
    /\ main = "using"
    /\ BeginClose
    /\ main' = "closing"
    /\ UNCHANGED <<options, stop, active, publisher, worker>>

\* A timer bounds each pause and the stop event ends it.
NextSession ==
    /\ \/ main = "closing" /\ source = "closed" /\ main' \in {"pausing", "session"}
       \/ main = "pausing" /\ main' = "session"
    /\ UNCHANGED <<options, stop, active, publisher, worker, sourceVars>>

SourceStep ==
    /\ Waited \/ KillAfterTimeout \/ FfmpegEnds \/ FfmpegReaped
    /\ UNCHANGED mainVars

-----------------------------------------------------------------------------

MainStep ==
    \/ Load \/ IdleEnds \/ FetchCredentials \/ Connect \/ Disconnect
    \/ BeginSession \/ NextSession

Next == MainStep \/ EndSession \/ Signal \/ SourceStep

Spec == Init /\ [][Next]_vars

\* That a session ends on the stop event is what the runs of the workers show;
\* SIGKILL works, and the event loop reaps its children.  ffmpeg need not end.
FairSpec ==
    /\ Spec
    /\ WF_vars(MainStep)
    /\ WF_vars(stop /\ EndSession)
    /\ WF_vars(Waited /\ UNCHANGED mainVars)
    /\ WF_vars(KillAfterTimeout /\ UNCHANGED mainVars)
    /\ WF_vars(killed /\ FfmpegEnds /\ UNCHANGED mainVars)
    /\ WF_vars(FfmpegReaped /\ UNCHANGED mainVars)

-----------------------------------------------------------------------------
(* Properties                                                              *)

\* Every variable has its type.
TypeOK ==
    /\ options \in Options
    /\ stop \in BOOLEAN
    /\ main \in {"loading", "idle", "credentials", "connecting", "exited"} \cup Working
    /\ publisher \in {"none", "open", "closed"}
    /\ SourceTypeOK

\* No session begins before the ffmpeg of the last one is gone, whatever it
\* does with SIGTERM; none runs while the gateway pauses, nor after it; the
\* connection to the broker is not left open.
NothingLeftRunning ==
    /\ strays = 0
    /\ ffmpeg = "running" => main \in {"using", "closing"}
    /\ main = "exited" => publisher # "open"

\* README.md 165-168: of every accepted configuration, each mode that is
\* enabled has its output, from its source, with its pipeline, within its
\* limits, although one worker with one budget serves two of them.
EveryModeAsConfigured ==
    main \in Working =>
        /\ worker.outputs = Enabled(options)
        /\ \A name \in Enabled(options) :
             /\ worker.source_id = options[name].source_id
             /\ worker.source_id \in {options.sources[n].id : n \in DOMAIN options.sources}
             /\ name # "passive_canary" =>
                  /\ worker.pipeline_id = options[name].pipeline_id
                  /\ worker.limits = Limits(options[name])

\* SIGTERM ends the gateway, even with an ffmpeg that ignores it.
StopsEventually == stop ~> main = "exited"
=============================================================================
