--------------------------- MODULE Configuration ---------------------------
(***************************************************************************)
(* parse_options (config.py): which options are accepted.  A section is a  *)
(* record of what its acceptance and the choice of the worker depend on;   *)
(* `wellformed' stands for the types, names, labels and URIs in it, and    *)
(* for its wake words, which are WakeMatcher's.                            *)
(***************************************************************************)
EXTENDS Naturals, Sequences, FiniteSets

CONSTANT Blank  \* the source ID that is left empty

Canaries == {"passive_canary", "ha_stt_canary"}
Activations == {"ha_stt_activation", "microwakeword_activation"}
Modes == Canaries \cup Activations
SectionNames == Modes \cup {"transcript_events"}

BoundedInt(value, minimum, maximum) == value \in minimum .. maximum

\* Each section that submits audio has limits of its own.
LimitsParsed(section) ==
    /\ BoundedInt(section.max_requests_per_minute, 1, 60)
    /\ BoundedInt(section.max_audio_seconds_per_hour, 16, 3600)
    /\ BoundedInt(section.max_audio_seconds_per_day, 16, 86400)
    /\ section.max_audio_seconds_per_day >= section.max_audio_seconds_per_hour

HaSttParsed(section) == section.wellformed /\ LimitsParsed(section)
MicroWakeWordParsed(section) == section.wellformed /\ LimitsParsed(section)
TranscriptEventsParsed(section) == section.wellformed /\ LimitsParsed(section)
PassiveCanaryParsed(section) == section.wellformed

\* Every source has an ID, a room and an RTSP URL, and no ID is used twice.
SourcesParsed(sources) ==
    /\ \A n \in DOMAIN sources : sources[n].wellformed
    /\ \A m, n \in DOMAIN sources : sources[m].id = sources[n].id => m = n

\* An enabled section names the one source.
OneSource(options, name) ==
    options[name].enabled =>
        /\ Len(options.sources) = 1
        /\ options[name].source_id # Blank
        /\ \E n \in DOMAIN options.sources : options.sources[n].id = options[name].source_id

\* Slip for SttContract: the daily limit is left out.
SttContractOfHour(section) ==
    <<section.source_id, section.pipeline_id, section.max_requests_per_minute,
      section.max_audio_seconds_per_hour>>

\* _stt_contract: what the two users of one STT request must agree on.
SttContract(section) ==
    <<section.source_id, section.pipeline_id, section.max_requests_per_minute,
      section.max_audio_seconds_per_hour, section.max_audio_seconds_per_day>>

Enabled(options) == {name \in SectionNames : options[name].enabled}

\* Transcript events run alone or share the stream of an activation.
EventsShareContract(options) ==
    "transcript_events" \in Enabled(options) =>
        /\ Enabled(options) \cap Canaries = {}
        /\ \/ Enabled(options) \cap Activations = {}
           \/ LET production == IF options["ha_stt_activation"].enabled
                                THEN "ha_stt_activation"
                                ELSE "microwakeword_activation"
              IN  SttContract(options["transcript_events"]) = SttContract(options[production])

AtMostOneMode(options) == Cardinality(Enabled(options) \cap Modes) <= 1

\* parse_options returns a configuration instead of raising ConfigError.
Accepted(options) ==
    /\ options.wellformed
    /\ SourcesParsed(options.sources)
    /\ PassiveCanaryParsed(options["passive_canary"])
    /\ HaSttParsed(options["ha_stt_canary"])
    /\ HaSttParsed(options["ha_stt_activation"])
    /\ MicroWakeWordParsed(options["microwakeword_activation"])
    /\ TranscriptEventsParsed(options["transcript_events"])
    /\ \A name \in SectionNames : OneSource(options, name)
    /\ EventsShareContract(options)
    /\ AtMostOneMode(options)

=============================================================================
