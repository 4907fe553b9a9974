--------------------------- MODULE Gateway_proofs --------------------------
(***************************************************************************)
(* Proofs about Gateway, for options and sources of every kind.            *)
(***************************************************************************)
EXTENDS Gateway, FiniteSetTheorems, TLAPS

-----------------------------------------------------------------------------
(* Types                                                                   *)

\* Strays are counted in natural numbers.
LEMMA StraysCounted ==
    ASSUME strays \in Nat, SourceStarts \/ SourceFails
    PROVE  strays' \in Nat /\ killed' \in BOOLEAN
PROOF
<1>1. killed' \in BOOLEAN
      BY DEF SourceStarts, SourceFails, NewSource
<1>2. strays' = strays \/ strays' = strays + 1
      BY DEF SourceStarts, SourceFails, NewSource
<1>3. strays' \in Nat
      BY <1>2
<1> QED BY <1>1, <1>3

\* The process, its source and its publisher keep their types for all options.
THEOREM TypeCorrect == Spec => []TypeOK
PROOF
<1> USE DEF TypeOK, SourceTypeOK, Working
<1>1. ASSUME Init PROVE TypeOK
  <2>1. SourceTypeOK
        BY <1>1 DEF Init, SourceInit
  <2>2. options \in Options /\ stop \in BOOLEAN /\ main = "loading" /\ publisher = "none"
        BY <1>1 DEF Init
  <2> QED BY <2>1, <2>2
<1>2. ASSUME TypeOK, [Next]_vars PROVE TypeOK'
  <2> USE <1>2 DEF mainVars, sourceVars
  <2>1. CASE MainStep \/ Signal
    <3>1. CASE Load \/ IdleEnds \/ FetchCredentials
          BY <3>1 DEF Load, IdleEnds, FetchCredentials
    <3>2. CASE Connect \/ Disconnect \/ Signal \/ NextSession
          BY <3>2 DEF Connect, Disconnect, Signal, NextSession
    <3>3. CASE BeginSession
      <4>1. strays' \in Nat /\ killed' \in BOOLEAN
            BY <3>3, StraysCounted DEF BeginSession
      <4>2. source' \in {"closed", "open"} /\ ffmpeg' \in {"none", "running"}
            BY <3>3 DEF BeginSession, SourceStarts, SourceFails
      <4> QED BY <3>3, <4>1, <4>2 DEF BeginSession
    <3> QED BY <2>1, <3>1, <3>2, <3>3 DEF MainStep
  <2>2. CASE EndSession
        BY <2>2 DEF EndSession, BeginClose
  <2>3. CASE SourceStep
        BY <2>3 DEF SourceStep, Waited, KillAfterTimeout, FfmpegEnds, FfmpegReaped
  <2>4. CASE UNCHANGED vars
        BY <2>4 DEF vars
  <2> QED BY <1>2, <2>1, <2>2, <2>3, <2>4 DEF Next
<1> QED BY <1>1, <1>2, PTL DEF Spec

-----------------------------------------------------------------------------
(* The source and its process                                              *)

\* Where the process runs, an object holds it, and only a session has one.
SourceHeld ==
    /\ strays = 0
    /\ source = "closed" => ffmpeg # "running"
    /\ main = "using" => source = "open"
    /\ main \notin {"using", "closing"} => source = "closed"
    /\ publisher = "open" => main \in Working

\* Nothing is left running, however a session ends and whatever ffmpeg does
\* with SIGTERM.
THEOREM NothingLeft == Spec => []NothingLeftRunning
PROOF
<1>1. Init => SourceHeld
      BY DEF Init, SourceInit, SourceHeld
<1>2. ASSUME SourceHeld, [Next]_vars PROVE SourceHeld'
  <2> USE <1>2 DEF SourceHeld, Working, mainVars, sourceVars
  <2>1. CASE Load
        BY <2>1 DEF Load
  <2>2. CASE IdleEnds \/ FetchCredentials \/ Connect \/ Disconnect \/ Signal
        BY <2>2 DEF IdleEnds, FetchCredentials, Connect, Disconnect, Signal
  <2>3. CASE BeginSession
        BY <2>3 DEF BeginSession, SourceStarts, SourceFails, NewSource
  <2>4. CASE EndSession \/ NextSession
        BY <2>4 DEF EndSession, BeginClose, NextSession
  <2>5. CASE SourceStep
        BY <2>5 DEF SourceStep, Waited, KillAfterTimeout, FfmpegEnds, FfmpegReaped
  <2>6. CASE UNCHANGED vars
        BY <2>6 DEF vars
  <2> QED BY <1>2, <2>1, <2>2, <2>3, <2>4, <2>5, <2>6 DEF Next, MainStep
<1>3. SourceHeld => NothingLeftRunning
      BY DEF SourceHeld, NothingLeftRunning, Working
<1> QED BY <1>1, <1>2, <1>3, PTL DEF Spec

-----------------------------------------------------------------------------
(* The worker                                                              *)

\* The process goes on only with options that were accepted, and with the
\* source and the worker they ask for.
WorkerBuilt ==
    /\ main \in {"credentials", "connecting"} \cup Working =>
         /\ Accepted(options)
         /\ Enabled(options) # {}
         /\ active = ActiveSourceId
    /\ main \in Working => worker = BuildWorker

\* Accepted options enable at most one mode.
LEMMA OneMode ==
    ASSUME Accepted(options),
           NEW x \in Modes, options[x].enabled,
           NEW y \in Modes, options[y].enabled
    PROVE  x = y
PROOF
<1> DEFINE S == Enabled(options) \cap Modes
<1>1. IsFiniteSet(Modes)
  <2>1. IsFiniteSet({} \cup {"passive_canary"})
        BY FS_EmptySet, FS_AddElement
  <2>2. IsFiniteSet({} \cup {"passive_canary"} \cup {"ha_stt_canary"})
        BY <2>1, FS_AddElement
  <2>3. IsFiniteSet({} \cup {"passive_canary"} \cup {"ha_stt_canary"} \cup {"ha_stt_activation"})
        BY <2>2, FS_AddElement
  <2>4. IsFiniteSet({} \cup {"passive_canary"} \cup {"ha_stt_canary"} \cup {"ha_stt_activation"}
                        \cup {"microwakeword_activation"})
        BY <2>3, FS_AddElement
  <2> QED BY <2>4 DEF Modes, Canaries, Activations
<1>2. IsFiniteSet(S) /\ Cardinality(S) <= 1
      BY <1>1, FS_Subset DEF Accepted, AtMostOneMode
<1>3. x \in S /\ y \in S
      BY DEF Enabled, SectionNames
<1>4. Cardinality(S) \in {0, 1}
      BY <1>2, FS_CardinalityType
<1> HIDE DEF S
<1> QED BY <1>2, <1>3, <1>4, FS_EmptySet, FS_Singleton

\* The source and the worker chosen for accepted options serve every enabled
\* section as it is configured.
LEMMA ChoiceServesAll ==
    ASSUME Accepted(options), Enabled(options) # {},
           active = ActiveSourceId, worker = BuildWorker
    PROVE  /\ worker.outputs = Enabled(options)
           /\ \A name \in Enabled(options) :
                /\ worker.source_id = options[name].source_id
                /\ worker.source_id \in {options.sources[n].id : n \in DOMAIN options.sources}
                /\ name # "passive_canary" =>
                     /\ worker.pipeline_id = options[name].pipeline_id
                     /\ worker.limits = Limits(options[name])
PROOF
<1> USE DEF Enabled, SectionNames, Modes, Canaries, Activations
<1>1. ASSUME NEW name \in Enabled(options)
      PROVE  options[name].source_id \in {options.sources[n].id : n \in DOMAIN options.sources}
      BY <1>1 DEF Accepted, OneSource
<1>2. CASE options["passive_canary"].enabled
  <2>1. Enabled(options) = {"passive_canary"}
        BY <1>2, OneMode DEF Accepted, EventsShareContract
  <2> QED BY <1>1, <1>2, <2>1 DEF BuildWorker, ActiveSourceId
<1>3. CASE options["ha_stt_canary"].enabled
  <2>1. Enabled(options) = {"ha_stt_canary"} /\ ~options["passive_canary"].enabled
        BY <1>3, OneMode DEF Accepted, EventsShareContract
  <2> QED BY <1>1, <1>3, <2>1 DEF BuildWorker, ActiveSourceId, WorkerOf
<1>4. ASSUME NEW name \in Activations, options[name].enabled
      PROVE  /\ Enabled(options) = {name} \cup
                  (IF options["transcript_events"].enabled THEN {"transcript_events"} ELSE {})
             /\ active = options[name].source_id
             /\ worker = ActivationWorker(name)
             /\ options["transcript_events"].enabled =>
                  /\ options["transcript_events"].source_id = options[name].source_id
                  /\ options["transcript_events"].pipeline_id = options[name].pipeline_id
                  /\ Limits(options["transcript_events"]) = Limits(options[name])
  <2>1. Enabled(options) \cap Modes = {name}
        BY <1>4, OneMode
  <2>2. active = options[name].source_id /\ worker = ActivationWorker(name)
        BY <1>4, <2>1 DEF BuildWorker, ActiveSourceId
  <2>3. options["transcript_events"].enabled =>
          SttContract(options["transcript_events"]) = SttContract(options[name])
        BY <1>4, <2>1 DEF Accepted, EventsShareContract
  <2> QED BY <1>4, <2>1, <2>2, <2>3 DEF SttContract, Limits
<1>5. CASE \E name \in Activations : options[name].enabled
  <2>1. PICK name \in Activations : options[name].enabled
        BY <1>5
  <2>2. CASE options["transcript_events"].enabled
        BY <1>1, <1>4, <2>1, <2>2 DEF ActivationWorker, WorkerOf
  <2>3. CASE ~options["transcript_events"].enabled
        BY <1>1, <1>4, <2>1, <2>3 DEF ActivationWorker, WorkerOf
  <2> QED BY <2>2, <2>3
<1>6. CASE \A name \in Modes : ~options[name].enabled
  <2>1. Enabled(options) = {"transcript_events"}
        BY <1>6
  <2> QED BY <1>1, <1>6, <2>1 DEF BuildWorker, ActiveSourceId, WorkerOf
<1> QED BY <1>2, <1>3, <1>5, <1>6

\* Of every accepted configuration each enabled mode has its output, from its
\* source, with its pipeline, within its limits.
THEOREM ModesAsConfigured == Spec => []EveryModeAsConfigured
PROOF
<1>1. Init => WorkerBuilt
      BY DEF Init, WorkerBuilt, Working
<1>2. ASSUME WorkerBuilt, [Next]_vars PROVE WorkerBuilt'
  <2> USE <1>2 DEF WorkerBuilt, Working, mainVars
  <2>1. CASE Load
        BY <2>1 DEF Load, ActiveSourceId
  <2>2. CASE Connect
        BY <2>2 DEF Connect, ActiveSourceId, BuildWorker, ActivationWorker, WorkerOf
  <2>3. CASE main # "loading" /\ main # "connecting" /\ UNCHANGED <<options, active, worker>>
             /\ (main' \in {"connecting"} \cup Working => main \in {"credentials"} \cup Working)
             /\ (main' \in Working => main \in Working)
             /\ main' # "credentials"
        BY <2>3 DEF ActiveSourceId, BuildWorker, ActivationWorker, WorkerOf
  <2>4. CASE UNCHANGED <<main, options, active, worker>>
        BY <2>4 DEF ActiveSourceId, BuildWorker, ActivationWorker, WorkerOf
  <2>5. CASE main' = "exited"
        BY <2>5
  <2>6. CASE IdleEnds \/ FetchCredentials \/ Disconnect \/ Signal
        BY <2>3, <2>4, <2>5, <2>6 DEF IdleEnds, FetchCredentials, Disconnect, Signal
  <2>7. CASE BeginSession \/ NextSession \/ EndSession
        BY <2>3, <2>7 DEF BeginSession, NextSession, EndSession
  <2>8. CASE SourceStep \/ UNCHANGED vars
        BY <2>4, <2>8 DEF SourceStep, vars
  <2> QED BY <1>2, <2>1, <2>2, <2>6, <2>7, <2>8 DEF Next, MainStep
<1>3. WorkerBuilt => EveryModeAsConfigured
      BY ChoiceServesAll DEF WorkerBuilt, EveryModeAsConfigured
<1> QED BY <1>1, <1>2, <1>3, PTL DEF Spec
=============================================================================
