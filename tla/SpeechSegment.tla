--------------------------- MODULE SpeechSegment ---------------------------
(***************************************************************************)
(* SpeechSegmentCollector (vad.py): the bounded segmenter every listening  *)
(* worker feeds with the microphone's PCM stream, one fixed-size chunk per *)
(* call.  A chunk is abstracted to its position in the stream and the      *)
(* voice-activity verdict the detector gives it; `fed' counts the chunks   *)
(* the detector has judged and `resetAt' is the value of `fed' when the    *)
(* detector last forgot its recurrent state.                               *)
(***************************************************************************)
EXTENDS Naturals, Sequences, FiniteSets

CONSTANTS
    PrebufferCount,      \* prebuffer_count: pre-roll kept while nobody speaks
    SilenceCount,        \* silence_count: trailing silence that ends a segment
    MinimumCount,        \* minimum_count: shorter segments are noise
    MinimumSpeechCount,  \* minimum_speech_count: fewer speech chunks are noise
    MaximumCount,        \* maximum_count: a segment is cut here
    MaxFed               \* bound of the model: chunks in the stream

\* __init__ forces every count to at least 1, and the shipped constants keep a
\* full pre-roll plus the onset chunk below the maximum (11 < 469).
ASSUME CountsAssumption ==
    /\ PrebufferCount \in Nat \ {0}
    /\ SilenceCount \in Nat \ {0}
    /\ MinimumCount \in Nat \ {0}
    /\ MinimumSpeechCount \in Nat \ {0}
    /\ MaximumCount \in Nat
    /\ PrebufferCount + 1 < MaximumCount
    /\ MaxFed \in Nat

VARIABLES
    prebuffer, segment, silence_chunks, speech_chunks, active,
    completed,   \* what the last call returned, <<>> for None
    fed, resetAt \* history of the stream and of the detector

collectorVars == <<prebuffer, segment, silence_chunks, speech_chunks, active>>
vars == <<collectorVars, completed, fed, resetAt>>

Chunk == [at : Nat \ {0}, speech : BOOLEAN]

\* Slip for Newest: a deque one chunk too short.
NewestButOne(s, n) ==
    IF Len(s) < n THEN s ELSE SubSeq(s, Len(s) - n + 2, Len(s))

\* The last n elements of s, or all of them: a deque with maxlen n.
Newest(s, n) ==
    IF Len(s) <= n THEN s ELSE SubSeq(s, Len(s) - n + 1, Len(s))

SpeechIn(s) == {i \in DOMAIN s : s[i].speech}

Init ==
    /\ prebuffer = <<>>
    /\ segment = <<>>
    /\ silence_chunks = 0
    /\ speech_chunks = 0
    /\ active = FALSE
    /\ completed = <<>>
    /\ fed = 0
    /\ resetAt = 0

\* _clear_active(reset=True)
ClearActive ==
    /\ segment' = <<>>
    /\ silence_chunks' = 0
    /\ speech_chunks' = 0
    /\ active' = FALSE
    /\ resetAt' = fed'

Wait(chunk) ==
    /\ ~active
    /\ ~chunk.speech
    /\ prebuffer' = Newest(Append(prebuffer, chunk), PrebufferCount)
    /\ completed' = <<>>
    /\ UNCHANGED <<segment, silence_chunks, speech_chunks, active, resetAt>>

\* Slip for Onset: feed forgets prebuffer.clear().
OnsetKeepingPrebuffer(chunk) ==
    /\ ~active
    /\ chunk.speech
    /\ segment' = Append(prebuffer, chunk)
    /\ silence_chunks' = 0
    /\ speech_chunks' = 1
    /\ active' = TRUE
    /\ completed' = <<>>
    /\ UNCHANGED <<prebuffer, resetAt>>

\* The onset chunk opens a segment without looking at the maximum.
Onset(chunk) ==
    /\ ~active
    /\ chunk.speech
    /\ segment' = Append(prebuffer, chunk)
    /\ prebuffer' = <<>>
    /\ silence_chunks' = 0
    /\ speech_chunks' = 1
    /\ active' = TRUE
    /\ completed' = <<>>
    /\ UNCHANGED resetAt

SpeechAfter(chunk) == IF chunk.speech THEN speech_chunks + 1 ELSE speech_chunks

\* Slip for SilenceAfter: speech pauses the count where it should restart it.
SilenceAltogether(chunk) == IF chunk.speech THEN silence_chunks ELSE silence_chunks + 1
SilenceAfter(chunk) == IF chunk.speech THEN 0 ELSE silence_chunks + 1

\* The condition under which feed keeps collecting.
Collecting(chunk) ==
    /\ Len(segment) + 1 < MaximumCount
    /\ SilenceAfter(chunk) < SilenceCount

Collect(chunk) ==
    /\ active
    /\ Collecting(chunk)
    /\ segment' = Append(segment, chunk)
    /\ speech_chunks' = SpeechAfter(chunk)
    /\ silence_chunks' = SilenceAfter(chunk)
    /\ completed' = <<>>
    /\ UNCHANGED <<prebuffer, active, resetAt>>

\* Slip for Usable: `or' for `and'.
UsableEither(chunk) ==
    \/ Len(segment) + 1 >= MinimumCount
    \/ SpeechAfter(chunk) >= MinimumSpeechCount

\* A finished segment is usable only if it is long and spoken enough.
Usable(chunk) ==
    /\ Len(segment) + 1 >= MinimumCount
    /\ SpeechAfter(chunk) >= MinimumSpeechCount

Outcome(chunk) == IF Usable(chunk) THEN Append(segment, chunk) ELSE <<>>

Complete(chunk) ==
    /\ active
    /\ ~Collecting(chunk)
    /\ completed' = Outcome(chunk)
    /\ ClearActive
    /\ UNCHANGED prebuffer

Feed ==
    /\ fed < MaxFed
    /\ fed' = fed + 1
    /\ \E speech \in BOOLEAN :
         LET chunk == [at |-> fed', speech |-> speech]
         IN  Wait(chunk) \/ Onset(chunk) \/ Collect(chunk) \/ Complete(chunk)

\* A partial chunk or a detector that raises: VadError before any change.
FeedError ==
    /\ completed' = <<>>
    /\ UNCHANGED <<collectorVars, fed, resetAt>>

Reset ==
    /\ prebuffer' = <<>>
    /\ completed' = <<>>
    /\ UNCHANGED fed
    /\ ClearActive

Next == Feed \/ FeedError \/ Reset

Spec == Init /\ [][Next]_vars

-----------------------------------------------------------------------------
(* Properties                                                              *)

\* The collector's fields have the types __init__ gives them.
TypeOK ==
    /\ prebuffer \in Seq(Chunk)
    /\ segment \in Seq(Chunk)
    /\ completed \in Seq(Chunk)
    /\ silence_chunks \in Nat
    /\ speech_chunks \in Nat
    /\ active \in BOOLEAN
    /\ fed \in Nat
    /\ resetAt \in 0 .. fed

\* s is an unbroken run of the stream whose last chunk is number `last'.
RunEndingAt(s, last) ==
    \A i \in DOMAIN s : s[i].at + (Len(s) - i) = last

\* Retained audio is an unbroken run that ends with the newest chunk and that
\* the detector has judged since it was last reset: feed never joins audio
\* from before a reset to audio after it, and the two buffers never both hold
\* audio.
RetainedIsOneRun ==
    /\ RunEndingAt(segment, fed)
    /\ RunEndingAt(prebuffer, fed)
    /\ Len(prebuffer) <= fed - resetAt
    /\ Len(segment) <= fed - resetAt
    /\ active => prebuffer = <<>>
    /\ active <=> segment # <<>>

\* A worker that listens for hours keeps at most one maximum segment and one
\* pre-roll in memory, and an open segment always has room for one more chunk.
BoundedMemory ==
    /\ Len(prebuffer) <= PrebufferCount
    /\ Len(segment) < MaximumCount

\* The two counters describe the segment they are kept beside, whatever
\* mixture of resets, errors and completions came before.
CountersMatchSegment ==
    /\ speech_chunks = Cardinality(SpeechIn(segment))
    /\ active =>
         /\ silence_chunks < Len(segment)
         /\ segment[Len(segment) - silence_chunks].speech
         /\ \A i \in Len(segment) - silence_chunks + 1 .. Len(segment) :
              ~segment[i].speech

\* A speech onset is never clipped: in front of a segment's first speech chunk
\* stands a full pre-roll, or everything heard since the last reset.
PreRollKept ==
    /\ ~active => Len(prebuffer) = PrebufferCount \/ Len(prebuffer) = fed - resetAt
    /\ active =>
         \E onset \in SpeechIn(segment) :
            /\ \A i \in 1 .. onset - 1 : ~segment[i].speech
            /\ \/ onset - 1 = PrebufferCount
               \/ onset = segment[onset].at - resetAt

\* A returned segment is worth a transcription: long enough, spoken enough,
\* no longer than the maximum, and ended by the maximum or by full silence.
CompletedIsUsable ==
    completed # <<>> =>
        /\ Len(completed) \in MinimumCount .. MaximumCount
        /\ Cardinality(SpeechIn(completed)) >= MinimumSpeechCount
        /\ \/ Len(completed) = MaximumCount
           \/ /\ Len(completed) > SilenceCount
              /\ \A i \in Len(completed) - SilenceCount + 1 .. Len(completed) :
                   ~completed[i].speech

\* A returned segment is an unbroken run of the stream, all of it older than
\* the audio the collector still holds: no audio is handed out twice.
CompletedIsReleased ==
    completed # <<>> => /\ RunEndingAt(completed, resetAt)
                        /\ ~active
                        /\ prebuffer = <<>>

\* Two returned segments never share a chunk: whatever a step returns begins
\* after the audio that any earlier step returned or discarded.
NoAudioTwice ==
    [][completed' # <<>> => \A i \in DOMAIN completed' : completed'[i].at > resetAt]_vars
=============================================================================
