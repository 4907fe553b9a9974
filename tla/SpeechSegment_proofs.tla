----------------------- MODULE SpeechSegment_proofs ------------------------
(***************************************************************************)
(* Proofs that the segmenter keeps its invariants for all values of its    *)
(* counts, and that the wake word detector, which reads the microphone for *)
(* it, hands it what the provider hears; for streams of every length.      *)
(***************************************************************************)
EXTENDS SpeechSegment, WyomingDetector, FiniteSetTheorems, TLAPS

\* What waits before a segment is silence: the missing part of the invariant,
\* without which the onset of a segment could not be told from its pre-roll.
PrebufferIsSilent == \A i \in DOMAIN prebuffer : ~prebuffer[i].speech

\* The inductive invariant.
IInv ==
    /\ TypeOK
    /\ RetainedIsOneRun
    /\ BoundedMemory
    /\ PrebufferIsSilent
    /\ CountersMatchSegment
    /\ PreRollKept
    /\ CompletedIsUsable
    /\ CompletedIsReleased

-----------------------------------------------------------------------------
(* Lemmas about the operators                                              *)

\* Appending a chunk appends its verdict: the speech positions of the longer
\* sequence, which feed counts in speech_chunks.
LEMMA SpeechInAppend ==
    ASSUME NEW s \in Seq(Chunk), NEW c \in Chunk
    PROVE  /\ IsFiniteSet(SpeechIn(s))
           /\ SpeechIn(s) \subseteq 1 .. Len(s)
           /\ Cardinality(SpeechIn(s)) \in Nat
           /\ SpeechIn(Append(s, c)) =
                IF c.speech THEN SpeechIn(s) \cup {Len(s) + 1} ELSE SpeechIn(s)
           /\ Cardinality(SpeechIn(Append(s, c))) =
                IF c.speech THEN Cardinality(SpeechIn(s)) + 1 ELSE Cardinality(SpeechIn(s))
<1>1. SpeechIn(s) \subseteq 1 .. Len(s)
  BY DEF SpeechIn
<1>2. IsFiniteSet(SpeechIn(s)) /\ Cardinality(SpeechIn(s)) \in Nat
  <2>1. IsFiniteSet(1 .. Len(s))
    BY FS_Interval
  <2>2. IsFiniteSet(SpeechIn(s))
    BY <1>1, <2>1, FS_Subset
  <2> QED
    BY <2>2, FS_CardinalityType
<1>3. SpeechIn(Append(s, c)) =
        IF c.speech THEN SpeechIn(s) \cup {Len(s) + 1} ELSE SpeechIn(s)
  <2>1. DOMAIN Append(s, c) = 1 .. Len(s) + 1 /\ DOMAIN s = 1 .. Len(s)
    OBVIOUS
  <2>2. \A i \in 1 .. Len(s) : Append(s, c)[i] = s[i]
    OBVIOUS
  <2>3. Append(s, c)[Len(s) + 1] = c
    OBVIOUS
  <2> QED
    BY <2>1, <2>2, <2>3 DEF SpeechIn
<1>4. Len(s) + 1 \notin SpeechIn(s)
  BY <1>1
<1> QED
  BY <1>1, <1>2, <1>3, <1>4, FS_AddElement

\* Appending the next chunk of the stream keeps a run unbroken.
LEMMA RunAppend ==
    ASSUME NEW s \in Seq(Chunk), NEW c \in Chunk, NEW n \in Nat,
           RunEndingAt(s, n), c.at = n + 1
    PROVE  RunEndingAt(Append(s, c), n + 1)
<1> SUFFICES ASSUME NEW i \in DOMAIN Append(s, c)
             PROVE  Append(s, c)[i].at + (Len(Append(s, c)) - i) = n + 1
  BY DEF RunEndingAt
<1>1. Len(Append(s, c)) = Len(s) + 1 /\ i \in 1 .. Len(s) + 1
  OBVIOUS
<1>2. CASE i = Len(s) + 1
  BY <1>1, <1>2
<1>3. CASE i \in 1 .. Len(s)
  <2>1. Append(s, c)[i] = s[i] /\ s[i] \in Chunk
    BY <1>3
  <2>2. s[i].at + (Len(s) - i) = n
    BY <1>3 DEF RunEndingAt
  <2>3. s[i].at \in Nat /\ Len(s) \in Nat /\ i \in Nat
    BY <1>3, <2>1 DEF Chunk
  <2> QED
    BY <1>1, <2>1, <2>2, <2>3
<1> QED
  BY <1>1, <1>2, <1>3

\* What Newest keeps: a suffix of the given length, or everything.
LEMMA NewestSuffix ==
    ASSUME NEW s \in Seq(Chunk), NEW n \in Nat \ {0}
    PROVE  /\ Newest(s, n) \in Seq(Chunk)
           /\ Len(Newest(s, n)) = IF Len(s) <= n THEN Len(s) ELSE n
           /\ \A i \in 1 .. Len(Newest(s, n)) :
                Newest(s, n)[i] = s[i + (Len(s) - Len(Newest(s, n)))]
<1>1. CASE Len(s) <= n
  BY <1>1 DEF Newest
<1>2. CASE ~(Len(s) <= n)
  <2> DEFINE a == Len(s) - n + 1
  <2>1. Newest(s, n) = SubSeq(s, a, Len(s)) /\ a \in 1 .. Len(s)
    BY <1>2 DEF Newest
  <2>2. Len(SubSeq(s, a, Len(s))) = n
    BY <2>1
  <2>3. \A i \in 1 .. n : SubSeq(s, a, Len(s))[i] = s[i + (Len(s) - n)]
    BY <2>1, <2>2
  <2>4. SubSeq(s, a, Len(s)) \in Seq(Chunk)
    BY <2>1
  <2> QED
    BY <1>2, <2>1, <2>2, <2>3, <2>4
<1> QED
  BY <1>1, <1>2

-----------------------------------------------------------------------------
(* The invariant                                                           *)

\* A new collector holds nothing.
LEMMA InitIInv == Init => IInv
<1> SUFFICES ASSUME Init PROVE IInv
  OBVIOUS
<1>0. <<>> \in Seq(Chunk) /\ Len(<<>>) = 0 /\ 0 \in 0 .. 0
  OBVIOUS
<1> USE DEF Init
<1>1. TypeOK
  <2>1. prebuffer \in Seq(Chunk) /\ segment \in Seq(Chunk) /\ completed \in Seq(Chunk)
    BY <1>0
  <2>2. resetAt \in 0 .. fed
    BY <1>0
  <2>3. silence_chunks \in Nat /\ speech_chunks \in Nat /\ fed \in Nat /\ active \in BOOLEAN
    OBVIOUS
  <2> QED
    BY <2>1, <2>2, <2>3 DEF TypeOK
<1>2. RetainedIsOneRun /\ PrebufferIsSilent
  BY DEF RetainedIsOneRun, RunEndingAt, PrebufferIsSilent
<1>3. BoundedMemory
  BY CountsAssumption DEF BoundedMemory
<1>4. CountersMatchSegment
  BY FS_EmptySet DEF CountersMatchSegment, SpeechIn
<1>5. PreRollKept
  BY DEF PreRollKept
<1> QED
  BY <1>1, <1>2, <1>3, <1>4, <1>5 DEF IInv, CompletedIsUsable, CompletedIsReleased

\* feed with nobody speaking: the chunk joins the pre-roll.
LEMMA WaitStep ==
    ASSUME IInv, NEW chunk \in Chunk, fed' = fed + 1, chunk.at = fed', Wait(chunk)
    PROVE  IInv'
<1> USE DEF Wait
<1> DEFINE longer == Append(prebuffer, chunk)
<1>1. /\ prebuffer \in Seq(Chunk) /\ fed \in Nat /\ resetAt \in 0 .. fed
      /\ segment = <<>> /\ ~active
  BY DEF IInv, TypeOK, RetainedIsOneRun
<1>2. longer \in Seq(Chunk) /\ Len(longer) = Len(prebuffer) + 1
  BY <1>1
<1>3. /\ prebuffer' \in Seq(Chunk)
      /\ Len(prebuffer') = IF Len(longer) <= PrebufferCount THEN Len(longer)
                                                           ELSE PrebufferCount
      /\ \A i \in 1 .. Len(prebuffer') :
            prebuffer'[i] = longer[i + (Len(longer) - Len(prebuffer'))]
  BY <1>2, NewestSuffix, CountsAssumption
<1>a. \A i \in DOMAIN prebuffer' :
         /\ i \in 1 .. Len(prebuffer')
         /\ i + (Len(longer) - Len(prebuffer')) \in DOMAIN longer
  <2>1. Len(longer) \in Nat /\ Len(prebuffer') \in Nat /\ Len(prebuffer') <= Len(longer)
    BY <1>2, <1>3, CountsAssumption
  <2>2. DOMAIN longer = 1 .. Len(longer) /\ DOMAIN prebuffer' = 1 .. Len(prebuffer')
    BY <1>2, <1>3
  <2> QED
    BY <2>1, <2>2
<1>4. RunEndingAt(longer, fed')
  BY <1>1, RunAppend DEF IInv, RetainedIsOneRun
<1>5. RunEndingAt(prebuffer', fed')
  <2> SUFFICES ASSUME NEW i \in DOMAIN prebuffer'
               PROVE  prebuffer'[i].at + (Len(prebuffer') - i) = fed'
    BY DEF RunEndingAt
  <2>1. PICK k \in DOMAIN longer : k = i + (Len(longer) - Len(prebuffer'))
    BY <1>a
  <2>2. i \in 1 .. Len(prebuffer') /\ prebuffer'[i] = longer[k] /\ longer[k] \in Chunk
    BY <1>2, <1>3, <1>a, <2>1
  <2> HIDE DEF longer
  <2>3. longer[k].at + (Len(longer) - k) = fed'
    BY <1>4, <2>1 DEF RunEndingAt
  <2>4. /\ longer[k].at \in Nat /\ Len(longer) \in Nat /\ Len(prebuffer') \in Nat
        /\ i \in Nat
    BY <1>2, <1>3, <2>1, <2>2 DEF Chunk
  <2> QED
    BY <2>1, <2>2, <2>3, <2>4
<1>6. PrebufferIsSilent'
  <2>1. \A k \in DOMAIN longer : ~longer[k].speech
    BY <1>1 DEF IInv, PrebufferIsSilent
  <2> QED
    BY <1>3, <1>a, <2>1 DEF PrebufferIsSilent
<1>7. TypeOK'
  BY <1>1, <1>3 DEF IInv, TypeOK
<1>8. RetainedIsOneRun'
  <2>1. Len(prebuffer) <= fed - resetAt
    BY DEF IInv, RetainedIsOneRun
  <2>2. RunEndingAt(segment', fed')
    BY <1>1 DEF RunEndingAt
  <2> QED
    BY <1>1, <1>2, <1>3, <1>5, <2>1, <2>2, CountsAssumption DEF RetainedIsOneRun
<1>9. BoundedMemory'
  BY <1>1, <1>2, <1>3, CountsAssumption DEF IInv, BoundedMemory
<1>10. CountersMatchSegment'
  BY DEF IInv, CountersMatchSegment
<1>11. PreRollKept'
  BY <1>1, <1>2, <1>3, CountsAssumption DEF IInv, PreRollKept, BoundedMemory
<1> QED
  BY <1>6, <1>7, <1>8, <1>9, <1>10, <1>11 DEF IInv, CompletedIsUsable, CompletedIsReleased

\* feed with the first speech chunk: the pre-roll and the chunk open a segment.
LEMMA OnsetStep ==
    ASSUME IInv, NEW chunk \in Chunk, fed' = fed + 1, chunk.at = fed', Onset(chunk)
    PROVE  IInv'
<1> USE DEF Onset
<1>1. /\ prebuffer \in Seq(Chunk) /\ fed \in Nat /\ resetAt \in 0 .. fed
      /\ ~active /\ chunk.speech
  BY DEF IInv, TypeOK
<1>2. segment' \in Seq(Chunk) /\ Len(segment') = Len(prebuffer) + 1
  BY <1>1
<1>3. segment'[Len(segment')] = chunk
  BY <1>1
<1>4. RunEndingAt(segment', fed')
  BY <1>1, RunAppend DEF IInv, RetainedIsOneRun
<1>5. SpeechIn(prebuffer) = {}
  BY DEF IInv, PrebufferIsSilent, SpeechIn
<1>6. SpeechIn(segment') = {Len(segment')} /\ Cardinality(SpeechIn(segment')) = 1
  BY <1>1, <1>2, <1>5, SpeechInAppend, FS_EmptySet
<1>7. TypeOK'
  BY <1>1, <1>2 DEF IInv, TypeOK
<1>8. RetainedIsOneRun'
  <2>1. Len(prebuffer) <= fed - resetAt
    BY DEF IInv, RetainedIsOneRun
  <2>2. RunEndingAt(prebuffer', fed')
    BY DEF RunEndingAt
  <2> QED
    BY <1>1, <1>2, <1>4, <2>1, <2>2 DEF RetainedIsOneRun
<1>9. BoundedMemory'
  BY <1>1, <1>2, CountsAssumption DEF IInv, BoundedMemory
<1>10. PrebufferIsSilent'
  BY DEF PrebufferIsSilent
<1>11. CountersMatchSegment'
  <2>1. \A i \in Len(segment') - silence_chunks' + 1 .. Len(segment') : FALSE
    BY <1>2
  <2> QED
    BY <1>1, <1>2, <1>3, <1>6, <2>1 DEF CountersMatchSegment
<1>12. PreRollKept'
  <2>1. Len(prebuffer) = PrebufferCount \/ Len(prebuffer) = fed - resetAt
    BY <1>1 DEF IInv, PreRollKept
  <2>2. \A i \in 1 .. Len(segment') - 1 : ~segment'[i].speech
    BY <1>1, <1>2, <1>6 DEF SpeechIn
  <2>3. Len(segment') \in SpeechIn(segment')
    BY <1>6
  <2>4. \/ Len(segment') - 1 = PrebufferCount
        \/ Len(segment') = segment'[Len(segment')].at - resetAt'
    BY <1>1, <1>2, <1>3, <2>1
  <2> QED
    BY <1>1, <2>2, <2>3, <2>4 DEF PreRollKept
<1> QED
  BY <1>7, <1>8, <1>9, <1>10, <1>11, <1>12 DEF IInv, CompletedIsUsable, CompletedIsReleased

\* What both ways of handling a chunk of an open segment rest on: the segment
\* with the chunk is a run, and the counters as they will be describe it.
LEMMA LongerSegment ==
    ASSUME IInv, active, NEW chunk \in Chunk, chunk.at = fed + 1,
           NEW longer, longer = Append(segment, chunk)
    PROVE  /\ longer \in Seq(Chunk)
           /\ Len(longer) = Len(segment) + 1
           /\ Len(longer) <= MaximumCount
           /\ RunEndingAt(longer, fed + 1)
           /\ SpeechAfter(chunk) = Cardinality(SpeechIn(longer))
           /\ SilenceAfter(chunk) \in Nat
           /\ SilenceAfter(chunk) < Len(longer)
           /\ longer[Len(longer) - SilenceAfter(chunk)].speech
           /\ \A i \in Len(longer) - SilenceAfter(chunk) + 1 .. Len(longer) :
                ~longer[i].speech
<1>1. segment \in Seq(Chunk) /\ fed \in Nat /\ silence_chunks \in Nat
  BY DEF IInv, TypeOK
<1>2. longer \in Seq(Chunk) /\ Len(longer) = Len(segment) + 1
  BY <1>1
<1>3. /\ \A i \in 1 .. Len(segment) : longer[i] = segment[i]
      /\ longer[Len(longer)] = chunk
  BY <1>1
<1>4. Len(longer) <= MaximumCount
  BY <1>1, <1>2, CountsAssumption DEF IInv, BoundedMemory
<1>5. RunEndingAt(longer, fed + 1)
  BY <1>1, RunAppend DEF IInv, RetainedIsOneRun
<1>6. SpeechAfter(chunk) = Cardinality(SpeechIn(longer))
  BY <1>1, SpeechInAppend DEF IInv, CountersMatchSegment, SpeechAfter
<1>7. /\ silence_chunks < Len(segment)
      /\ segment[Len(segment) - silence_chunks].speech
      /\ \A i \in Len(segment) - silence_chunks + 1 .. Len(segment) : ~segment[i].speech
  BY DEF IInv, CountersMatchSegment
<1>8. CASE chunk.speech
  <2>1. SilenceAfter(chunk) = 0
    BY <1>8 DEF SilenceAfter
  <2> QED
    BY <1>2, <1>3, <1>4, <1>5, <1>6, <1>8, <2>1, <1>1
<1>9. CASE ~chunk.speech
  <2>1. SilenceAfter(chunk) = silence_chunks + 1
    BY <1>9 DEF SilenceAfter
  <2>2. Len(longer) - SilenceAfter(chunk) = Len(segment) - silence_chunks
    BY <1>1, <1>2, <2>1
  <2>3. Len(segment) - silence_chunks \in 1 .. Len(segment)
    BY <1>1, <1>7
  <2>4. longer[Len(longer) - SilenceAfter(chunk)].speech
    BY <1>3, <1>7, <2>2, <2>3
  <2>5. ASSUME NEW i \in Len(longer) - SilenceAfter(chunk) + 1 .. Len(longer)
        PROVE  ~longer[i].speech
    <3>1. CASE i = Len(longer)
      BY <1>3, <1>9, <3>1
    <3>2. CASE i # Len(longer)
      <4>1. i \in Len(segment) - silence_chunks + 1 .. Len(segment)
        BY <1>1, <1>2, <2>2, <2>3, <3>2
      <4>2. i \in 1 .. Len(segment)
        BY <1>1, <2>3, <4>1
      <4> QED
        BY <1>3, <1>7, <4>1, <4>2
    <3> QED
      BY <3>1, <3>2
  <2>6. SilenceAfter(chunk) \in Nat /\ SilenceAfter(chunk) < Len(longer)
    BY <1>1, <1>2, <1>7, <2>1
  <2> QED
    BY <1>2, <1>4, <1>5, <1>6, <2>4, <2>5, <2>6
<1> QED
  BY <1>8, <1>9 DEF Chunk

\* feed with the segment open and neither limit reached.
LEMMA CollectStep ==
    ASSUME IInv, NEW chunk \in Chunk, fed' = fed + 1, chunk.at = fed', Collect(chunk)
    PROVE  IInv'
<1> USE DEF Collect
<1>1. /\ segment \in Seq(Chunk) /\ fed \in Nat /\ resetAt \in 0 .. fed
      /\ active /\ prebuffer = <<>>
  BY DEF IInv, TypeOK, RetainedIsOneRun
<1>2. /\ segment' \in Seq(Chunk)
      /\ Len(segment') = Len(segment) + 1
      /\ RunEndingAt(segment', fed')
      /\ speech_chunks' = Cardinality(SpeechIn(segment'))
      /\ silence_chunks' \in Nat
      /\ silence_chunks' < Len(segment')
      /\ segment'[Len(segment') - silence_chunks'].speech
      /\ \A i \in Len(segment') - silence_chunks' + 1 .. Len(segment') : ~segment'[i].speech
  BY <1>1, LongerSegment
<1>3. Cardinality(SpeechIn(segment')) \in Nat
  BY <1>2, SpeechInAppend
<1>4. \A i \in 1 .. Len(segment) : segment'[i] = segment[i]
  BY <1>1
<1>5. TypeOK'
  BY <1>1, <1>2, <1>3 DEF IInv, TypeOK
<1>6. RetainedIsOneRun'
  <2>1. Len(segment) <= fed - resetAt
    BY DEF IInv, RetainedIsOneRun
  <2>2. RunEndingAt(prebuffer', fed')
    BY <1>1 DEF RunEndingAt
  <2> QED
    BY <1>1, <1>2, <2>1, <2>2 DEF RetainedIsOneRun
<1>7. BoundedMemory'
  BY <1>1, <1>2, CountsAssumption DEF IInv, BoundedMemory, Collecting
<1>8. PrebufferIsSilent'
  BY <1>1 DEF PrebufferIsSilent
<1>9. CountersMatchSegment'
  BY <1>2 DEF CountersMatchSegment
<1>10. PreRollKept'
  <2>1. PICK onset \in SpeechIn(segment) :
          /\ \A i \in 1 .. onset - 1 : ~segment[i].speech
          /\ \/ onset - 1 = PrebufferCount
             \/ onset = segment[onset].at - resetAt
    BY <1>1 DEF IInv, PreRollKept
  <2>2. onset \in 1 .. Len(segment)
    BY <1>1 DEF SpeechIn
  <2>3. onset \in SpeechIn(segment')
    BY <1>1, <1>2, <1>4, <2>1, <2>2 DEF SpeechIn
  <2>4. \A i \in 1 .. onset - 1 : ~segment'[i].speech
    BY <1>1, <1>4, <2>1, <2>2
  <2> QED
    BY <1>1, <1>4, <2>1, <2>2, <2>3, <2>4 DEF PreRollKept
<1> QED
  BY <1>5, <1>6, <1>7, <1>8, <1>9, <1>10 DEF IInv, CompletedIsUsable, CompletedIsReleased

\* The collector after it let go of everything it held.
LEMMA Cleared ==
    ASSUME TypeOK, fed' \in Nat, prebuffer' = <<>>, ClearActive,
           completed' \in Seq(Chunk), CompletedIsUsable', CompletedIsReleased'
    PROVE  IInv'
<1>a. <<>> \in Seq(Chunk) /\ Len(<<>>) = 0 /\ DOMAIN <<>> = {}
  OBVIOUS
<1>d. fed' - fed' = 0 /\ fed' \in 0 .. fed'
  <2>1. ASSUME NEW n \in Nat PROVE n - n = 0 /\ n \in 0 .. n
    OBVIOUS
  <2> QED
    BY <2>1
<1>b. /\ segment' = <<>> /\ silence_chunks' = 0 /\ speech_chunks' = 0
      /\ active' = FALSE /\ resetAt' = fed'
  BY DEF ClearActive
<1>1. TypeOK'
  <2>1. segment' \in Seq(Chunk) /\ prebuffer' \in Seq(Chunk)
    BY <1>a, <1>b
  <2>2. resetAt' \in 0 .. fed'
    BY <1>b, <1>d
  <2>3. silence_chunks' \in Nat /\ speech_chunks' \in Nat /\ active' \in BOOLEAN
    BY <1>b
  <2> QED
    BY <2>1, <2>2, <2>3 DEF TypeOK
<1>c. Len(segment') = 0 /\ Len(prebuffer') = 0 /\ fed' - resetAt' = 0
  BY <1>a, <1>b, <1>d
<1>2. RetainedIsOneRun' /\ PrebufferIsSilent'
  <2>0. DOMAIN segment' = {} /\ DOMAIN prebuffer' = {}
    BY <1>a, <1>b
  <2>1. RunEndingAt(segment', fed') /\ RunEndingAt(prebuffer', fed') /\ PrebufferIsSilent'
    BY <2>0 DEF RunEndingAt, PrebufferIsSilent
  <2>2. Len(prebuffer') <= fed' - resetAt' /\ Len(segment') <= fed' - resetAt'
    BY <1>c
  <2>3. ~active' /\ segment' = <<>>
    BY <1>b
  <2>4. (active' => prebuffer' = <<>>) /\ (active' <=> segment' # <<>>)
    BY <2>3
  <2> QED
    BY <2>1, <2>2, <2>4 DEF RetainedIsOneRun
<1>3. BoundedMemory'
  BY <1>c, CountsAssumption DEF BoundedMemory
<1>4. CountersMatchSegment'
  BY <1>a, <1>b, FS_EmptySet DEF CountersMatchSegment, SpeechIn
<1>5. PreRollKept'
  BY <1>b, <1>c DEF PreRollKept
<1> QED
  BY <1>1, <1>2, <1>3, <1>4, <1>5 DEF IInv

\* feed with the segment open and a limit reached: the segment is returned, or
\* thrown away.
LEMMA CompleteStep ==
    ASSUME IInv, NEW chunk \in Chunk, fed' = fed + 1, chunk.at = fed', Complete(chunk)
    PROVE  IInv'
<1> USE DEF Complete
<1> DEFINE longer == Append(segment, chunk)
<1>1. /\ segment \in Seq(Chunk) /\ fed \in Nat /\ active /\ prebuffer = <<>>
  BY DEF IInv, TypeOK, RetainedIsOneRun
<1>2. /\ longer \in Seq(Chunk)
      /\ Len(longer) = Len(segment) + 1
      /\ Len(longer) <= MaximumCount
      /\ RunEndingAt(longer, fed')
      /\ SpeechAfter(chunk) = Cardinality(SpeechIn(longer))
      /\ SilenceAfter(chunk) \in Nat
      /\ SilenceAfter(chunk) < Len(longer)
      /\ \A i \in Len(longer) - SilenceAfter(chunk) + 1 .. Len(longer) : ~longer[i].speech
  BY <1>1, LongerSegment
<1>3. completed' \in Seq(Chunk)
  BY <1>2 DEF Outcome
<1>4. CompletedIsUsable'
  <2> SUFFICES ASSUME completed' # <<>>
               PROVE  /\ Len(longer) \in MinimumCount .. MaximumCount
                      /\ Cardinality(SpeechIn(longer)) >= MinimumSpeechCount
                      /\ \/ Len(longer) = MaximumCount
                         \/ /\ Len(longer) > SilenceCount
                            /\ \A i \in Len(longer) - SilenceCount + 1 .. Len(longer) :
                                 ~longer[i].speech
    BY DEF CompletedIsUsable, Outcome
  <2>1. Usable(chunk)
    BY DEF Outcome
  <2>2. Len(longer) \in MinimumCount .. MaximumCount
    BY <1>1, <1>2, <2>1, CountsAssumption DEF Usable
  <2>3. Cardinality(SpeechIn(longer)) >= MinimumSpeechCount
    BY <1>2, <2>1 DEF Usable
  <2>4. CASE Len(segment) + 1 >= MaximumCount
    BY <1>1, <1>2, <2>2, <2>3, <2>4, CountsAssumption
  <2>5. CASE ~(Len(segment) + 1 >= MaximumCount)
    <3>1. SilenceAfter(chunk) >= SilenceCount
      BY <1>1, <1>2, <2>5, CountsAssumption DEF Collecting
    <3>2. Len(longer) > SilenceCount
      BY <1>1, <1>2, <3>1, CountsAssumption
    <3>3. \A i \in Len(longer) - SilenceCount + 1 .. Len(longer) : ~longer[i].speech
      BY <1>1, <1>2, <3>1, CountsAssumption
    <3> QED
      BY <2>2, <2>3, <3>2, <3>3
  <2> QED
    BY <2>4, <2>5
<1>5. CompletedIsReleased'
  BY <1>1, <1>2 DEF CompletedIsReleased, ClearActive, Outcome
<1>6. fed' \in Nat /\ prebuffer' = <<>>
  BY <1>1
<1> QED
  BY <1>3, <1>4, <1>5, <1>6, Cleared DEF IInv

\* Each call of feed and reset keeps the inductive invariant.
LEMMA NextIInv == IInv /\ [Next]_vars => IInv'
<1> SUFFICES ASSUME IInv, [Next]_vars PROVE IInv'
  OBVIOUS
<1>1. CASE Feed
  <2>1. PICK speech \in BOOLEAN :
          LET chunk == [at |-> fed', speech |-> speech]
          IN  Wait(chunk) \/ Onset(chunk) \/ Collect(chunk) \/ Complete(chunk)
    BY <1>1 DEF Feed
  <2> DEFINE chunk == [at |-> fed', speech |-> speech]
  <2>2. fed' = fed + 1 /\ chunk \in Chunk /\ chunk.at = fed'
    BY <1>1 DEF Feed, Chunk, IInv, TypeOK
  <2> HIDE DEF chunk
  <2>3. Wait(chunk) \/ Onset(chunk) \/ Collect(chunk) \/ Complete(chunk)
    BY <2>1 DEF chunk
  <2> QED
    BY <2>2, <2>3, WaitStep, OnsetStep, CollectStep, CompleteStep
<1>2. CASE FeedError
  BY <1>2
  DEF FeedError, collectorVars, IInv, TypeOK, RetainedIsOneRun, RunEndingAt, BoundedMemory,
      PrebufferIsSilent, CountersMatchSegment, PreRollKept, CompletedIsUsable, CompletedIsReleased
<1>3. CASE Reset
  BY <1>3, Cleared DEF Reset, IInv, TypeOK, CompletedIsUsable, CompletedIsReleased
<1>4. CASE UNCHANGED vars
  BY <1>4
  DEF vars, collectorVars, IInv, TypeOK, RetainedIsOneRun, RunEndingAt, BoundedMemory,
      PrebufferIsSilent, CountersMatchSegment, PreRollKept, CompletedIsUsable, CompletedIsReleased
<1> QED
  BY <1>1, <1>2, <1>3, <1>4 DEF Next

\* The collector keeps the inductive invariant on every stream.
THEOREM Invariant == Spec => []IInv
<1> QED
  BY InitIInv, NextIInv, PTL DEF Spec

\* The fields keep their types.
THEOREM TypeCorrect == Spec => []TypeOK
<1>1. IInv => TypeOK
  BY DEF IInv
<1> QED
  BY <1>1, Invariant, PTL

\* Retained audio is one unbroken run of what the detector judged since its
\* last reset.
THEOREM RetainedRun == Spec => []RetainedIsOneRun
<1>1. IInv => RetainedIsOneRun
  BY DEF IInv
<1> QED
  BY <1>1, Invariant, PTL

\* Memory is bounded by one maximum segment and one pre-roll.
THEOREM MemoryBounded == Spec => []BoundedMemory
<1>1. IInv => BoundedMemory
  BY DEF IInv
<1> QED
  BY <1>1, Invariant, PTL

\* The counters that end and judge a segment describe that segment.
THEOREM CountersCorrect == Spec => []CountersMatchSegment
<1>1. IInv => CountersMatchSegment
  BY DEF IInv
<1> QED
  BY <1>1, Invariant, PTL

\* No speech onset is clipped.
THEOREM OnsetsKept == Spec => []PreRollKept
<1>1. IInv => PreRollKept
  BY DEF IInv
<1> QED
  BY <1>1, Invariant, PTL

\* Every returned segment is worth a transcription.
THEOREM SegmentsUsable == Spec => []CompletedIsUsable
<1>1. IInv => CompletedIsUsable
  BY DEF IInv
<1> QED
  BY <1>1, Invariant, PTL

\* A chunk appears in at most one returned segment: only Complete returns one,
\* and it is a run no longer than what was judged since the last reset.
THEOREM AudioOnce == Spec => NoAudioTwice
<1>1. IInv /\ [Next]_vars =>
        [completed' # <<>> => \A i \in DOMAIN completed' : completed'[i].at > resetAt]_vars
  <2> SUFFICES ASSUME IInv, Next, completed' # <<>>, NEW i \in DOMAIN completed'
               PROVE  completed'[i].at > resetAt
    OBVIOUS
  <2>1. Feed
    BY DEF Next, FeedError, Reset
  <2>2. PICK speech \in BOOLEAN :
          Complete([at |-> fed', speech |-> speech])
    BY <2>1 DEF Feed, Wait, Onset, Collect
  <2> DEFINE chunk == [at |-> fed', speech |-> speech]
             longer == Append(segment, chunk)
  <2>3. /\ fed' = fed + 1 /\ chunk \in Chunk /\ chunk.at = fed + 1 /\ active
        /\ segment \in Seq(Chunk) /\ fed \in Nat /\ resetAt \in 0 .. fed
    BY <2>1, <2>2 DEF Feed, Chunk, IInv, TypeOK, Complete
  <2>4. completed' = longer
    BY <2>2 DEF Complete, Outcome
  <2> HIDE DEF chunk
  <2>5. /\ longer \in Seq(Chunk) /\ Len(longer) = Len(segment) + 1
        /\ RunEndingAt(longer, fed + 1)
    BY <2>3, LongerSegment
  <2>6. Len(segment) <= fed - resetAt
    BY DEF IInv, RetainedIsOneRun
  <2>7. i \in 1 .. Len(longer) /\ longer[i] \in Chunk
    BY <2>4, <2>5
  <2>9. longer[i].at \in Nat /\ Len(longer) \in Nat
    BY <2>5, <2>7 DEF Chunk
  <2>8. longer[i].at + (Len(longer) - i) = fed + 1
    BY <2>5, <2>7 DEF RunEndingAt
  <2> QED
    BY <2>3, <2>4, <2>5, <2>6, <2>7, <2>8, <2>9
<1> QED
  BY <1>1, Invariant, PTL DEF Spec, NoAudioTwice

-----------------------------------------------------------------------------
(* The detector                                                            *)

\* How far the collector is ahead of the provider, by the state of the reader.
Ahead ==
    /\ collected \in {sent, sent + 1}
    /\ chunk_task = "done" => collected = sent + 1
    /\ chunk_task \in {"waiting", "ready", "failed"} => collected = sent
    /\ chunk_task = "none" /\ main \notin {"ending", "returned"} => collected = sent
    /\ chunk_task = "ready" => collected < arrived

\* The tasks that exist, by where detect is suspended.
Tasks ==
    /\ main = "racing" => chunk_task # "none"
    /\ main = "writing" => chunk_task = "done"
    /\ main = "cancelling" => chunk_task = "none"
    /\ main \in {"connecting", "greeting", "ending", "returned"} =>
         event_task = "none" /\ chunk_task = "none" /\ stop_task = "none"
    /\ main = "connecting" => connection = "none"
    /\ main = "returned" => connection # "open"

\* The detector's inductive invariant.
DetectInv == DetectTypes /\ Ahead /\ Tasks

\* The assumption on the stream's bound, as a fact to cite.
LEMMA DetectBounds == MaxChunks \in Nat
  BY DetectorAssumption

\* The inductive invariant implies the two properties checked by TLC.
LEMMA DetectImplied == DetectInv => DetectTypes /\ SameStream /\ NothingLeftBehind
<1> SUFFICES ASSUME DetectInv PROVE SameStream /\ NothingLeftBehind
  BY DEF DetectInv
<1>1. collected \in Nat /\ sent \in Nat
  BY DetectBounds DEF DetectInv, DetectTypes
<1>2. SameStream
  BY <1>1 DEF DetectInv, DetectTypes, Ahead, Tasks, SameStream, ChunkDone
<1>3. NothingLeftBehind
  BY DEF DetectInv, Tasks, NothingLeftBehind
<1> QED
  BY <1>2, <1>3

-----------------------------------------------------------------------------
(* Each step of detect                                                     *)

\* Before detect connects nothing has arrived and no task runs.
LEMMA DetectBegins == DetectInit => DetectInv
  BY DetectBounds DEF DetectInit, DetectInv, DetectTypes, Ahead, Tasks, MainStates

\* The stop event, the provider and the tasks.
LEMMA OthersStep ==
    ASSUME DetectInv, Stop \/ StopSeen \/ ProviderSends \/ ChunkArrives \/ ChunkRead \/ ChunkFails
    PROVE  DetectInv'
<1> USE DetectBounds DEF DetectInv, DetectTypes, Ahead, Tasks, Others, tasks, chunks, Events
<1>1. CASE Stop
  BY <1>1 DEF Stop
<1>2. CASE StopSeen
  BY <1>2 DEF StopSeen
<1>3. CASE ProviderSends
  BY <1>3 DEF ProviderSends
<1>4. CASE ChunkArrives
  BY <1>4 DEF ChunkArrives
<1>5. CASE ChunkRead
  BY <1>5 DEF ChunkRead
<1>6. CASE ChunkFails
  BY <1>6 DEF ChunkFails
<1> QED
  BY <1>1, <1>2, <1>3, <1>4, <1>5, <1>6

\* detect itself.
LEMMA DetectorStep == ASSUME DetectInv, Detector PROVE DetectInv'
<1> USE DetectBounds DEF DetectInv, DetectTypes, Ahead, Tasks, MainStates, tasks, chunks, Events
<1>1. CASE Connect
  BY <1>1 DEF Connect
<1>2. CASE Greet
  BY <1>2 DEF Greet, NextRound, Leave
<1>3. CASE Resume
  BY <1>3 DEF Resume, Leave, ReadOn, ChunkDone, StopDone
<1>4. CASE Write
  BY <1>4 DEF Write, NextRound, Leave
<1>5. CASE Cancelled
  BY <1>5 DEF Cancelled, NextRound
<1>6. CASE Close
  BY <1>6 DEF Close
<1>7. CASE Disconnect
  BY <1>7 DEF Disconnect
<1> QED
  BY <1>1, <1>2, <1>3, <1>4, <1>5, <1>6, <1>7 DEF Detector, Driven, Writing

\* Each step of detect and of its surroundings keeps the inductive invariant.
LEMMA DetectKeeps == DetectInv /\ [DetectNext]_detectVars => DetectInv'
<1> SUFFICES ASSUME DetectInv, [DetectNext]_detectVars PROVE DetectInv'
  OBVIOUS
<1>1. CASE Detector
  BY <1>1, DetectorStep
<1>2. CASE Stop \/ StopSeen \/ ProviderSends \/ ChunkArrives \/ ChunkRead \/ ChunkFails
  BY <1>2, OthersStep
<1>3. CASE UNCHANGED detectVars
  BY <1>3 DEF detectVars, tasks, chunks, DetectInv, DetectTypes, Ahead, Tasks
<1> QED
  BY <1>1, <1>2, <1>3 DEF DetectNext

-----------------------------------------------------------------------------
(* Theorems about the detector                                             *)

\* Every reachable state of detect satisfies the inductive invariant.
THEOREM DetectInvariant == DetectSpec => []DetectInv
<1> QED
  BY DetectBegins, DetectKeeps, PTL DEF DetectSpec

\* detect's variables have their types.
THEOREM DetectTypesCorrect == DetectSpec => []DetectTypes
<1> QED
  BY DetectInvariant, DetectImplied, PTL

\* No chunk is heard by the collector alone, but for the one under way when
\* detect ends, and none by the provider alone.
THEOREM StreamsAgree == DetectSpec => []SameStream
<1> QED
  BY DetectInvariant, DetectImplied, PTL

\* When detect returns no task of its own runs and its connection is closed.
THEOREM NothingLeft == DetectSpec => []NothingLeftBehind
<1> QED
  BY DetectInvariant, DetectImplied, PTL
=============================================================================
