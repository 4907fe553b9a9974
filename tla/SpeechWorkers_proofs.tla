------------------------ MODULE SpeechWorkers_proofs -----------------------
(***************************************************************************)
(* Proofs about SpeechWorkers, for any number of attempts, any maximum     *)
(* backoff and sessions without end; about the text of the events that     *)
(* the workers publish, for any text and any sizes of its characters;      *)
(* about the budget that stands before their requests, for any windows,    *)
(* limits and durations; and about the commands found in transcripts, for  *)
(* any alphabet and any accepted wake words.                               *)
(***************************************************************************)
EXTENDS SpeechWorkers, TranscriptText, SubmissionBudget, SequenceTheorems, WellFoundedInduction, TLAPS

-----------------------------------------------------------------------------
(* Numbers and recursion                                                   *)

\* A non-empty set of natural numbers has a least element.
LEMMA LeastNumber ==
    ASSUME NEW T \in SUBSET Nat, T # {}
    PROVE  \E x \in T : \A y \in T : x <= y
PROOF
<1>1. PICK x \in T : \A y \in T : ~ (<<y, x>> \in OpToRel(<, Nat))
      BY NatLessThanWellFounded, WFMin, Zenon
<1>2. \A y \in Nat : y < x => <<y, x>> \in OpToRel(<, Nat)
      BY Zenon DEF OpToRel
<1>3. \A y \in T : ~ (y < x)
      BY <1>1, <1>2, Zenon
<1> QED BY <1>3

\* A set with zero and every successor has every natural number.
LEMMA Induction ==
    ASSUME NEW T \in SUBSET Nat, 0 \in T, \A n \in T : n + 1 \in T
    PROVE  T = Nat
PROOF
<1>1. SUFFICES ASSUME Nat \ T # {} PROVE FALSE
      OBVIOUS
<1>2. PICK x \in Nat \ T : \A y \in Nat \ T : x <= y
      BY <1>1, LeastNumber
<1>3. x - 1 \in Nat
      BY <1>2
<1>4. x - 1 \in T
      BY <1>2, <1>3
<1> QED BY <1>2, <1>4

\* The functions that begin with `base' and go on by `step' up to n.
Iterations(n, V, base, step) ==
    {f \in [0 .. n -> V] : f[0] = base /\ \A i \in 1 .. n : f[i] = step[<<i, f[i - 1]>>]}

\* They exist for every n.
LEMMA IterationsExist ==
    ASSUME NEW V, NEW base \in V, NEW step \in [Nat \X V -> V]
    PROVE  \A n \in Nat : Iterations(n, V, base, step) # {}
PROOF
<1> DEFINE It(n) == Iterations(n, V, base, step)
           T == {n \in Nat : It(n) # {}}
<1>1. [i \in 0 .. 0 |-> base] \in It(0)
      BY DEF Iterations
<1>2. ASSUME NEW n \in T PROVE n + 1 \in T
  <2>1. PICK f \in It(n) : TRUE
        OBVIOUS
  <2> DEFINE g == [i \in 0 .. n + 1 |-> IF i = n + 1 THEN step[<<n + 1, f[n]>>] ELSE f[i]]
  <2>2. /\ n \in Nat /\ f \in [0 .. n -> V] /\ f[0] = base
        /\ \A i \in 1 .. n : f[i] = step[<<i, f[i - 1]>>]
        BY <2>1 DEF Iterations
  <2>3. f[n] \in V /\ step[<<n + 1, f[n]>>] \in V
        BY <2>2
  <2>4. g \in [0 .. n + 1 -> V] /\ g[0] = base
        BY <2>2, <2>3
  <2>5. ASSUME NEW i \in 1 .. n + 1 PROVE g[i] = step[<<i, g[i - 1]>>]
    <3>1. CASE i = n + 1
      <4>1. i \in 0 .. n + 1 /\ i - 1 \in 0 .. n + 1 /\ i - 1 # n + 1 /\ i - 1 = n
            BY <2>2, <3>1
      <4>2. g[i] = step[<<n + 1, f[n]>>] /\ g[i - 1] = f[n]
            BY <3>1, <4>1
      <4> QED BY <3>1, <4>2
    <3>2. CASE i # n + 1
      <4>1. i \in 1 .. n /\ i \in 0 .. n + 1 /\ i - 1 \in 0 .. n + 1 /\ i # n + 1 /\ i - 1 # n + 1
            BY <2>2, <3>2
      <4>2. g[i] = f[i] /\ g[i - 1] = f[i - 1]
            BY <4>1
      <4> QED BY <2>2, <4>1, <4>2
    <3> QED BY <3>1, <3>2
  <2>6. g \in It(n + 1)
        BY <2>4, <2>5 DEF Iterations
  <2> QED BY <2>2, <2>6
<1>3. T = Nat
  <2> HIDE DEF T
  <2>1. T \in SUBSET Nat /\ 0 \in T
        BY <1>1 DEF T
  <2> QED BY <1>2, <2>1, Induction
<1> QED BY <1>3

\* The longer ones go on from the shorter ones.
LEMMA IterationsAgree ==
    ASSUME NEW V, NEW base, NEW step,
           NEW m \in Nat, NEW f \in Iterations(m, V, base, step),
           NEW n \in Nat, NEW g \in Iterations(n, V, base, step), m <= n
    PROVE  f[m] = g[m]
PROOF
<1> DEFINE T == {k \in Nat : k <= m => f[k] = g[k]}
<1>1. 0 \in T
      BY DEF Iterations
<1>2. ASSUME NEW k \in T PROVE k + 1 \in T
  <2>1. SUFFICES ASSUME k + 1 <= m PROVE f[k + 1] = g[k + 1]
        OBVIOUS
  <2>2. k + 1 \in 1 .. m /\ k + 1 \in 1 .. n /\ (k + 1) - 1 = k
        BY <2>1
  <2>3. f[k + 1] = step[<<k + 1, f[k]>>] /\ g[k + 1] = step[<<k + 1, g[k]>>]
        BY <2>2 DEF Iterations
  <2> QED BY <2>1, <2>3
<1>3. T = Nat
  <2> HIDE DEF T
  <2>1. T \in SUBSET Nat
        BY DEF T
  <2> QED BY <1>1, <1>2, <2>1, Induction
<1> QED BY <1>3

\* The steps of a recursion over V.
Steps(V) == [Nat \X V -> V]

\* f is `base' at 0 and what `step' makes of f[n - 1] at n.
Iterates(f, base, step) ==
    f[0] = base /\ \A n \in Nat \ {0} : f[n] = step[<<n, f[n - 1]>>]

\* Primitive recursion defines a function.
LEMMA Recursion ==
    ASSUME NEW V, NEW base \in V, NEW step \in Steps(V)
    PROVE  \E f \in [Nat -> V] : Iterates(f, base, step)
PROOF
<1> DEFINE It(n) == Iterations(n, V, base, step)
           G(n) == CHOOSE g \in It(n) : TRUE
           F == [n \in Nat |-> G(n)[n]]
<1>1. \A n \in Nat : G(n) \in It(n)
      BY IterationsExist DEF Steps
<1>2. \A n \in Nat : G(n) \in [0 .. n -> V] /\ G(n)[0] = base
                     /\ \A i \in 1 .. n : G(n)[i] = step[<<i, G(n)[i - 1]>>]
  <2> HIDE DEF G
  <2> QED BY <1>1 DEF Iterations
<1>3. F \in [Nat -> V] /\ F[0] = base
  <2> HIDE DEF G
  <2> QED BY <1>2
<1>4. ASSUME NEW n \in Nat \ {0} PROVE F[n] = step[<<n, F[n - 1]>>]
  <2> HIDE DEF G
  <2>1. n - 1 \in Nat /\ n \in 1 .. n /\ n - 1 <= n
        OBVIOUS
  <2>2. G(n - 1)[n - 1] = G(n)[n - 1]
        BY <1>1, <2>1, IterationsAgree
  <2> QED BY <1>2, <2>1, <2>2
<1>5. Iterates(F, base, step)
  <2> HIDE DEF F
  <2> QED BY <1>3, <1>4 DEF Iterates
<1> QED BY <1>3, <1>5

-----------------------------------------------------------------------------
(* The inductive invariant                                                 *)

\* What a turn has to deliver in each state of the worker.
Deliveries ==
    /\ main \in {"starting", "listening", "transcribing"} =>
         activation = "none" /\ event = "none"
    /\ main \in {"publish", "publishBackoff"} =>
         activation = "due" /\ event \in {"none", "due"} /\ mode # "ambient"
    /\ main \in {"publishEvent", "eventBackoff"} => event = "due" /\ activation # "due"
    /\ main \in {"closing", "idle", "sleeping", "stopped"} /\ ~stop =>
         event # "due" /\ activation # "due"
    /\ activation = "due" => event \in {"none", "due"}
    /\ mode = "canary" => event = "none"
    /\ main = "transcribing" => mode # "canary"

\* Attempts are counted up to the last one, after which the event is given up.
Attempts ==
    /\ main = "eventBackoff" => attempt < MaxAttempts
    /\ event = "dropped" =>
         attempt = MaxAttempts /\ main \in {"closing", "idle", "sleeping", "stopped"}

\* What each worker returns; nothing at all only when it was told to stop.
Outcomes ==
    /\ main \in {"publishEvent", "eventBackoff"} => ret \in {"cooldown", "at once"}
    /\ main = "closing" /\ ret = "none" => stop
    /\ ret = "at once" => mode = "ambient"
    /\ ret = "cooldown" => mode # "ambient"
    /\ ret = "retry" => mode # "canary"

\* The inductive invariant.
IInv == TypeOK /\ Deliveries /\ Attempts /\ Outcomes

-----------------------------------------------------------------------------
(* Steps                                                                   *)

\* What the steps need of the constants.
LEMMA Bounds ==
    /\ MaxAttempts \in Nat /\ MaxAttempts >= 1
    /\ 0 \in 0 .. MaxAttempts /\ 1 \in 0 .. MaxAttempts
    /\ 1 \in 1 .. maximum_backoff
    /\ 0 \in 0 .. MaxFailures
    /\ maximum_backoff \in Nat /\ MaxFailures \in Nat
BY WorkersAssumption

\* Doubling respects the maximum.
LEMMA TwiceTypes ==
    ASSUME NEW pause \in 1 .. maximum_backoff
    PROVE  Twice(pause) \in 1 .. maximum_backoff
BY WorkersAssumption DEF Twice, AtMost

\* Counting up to the bound respects it.
LEMMA CountTypes ==
    ASSUME NEW n \in 0 .. MaxFailures
    PROVE  AtMost(MaxFailures, n + 1) \in 0 .. MaxFailures
BY WorkersAssumption DEF AtMost

\* The steps up to the transcription.
LEMMA MicrophoneKeeps ==
    ASSUME IInv, StartSource \/ SessionFails \/ CaptureStops \/ CaptureSegment \/ DetectStops \/ Detect
    PROVE  IInv'
PROOF
<1> USE DEF IInv, TypeOK, MainStates, Returns, turnVars
<1>1. CASE StartSource \/ SessionFails
      BY <1>1 DEF StartSource, SessionFails, Return, Deliveries, Attempts, Outcomes
<1>2. CASE CaptureStops \/ DetectStops
      BY <1>2 DEF CaptureStops, DetectStops, Return, Deliveries, Attempts, Outcomes
<1>3. CASE CaptureSegment
      BY <1>3 DEF CaptureSegment, Return, Deliveries, Attempts, Outcomes
<1>4. CASE Detect
      BY <1>4, Bounds DEF Detect, Command, Return, Deliveries, Attempts, Outcomes
<1> QED BY <1>1, <1>2, <1>3, <1>4

\* The provider's answer.
LEMMA TranscribeKeeps ==
    ASSUME IInv, Transcribe
    PROVE  IInv'
PROOF
<1> USE DEF IInv, TypeOK, MainStates, Returns
<1>1. /\ main = "transcribing" /\ UNCHANGED <<mode, stop, backoff, failures>>
      /\ activation = "none" /\ event = "none" /\ mode # "canary"
      BY DEF Transcribe, Deliveries
<1>2. CASE TranscribeFails
      BY <1>1, <1>2 DEF TranscribeFails, Return, Deliveries, Attempts, Outcomes
<1>3. CASE AmbientAnswers
  <2>1. TypeOK'
        BY <1>1, <1>3, Bounds DEF AmbientAnswers, BeginEvent, Return
  <2>2. Deliveries'
        BY <1>1, <1>3, Bounds DEF AmbientAnswers, BeginEvent, Return, Deliveries
  <2>3. Attempts'
        BY <1>1, <1>3, Bounds DEF AmbientAnswers, BeginEvent, Return, Attempts, Deliveries
  <2>4. Outcomes'
        BY <1>1, <1>3, Bounds DEF AmbientAnswers, BeginEvent, Return, Outcomes, Deliveries
  <2> QED BY <2>1, <2>2, <2>3, <2>4
<1>4. CASE SttAnswers
  <2>1. TypeOK'
        BY <1>1, <1>4, Bounds DEF SttAnswers, Command, BeginEvent, Return
  <2>2. Deliveries'
        BY <1>1, <1>4, Bounds DEF SttAnswers, Command, BeginEvent, Return, Deliveries
  <2>3. Attempts'
        BY <1>1, <1>4, Bounds DEF SttAnswers, Command, BeginEvent, Return, Attempts, Deliveries
  <2>4. Outcomes'
        BY <1>1, <1>4, Bounds DEF SttAnswers, Command, BeginEvent, Return, Outcomes, Deliveries
  <2> QED BY <2>1, <2>2, <2>3, <2>4
<1> QED BY <1>2, <1>3, <1>4 DEF Transcribe

\* The publication of a command.
LEMMA PublishKeeps ==
    ASSUME IInv, Publish \/ PublishAgain
    PROVE  IInv'
PROOF
<1> USE DEF IInv, TypeOK, MainStates, Returns
<1>1. CASE PublishAgain
      BY <1>1, TwiceTypes DEF PublishAgain, Return, Deliveries, Attempts, Outcomes
<1>2. CASE Publish /\ activation' = activation
  <2>1. main' = "publishBackoff" /\ tries' \in 0 .. MaxFailures
        /\ UNCHANGED <<activation, attempt, ret, mode, stop, backoff, publish_backoff, event, failures>>
        BY <1>2, CountTypes DEF Publish, Deliveries
  <2> QED BY <1>2, <2>1 DEF Publish, Deliveries, Attempts, Outcomes
<1>3. CASE Publish /\ activation' # activation
  <2>1. /\ main = "publish" /\ activation' = "sent"
        /\ UNCHANGED <<mode, stop, backoff, publish_backoff, event, failures, tries>>
        /\ event \in {"none", "due"} /\ mode # "ambient"
        /\ IF mode = "canary" THEN CanaryPublished ELSE SttPublished
        BY <1>3 DEF Publish, Deliveries
  <2>2. CASE mode = "canary"
        BY <2>1, <2>2 DEF CanaryPublished, Return, Deliveries, Attempts, Outcomes
  <2>3. CASE mode # "canary"
    <3>1. TypeOK'
          BY <2>1, <2>3, Bounds DEF SttPublished, BeginEvent, Return
    <3>2. Deliveries'
          BY <2>1, <2>3, Bounds DEF SttPublished, BeginEvent, Return, Deliveries
    <3>3. Attempts'
          BY <2>1, <2>3, Bounds DEF SttPublished, BeginEvent, Return, Attempts, Deliveries
    <3>4. Outcomes'
          BY <2>1, <2>3, Bounds DEF SttPublished, BeginEvent, Return, Outcomes, Deliveries
    <3> QED BY <3>1, <3>2, <3>3, <3>4
  <2> QED BY <2>2, <2>3
<1> QED BY <1>1, <1>2, <1>3

\* The publication of a transcript event.
LEMMA EventKeeps ==
    ASSUME IInv, PublishEvent \/ PublishEventAgain
    PROVE  IInv'
PROOF
<1>0. attempt \in Nat /\ MaxAttempts \in Nat /\ attempt <= MaxAttempts
      BY Bounds DEF IInv, TypeOK
<1>1. PublishEvent /\ event = "due" /\ event' = "dropped" => attempt >= MaxAttempts
      BY DEF PublishEvent
<1>2. PublishEventAgain => attempt' \in {attempt, attempt + 1} /\ attempt < MaxAttempts
      BY DEF PublishEventAgain, IInv, Attempts
<1>3. PublishEventAgain => attempt' \in 0 .. MaxAttempts
      BY <1>0, <1>2
<1>4. PublishEvent /\ event = "due" /\ event' = "dropped" => attempt = MaxAttempts
      BY <1>0, <1>1
<1> USE DEF IInv, TypeOK, MainStates, Returns
<1>5. CASE PublishEvent
  <2>1. TypeOK'
        BY <1>5 DEF PublishEvent, Return
  <2>2. Deliveries'
        BY <1>5 DEF PublishEvent, Return, Deliveries
  <2>3. Attempts'
    <3>1. event = "due" /\ attempt' = attempt
          BY <1>5 DEF PublishEvent, Deliveries
    <3>2. CASE event' = "dropped"
          BY <1>4, <1>5, <3>1, <3>2 DEF PublishEvent, Return, Attempts
    <3>3. CASE event' # "dropped"
          BY <1>4, <1>5, <3>1, <3>3 DEF PublishEvent, Return, Attempts
    <3> QED BY <3>2, <3>3
  <2>4. Outcomes'
        BY <1>5 DEF PublishEvent, Return, Outcomes, Deliveries
  <2> QED BY <2>1, <2>2, <2>3, <2>4
<1>6. CASE PublishEventAgain
  <2>1. TypeOK'
        BY <1>3, <1>6 DEF PublishEventAgain, Return
  <2>2. Deliveries'
        BY <1>6 DEF PublishEventAgain, Return, Deliveries
  <2>3. Attempts'
        BY <1>6 DEF PublishEventAgain, Return, Attempts, Deliveries
  <2>4. Outcomes'
        BY <1>6 DEF PublishEventAgain, Return, Outcomes, Deliveries
  <2> QED BY <2>1, <2>2, <2>3, <2>4
<1> QED BY <1>5, <1>6

\* The loop around the sessions.
LEMMA LoopKeeps ==
    ASSUME IInv, Begin \/ End \/ Close \/ Stop
    PROVE  IInv'
PROOF
<1> USE Bounds DEF IInv, TypeOK, MainStates, Returns, turnVars
<1>1. BackoffAfterSleep \in 1 .. maximum_backoff
      BY TwiceTypes DEF BackoffAfterSleep
<1>2. CASE Begin
  <2>5. failures' \in 0 .. MaxFailures
        BY <1>2, CountTypes DEF Begin
  <2>1. TypeOK'
        BY <1>1, <1>2, <2>5 DEF Begin
  <2>2. Deliveries'
        BY <1>1, <1>2, <2>5 DEF Begin, Deliveries
  <2>3. Attempts'
        BY <1>1, <1>2, <2>5 DEF Begin, Attempts, Deliveries
  <2>4. Outcomes'
        BY <1>1, <1>2, <2>5 DEF Begin, Outcomes, Deliveries
  <2> QED BY <2>1, <2>2, <2>3, <2>4
<1>3. CASE End
  <2>1. TypeOK'
        BY <1>1, <1>3 DEF End
  <2>2. Deliveries'
        BY <1>1, <1>3 DEF End, Deliveries
  <2>3. Attempts' /\ Outcomes'
        BY <1>1, <1>3 DEF End, Attempts, Outcomes, Deliveries
  <2> QED BY <2>1, <2>2, <2>3
<1>5. CASE Stop
  <2>1. TypeOK'
        BY <1>5, ZenonT(30) DEF Stop
  <2>2. Deliveries'
        BY <1>5 DEF Stop, Deliveries
  <2>3. Attempts' /\ Outcomes'
        BY <1>5 DEF Stop, Attempts, Outcomes, Deliveries
  <2> QED BY <2>1, <2>2, <2>3
<1>4. CASE Close
  <2>1. failures' \in 0 .. MaxFailures
        BY <1>4, CountTypes DEF Close
  <2>2. TypeOK'
        BY <1>4, <2>1 DEF Close
  <2>3. Deliveries'
        BY <1>4, <2>1 DEF Close, Deliveries
  <2>4. Attempts' /\ Outcomes'
        BY <1>4, <2>1 DEF Close, Attempts, Outcomes, Deliveries
  <2> QED BY <2>2, <2>3, <2>4
<1> QED BY <1>2, <1>3, <1>4, <1>5

-----------------------------------------------------------------------------
(* The pauses                                                              *)

\* What the pauses are in every state, in the middle of a loop too: the ones
\* of run_forever follow the failed sessions, those of a publication its tries.
Pacing ==
    /\ main = "sleeping" /\ ret = "error" => failures >= 1 /\ backoff = Pause(failures - 1)
    /\ main = "sleeping" /\ ret # "error" => backoff = 1 /\ failures = 0
    /\ main \notin {"sleeping", "stopped"} => backoff = Pause(failures)
    /\ main = "publishBackoff" => tries >= 1 /\ publish_backoff = Pause(tries - 1)
    /\ main = "publish" => publish_backoff = Pause(tries)

\* PowerOfTwo doubles.
LEMMA PowersDouble ==
    /\ PowerOfTwo \in [Nat -> Nat]
    /\ PowerOfTwo[0] = 1
    /\ \A n \in Nat : PowerOfTwo[n + 1] = 2 * PowerOfTwo[n]
PROOF
<1> DEFINE R(f) == f = [n \in Nat |-> IF n = 0 THEN 1 ELSE 2 * f[n - 1]]
           double == [at \in Nat \X Nat |-> 2 * at[2]]
           T == {n \in Nat : PowerOfTwo[n] \in Nat}
<1>1. double \in Steps(Nat) /\ \A n, k \in Nat : double[<<n, k>>] = 2 * k
      BY DEF Steps
<1> HIDE DEF double
<1>2. PICK f \in [Nat -> Nat] : Iterates(f, 1, double)
      BY <1>1, Recursion
<1>3. R(f)
  <2>1. ASSUME NEW n \in Nat PROVE f[n] = IF n = 0 THEN 1 ELSE 2 * f[n - 1]
    <3>1. CASE n = 0
          BY <1>2, <3>1 DEF Iterates
    <3>2. CASE n # 0
      <4>1. n \in Nat \ {0} /\ n - 1 \in Nat /\ f[n - 1] \in Nat
            BY <3>2
      <4> QED BY <1>1, <1>2, <3>2, <4>1 DEF Iterates
    <3> QED BY <3>1, <3>2
  <2>2. f = [n \in Nat |-> IF n = 0 THEN 1 ELSE 2 * f[n - 1]]
        BY <2>1
  <2> QED BY <2>2
<1>4. PowerOfTwo = CHOOSE g : R(g)
      BY DEF PowerOfTwo
<1>5. R(PowerOfTwo)
  <2> HIDE DEF R
  <2> QED BY <1>3, <1>4
<1>6. PowerOfTwo[0] = 1
      BY <1>5
<1>7. ASSUME NEW n \in Nat PROVE PowerOfTwo[n + 1] = 2 * PowerOfTwo[n]
  <2>1. n + 1 \in Nat /\ n + 1 # 0 /\ (n + 1) - 1 = n
        OBVIOUS
  <2> QED BY <1>5, <2>1
<1>8. T = Nat
  <2>1. T \in SUBSET Nat /\ 0 \in T
        BY <1>6
  <2>2. ASSUME NEW n \in T PROVE n + 1 \in T
        BY <1>7
  <2> HIDE DEF T
  <2> QED BY <2>1, <2>2, Induction
<1>9. PowerOfTwo \in [Nat -> Nat]
  <2>1. PowerOfTwo = [n \in Nat |-> PowerOfTwo[n]]
        BY <1>5
  <2> QED BY <1>8, <2>1
<1> QED BY <1>6, <1>7, <1>9

\* The first pause is the minimum.
LEMMA PauseFirst == Pause(0) = 1
BY PowersDouble, WorkersAssumption DEF Pause, AtMost

\* Doubling a pause gives the next one, also beyond the maximum.
LEMMA PauseTwice ==
    ASSUME NEW n \in Nat
    PROVE  Twice(Pause(n)) = Pause(n + 1)
PROOF
<1>1. PowerOfTwo[n] \in Nat /\ PowerOfTwo[n + 1] = 2 * PowerOfTwo[n]
      BY PowersDouble
<1> QED BY <1>1, WorkersAssumption DEF Twice, Pause, AtMost

\* Where the history stops counting the pause has stopped growing, so that a
\* failure more is the next pause or the same maximum.
LEMMA PauseCounted ==
    ASSUME NEW n \in 0 .. MaxFailures
    PROVE  LET m == AtMost(MaxFailures, n + 1)
           IN  m \in Nat \ {0} /\ Pause(m - 1) = Pause(n)
PROOF
<1>0. MaxFailures \in Nat \ {0} /\ maximum_backoff \in Nat /\ n \in Nat
      BY WorkersAssumption
<1>1. CASE n < MaxFailures
  <2>1. AtMost(MaxFailures, n + 1) = n + 1
        BY <1>0, <1>1 DEF AtMost
  <2>2. (n + 1) - 1 = n /\ n + 1 \in Nat \ {0}
        BY <1>0
  <2> QED BY <2>1, <2>2
<1>2. CASE n = MaxFailures
  <2>1. AtMost(MaxFailures, n + 1) = MaxFailures
        BY <1>0, <1>2 DEF AtMost
  <2>2. MaxFailures - 1 \in Nat /\ (MaxFailures - 1) + 1 = MaxFailures
        BY <1>0
  <2>3. /\ PowerOfTwo[MaxFailures - 1] \in Nat
        /\ PowerOfTwo[MaxFailures] = 2 * PowerOfTwo[MaxFailures - 1]
        BY <2>2, PowersDouble
  <2>4. PowerOfTwo[MaxFailures - 1] >= maximum_backoff
        BY WorkersAssumption
  <2>5. Pause(MaxFailures - 1) = maximum_backoff /\ Pause(MaxFailures) = maximum_backoff
        BY <1>0, <2>3, <2>4 DEF Pause, AtMost
  <2> QED BY <1>0, <1>2, <2>1, <2>5
<1> QED BY <1>0, <1>1, <1>2

\* After the pause of a failed session the next one has its pause ready.
LEMMA PauseOver ==
    ASSUME IInv, Pacing, main \in {"idle", "sleeping"}
    PROVE  BackoffAfterSleep = Pause(failures)
PROOF
<1>1. failures \in Nat
      BY Bounds DEF IInv, TypeOK
<1>2. CASE main = "sleeping" /\ ret = "error"
  <2>1. failures - 1 \in Nat /\ (failures - 1) + 1 = failures
        BY <1>1, <1>2 DEF Pacing
  <2>2. Twice(Pause(failures - 1)) = Pause(failures)
        BY <2>1, PauseTwice
  <2> QED BY <1>2, <2>2 DEF Pacing, BackoffAfterSleep
<1>3. CASE ~ (main = "sleeping" /\ ret = "error")
      BY <1>3, PauseFirst DEF Pacing, BackoffAfterSleep
<1> QED BY <1>2, <1>3

\* No step breaks the rhythm.
LEMMA PacingKept ==
    ASSUME IInv, Pacing, [Next]_vars
    PROVE  Pacing'
PROOF
<1>0. failures \in 0 .. MaxFailures /\ tries \in 0 .. MaxFailures /\ tries \in Nat
      BY Bounds DEF IInv, TypeOK
<1> DEFINE Failed == AtMost(MaxFailures, failures + 1)
           Tried == AtMost(MaxFailures, tries + 1)
<1>1. /\ Failed \in Nat \ {0} /\ Pause(Failed - 1) = Pause(failures)
      /\ Tried \in Nat \ {0} /\ Pause(Tried - 1) = Pause(tries)
      BY <1>0, PauseCounted
<1>2. CASE UNCHANGED vars
      BY <1>2 DEF vars, turnVars, Pacing, Pause
<1>3. CASE Begin
  <2>1. backoff' = Pause(failures)
        BY <1>3, PauseOver DEF Begin
  <2>2. CASE main' = "starting" /\ failures' = failures
        BY <2>1, <2>2 DEF Pacing, Pause
  <2>3. CASE main' = "sleeping" /\ ret' = "error" /\ failures' = Failed
    <3>1. Failed >= 1
          BY <1>1
    <3>2. backoff' = Pause(failures' - 1)
          BY <1>1, <2>1, <2>3
    <3> HIDE DEF Failed
    <3> QED BY <2>3, <3>1, <3>2 DEF Pacing, Pause
  <2> QED BY <1>3, <2>2, <2>3 DEF Begin
<1>4. CASE Close
  <2>1. main = "closing" /\ backoff = Pause(failures) /\ main' \in {"sleeping", "stopped", "idle"}
        BY <1>4 DEF Close, Pacing
  <2>2. CASE ret = "error"
    <3>1. ret' = "error" /\ main' = "sleeping" /\ failures' = Failed /\ backoff' = backoff
          BY <1>4, <2>2 DEF Close
    <3>2. Failed >= 1 /\ backoff' = Pause(failures' - 1)
          BY <1>1, <2>1, <3>1
    <3> HIDE DEF Failed
    <3> QED BY <3>1, <3>2 DEF Pacing, Pause
  <2>3. CASE ret # "error" /\ stop
        BY <1>4, <2>3 DEF Close, Pacing
  <2>4. CASE ret # "error" /\ ~stop
    <3>1. ret' # "error" /\ main' \in {"sleeping", "idle"} /\ failures' = 0 /\ backoff' = 1
          BY <1>4, <2>4 DEF Close
    <3>2. backoff' = Pause(failures')
          BY <3>1, PauseFirst
    <3> QED BY <3>1, <3>2 DEF Pacing, Pause
  <2> QED BY <2>2, <2>3, <2>4
<1>5. CASE End
      BY <1>5 DEF End, Pacing
<1>6. CASE Stop
      BY <1>6 DEF Stop, turnVars, Pacing, Pause
<1>7. CASE Publish
  <2>1. main = "publish" /\ publish_backoff = Pause(tries) /\ backoff = Pause(failures)
        /\ UNCHANGED <<backoff, publish_backoff, failures>>
        BY <1>7 DEF Publish, Pacing
  <2>2. main' \notin {"publish", "sleeping", "stopped"}
        BY <1>7 DEF Publish, CanaryPublished, SttPublished, BeginEvent, Return
  <2>3. main' = "publishBackoff" => tries' = Tried
        BY <1>7 DEF Publish, CanaryPublished, SttPublished, BeginEvent, Return
  <2>4. main' = "publishBackoff" => tries' >= 1 /\ publish_backoff' = Pause(tries' - 1)
        BY <1>1, <2>1, <2>3
  <2> QED BY <2>1, <2>2, <2>4 DEF Pacing, Pause
<1>8. CASE PublishAgain
  <2>1. /\ main = "publishBackoff" /\ tries >= 1 /\ publish_backoff = Pause(tries - 1)
        /\ backoff = Pause(failures) /\ UNCHANGED <<backoff, failures, tries>>
        /\ main' \in {"publish", "closing"} /\ publish_backoff' = Twice(publish_backoff)
        BY <1>8 DEF PublishAgain, Return, Pacing
  <2>2. tries - 1 \in Nat /\ (tries - 1) + 1 = tries
        BY <1>0, <2>1
  <2>3. publish_backoff' = Pause(tries)
        BY <2>1, <2>2, PauseTwice
  <2> QED BY <2>1, <2>3 DEF Pacing, Pause
<1>9. CASE Detect \/ Transcribe
  <2>1. /\ main \in {"listening", "transcribing"} /\ backoff = Pause(failures)
        /\ UNCHANGED <<backoff, failures>>
        BY <1>9 DEF Detect, Transcribe, Pacing
  <2>2. main' \notin {"sleeping", "stopped", "publishBackoff"}
        BY <1>9 DEF Detect, Transcribe, SttAnswers, AmbientAnswers, TranscribeFails,
                    Command, BeginEvent, Return
  <2>3. main' = "publish" => publish_backoff' = 1 /\ tries' = 0
        BY <1>9 DEF Detect, Transcribe, SttAnswers, AmbientAnswers, TranscribeFails,
                    Command, BeginEvent, Return
  <2>4. main' = "publish" => publish_backoff' = Pause(tries')
        BY <2>3, PauseFirst
  <2> QED BY <2>1, <2>2, <2>4 DEF Pacing, Pause
<1>10. CASE StartSource \/ SessionFails \/ CaptureStops \/ CaptureSegment \/ DetectStops
            \/ PublishEvent \/ PublishEventAgain
  <2>1. /\ main \notin {"sleeping", "stopped"}
        /\ main' \notin {"sleeping", "stopped", "publish", "publishBackoff"}
        /\ UNCHANGED <<backoff, failures>>
        BY <1>10 DEF StartSource, SessionFails, CaptureStops, CaptureSegment, DetectStops,
                     PublishEvent, PublishEventAgain, Return
  <2> QED BY <2>1 DEF Pacing, Pause
<1> QED BY <1>2, <1>3, <1>4, <1>5, <1>6, <1>7, <1>8, <1>9, <1>10 DEF Next, Progress

-----------------------------------------------------------------------------
(* The size of an event                                                   *)

\* The beginning of a text.
LEMMA Beginning ==
    ASSUME NEW text \in Seq(Chars), NEW n \in 0 .. Len(text)
    PROVE  /\ SubSeq(text, 1, n) \in Seq(Chars)
           /\ Len(SubSeq(text, 1, n)) = n
           /\ \A i \in 1 .. n : SubSeq(text, 1, n)[i] = text[i]
PROOF
<1>1. n \in Nat /\ n <= Len(text) /\ Len(text) \in Nat
      OBVIOUS
<1>2. \A i \in 1 .. n : text[i] \in Chars
      BY <1>1
<1> QED BY <1>1, <1>2

\* A function that adds up the bytes of a text's characters.
Sums(text, sum) ==
    sum[0] = 0 /\ \A n \in 1 .. Len(text) : sum[n] = sum[n - 1] + Bytes[text[n]]

\* There is one.
LEMMA SumsExist ==
    ASSUME NEW text \in Seq(Chars)
    PROVE  \E sum \in [Nat -> Nat] : Sums(text, sum)
PROOF
<1> DEFINE size(n) == IF n \in 1 .. Len(text) THEN Bytes[text[n]] ELSE 0
           step == [at \in Nat \X Nat |-> at[2] + size(at[1])]
<1>1. \A n \in Nat : size(n) \in Nat
      BY TextAssumption
<1>2. \A n \in Nat, bytes \in Nat : step[<<n, bytes>>] = bytes + size(n)
  <2> HIDE DEF size
  <2> QED OBVIOUS
<1>3. step \in Steps(Nat)
  <2>1. ASSUME NEW at \in Nat \X Nat PROVE at[2] + size(at[1]) \in Nat
    <3>1. at[1] \in Nat /\ at[2] \in Nat /\ size(at[1]) \in Nat
      <4> HIDE DEF size
      <4> QED BY <1>1
    <3> HIDE DEF size
    <3> QED BY <3>1
  <2> HIDE DEF size
  <2> QED BY <2>1 DEF Steps
<1> HIDE DEF step
<1>4. PICK sum \in [Nat -> Nat] : Iterates(sum, 0, step)
      BY <1>3, Recursion
<1>5. ASSUME NEW n \in 1 .. Len(text) PROVE sum[n] = sum[n - 1] + Bytes[text[n]]
  <2>1. n \in Nat \ {0} /\ n - 1 \in Nat /\ sum[n - 1] \in Nat
    <3> HIDE DEF size
    <3>1. n \in Nat \ {0} /\ n - 1 \in Nat
      <4>1. Len(text) \in Nat
            OBVIOUS
      <4> QED BY <4>1
    <3>2. sum[n - 1] \in Nat
          BY <3>1
    <3> QED BY <3>1, <3>2
  <2>2. sum[n] = sum[n - 1] + size(n)
    <3> HIDE DEF size
    <3> QED BY <1>2, <1>4, <2>1 DEF Iterates
  <2> QED BY <2>2
<1> QED BY <1>4, <1>5 DEF Sums, Iterates

\* Its last value is the size of the text.
LEMMA SumsToBytes ==
    ASSUME NEW text \in Seq(Chars), NEW sum \in [Nat -> Nat], Sums(text, sum)
    PROVE  TextBytes(text) = sum[Len(text)]
PROOF
<1> DEFINE R(f) == f = [i \in 0 .. Len(text) |-> IF i = 0 THEN 0 ELSE f[i - 1] + Bytes[text[i]]]
           bytes == CHOOSE f : R(f)
           first == [i \in 0 .. Len(text) |-> sum[i]]
           T == {i \in Nat : i <= Len(text) => bytes[i] = sum[i]}
<1>1. R(first)
  <2>1. ASSUME NEW i \in 0 .. Len(text)
        PROVE  first[i] = IF i = 0 THEN 0 ELSE first[i - 1] + Bytes[text[i]]
    <3>1. CASE i = 0
          BY <3>1 DEF Sums
    <3>2. CASE i # 0
      <4>1. i \in 1 .. Len(text) /\ i - 1 \in 0 .. Len(text)
            BY <3>2
      <4> QED BY <3>2, <4>1 DEF Sums
    <3> QED BY <3>1, <3>2
  <2> DEFINE next == [i \in 0 .. Len(text) |-> IF i = 0 THEN 0 ELSE first[i - 1] + Bytes[text[i]]]
  <2>2. first = next
        BY <2>1
  <2> QED BY <2>2
<1>2. R(bytes)
  <2> HIDE DEF R, first
  <2> QED BY <1>1
<1>3. TextBytes(text) = bytes[Len(text)]
      BY DEF TextBytes
<1> HIDE DEF bytes
<1>4. bytes[0] = 0 /\ \A i \in 1 .. Len(text) : bytes[i] = bytes[i - 1] + Bytes[text[i]]
  <2>1. \A i \in 0 .. Len(text) : bytes[i] = IF i = 0 THEN 0 ELSE bytes[i - 1] + Bytes[text[i]]
        BY <1>2
  <2>2. Len(text) \in Nat
        OBVIOUS
  <2> QED BY <2>1, <2>2
<1> HIDE DEF R
<1>5. 0 \in T
      BY <1>4 DEF Sums
<1>6. ASSUME NEW i \in T PROVE i + 1 \in T
  <2>1. SUFFICES ASSUME i + 1 <= Len(text) PROVE bytes[i + 1] = sum[i + 1]
        OBVIOUS
  <2>2. i + 1 \in 1 .. Len(text) /\ (i + 1) - 1 = i /\ bytes[i] = sum[i]
        BY <2>1
  <2>3. bytes[i + 1] = bytes[i] + Bytes[text[i + 1]]
        BY <1>4, <2>2
  <2>4. sum[i + 1] = sum[i] + Bytes[text[i + 1]]
        BY <2>2 DEF Sums
  <2> QED BY <2>2, <2>3, <2>4
<1>7. T = Nat
  <2> HIDE DEF T
  <2>1. T \in SUBSET Nat
        BY DEF T
  <2> QED BY <1>5, <1>6, <2>1, Induction
<1> QED BY <1>3, <1>7

\* The bytes of the beginnings of a text are the sums so far, which grow.
LEMMA TextSums ==
    ASSUME NEW text \in Seq(Chars)
    PROVE  \E sum \in [Nat -> Nat] :
             /\ \A n \in 1 .. Len(text) : sum[n - 1] <= sum[n]
             /\ \A n \in 0 .. Len(text) : TextBytes(SubSeq(text, 1, n)) = sum[n]
PROOF
<1>1. PICK sum \in [Nat -> Nat] : Sums(text, sum)
      BY SumsExist
<1>2. ASSUME NEW n \in 1 .. Len(text) PROVE sum[n - 1] <= sum[n]
  <2> DEFINE more == Bytes[text[n]]
  <2>1. n - 1 \in Nat
        OBVIOUS
  <2>2. more \in Nat
    <3>1. text[n] \in Chars
          OBVIOUS
    <3> QED BY <3>1, TextAssumption
  <2>3. sum[n] = sum[n - 1] + more
        BY <1>1 DEF Sums
  <2>4. sum[n - 1] \in Nat
        BY <2>1
  <2> HIDE DEF more
  <2> QED BY <2>2, <2>3, <2>4
<1>3. ASSUME NEW n \in 0 .. Len(text) PROVE TextBytes(SubSeq(text, 1, n)) = sum[n]
  <2> DEFINE s == SubSeq(text, 1, n)
  <2>1. s \in Seq(Chars) /\ Len(s) = n /\ \A i \in 1 .. n : s[i] = text[i]
        BY Beginning
  <2> HIDE DEF s
  <2>2. \A i \in 1 .. n : i \in 1 .. Len(text)
        OBVIOUS
  <2>3. Sums(s, sum)
        BY <1>1, <2>1, <2>2 DEF Sums
  <2>4. TextBytes(s) = sum[n]
        BY <2>1, <2>3, SumsToBytes
  <2> QED BY <2>4 DEF s
<1> QED BY <1>2, <1>3

\* A longer text takes no fewer bytes.
LEMMA TextGrows ==
    ASSUME NEW text \in Seq(Chars), NEW m \in 0 .. Len(text), NEW n \in 0 .. Len(text), m <= n
    PROVE  /\ TextBytes(SubSeq(text, 1, m)) \in Nat
           /\ TextBytes(SubSeq(text, 1, n)) \in Nat
           /\ TextBytes(SubSeq(text, 1, m)) <= TextBytes(SubSeq(text, 1, n))
PROOF
<1>1. PICK sum \in [Nat -> Nat] :
        /\ \A i \in 1 .. Len(text) : sum[i - 1] <= sum[i]
        /\ \A i \in 0 .. Len(text) : TextBytes(SubSeq(text, 1, i)) = sum[i]
      BY TextSums
<1> DEFINE T == {i \in Nat : m <= i /\ i <= Len(text) => sum[m] <= sum[i]}
<1>2. m \in Nat /\ n \in Nat /\ Len(text) \in Nat
      OBVIOUS
<1>3. 0 \in T
      BY <1>2
<1>4. ASSUME NEW i \in T PROVE i + 1 \in T
  <2>1. SUFFICES ASSUME m <= i + 1, i + 1 <= Len(text) PROVE sum[m] <= sum[i + 1]
        OBVIOUS
  <2>2. i \in Nat /\ i + 1 \in 1 .. Len(text) /\ (i + 1) - 1 = i
        BY <1>2, <2>1
  <2>3. sum[i] \in Nat /\ sum[i + 1] \in Nat /\ sum[m] \in Nat /\ sum[i] <= sum[i + 1]
        BY <1>1, <1>2, <2>2
  <2>4. CASE m = i + 1
        BY <2>3, <2>4
  <2>5. CASE m <= i
    <3>1. sum[m] <= sum[i]
          BY <1>2, <2>1, <2>2, <2>5
    <3> QED BY <2>3, <3>1
  <2> QED BY <1>2, <2>1, <2>2, <2>4, <2>5
<1>5. T = Nat
  <2> HIDE DEF T
  <2>1. T \in SUBSET Nat
        BY DEF T
  <2> QED BY <1>3, <1>4, <2>1, Induction
<1>6. sum[m] <= sum[n] /\ sum[m] \in Nat /\ sum[n] \in Nat
  <2>1. n \in T
        BY <1>2, <1>5
  <2>2. n <= Len(text)
        OBVIOUS
  <2> QED BY <1>2, <2>1, <2>2
<1> QED BY <1>1, <1>6

\* What fits when it is marked, and what fits as it is.
LEMMA FitsByBytes ==
    ASSUME NEW text \in Seq(Chars), NEW n \in 0 .. Len(text), NEW metadata \in Metadata
    PROVE  /\ Fits(Marked(text, n), metadata) <=>
                metadata + 4 + TextBytes(SubSeq(text, 1, n)) <= MAX_EVENT_BYTES
           /\ Fits(Event(text, FALSE), metadata) <=>
                metadata + 5 + TextBytes(text) <= MAX_EVENT_BYTES
BY DEF Fits, Marked, Event, EventBytes, FlagBytes

\* If a beginning fits the shorter ones do.
LEMMA ShorterFits ==
    ASSUME NEW text \in Seq(Chars), NEW metadata \in Metadata,
           NEW m \in 0 .. Len(text), NEW n \in 0 .. Len(text), m <= n,
           Fits(Marked(text, n), metadata)
    PROVE  Fits(Marked(text, m), metadata)
PROOF
<1>1. metadata \in Nat /\ MAX_EVENT_BYTES \in Nat
      BY TextAssumption
<1> DEFINE bytes(i) == TextBytes(SubSeq(text, 1, i))
<1>2. bytes(m) \in Nat /\ bytes(n) \in Nat /\ bytes(m) <= bytes(n)
      BY TextGrows
<1>3. metadata + 4 + bytes(n) <= MAX_EVENT_BYTES
      BY FitsByBytes
<1> HIDE DEF bytes
<1>4. metadata + 4 + bytes(m) <= MAX_EVENT_BYTES
      BY <1>1, <1>2, <1>3
<1> QED BY <1>4, FitsByBytes DEF bytes

-----------------------------------------------------------------------------
(* The binary search                                                       *)

\* The arguments of the search: a lower and an upper end.
Spans(L) == (0 .. L) \X (0 .. L)

\* Where a span is split.
Middle(span) == (span[1] + span[2] + 1) \div 2

\* One step of the search for the last number that is in F.
Narrowed(F, f, span) ==
    IF span[1] >= span[2] THEN span[1]
    ELSE IF Middle(span) \in F
         THEN f[<<Middle(span), span[2]>>]
         ELSE f[<<span[1], Middle(span) - 1>>]

\* f is the search for the last number in F.
Searches(L, F, f) == \A span \in Spans(L) : f[span] = Narrowed(F, f, span)

\* The middle is above the lower end and not above the upper one.
LEMMA MiddleBetween ==
    ASSUME NEW L \in Nat, NEW span \in Spans(L), span[1] < span[2]
    PROVE  /\ span[1] \in 0 .. L /\ span[2] \in 0 .. L
           /\ Middle(span) \in span[1] + 1 .. span[2]
           /\ Middle(span) \in Nat
           /\ <<Middle(span), span[2]>> \in Spans(L)
           /\ <<span[1], Middle(span) - 1>> \in Spans(L)
BY DEF Spans, Middle

\* The search is well defined: the spans become shorter.
LEMMA SearchExists ==
    ASSUME NEW L \in Nat, NEW F
    PROVE  \E f \in [Spans(L) -> 0 .. L] : Searches(L, F, f)
PROOF
<1> DEFINE V == [Spans(L) -> 0 .. L]
           base == [span \in Spans(L) |-> span[1]]
           narrow(f) == [span \in Spans(L) |-> Narrowed(F, f, span)]
           step == [at \in Nat \X V |-> narrow(at[2])]
<1>1. base \in V
      BY DEF Spans
<1>2. ASSUME NEW f \in V PROVE narrow(f) \in V
  <2>1. ASSUME NEW span \in Spans(L) PROVE Narrowed(F, f, span) \in 0 .. L
    <3>1. span[1] \in 0 .. L /\ span[2] \in 0 .. L
          BY DEF Spans
    <3>2. CASE span[1] >= span[2]
          BY <3>1, <3>2 DEF Narrowed
    <3>3. CASE span[1] < span[2]
      <4>1. f[<<Middle(span), span[2]>>] \in 0 .. L /\ f[<<span[1], Middle(span) - 1>>] \in 0 .. L
            BY <3>3, MiddleBetween
      <4> QED BY <3>1, <3>3, <4>1 DEF Narrowed
    <3> QED BY <3>1, <3>2, <3>3
  <2> QED BY <2>1
<1>3. step \in Steps(V) /\ \A n \in Nat : \A f \in V : step[<<n, f>>] = narrow(f)
  <2> HIDE DEF V, narrow
  <2>1. \A at \in Nat \X V : at[2] \in V
        OBVIOUS
  <2> QED BY <1>2, <2>1 DEF Steps
<1> HIDE DEF V, base, step
<1>4. PICK g \in [Nat -> V] : Iterates(g, base, step)
      BY <1>1, <1>3, Recursion
<1>5. g[0] = base /\ \A n \in Nat : g[n] \in V /\ g[n + 1] = narrow(g[n])
  <2> HIDE DEF narrow
  <2>1. ASSUME NEW n \in Nat PROVE g[n] \in V /\ g[n + 1] = narrow(g[n])
    <3>1. n + 1 \in Nat \ {0} /\ (n + 1) - 1 = n /\ g[n] \in V
          OBVIOUS
    <3>2. g[n + 1] = step[<<n + 1, g[n]>>]
          BY <1>4, <3>1 DEF Iterates
    <3> QED BY <1>3, <3>1, <3>2
  <2> QED BY <1>4, <2>1 DEF Iterates
<1>6. \A n \in Nat : \A span \in Spans(L) : g[n + 1][span] = Narrowed(F, g[n], span)
      BY <1>5
<1> HIDE DEF narrow
<1> DEFINE T == {n \in Nat : \A span \in Spans(L) :
                               span[2] - span[1] <= n => g[n + 1][span] = g[n][span]}
<1>7. 0 \in T
  <2>1. ASSUME NEW span \in Spans(L), span[2] - span[1] <= 0 PROVE g[0 + 1][span] = g[0][span]
    <3>1. span[1] \in 0 .. L /\ span[2] \in 0 .. L
          BY DEF Spans
    <3>2. span[1] >= span[2]
          BY <2>1, <3>1
    <3>3. Narrowed(F, g[0], span) = span[1]
          BY <3>2 DEF Narrowed
    <3>4. g[0][span] = span[1]
          BY <1>5 DEF base
    <3> QED BY <1>6, <3>3, <3>4
  <2> QED BY <2>1
<1>8. ASSUME NEW n \in T PROVE n + 1 \in T
  <2>1. ASSUME NEW span \in Spans(L), span[2] - span[1] <= n + 1
        PROVE  g[(n + 1) + 1][span] = g[n + 1][span]
    <3>1. n \in Nat /\ n + 1 \in Nat /\ span[1] \in 0 .. L /\ span[2] \in 0 .. L
          BY DEF Spans
    <3>2. Narrowed(F, g[n + 1], span) = Narrowed(F, g[n], span)
      <4>1. CASE span[1] >= span[2]
            BY <4>1 DEF Narrowed
      <4>2. CASE span[1] < span[2]
        <5> DEFINE upper == <<Middle(span), span[2]>>
                   lower == <<span[1], Middle(span) - 1>>
        <5>1. upper \in Spans(L) /\ lower \in Spans(L) /\ Middle(span) \in Nat
              /\ span[1] + 1 <= Middle(span) /\ Middle(span) <= span[2]
              BY <4>2, MiddleBetween
        <5>2. upper[2] - upper[1] <= n /\ lower[2] - lower[1] <= n
              BY <2>1, <3>1, <5>1
        <5>3. g[n + 1][upper] = g[n][upper] /\ g[n + 1][lower] = g[n][lower]
          <6> HIDE DEF upper, lower
          <6> QED BY <5>1, <5>2
        <5> QED BY <3>1, <4>2, <5>3 DEF Narrowed
      <4> QED BY <3>1, <4>1, <4>2
    <3> QED BY <1>6, <3>1, <3>2
  <2> QED BY <2>1
<1>9. T = Nat
  <2> HIDE DEF T
  <2>1. T \in SUBSET Nat
        BY DEF T
  <2> QED BY <1>7, <1>8, <2>1, Induction
<1>10. ASSUME NEW span \in Spans(L) PROVE g[L][span] = Narrowed(F, g[L], span)
  <2>1. span[2] - span[1] <= L
        BY DEF Spans
  <2>2. L \in T
        BY <1>9
  <2>3. g[L + 1][span] = g[L][span]
        BY <2>1, <2>2
  <2> QED BY <1>6, <2>3
<1> QED BY <1>5, <1>10 DEF V, Searches

\* Where it ends, the number itself is in F, unless it is 0, and the next one is
\* not, unless there is none.
LEMMA SearchEnds ==
    ASSUME NEW L \in Nat, NEW F, NEW f, Searches(L, F, f)
    PROVE  /\ f[<<0, L>>] \in 0 .. L
           /\ f[<<0, L>>] = 0 \/ f[<<0, L>>] \in F
           /\ f[<<0, L>>] = L \/ f[<<0, L>>] + 1 \notin F
PROOF
<1> DEFINE Low(low) == low = 0 \/ low \in F
           High(high) == high = L \/ high + 1 \notin F
           Found(n) == n \in 0 .. L /\ Low(n) /\ High(n)
           T == {n \in Nat : \A span \in Spans(L) :
                    /\ span[1] <= span[2] /\ span[2] - span[1] <= n
                    /\ Low(span[1]) /\ High(span[2])
                    => Found(f[span])}
<1>1. 0 \in T
  <2>1. ASSUME NEW span \in Spans(L), span[1] <= span[2], span[2] - span[1] <= 0,
               Low(span[1]), High(span[2])
        PROVE  Found(f[span])
    <3>0. f[span] = Narrowed(F, f, span)
          BY DEF Searches
    <3>1. span[1] \in 0 .. L /\ span[2] \in 0 .. L
          BY DEF Spans
    <3>2. span[1] = span[2]
          BY <2>1, <3>1
    <3>3. f[span] = span[1]
          BY <3>0, <3>1, <3>2 DEF Narrowed
    <3> QED BY <2>1, <3>1, <3>2, <3>3
  <2> HIDE DEF Low, High, Found
  <2> QED BY <2>1
<1>2. ASSUME NEW n \in T PROVE n + 1 \in T
  <2>1. ASSUME NEW span \in Spans(L), span[1] <= span[2], span[2] - span[1] <= n + 1,
               Low(span[1]), High(span[2])
        PROVE  Found(f[span])
    <3>0. f[span] = Narrowed(F, f, span)
          BY DEF Searches
    <3>1. n \in Nat /\ span[1] \in 0 .. L /\ span[2] \in 0 .. L
          BY DEF Spans
    <3>2. CASE span[1] = span[2]
      <4>1. f[span] = span[1]
            BY <3>0, <3>1, <3>2 DEF Narrowed
      <4> QED BY <2>1, <3>1, <3>2, <4>1
    <3>3. CASE span[1] < span[2]
      <4> DEFINE upper == <<Middle(span), span[2]>>
                 lower == <<span[1], Middle(span) - 1>>
      <4>1. upper \in Spans(L) /\ lower \in Spans(L) /\ Middle(span) \in Nat
            /\ span[1] + 1 <= Middle(span) /\ Middle(span) <= span[2]
            BY <3>3, MiddleBetween
      <4>2. CASE Middle(span) \in F
        <5>1. f[span] = f[upper]
              BY <3>0, <3>1, <3>3, <4>2 DEF Narrowed
        <5>2. upper[1] <= upper[2] /\ upper[2] - upper[1] <= n /\ Low(upper[1]) /\ High(upper[2])
              BY <2>1, <3>1, <4>1, <4>2
        <5>3. Found(f[upper])
          <6> HIDE DEF upper, Low, High, Found
          <6> QED BY <4>1, <5>2
        <5> HIDE DEF Found, upper
        <5> QED BY <5>1, <5>3
      <4>3. CASE Middle(span) \notin F
        <5>1. f[span] = f[lower]
              BY <3>0, <3>1, <3>3, <4>3 DEF Narrowed
        <5>2. lower[1] <= lower[2] /\ lower[2] - lower[1] <= n /\ Low(lower[1]) /\ High(lower[2])
              BY <2>1, <3>1, <4>1, <4>3
        <5>3. Found(f[lower])
          <6> HIDE DEF lower, Low, High, Found
          <6> QED BY <4>1, <5>2
        <5> HIDE DEF Found, lower
        <5> QED BY <5>1, <5>3
      <4> QED BY <4>2, <4>3
    <3> QED BY <2>1, <3>1, <3>2, <3>3
  <2> HIDE DEF Low, High, Found
  <2> QED BY <2>1
<1>3. T = Nat
  <2> HIDE DEF T
  <2>1. T \in SUBSET Nat
        BY DEF T
  <2> QED BY <1>1, <1>2, <2>1, Induction
<1>4. L \in T
      BY <1>3
<1>5. <<0, L>> \in Spans(L) /\ Low(0) /\ High(L)
      BY DEF Spans
<1>6. Found(f[<<0, L>>])
  <2> HIDE DEF Found, Low, High
  <2>1. <<0, L>>[1] = 0 /\ <<0, L>>[2] = L /\ 0 <= L /\ L - 0 <= L
        OBVIOUS
  <2> QED BY <1>4, <1>5, <2>1
<1> QED BY <1>6

\* LongestFit is such a search among the lengths that fit.
LEMMA LongestFitSearches ==
    ASSUME NEW text \in Seq(Chars), NEW metadata
    PROVE  \E f : /\ Searches(Len(text), {n \in 0 .. Len(text) : Fits(Marked(text, n), metadata)}, f)
                  /\ LongestFit(text, metadata) = f[<<0, Len(text)>>]
PROOF
<1> DEFINE L == Len(text)
           F == {n \in 0 .. L : Fits(Marked(text, n), metadata)}
           R(f) == f = [span \in (0 .. L) \X (0 .. L) |->
                         IF span[1] >= span[2] THEN span[1]
                         ELSE IF Fits(Marked(text, (span[1] + span[2] + 1) \div 2), metadata)
                              THEN f[<<(span[1] + span[2] + 1) \div 2, span[2]>>]
                              ELSE f[<<span[1], (span[1] + span[2] + 1) \div 2 - 1>>]]
           search == CHOOSE f : R(f)
<1>1. ASSUME NEW f, NEW span \in Spans(L)
      PROVE  Narrowed(F, f, span) =
               IF span[1] >= span[2] THEN span[1]
               ELSE IF Fits(Marked(text, Middle(span)), metadata)
                    THEN f[<<Middle(span), span[2]>>]
                    ELSE f[<<span[1], Middle(span) - 1>>]
  <2>1. span[1] < span[2] => Middle(span) \in 0 .. L
    <3>1. span[1] \in 0 .. L /\ span[2] \in 0 .. L
          BY DEF Spans
    <3> QED BY <3>1 DEF Middle
  <2>2. span[1] \in Nat /\ span[2] \in Nat
        BY DEF Spans
  <2> QED BY <2>1, <2>2 DEF Narrowed
<1>2. PICK g \in [Spans(L) -> 0 .. L] : Searches(L, F, g)
  <2> HIDE DEF F
  <2>1. L \in Nat
        OBVIOUS
  <2> QED BY <2>1, SearchExists
<1>3. R(g)
  <2> HIDE DEF L, F
  <2>1. \A span \in Spans(L) : g[span] =
               IF span[1] >= span[2] THEN span[1]
               ELSE IF Fits(Marked(text, Middle(span)), metadata)
                    THEN g[<<Middle(span), span[2]>>]
                    ELSE g[<<span[1], Middle(span) - 1>>]
        BY <1>1, <1>2 DEF Searches
  <2>2. g = [span \in Spans(L) |->
               IF span[1] >= span[2] THEN span[1]
               ELSE IF Fits(Marked(text, Middle(span)), metadata)
                    THEN g[<<Middle(span), span[2]>>]
                    ELSE g[<<span[1], Middle(span) - 1>>]]
        BY <2>1
  <2> QED BY <2>2 DEF Middle, Spans
<1>4. R(search)
  <2> HIDE DEF R
  <2> QED BY <1>3
<1>5. LongestFit(text, metadata) = search[<<0, L>>]
      BY DEF LongestFit
<1> HIDE DEF search
<1>6. Searches(L, F, search)
  <2> HIDE DEF L, F
  <2>1. \A span \in Spans(L) : search[span] =
               IF span[1] >= span[2] THEN span[1]
               ELSE IF Fits(Marked(text, Middle(span)), metadata)
                    THEN search[<<Middle(span), span[2]>>]
                    ELSE search[<<span[1], Middle(span) - 1>>]
        BY <1>4 DEF Middle, Spans
  <2> QED BY <1>1, <2>1 DEF Searches
<1> QED BY <1>5, <1>6

-----------------------------------------------------------------------------
(* The event                                                              *)

\* A non-empty set of numbers up to a bound has a greatest element.
LEMMA GreatestNumber ==
    ASSUME NEW L \in Nat, NEW T \in SUBSET (0 .. L), T # {}
    PROVE  \E x \in T : \A y \in T : x >= y
PROOF
<1> DEFINE U == {L - x : x \in T}
<1>1. U \in SUBSET Nat /\ U # {}
  <2>1. \A x \in T : x \in 0 .. L /\ L - x \in Nat
        OBVIOUS
  <2> QED BY <2>1
<1>2. PICK u \in U : \A v \in U : u <= v
  <2> HIDE DEF U
  <2> QED BY <1>1, LeastNumber
<1>3. PICK x \in T : u = L - x
      OBVIOUS
<1>4. ASSUME NEW y \in T PROVE x >= y
  <2>1. L - y \in U
        OBVIOUS
  <2>2. L - x <= L - y
        BY <1>2, <1>3, <2>1
  <2>3. x \in 0 .. L /\ y \in 0 .. L
        OBVIOUS
  <2> QED BY <2>2, <2>3
<1> QED BY <1>4

\* Max and Min of the positions of a text are positions.
LEMMA Extremes ==
    ASSUME NEW L \in Nat, NEW T \in SUBSET (0 .. L), T # {}
    PROVE  /\ Min(T) \in T /\ \A y \in T : Min(T) <= y
           /\ Max(T) \in T /\ \A y \in T : Max(T) >= y
PROOF
<1>1. T \in SUBSET Nat
      OBVIOUS
<1>2. \E x \in T : \A y \in T : x <= y
      BY <1>1, LeastNumber
<1>3. \E x \in T : \A y \in T : x >= y
      BY GreatestNumber
<1>4. Min(T) \in T /\ \A y \in T : Min(T) <= y
      BY <1>2 DEF Min
<1>5. Max(T) \in T /\ \A y \in T : Max(T) >= y
      BY <1>3 DEF Max
<1> QED BY <1>4, <1>5

\* A text without its outer spaces is a text.
LEMMA StripTypes ==
    ASSUME NEW text \in Seq(Chars)
    PROVE  Strip(text) \in Seq(Chars)
PROOF
<1> DEFINE kept == {n \in DOMAIN text : text[n] \notin Spaces}
<1>1. CASE kept = {}
      BY <1>1 DEF Strip, Trim
<1>2. CASE kept # {}
  <2>1. Len(text) \in Nat /\ kept \in SUBSET (0 .. Len(text)) /\ kept \in SUBSET (1 .. Len(text))
        OBVIOUS
  <2> HIDE DEF kept
  <2>2. Min(kept) \in kept /\ Max(kept) \in kept
        BY <1>2, <2>1, Extremes
  <2>3. Min(kept) \in 1 .. Len(text) /\ Max(kept) \in 1 .. Len(text)
        BY <2>1, <2>2
  <2> DEFINE a == Min(kept)
             b == Max(kept)
  <2>4. SubSeq(text, a, b) \in Seq(Chars)
    <3> HIDE DEF a, b
    <3>1. a \in 1 .. Len(text) /\ b \in 1 .. Len(text)
          BY <2>3 DEF a, b
    <3> QED BY <3>1
  <2> QED BY <1>2, <2>4 DEF Strip, Trim, kept
<1> QED BY <1>1, <1>2

\* The search finds the longest beginning that fits, if one of them does.
LEMMA LongestFitIsLongest ==
    ASSUME NEW text \in Seq(Chars), NEW metadata \in Metadata
    PROVE  LET fitting == {n \in DOMAIN text : Fits(Marked(text, n), metadata)}
               length == LongestFit(text, metadata)
           IN  /\ length \in 0 .. Len(text)
               /\ fitting = {} => length = 0
               /\ fitting # {} => length = Max(fitting) /\ length \in fitting
PROOF
<1> DEFINE L == Len(text)
           F == {n \in 0 .. L : Fits(Marked(text, n), metadata)}
           fitting == {n \in DOMAIN text : Fits(Marked(text, n), metadata)}
           length == LongestFit(text, metadata)
<1>1. L \in Nat /\ DOMAIN text = 1 .. L
      OBVIOUS
<1>2. /\ length \in 0 .. L
      /\ length = 0 \/ length \in F
      /\ length = L \/ length + 1 \notin F
  <2>1. PICK f : Searches(L, F, f) /\ length = f[<<0, L>>]
        BY LongestFitSearches
  <2> HIDE DEF L, F, length
  <2> QED BY <1>1, <2>1, SearchEnds
<1> HIDE DEF length
<1>3. \A n \in fitting : n \in 1 .. L /\ n \in F
      BY <1>1
<1>4. length # 0 => length \in fitting
  <2>1. SUFFICES ASSUME length # 0 PROVE length \in DOMAIN text /\ Fits(Marked(text, length), metadata)
        OBVIOUS
  <2>2. length \in F
        BY <1>2, <2>1
  <2>3. length \in 1 .. L
    <3> HIDE DEF L, F
    <3> QED BY <1>1, <1>2, <2>1
  <2> QED BY <1>1, <2>2, <2>3
<1>5. ASSUME NEW n \in fitting PROVE n <= length
  <2>0. n \in Nat /\ length \in Nat /\ L \in Nat /\ n <= L /\ length <= L
    <3>1. n \in 1 .. L
          BY <1>3
    <3> HIDE DEF L, F, fitting
    <3> QED BY <1>1, <1>2, <3>1
  <2>1. SUFFICES ASSUME n > length PROVE FALSE
        BY <2>0
  <2>2. n \in 0 .. L /\ length + 1 \in 0 .. L /\ length + 1 <= n /\ length # L
        BY <2>0, <2>1
  <2>3. Fits(Marked(text, n), metadata)
        OBVIOUS
  <2>4. Fits(Marked(text, length + 1), metadata)
        BY <2>2, <2>3, ShorterFits
  <2>5. length + 1 \in F
        BY <2>2, <2>4
  <2> QED BY <1>2, <2>2, <2>5
<1>6. fitting = {} => length = 0
      BY <1>4
<1>7. ASSUME fitting # {} PROVE length = Max(fitting) /\ length \in fitting
  <2>1. fitting \in SUBSET (0 .. L)
        BY <1>1
  <2>2. \A n \in fitting : n \in 1 .. L
        BY <1>3
  <2> HIDE DEF fitting, F
  <2>3. length # 0
        BY <1>2, <1>5, <1>7, <2>2
  <2>4. length \in fitting
        BY <1>4, <2>3
  <2>5. Max(fitting) \in fitting /\ \A y \in fitting : Max(fitting) >= y
        BY <1>1, <1>7, <2>1, Extremes
  <2>6. Max(fitting) <= length /\ length <= Max(fitting)
        BY <1>5, <2>4, <2>5
  <2>7. Max(fitting) \in Nat /\ length \in Nat
        BY <2>2, <2>4, <2>5
  <2> QED BY <2>4, <2>6, <2>7
<1> QED BY <1>2, <1>6, <1>7 DEF length

\* The lengths of the beginnings that fit, and whether the whole does not.
Fitting(text, metadata) == {n \in DOMAIN text : Fits(Marked(text, n), metadata)}

TooLong(text, metadata) == ~Fits(Event(text, FALSE), metadata)

\* What the encoder makes of a text.
Made(text, made, metadata) ==
    /\ text = <<>> => made = NoEvent
    /\ text # <<>> /\ ~TooLong(text, metadata) => made = Event(text, FALSE)
    /\ text # <<>> /\ TooLong(text, metadata) /\ Fitting(text, metadata) = {} =>
         made = SizeError
    /\ text # <<>> /\ TooLong(text, metadata) /\ Fitting(text, metadata) # {} =>
         /\ Max(Fitting(text, metadata)) \in Fitting(text, metadata)
         /\ made = Marked(text, Max(Fitting(text, metadata)))

\* What EncodedIsLongest says of an event.
Delivered(text, made, metadata) ==
    /\ Fits(made, metadata)
    /\ made.truncated <=> TooLong(text, metadata)
    /\ ~TooLong(text, metadata) => made.transcript = text
    /\ TooLong(text, metadata) =>
         made.transcript = SubSeq(text, 1, Max(Fitting(text, metadata)))
    /\ TooLong(text, metadata) /\ made.transcript = text =>
         EventBytes(Event(text, FALSE), metadata) = MAX_EVENT_BYTES + 1

\* The encoder makes what the search found.
LEMMA EncodeMakes ==
    ASSUME NEW raw, Strip(raw) \in Seq(Chars), NEW metadata \in Metadata
    PROVE  Made(Strip(raw), Encode(raw, metadata), metadata)
PROOF
<1> DEFINE text == Strip(raw)
           made == Encode(raw, metadata)
           length == LongestFit(text, metadata)
<1>1. /\ length \in 0 .. Len(text)
      /\ Fitting(text, metadata) = {} => length = 0
      /\ Fitting(text, metadata) # {} =>
           length = Max(Fitting(text, metadata)) /\ length \in Fitting(text, metadata)
      BY LongestFitIsLongest DEF Fitting
<1>2. text = <<>> => made = NoEvent
      BY DEF Encode
<1>3. text # <<>> /\ ~TooLong(text, metadata) => made = Event(text, FALSE)
      BY DEF Encode, TooLong
<1>4. text # <<>> /\ TooLong(text, metadata) =>
        made = IF Marked(text, length).transcript = <<>> \/ ~Fits(Marked(text, length), metadata)
                THEN SizeError
                ELSE Marked(text, length)
      BY DEF Encode, TooLong
<1>5. Marked(text, length).transcript = SubSeq(text, 1, length)
      BY DEF Marked, Event
<1>6. Len(SubSeq(text, 1, length)) = length
      BY <1>1, Beginning
<1> HIDE DEF made, length, text
<1>7. length = 0 => SubSeq(text, 1, length) = <<>>
      BY <1>1, <1>6 DEF text
<1>8. ASSUME text # <<>>, TooLong(text, metadata), Fitting(text, metadata) # {}
      PROVE  /\ Max(Fitting(text, metadata)) \in Fitting(text, metadata)
             /\ made = Marked(text, Max(Fitting(text, metadata)))
  <2>1. length \in DOMAIN text /\ Fits(Marked(text, length), metadata)
        BY <1>1, <1>8 DEF Fitting
  <2>2. length # 0
        BY <2>1 DEF text
  <2>3. SubSeq(text, 1, length) # <<>>
        BY <1>6, <2>2
  <2>4. made = Marked(text, length)
        BY <1>4, <1>5, <1>8, <2>1, <2>3
  <2> QED BY <1>1, <1>8, <2>4
<1>9. text # <<>> /\ TooLong(text, metadata) /\ Fitting(text, metadata) = {} => made = SizeError
      BY <1>1, <1>4, <1>5, <1>7
<1>10. Made(text, made, metadata)
      BY <1>2, <1>3, <1>8, <1>9 DEF Made
<1> QED BY <1>10 DEF text, made

\* The event of a text that is not too long.
LEMMA WholeDelivered ==
    ASSUME NEW text \in Seq(Chars), NEW made, NEW metadata \in Metadata,
           Made(text, made, metadata), text # <<>>, ~TooLong(text, metadata)
    PROVE  Delivered(text, made, metadata) /\ made # NoEvent /\ made # SizeError
PROOF
<1>1. made = Event(text, FALSE)
      BY DEF Made
<1>2. made.transcript = text /\ made.truncated = FALSE
      BY <1>1 DEF Event
<1>3. NoEvent.transcript = <<>> /\ SizeError.transcript = <<>>
      BY DEF NoEvent, SizeError, Event
<1>4. Fits(made, metadata)
      BY <1>1 DEF TooLong
<1> QED BY <1>2, <1>3, <1>4 DEF Delivered

\* The event of a text that is cut.
LEMMA CutDelivered ==
    ASSUME NEW text \in Seq(Chars), NEW made, NEW metadata \in Metadata,
           Made(text, made, metadata), text # <<>>, TooLong(text, metadata),
           Fitting(text, metadata) # {}
    PROVE  Delivered(text, made, metadata) /\ made # NoEvent /\ made # SizeError
PROOF
<1> DEFINE longest == Max(Fitting(text, metadata))
<1>1. longest \in Fitting(text, metadata) /\ made = Marked(text, longest)
      BY DEF Made
<1> HIDE DEF longest
<1>2. longest \in 1 .. Len(text) /\ Fits(Marked(text, longest), metadata)
      BY <1>1 DEF Fitting
<1>3. made.transcript = SubSeq(text, 1, longest) /\ made.truncated = TRUE
      BY <1>1 DEF Marked, Event
<1>4. longest \in 0 .. Len(text) /\ longest # 0
      BY <1>2
<1>5. SubSeq(text, 1, longest) # <<>>
  <2>1. Len(SubSeq(text, 1, longest)) = longest
        BY <1>4, Beginning
  <2> QED BY <1>4, <2>1
<1>6. NoEvent.transcript = <<>> /\ SizeError.transcript = <<>>
      BY DEF NoEvent, SizeError, Event
<1>7. ASSUME made.transcript = text
      PROVE  EventBytes(Event(text, FALSE), metadata) = MAX_EVENT_BYTES + 1
  <2> DEFINE bytes == TextBytes(text)
  <2>1. SubSeq(text, 1, longest) = text
        BY <1>3, <1>7
  <2>2. TextBytes(SubSeq(text, 1, longest)) \in Nat
    <3>1. longest <= longest
          BY <1>2
    <3> QED BY <1>4, <3>1, TextGrows
  <2>3. bytes \in Nat
        BY <2>1, <2>2
  <2>4. metadata + 4 + TextBytes(SubSeq(text, 1, longest)) <= MAX_EVENT_BYTES
        BY <1>2, <1>4, FitsByBytes
  <2>5. metadata + 4 + bytes <= MAX_EVENT_BYTES
        BY <2>1, <2>4
  <2>6. ~ (metadata + 5 + bytes <= MAX_EVENT_BYTES)
        BY <1>4, FitsByBytes DEF TooLong
  <2>7. EventBytes(Event(text, FALSE), metadata) = metadata + 5 + bytes
        BY DEF EventBytes, Event, FlagBytes
  <2>8. metadata \in Nat /\ MAX_EVENT_BYTES \in Nat
        BY TextAssumption
  <2> HIDE DEF bytes
  <2>9. metadata + 5 + bytes = MAX_EVENT_BYTES + 1
        BY <2>3, <2>5, <2>6, <2>8
  <2> QED BY <2>7, <2>9
<1>8. Fits(made, metadata)
      BY <1>1, <1>2
<1>9. made # NoEvent /\ made # SizeError
      BY <1>3, <1>5, <1>6
<1> QED BY <1>3, <1>7, <1>8, <1>9 DEF Delivered, longest

\* Every text is encoded as EncodedIsLongest says.
LEMMA Encodes ==
    ASSUME transcript \in Seq(Chars)
    PROVE  EncodedIsLongest
PROOF
<1>1. ASSUME NEW text \in Seq(Chars), NEW made, NEW metadata \in Metadata,
             Made(text, made, metadata)
      PROVE  /\ text = <<>> <=> made = NoEvent
             /\ made = SizeError <=>
                  text # <<>> /\ TooLong(text, metadata) /\ Fitting(text, metadata) = {}
             /\ made \notin {NoEvent, SizeError} => Delivered(text, made, metadata)
  <2>1. NoEvent # SizeError
    <3>1. NoEvent.truncated = FALSE /\ SizeError.truncated = TRUE
          BY DEF NoEvent, SizeError, Event
    <3> QED BY <3>1
  <2>2. CASE text = <<>>
        BY <1>1, <2>1, <2>2 DEF Made
  <2>3. CASE text # <<>> /\ ~TooLong(text, metadata)
        BY <1>1, <2>3, WholeDelivered
  <2>4. CASE text # <<>> /\ TooLong(text, metadata) /\ Fitting(text, metadata) = {}
        BY <1>1, <2>1, <2>4 DEF Made
  <2>5. CASE text # <<>> /\ TooLong(text, metadata) /\ Fitting(text, metadata) # {}
        BY <1>1, <2>5, CutDelivered
  <2> QED BY <2>2, <2>3, <2>4, <2>5
<1>2. Strip(transcript) \in Seq(Chars)
      BY StripTypes
<1>3. \A metadata \in Metadata : Made(Strip(transcript), Encode(transcript, metadata), metadata)
      BY <1>2, EncodeMakes
<1> QED BY <1>1, <1>2, <1>3 DEF EncodedIsLongest, Delivered, TooLong, Fitting

-----------------------------------------------------------------------------
(* Theorems                                                                *)

\* The invariant holds in every state of every worker.
THEOREM Invariance == Spec => []IInv
PROOF
<1>1. ASSUME Init PROVE IInv
  <2>1. TypeOK
        BY <1>1, Bounds DEF Init, TypeOK, MainStates, Returns
  <2>2. Deliveries
        BY <1>1 DEF Init, Deliveries
  <2>3. Attempts
        BY <1>1 DEF Init, Attempts
  <2>4. Outcomes
        BY <1>1 DEF Init, Outcomes
  <2> QED BY <2>1, <2>2, <2>3, <2>4 DEF IInv
<1>2. ASSUME IInv, [Next]_vars PROVE IInv'
  <2>1. CASE UNCHANGED vars
    <3>1. TypeOK'
          BY <1>2, <2>1 DEF vars, turnVars, IInv, TypeOK
    <3>2. Deliveries'
          BY <1>2, <2>1 DEF vars, turnVars, IInv, Deliveries
    <3>3. Attempts'
          BY <1>2, <2>1 DEF vars, turnVars, IInv, Attempts
    <3>4. Outcomes'
          BY <1>2, <2>1 DEF vars, turnVars, IInv, Outcomes
    <3> QED BY <3>1, <3>2, <3>3, <3>4 DEF IInv
  <2> QED BY <1>2, <2>1, MicrophoneKeeps, TranscribeKeeps, PublishKeeps, EventKeeps, LoopKeeps
          DEF Next, Progress
<1> QED BY <1>1, <1>2, PTL DEF Spec

\* Pauses, attempts and states stay within their bounds in every mode.
THEOREM TypeCorrect == Spec => []TypeOK
PROOF
<1>1. IInv => TypeOK
      BY DEF IInv
<1> QED BY <1>1, Invariance, PTL

\* Until the gateway stops, no session ends with a command unpublished or with
\* an event that was neither delivered nor given up after the last attempt.
THEOREM NothingWithheld == Spec => []ResultsAreDelivered
PROOF
<1>1. IInv => ResultsAreDelivered
      BY DEF IInv, TypeOK, MainStates, Deliveries, Attempts, ResultsAreDelivered
<1> QED BY <1>1, Invariance, PTL

\* No worker goes round its loop without a pause for nothing.
THEOREM NeverSpins == Spec => []NoBusyLoop
PROOF
<1>1. ASSUME IInv PROVE NoBusyLoop
      BY <1>1 DEF IInv, TypeOK, Returns, Outcomes, NoBusyLoop, Pauses, CanaryPauses, AmbientPauses, SttPauses
<1> QED BY <1>1, Invariance, PTL

\* Pauses double from one failure to the next, up to the maximum, and begin
\* anew where they should, for any maximum and sessions without end.
THEOREM PausesMatchFailures == Spec => []BackoffMatchesFailures
PROOF
<1>1. Init => Pacing
      BY PauseFirst DEF Init, Pacing
<1>2. IInv /\ Pacing /\ [Next]_vars => Pacing'
      BY PacingKept
<1>3. Pacing => BackoffMatchesFailures
      BY DEF Pacing, BackoffMatchesFailures
<1> QED BY <1>1, <1>2, <1>3, Invariance, PTL DEF Spec

\* For every alphabet, all sizes and every text.
THEOREM EncodedAsLongAsFits == TextSpec => []EncodedIsLongest
PROOF
<1>1. TextInit => transcript \in Seq(Chars)
      BY DEF TextInit
<1>2. transcript \in Seq(Chars) /\ [Grow]_transcript => (transcript \in Seq(Chars))'
      BY DEF Grow
<1>3. transcript \in Seq(Chars) => EncodedIsLongest
      BY Encodes
<1> QED BY <1>1, <1>2, <1>3, PTL DEF TextSpec

-----------------------------------------------------------------------------
(* Totals                                                                  *)

\* A function that adds up amounts.
Adds(amounts, sum) ==
    sum[0] = amounts[0] /\ \A n \in 1 .. MaxTime : sum[n] = sum[n - 1] + amounts[n]

\* There is one.
LEMMA AddsExist ==
    ASSUME NEW amounts \in Amounts
    PROVE  \E sum \in [Nat -> Nat] : Adds(amounts, sum)
PROOF
<1> DEFINE more(n) == IF n \in Times THEN amounts[n] ELSE 0
           step == [at \in Nat \X Nat |-> at[2] + more(at[1])]
<1>0. MaxTime \in Nat /\ 0 \in Times
      BY BudgetAssumption DEF Times
<1>1. \A n \in Nat : more(n) \in Nat
      BY DEF Amounts
<1>2. \A n \in Nat, sum \in Nat : step[<<n, sum>>] = sum + more(n)
  <2> HIDE DEF more
  <2> QED OBVIOUS
<1>3. step \in Steps(Nat)
  <2>1. ASSUME NEW at \in Nat \X Nat PROVE at[2] + more(at[1]) \in Nat
    <3>1. at[1] \in Nat /\ at[2] \in Nat /\ more(at[1]) \in Nat
      <4> HIDE DEF more
      <4> QED BY <1>1
    <3> HIDE DEF more
    <3> QED BY <3>1
  <2> HIDE DEF more
  <2> QED BY <2>1 DEF Steps
<1>4. amounts[0] \in Nat
      BY <1>0 DEF Amounts
<1> HIDE DEF step
<1>5. PICK sum \in [Nat -> Nat] : Iterates(sum, amounts[0], step)
      BY <1>3, <1>4, Recursion
<1>6. ASSUME NEW n \in 1 .. MaxTime PROVE sum[n] = sum[n - 1] + amounts[n]
  <2>1. n \in Nat \ {0} /\ n - 1 \in Nat /\ sum[n - 1] \in Nat /\ n \in Times
        BY <1>0 DEF Times
  <2>2. sum[n] = sum[n - 1] + more(n)
    <3> HIDE DEF more
    <3> QED BY <1>2, <1>5, <2>1 DEF Iterates
  <2> QED BY <2>1, <2>2
<1> QED BY <1>5, <1>6 DEF Adds, Iterates

\* Its last value is the total.
LEMMA TotalAdds ==
    ASSUME NEW amounts \in Amounts, NEW sum \in [Nat -> Nat], Adds(amounts, sum)
    PROVE  Total(amounts) = sum[MaxTime]
PROOF
<1> DEFINE R(f) == f = [t \in Times |-> IF t = 0 THEN amounts[0] ELSE f[t - 1] + amounts[t]]
           total == CHOOSE f : R(f)
           first == [t \in Times |-> sum[t]]
           T == {t \in Nat : t <= MaxTime => total[t] = sum[t]}
<1>0. MaxTime \in Nat
      BY BudgetAssumption
<1>1. R(first)
  <2>1. ASSUME NEW t \in Times
        PROVE  first[t] = IF t = 0 THEN amounts[0] ELSE first[t - 1] + amounts[t]
    <3>1. CASE t = 0
          BY <3>1 DEF Adds
    <3>2. CASE t # 0
      <4>1. t \in 1 .. MaxTime /\ t - 1 \in Times
            BY <1>0, <3>2 DEF Times
      <4> QED BY <3>2, <4>1 DEF Adds
    <3> QED BY <3>1, <3>2
  <2> DEFINE next == [t \in Times |-> IF t = 0 THEN amounts[0] ELSE first[t - 1] + amounts[t]]
  <2>2. first = next
        BY <2>1
  <2> QED BY <2>2
<1>2. R(total)
  <2> HIDE DEF R, first
  <2> QED BY <1>1
<1>3. Total(amounts) = total[MaxTime]
      BY DEF Total
<1> HIDE DEF total
<1>4. total[0] = amounts[0] /\ \A t \in 1 .. MaxTime : total[t] = total[t - 1] + amounts[t]
  <2>1. \A t \in Times : total[t] = IF t = 0 THEN amounts[0] ELSE total[t - 1] + amounts[t]
        BY <1>2
  <2> QED BY <1>0, <2>1 DEF Times
<1> HIDE DEF R
<1>5. 0 \in T
      BY <1>4 DEF Adds
<1>6. ASSUME NEW t \in T PROVE t + 1 \in T
  <2>1. SUFFICES ASSUME t + 1 <= MaxTime PROVE total[t + 1] = sum[t + 1]
        OBVIOUS
  <2>2. t + 1 \in 1 .. MaxTime /\ (t + 1) - 1 = t /\ total[t] = sum[t]
        BY <1>0, <2>1
  <2>3. total[t + 1] = total[t] + amounts[t + 1]
        BY <1>4, <2>2
  <2>4. sum[t + 1] = sum[t] + amounts[t + 1]
        BY <2>2 DEF Adds
  <2> QED BY <2>2, <2>3, <2>4
<1>7. T = Nat
  <2> HIDE DEF T
  <2>1. T \in SUBSET Nat
        BY DEF T
  <2> QED BY <1>5, <1>6, <2>1, Induction
<1> QED BY <1>0, <1>3, <1>7

\* More at one stamp, and no less at the others, is so much more altogether.
LEMMA TotalGrows ==
    ASSUME NEW A \in Amounts, NEW B \in Amounts, NEW u \in Times, NEW d \in Int,
           \A t \in Times \ {u} : A[t] <= B[t],
           A[u] + d <= B[u]
    PROVE  /\ Total(A) \in Nat /\ Total(B) \in Nat
           /\ Total(A) + d <= Total(B)
PROOF
<1>0. MaxTime \in Nat /\ u \in Nat /\ u <= MaxTime
      BY BudgetAssumption DEF Times
<1>1. PICK a \in [Nat -> Nat] : Adds(A, a)
      BY AddsExist
<1>2. PICK b \in [Nat -> Nat] : Adds(B, b)
      BY AddsExist
<1> DEFINE extra(n) == IF u <= n THEN d ELSE 0
           T == {n \in Nat : n <= MaxTime => a[n] + extra(n) <= b[n]}
<1>3. \A t \in Times : A[t] \in Nat /\ B[t] \in Nat
      BY DEF Amounts
<1>4. 0 \in T
  <2>1. a[0] = A[0] /\ b[0] = B[0] /\ 0 \in Times
        BY <1>0, <1>1, <1>2 DEF Adds, Times
  <2> QED BY <1>0, <1>3, <2>1
<1>5. ASSUME NEW n \in T PROVE n + 1 \in T
  <2>1. SUFFICES ASSUME n + 1 <= MaxTime PROVE a[n + 1] + extra(n + 1) <= b[n + 1]
        OBVIOUS
  <2>2. n \in Nat /\ n + 1 \in 1 .. MaxTime /\ n + 1 \in Times /\ (n + 1) - 1 = n
        BY <1>0, <2>1 DEF Times
  <2>3. a[n + 1] = a[n] + A[n + 1] /\ b[n + 1] = b[n] + B[n + 1]
        BY <1>1, <1>2, <2>2 DEF Adds
  <2>4. a[n] + extra(n) <= b[n] /\ a[n] \in Nat /\ b[n] \in Nat
        BY <1>0, <2>1, <2>2
  <2>5. A[n + 1] \in Nat /\ B[n + 1] \in Nat
        BY <1>3, <2>2
  <2>6. CASE u = n + 1
        BY <1>0, <2>2, <2>3, <2>4, <2>5, <2>6
  <2>7. CASE u # n + 1
    <3>1. A[n + 1] <= B[n + 1]
          BY <2>2, <2>7
    <3>2. extra(n + 1) = extra(n) /\ extra(n) \in Int
          BY <1>0, <2>2, <2>7
    <3> HIDE DEF extra
    <3> QED BY <2>3, <2>4, <2>5, <3>1, <3>2
  <2> QED BY <2>6, <2>7
<1>6. T = Nat
  <2> HIDE DEF T
  <2>1. T \in SUBSET Nat
        BY DEF T
  <2> QED BY <1>4, <1>5, <2>1, Induction
<1>7. a[MaxTime] + d <= b[MaxTime]
      BY <1>0, <1>6
<1>8. Total(A) = a[MaxTime] /\ Total(B) = b[MaxTime]
      BY <1>1, <1>2, TotalAdds
<1> QED BY <1>0, <1>7, <1>8

\* A total is a number, and no smaller amounts have no smaller total.
LEMMA TotalLeq ==
    ASSUME NEW A \in Amounts, NEW B \in Amounts, \A t \in Times : A[t] <= B[t]
    PROVE  Total(A) \in Nat /\ Total(B) \in Nat /\ Total(A) <= Total(B)
PROOF
<1>1. 0 \in Times
      BY BudgetAssumption DEF Times
<1>2. A[0] + 0 <= B[0]
      BY <1>1 DEF Amounts
<1>3. Total(A) \in Nat /\ Total(B) \in Nat /\ Total(A) + 0 <= Total(B)
      BY <1>1, <1>2, TotalGrows
<1> QED BY <1>3

\* What is added at one stamp is added to the total.
LEMMA TotalPlus ==
    ASSUME NEW A \in Amounts, NEW B \in Amounts, NEW u \in Times, NEW d \in Nat,
           \A t \in Times \ {u} : B[t] = A[t],
           B[u] = A[u] + d
    PROVE  Total(A) \in Nat /\ Total(B) = Total(A) + d
PROOF
<1>1. \A t \in Times : A[t] \in Nat /\ B[t] \in Nat
      BY DEF Amounts
<1>2. Total(A) \in Nat /\ Total(B) \in Nat /\ Total(A) + d <= Total(B)
      BY <1>1, TotalGrows
<1>3. Total(B) + (-d) <= Total(A)
  <2>1. B[u] + (-d) <= A[u] /\ -d \in Int
        BY <1>1
  <2> QED BY <1>1, <2>1, TotalGrows
<1> QED BY <1>2, <1>3

\* Nothing adds up to nothing.
LEMMA TotalNothing == Nothing \in Amounts /\ Total(Nothing) = 0
PROOF
<1>0. MaxTime \in Nat /\ Nothing \in Amounts
      BY BudgetAssumption DEF Nothing, Amounts
<1>1. PICK sum \in [Nat -> Nat] : Adds(Nothing, sum)
      BY <1>0, AddsExist
<1> DEFINE T == {n \in Nat : n <= MaxTime => sum[n] = 0}
<1>2. 0 \in T
      BY <1>0, <1>1 DEF Adds, Nothing, Times
<1>3. ASSUME NEW n \in T PROVE n + 1 \in T
  <2>1. SUFFICES ASSUME n + 1 <= MaxTime PROVE sum[n + 1] = 0
        OBVIOUS
  <2>2. n + 1 \in 1 .. MaxTime /\ n + 1 \in Times /\ (n + 1) - 1 = n
        BY <1>0, <2>1 DEF Times
  <2> QED BY <1>0, <1>1, <2>1, <2>2 DEF Adds, Nothing
<1>4. T = Nat
  <2> HIDE DEF T
  <2>1. T \in SUBSET Nat
        BY DEF T
  <2> QED BY <1>2, <1>3, <2>1, Induction
<1> QED BY <1>0, <1>1, <1>4, TotalAdds

-----------------------------------------------------------------------------
(* Windows                                                                 *)

\* The windows of consume as numbers.
LEMMA Windows ==
    /\ Minute \in Nat /\ Hour \in Nat /\ Day \in Nat
    /\ 1 <= Minute /\ Minute <= Hour /\ Hour <= Day
    /\ max_requests_per_minute \in Nat /\ 1 <= max_requests_per_minute
    /\ max_audio_seconds_per_hour \in Nat /\ max_audio_seconds_per_day \in Nat
    /\ MaxTime \in Nat
BY BudgetAssumption

\* What is young is what was charged after the window began.
LEMMA WindowIsAfter ==
    ASSUME NEW amounts, NEW window \in Nat, NEW now \in Nat
    PROVE  /\ Within(amounts, window, now) = After(amounts, now - window)
           /\ [t \in Times |-> IF now < t + window THEN amounts[t] ELSE 0]
                = After(amounts, now - window)
PROOF
<1>1. \A t \in Times : now < t + window <=> t > now - window
      BY Windows DEF Times
<1> QED BY <1>1 DEF Within, Young, After

\* The amounts after a stamp are amounts, and no larger.
LEMMA AfterTypes ==
    ASSUME NEW A \in Amounts, NEW s \in Int
    PROVE  /\ After(A, s) \in Amounts
           /\ \A t \in Times : After(A, s)[t] = IF t > s THEN A[t] ELSE 0
           /\ \A t \in Times : A[t] \in Nat /\ After(A, s)[t] <= A[t]
PROOF
<1>1. \A t \in Times : A[t] \in Nat
      BY DEF Amounts
<1> QED BY <1>1 DEF After, Amounts

\* After a later stamp there is no more, and no more than altogether.
LEMMA LaterIsLess ==
    ASSUME NEW A \in Amounts, NEW s \in Int, NEW later \in Int, s <= later
    PROVE  /\ Total(A) \in Nat /\ Total(After(A, s)) \in Nat /\ Total(After(A, later)) \in Nat
           /\ Total(After(A, later)) <= Total(After(A, s))
           /\ Total(After(A, s)) <= Total(A)
PROOF
<1>1. /\ After(A, s) \in Amounts /\ After(A, later) \in Amounts
      /\ \A t \in Times : After(A, s)[t] <= A[t]
      BY AfterTypes
<1>2. \A t \in Times : After(A, later)[t] <= After(A, s)[t]
  <2>1. ASSUME NEW t \in Times PROVE After(A, later)[t] <= After(A, s)[t]
    <3>1. /\ After(A, s)[t] = IF t > s THEN A[t] ELSE 0
          /\ After(A, later)[t] = IF t > later THEN A[t] ELSE 0
          /\ A[t] \in Nat
          BY AfterTypes
    <3> QED BY <3>1, Windows DEF Times
  <2> QED BY <2>1
<1>3. /\ Total(After(A, s)) \in Nat /\ Total(After(A, later)) \in Nat
      /\ Total(After(A, later)) <= Total(After(A, s))
      BY <1>1, <1>2, TotalLeq
<1>4. Total(A) \in Nat /\ Total(After(A, s)) <= Total(A)
      BY <1>1, TotalLeq
<1> QED BY <1>3, <1>4

\* What has been dropped before a stamp is not missed after it.
LEMMA AfterAfter ==
    ASSUME NEW A \in Amounts, NEW s \in Int, NEW later \in Int, s <= later
    PROVE  After(After(A, s), later) = After(A, later)
PROOF
<1>1. ASSUME NEW t \in Times, t > later PROVE After(A, s)[t] = A[t]
      BY <1>1, Windows DEF After, Times
<1> QED BY <1>1 DEF After

\* A charge counts after every stamp before its own.
LEMMA AfterCharge ==
    ASSUME NEW A \in Amounts, NEW B \in Amounts, NEW u \in Times, NEW d \in Nat, NEW s \in Int,
           \A t \in Times \ {u} : B[t] = A[t],
           B[u] = A[u] + d
    PROVE  /\ Total(After(A, s)) \in Nat
           /\ Total(After(B, s)) = IF u > s THEN Total(After(A, s)) + d ELSE Total(After(A, s))
PROOF
<1>1. /\ After(A, s) \in Amounts /\ After(B, s) \in Amounts
      /\ \A t \in Times : After(A, s)[t] = IF t > s THEN A[t] ELSE 0
      /\ \A t \in Times : After(B, s)[t] = IF t > s THEN B[t] ELSE 0
      BY AfterTypes
<1>2. CASE u > s
  <2>1. \A t \in Times \ {u} : After(B, s)[t] = After(A, s)[t]
        BY <1>1
  <2>2. After(B, s)[u] = After(A, s)[u] + d
        BY <1>1, <1>2
  <2> QED BY <1>1, <1>2, <2>1, <2>2, TotalPlus
<1>3. CASE ~(u > s)
  <2>1. \A t \in Times : After(B, s)[t] = After(A, s)[t]
        BY <1>1, <1>3
  <2>2. After(B, s) = After(A, s)
        BY <2>1 DEF After
  <2>3. s <= s
        OBVIOUS
  <2>4. Total(After(A, s)) \in Nat
        BY <2>3, LaterIsLess
  <2> QED BY <1>3, <2>2, <2>4
<1> QED BY <1>2, <1>3

\* Nothing later than a stamp adds up to nothing.
LEMMA NothingAfter ==
    ASSUME NEW A \in Amounts, NEW s \in Int, \A t \in Times : t > s => A[t] = 0
    PROVE  Total(After(A, s)) = 0
PROOF
<1>1. After(A, s) = Nothing
      BY DEF After, Nothing
<1> QED BY <1>1, TotalNothing

\* consume prunes and charges the file.
LEMMA FileTypes ==
    ASSUME NEW file \in File
    PROVE  file.requests \in Amounts /\ file.audio \in Amounts
BY DEF File

LEMMA PrunedFile ==
    ASSUME NEW file \in File, NEW now \in Nat
    PROVE  /\ Pruned(file, now) \in File
           /\ Pruned(file, now).requests = After(file.requests, now - Minute)
           /\ Pruned(file, now).audio = After(file.audio, now - Day)
PROOF
<1>1. file.requests \in Amounts /\ file.audio \in Amounts
      BY FileTypes
<1>2. /\ Requests(file, now) = After(file.requests, now - Minute)
      /\ DayAudio(file, now) = After(file.audio, now - Day)
      BY WindowIsAfter, Windows DEF Requests, DayAudio
<1>3. now - Minute \in Int /\ now - Day \in Int
      BY Windows
<1>4. After(file.requests, now - Minute) \in Amounts /\ After(file.audio, now - Day) \in Amounts
      BY <1>1, <1>3, AfterTypes
<1> QED BY <1>2, <1>4 DEF Pruned, File

LEMMA PlusFile ==
    ASSUME NEW file \in File, NEW duration \in Nat, NEW stamp \in Times
    PROVE  /\ Plus(file, duration, stamp) \in File
           /\ \A t \in Times \ {stamp} :
                /\ Plus(file, duration, stamp).requests[t] = file.requests[t]
                /\ Plus(file, duration, stamp).audio[t] = file.audio[t]
           /\ Plus(file, duration, stamp).requests[stamp] = file.requests[stamp] + 1
           /\ Plus(file, duration, stamp).audio[stamp] = file.audio[stamp] + duration
PROOF
<1>1. file.requests \in Amounts /\ file.audio \in Amounts
      BY FileTypes
<1>2. /\ [file.requests EXCEPT ![stamp] = @ + 1] \in Amounts
      /\ [file.audio EXCEPT ![stamp] = @ + duration] \in Amounts
      BY <1>1 DEF Amounts
<1> QED BY <1>1, <1>2 DEF Plus, File, Amounts

-----------------------------------------------------------------------------
(* Waits                                                                   *)

\* Between two stamps nothing leaves a window.
LEMMA LastStamp ==
    ASSUME NEW A \in Amounts, NEW s \in Int
    PROVE  \/ After(A, s) = A
           \/ \E last \in Stamps(A) : last <= s /\ After(A, last) = After(A, s)
PROOF
<1> DEFINE T == {t \in Stamps(A) : t <= s}
<1>0. /\ MaxTime \in Nat /\ T \in SUBSET (0 .. MaxTime)
      /\ \A t \in Times : t \in Nat /\ A[t] \in Nat
      BY Windows DEF Stamps, Times, Amounts
<1>1. CASE T = {}
  <2>1. \A t \in Times : A[t] = IF t > s THEN A[t] ELSE 0
        BY <1>0, <1>1 DEF Stamps
  <2>2. After(A, s) = A
        BY <2>1 DEF After, Amounts
  <2> QED BY <2>2
<1>2. CASE T # {}
  <2>1. PICK last \in T : \A t \in T : last >= t
    <3> HIDE DEF T
    <3> QED BY <1>0, <1>2, GreatestNumber
  <2>2. last \in Stamps(A) /\ last <= s /\ last \in Times /\ last \in Nat
        BY <1>0, <2>1 DEF Stamps
  <2>3. \A t \in Times : (IF t > last THEN A[t] ELSE 0) = (IF t > s THEN A[t] ELSE 0)
    <3>1. ASSUME NEW t \in Times, t > last, ~ (t > s) PROVE A[t] = 0
          BY <1>0, <2>1, <3>1 DEF Stamps
    <3>2. ASSUME NEW t \in Times, ~ (t > last) PROVE ~ (t > s)
          BY <1>0, <2>2, <3>2
    <3> QED BY <3>1, <3>2
  <2>4. After(A, last) = After(A, s)
        BY <2>3 DEF After
  <2> QED BY <2>2, <2>4
<1> QED BY <1>1, <1>2

\* _retry_for_audio names the second in which enough has left the window.
LEMMA AudioWait ==
    ASSUME NEW A \in Amounts, NEW duration \in Nat, NEW limit \in Nat, duration <= limit,
           NEW window \in Nat, NEW now \in Nat,
           Over(Within(A, window, now), duration, limit)
    PROVE  LET wait == RetryForAudio(Within(A, window, now), duration, limit, window, now)
           IN  /\ wait \in Nat /\ wait >= 1
               /\ \A later \in Nat : later >= now =>
                    (Over(Within(A, window, later), duration, limit) <=> later < now + wait)
PROOF
<1> DEFINE W == After(A, now - window)
           enough == {t \in Stamps(W) : ~Over(After(W, t), duration, limit)}
           wait == RetryForAudio(W, duration, limit, window, now)
<1>0. Within(A, window, now) = W
      BY WindowIsAfter
<1>1. /\ W \in Amounts /\ now - window \in Int
      /\ \A t \in Times : W[t] = IF t > now - window THEN A[t] ELSE 0
      BY AfterTypes
<1> HIDE DEF W
<1>2. Total(W) \in Nat /\ Total(W) > limit - duration
      BY <1>0, <1>1, TotalLeq, LaterIsLess DEF Over
<1>3. \A t \in Stamps(W) : t \in 0 .. MaxTime /\ t \in Times /\ t \in Nat /\ t > now - window
  <2>1. ASSUME NEW t \in Stamps(W) PROVE t \in Times /\ W[t] # 0
        BY <1>1 DEF Stamps, Amounts
  <2> QED BY <1>1, <2>1, Windows DEF Times
<1>4. enough # {}
  <2>1. After(W, MaxTime) # W
    <3>1. \A t \in Times : t > MaxTime => W[t] = 0
          BY Windows DEF Times
    <3>2. Total(After(W, MaxTime)) = 0
          BY <1>1, <3>1, Windows, NothingAfter
    <3> QED BY <1>2, <3>2
  <2>2. PICK last \in Stamps(W) : After(W, last) = After(W, MaxTime)
        BY <1>1, <2>1, Windows, LastStamp
  <2>3. \A t \in Times : t > MaxTime => W[t] = 0
        BY Windows DEF Times
  <2>4. Total(After(W, last)) = 0
        BY <1>1, <2>2, <2>3, Windows, NothingAfter
  <2>5. ~Over(After(W, last), duration, limit)
        BY <2>4 DEF Over
  <2> QED BY <2>5
<1>5. enough \in SUBSET (0 .. MaxTime)
      BY <1>3
<1> DEFINE first == Min(enough)
<1>6. first \in enough /\ \A t \in enough : first <= t
  <2> HIDE DEF enough
  <2> QED BY <1>4, <1>5, Windows, Extremes
<1>7. wait = first + window - now
  <2>1. wait = IF enough = {} THEN window ELSE Min(enough) + window - now
        BY DEF RetryForAudio
  <2> HIDE DEF enough, wait
  <2> QED BY <1>4, <2>1
<1>8. /\ first \in Nat /\ first > now - window
      /\ ~Over(After(W, first), duration, limit)
      BY <1>3, <1>6
<1>9. \A t \in Stamps(W) : ~Over(After(W, t), duration, limit) => first <= t
      BY <1>6
<1> HIDE DEF enough, first
<1>10. wait \in Nat /\ wait >= 1
  <2> HIDE DEF wait
  <2> QED BY <1>7, <1>8
<1>11. ASSUME NEW later \in Nat, later >= now
       PROVE  Over(Within(A, window, later), duration, limit) <=> later < now + wait
  <2>1. Within(A, window, later) = After(W, later - window)
    <3>1. Within(A, window, later) = After(A, later - window)
          BY WindowIsAfter
    <3>2. now - window <= later - window /\ later - window \in Int /\ now - window \in Int
          BY <1>11
    <3>3. After(After(A, now - window), later - window) = After(A, later - window)
          BY <3>2, AfterAfter
    <3> QED BY <3>1, <3>3 DEF W
  <2> DEFINE s == later - window
  <2>2. s \in Int /\ (later < now + wait <=> s < first)
    <3> HIDE DEF wait
    <3> QED BY <1>7, <1>8
  <2> HIDE DEF s, wait
  <2>3. CASE s < first
    <3>1. SUFFICES ASSUME ~Over(After(W, s), duration, limit) PROVE FALSE
          BY <2>1, <2>2, <2>3 DEF s
    <3>2. After(W, s) # W
          BY <1>2, <3>1 DEF Over
    <3>3. PICK last \in Stamps(W) : last <= s /\ After(W, last) = After(W, s)
          BY <1>1, <2>2, <3>2, LastStamp
    <3>4. first <= last
          BY <1>9, <3>1, <3>3
    <3> QED BY <1>3, <1>8, <2>2, <2>3, <3>3, <3>4
  <2>4. CASE ~ (s < first)
    <3>1. first <= s /\ first \in Int
          BY <1>8, <2>2, <2>4
    <3>2. /\ Total(After(W, s)) \in Nat /\ Total(After(W, first)) \in Nat
          /\ Total(After(W, s)) <= Total(After(W, first))
          BY <1>1, <2>2, <3>1, LaterIsLess
    <3>3. ~Over(After(W, s), duration, limit)
          BY <1>8, <3>2 DEF Over
    <3> QED BY <2>1, <2>2, <2>4, <3>3 DEF s
  <2> QED BY <2>3, <2>4
<1> QED BY <1>0, <1>10, <1>11

\* A limit that holds goes on holding while nothing is charged.
LEMMA StaysUnder ==
    ASSUME NEW A \in Amounts, NEW duration \in Nat, NEW limit \in Nat, NEW window \in Nat,
           NEW now \in Nat, NEW later \in Nat, later >= now,
           ~Over(Within(A, window, now), duration, limit)
    PROVE  ~Over(Within(A, window, later), duration, limit)
PROOF
<1>1. now - window <= later - window /\ later - window \in Int /\ now - window \in Int
      OBVIOUS
<1>2. /\ Within(A, window, now) = After(A, now - window)
      /\ Within(A, window, later) = After(A, later - window)
      BY WindowIsAfter
<1>3. /\ Total(Within(A, window, now)) \in Nat /\ Total(Within(A, window, later)) \in Nat
      /\ Total(Within(A, window, later)) <= Total(Within(A, window, now))
      BY <1>1, <1>2, LaterIsLess
<1> QED BY <1>3 DEF Over

\* The oldest request of a full minute makes room when it leaves.
LEMMA RequestWait ==
    ASSUME NEW A \in Amounts, NEW now \in Nat,
           Total(A) <= max_requests_per_minute,
           Total(Within(A, Minute, now)) >= max_requests_per_minute
    PROVE  LET wait == Min(Stamps(Within(A, Minute, now))) + Minute - now
           IN  /\ wait \in Nat /\ wait >= 1
               /\ \A later \in Nat : later >= now =>
                    (Total(Within(A, Minute, later)) >= max_requests_per_minute
                        <=> later < now + wait)
PROOF
<1> DEFINE W == After(A, now - Minute)
           first == Min(Stamps(W))
           wait == first + Minute - now
<1>0. Within(A, Minute, now) = W /\ now - Minute \in Int
  <2>1. Minute \in Nat
        BY Windows
  <2>2. Within(A, Minute, now) = W
        BY <2>1, WindowIsAfter
  <2> QED BY <2>1, <2>2
<1>1. /\ W \in Amounts
      /\ \A t \in Times : W[t] = IF t > now - Minute THEN A[t] ELSE 0
      BY <1>0, AfterTypes
<1>2. Total(W) = max_requests_per_minute
  <2>1. now - Minute <= now - Minute
        BY <1>0
  <2>2. Total(W) \in Nat /\ Total(A) \in Nat /\ Total(W) <= Total(A)
        BY <1>0, <2>1, LaterIsLess
  <2> QED BY <1>0, <2>2, Windows
<1> HIDE DEF W
<1>3. Stamps(W) # {} /\ Stamps(W) \in SUBSET (0 .. MaxTime)
  <2>1. ASSUME Stamps(W) = {} PROVE FALSE
    <3>1. \A t \in Times : W[t] = 0
          BY <1>1, <2>1 DEF Stamps, Amounts
    <3>2. \A t \in Times : t > -1 => W[t] = 0
          BY <3>1
    <3>3. Total(After(W, -1)) = 0
          BY <1>1, <3>2, NothingAfter
    <3>4. \A t \in Times : t > -1
          BY Windows DEF Times
    <3>5. After(W, -1) = W
          BY <1>1, <3>4 DEF After, Amounts
    <3> QED BY <1>2, <3>3, <3>5, Windows
  <2> QED BY <2>1 DEF Stamps, Times
<1>4. first \in Stamps(W) /\ \A t \in Stamps(W) : first <= t
      BY <1>3, Windows, Extremes
<1>5. first \in Times /\ first \in Nat /\ first > now - Minute /\ W[first] >= 1
  <2>1. first \in Times /\ first \in Nat /\ W[first] \in Nat /\ W[first] > 0
        BY <1>1, <1>4, Windows DEF Stamps, Times, Amounts
  <2> HIDE DEF first
  <2> QED BY <1>1, <2>1
<1> HIDE DEF first
<1>6. wait \in Nat /\ wait >= 1
      BY <1>5, Windows
<1>7. ASSUME NEW later \in Nat, later >= now
      PROVE  Total(Within(A, Minute, later)) >= max_requests_per_minute <=> later < now + wait
  <2> DEFINE s == later - Minute
  <2>1. Within(A, Minute, later) = After(W, s)
    <3>1. Within(A, Minute, later) = After(A, s)
          BY WindowIsAfter, Windows
    <3>2. now - Minute <= later - Minute /\ later - Minute \in Int /\ now - Minute \in Int
          BY <1>7, Windows
    <3>3. After(After(A, now - Minute), s) = After(A, s)
          BY <3>2, AfterAfter
    <3> QED BY <3>1, <3>3 DEF W
  <2>2. s \in Int /\ (later < now + wait <=> s < first)
        BY <1>5, Windows
  <2> HIDE DEF s, wait
  <2>3. CASE s < first
    <3>1. ASSUME NEW t \in Times PROVE W[t] = IF t > s THEN W[t] ELSE 0
      <4>1. CASE t \in Stamps(W)
            BY <1>4, <1>5, <2>2, <2>3, <4>1, Windows DEF Times
      <4>2. CASE t \notin Stamps(W)
            BY <1>1, <4>2 DEF Stamps, Amounts
      <4> QED BY <4>1, <4>2
    <3>2. After(W, s) = W
          BY <1>1, <3>1 DEF After, Amounts
    <3> QED BY <1>2, <2>1, <2>2, <2>3, <3>2, Windows
  <2>4. CASE ~ (s < first)
    <3>1. /\ After(W, s) \in Amounts
          /\ \A t \in Times : After(W, s)[t] = IF t > s THEN W[t] ELSE 0
          /\ \A t \in Times : After(W, s)[t] <= W[t]
          BY <1>1, <2>2, AfterTypes
    <3>2. After(W, s)[first] + 1 <= W[first]
          BY <1>1, <1>5, <2>2, <2>4, <3>1 DEF Amounts
    <3>3. Total(After(W, s)) \in Nat /\ Total(After(W, s)) + 1 <= Total(W)
          BY <1>1, <1>5, <3>1, <3>2, TotalGrows
    <3> QED BY <1>2, <2>1, <2>2, <2>4, <3>3, Windows
  <2> QED BY <2>3, <2>4
<1> QED BY <1>0, <1>6, <1>7 DEF first

\* A number of waits has a longest.
LEMMA LongestWait ==
    ASSUME NEW a \in Nat, NEW b \in Nat, NEW c \in Nat,
           NEW T \in SUBSET {a, b, c, 1}, T # {}
    PROVE  Max(T) \in T /\ \A x \in T : Max(T) >= x
PROOF
<1>1. T \in SUBSET (0 .. a + b + c + 1) /\ a + b + c + 1 \in Nat
      OBVIOUS
<1> QED BY <1>1, Extremes

\* The limits of consume in the file that it leaves behind.
LEMMA PrunedLimits ==
    ASSUME NEW file \in File, NEW duration \in Nat, NEW now \in Nat, NEW later \in Nat,
           later >= now
    PROVE  LET kept == Pruned(file, now)
           IN  /\ Full(kept, later) <=> Full(file, later)
               /\ OverHour(kept, duration, later) <=> OverHour(file, duration, later)
               /\ OverDay(kept, duration, later) <=> OverDay(file, duration, later)
PROOF
<1> DEFINE kept == Pruned(file, now)
<1>1. /\ kept.requests = After(file.requests, now - Minute)
      /\ kept.audio = After(file.audio, now - Day)
      /\ file.requests \in Amounts /\ file.audio \in Amounts
      BY PrunedFile, FileTypes
<1> HIDE DEF kept
<1>2. /\ now - Minute \in Int /\ now - Day \in Int
      /\ later - Minute \in Int /\ later - Hour \in Int /\ later - Day \in Int
      /\ now - Minute <= later - Minute
      /\ now - Day <= later - Hour /\ now - Day <= later - Day
      BY Windows
<1>3. /\ After(kept.requests, later - Minute) = After(file.requests, later - Minute)
      /\ After(kept.audio, later - Hour) = After(file.audio, later - Hour)
      /\ After(kept.audio, later - Day) = After(file.audio, later - Day)
      BY <1>1, <1>2, AfterAfter
<1>4. ASSUME NEW amounts
      PROVE  /\ Within(amounts, Minute, later) = After(amounts, later - Minute)
             /\ Within(amounts, Hour, later) = After(amounts, later - Hour)
             /\ Within(amounts, Day, later) = After(amounts, later - Day)
  <2>1. Minute \in Nat /\ Hour \in Nat /\ Day \in Nat
        BY Windows
  <2> QED BY <2>1, WindowIsAfter
<1>5. /\ Requests(kept, later) = Requests(file, later)
      /\ HourAudio(kept, later) = HourAudio(file, later)
      /\ DayAudio(kept, later) = DayAudio(file, later)
      BY <1>3, <1>4 DEF Requests, HourAudio, DayAudio
<1> QED BY <1>5 DEF Full, OverHour, OverDay, kept

\* The longest wait is the exact one: the file admits the segment from then on,
\* and not before.
LEMMA ExactWait ==
    ASSUME NEW file \in File, NEW duration \in Nat, NEW now \in Nat,
           Total(file.requests) <= max_requests_per_minute,
           duration <= max_audio_seconds_per_hour,
           duration <= max_audio_seconds_per_day,
           ~Allowed(file, duration, now)
    PROVE  LET wait == RetryAfter(file, duration, now)
           IN  /\ wait \in Nat /\ wait >= 1
               /\ \A later \in Nat : later >= now =>
                    (Allowed(file, duration, later) <=> later >= now + wait)
PROOF
<1> DEFINE m == Min(Stamps(Requests(file, now))) + Minute - now
           h == RetryForAudio(HourAudio(file, now), duration, max_audio_seconds_per_hour, Hour, now)
           y == RetryForAudio(DayAudio(file, now), duration, max_audio_seconds_per_day, Day, now)
           T == Waits(file, duration, now) \cup {1}
<1>0. /\ file.requests \in Amounts /\ file.audio \in Amounts
      /\ Minute \in Nat /\ Hour \in Nat /\ Day \in Nat
      /\ max_requests_per_minute \in Nat
      /\ max_audio_seconds_per_hour \in Nat /\ max_audio_seconds_per_day \in Nat
      BY FileTypes, Windows
<1>1. Full(file, now) =>
          /\ m \in Nat /\ m >= 1
          /\ \A later \in Nat : later >= now => (Full(file, later) <=> later < now + m)
      BY <1>0, RequestWait DEF Full, Requests
<1>2. OverHour(file, duration, now) =>
          /\ h \in Nat /\ h >= 1
          /\ \A later \in Nat : later >= now =>
               (OverHour(file, duration, later) <=> later < now + h)
      BY <1>0, AudioWait DEF OverHour, HourAudio
<1>3. OverDay(file, duration, now) =>
          /\ y \in Nat /\ y >= 1
          /\ \A later \in Nat : later >= now =>
               (OverDay(file, duration, later) <=> later < now + y)
      BY <1>0, AudioWait DEF OverDay, DayAudio
<1>4. ASSUME NEW later \in Nat, later >= now
      PROVE  /\ ~Full(file, now) => ~Full(file, later)
             /\ ~OverHour(file, duration, now) => ~OverHour(file, duration, later)
             /\ ~OverDay(file, duration, now) => ~OverDay(file, duration, later)
  <2>1. ~Full(file, now) => ~Full(file, later)
    <3>1. now - Minute <= later - Minute /\ later - Minute \in Int /\ now - Minute \in Int
          BY <1>0, <1>4
    <3>2. /\ Within(file.requests, Minute, now) = After(file.requests, now - Minute)
          /\ Within(file.requests, Minute, later) = After(file.requests, later - Minute)
          BY <1>0, WindowIsAfter
    <3>3. /\ Total(Within(file.requests, Minute, now)) \in Nat
          /\ Total(Within(file.requests, Minute, later)) \in Nat
          /\ Total(Within(file.requests, Minute, later)) <= Total(Within(file.requests, Minute, now))
          BY <1>0, <3>1, <3>2, LaterIsLess
    <3> QED BY <1>0, <3>3 DEF Full, Requests
  <2>2. ~OverHour(file, duration, now) => ~OverHour(file, duration, later)
        BY <1>0, <1>4, StaysUnder DEF OverHour, HourAudio
  <2>3. ~OverDay(file, duration, now) => ~OverDay(file, duration, later)
        BY <1>0, <1>4, StaysUnder DEF OverDay, DayAudio
  <2> QED BY <2>1, <2>2, <2>3
<1>5. Waits(file, duration, now) =
          (IF Full(file, now) THEN {m} ELSE {})
          \cup (IF OverHour(file, duration, now) THEN {h} ELSE {})
          \cup (IF OverDay(file, duration, now) THEN {y} ELSE {})
      BY DEF Waits
<1> HIDE DEF m, h, y
<1>6. Max(T) \in T /\ \A x \in T : Max(T) >= x
  <2> DEFINE a == IF Full(file, now) THEN m ELSE 1
             b == IF OverHour(file, duration, now) THEN h ELSE 1
             c == IF OverDay(file, duration, now) THEN y ELSE 1
  <2>1. a \in Nat /\ b \in Nat /\ c \in Nat
        BY <1>1, <1>2, <1>3
  <2>2. T \in SUBSET {a, b, c, 1} /\ T # {}
        BY <1>5
  <2> HIDE DEF a, b, c, T
  <2> QED BY <2>1, <2>2, LongestWait
<1> DEFINE wait == Max(T)
<1>7. RetryAfter(file, duration, now) = wait
      BY DEF RetryAfter
<1>8. \A x \in T : x \in Nat /\ x >= 1
      BY <1>1, <1>2, <1>3, <1>5
<1>9. \/ wait = 1
      \/ Full(file, now) /\ wait = m
      \/ OverHour(file, duration, now) /\ wait = h
      \/ OverDay(file, duration, now) /\ wait = y
  <2> HIDE DEF wait
  <2>1. wait \in T
        BY <1>6 DEF wait
  <2> QED BY <1>5, <2>1
<1>10. /\ wait \in Nat /\ wait >= 1
       /\ Full(file, now) => wait >= m
       /\ OverHour(file, duration, now) => wait >= h
       /\ OverDay(file, duration, now) => wait >= y
  <2>1. /\ Full(file, now) => m \in T
        /\ OverHour(file, duration, now) => h \in T
        /\ OverDay(file, duration, now) => y \in T
        BY <1>5
  <2> HIDE DEF T
  <2> QED BY <1>6, <1>8, <2>1
<1> HIDE DEF wait, T
<1>11. ASSUME NEW later \in Nat, later >= now
       PROVE  Allowed(file, duration, later) <=> later >= now + wait
  <2>1. CASE later >= now + wait
    <3>1. ~Full(file, later)
          BY <1>1, <1>4, <1>10, <1>11, <2>1
    <3>2. ~OverHour(file, duration, later)
          BY <1>2, <1>4, <1>10, <1>11, <2>1
    <3>3. ~OverDay(file, duration, later)
          BY <1>3, <1>4, <1>10, <1>11, <2>1
    <3> QED BY <2>1, <3>1, <3>2, <3>3 DEF Allowed
  <2>2. CASE ~ (later >= now + wait)
    <3>1. later < now + wait
          BY <1>10, <2>2
    <3>2. CASE wait = 1
      <4>1. later = now
            BY <1>11, <3>1, <3>2
      <4> QED BY <2>2, <4>1
    <3>3. CASE Full(file, now) /\ wait = m
          BY <1>1, <1>11, <2>2, <3>1, <3>3 DEF Allowed
    <3>4. CASE OverHour(file, duration, now) /\ wait = h
          BY <1>2, <1>11, <2>2, <3>1, <3>4 DEF Allowed
    <3>5. CASE OverDay(file, duration, now) /\ wait = y
          BY <1>3, <1>11, <2>2, <3>1, <3>5 DEF Allowed
    <3> QED BY <1>9, <3>2, <3>3, <3>4, <3>5
  <2> QED BY <2>1, <2>2
<1> QED BY <1>7, <1>10, <1>11

\* The one differs from the other by what was added at one stamp.
Charged(A, B, u, d) ==
    /\ \A t \in Times \ {u} : B[t] = A[t]
    /\ B[u] = A[u] + d

\* That is what Plus does to the requests and to the audio.
LEMMA PlusCharges ==
    ASSUME NEW file \in File, NEW duration \in Nat, NEW stamp \in Times
    PROVE  /\ Plus(file, duration, stamp) \in File
           /\ Plus(file, duration, stamp).requests \in Amounts
           /\ Plus(file, duration, stamp).audio \in Amounts
           /\ Charged(file.requests, Plus(file, duration, stamp).requests, stamp, 1)
           /\ Charged(file.audio, Plus(file, duration, stamp).audio, stamp, duration)
PROOF
<1> DEFINE more == Plus(file, duration, stamp)
<1>1. /\ more \in File
      /\ \A t \in Times \ {stamp} : /\ more.requests[t] = file.requests[t]
                                    /\ more.audio[t] = file.audio[t]
      /\ more.requests[stamp] = file.requests[stamp] + 1
      /\ more.audio[stamp] = file.audio[stamp] + duration
      BY PlusFile
<1> HIDE DEF more
<1>2. more.requests \in Amounts /\ more.audio \in Amounts
      BY <1>1, FileTypes
<1>3. /\ more \in File /\ more.requests \in Amounts /\ more.audio \in Amounts
      /\ Charged(file.requests, more.requests, stamp, 1)
      /\ Charged(file.audio, more.audio, stamp, duration)
      BY <1>1, <1>2 DEF Charged
<1> QED BY <1>3 DEF more

-----------------------------------------------------------------------------
(* Windows of a history                                                    *)

\* What lies after one moment and not after another.
Between(amounts, low, high) ==
    [t \in Times |-> IF t > low /\ t <= high THEN amounts[t] ELSE 0]

\* A window that ends somewhere is what lies between two moments.
LEMMA WindowIsBetween ==
    ASSUME NEW amounts, NEW window \in Nat, NEW margin \in Nat, NEW end \in Nat
    PROVE  InWindow(amounts, window, margin, end) = Between(amounts, end + margin - window, end)
PROOF
<1>1. \A t \in Times : t <= end /\ end + margin < t + window
                         <=> t > end + margin - window /\ t <= end
      BY Windows DEF Times
<1> QED BY <1>1 DEF InWindow, Between

\* What lies between two moments adds up to a number, no larger than what lies
\* after the first.
LEMMA BetweenTypes ==
    ASSUME NEW A \in Amounts, NEW low \in Int, NEW high \in Int
    PROVE  /\ Between(A, low, high) \in Amounts
           /\ Total(Between(A, low, high)) \in Nat
           /\ Total(Between(A, low, high)) <= Total(After(A, low))
PROOF
<1>1. \A t \in Times : A[t] \in Nat
      BY DEF Amounts
<1>2. Between(A, low, high) \in Amounts
      BY <1>1 DEF Between, Amounts
<1>3. After(A, low) \in Amounts
      BY AfterTypes
<1>4. \A t \in Times : Between(A, low, high)[t] <= After(A, low)[t]
      BY <1>1 DEF Between, After
<1> QED BY <1>2, <1>3, <1>4, TotalLeq

\* A charge counts between two moments when it lies there.
LEMMA BetweenCharge ==
    ASSUME NEW A \in Amounts, NEW B \in Amounts, NEW u \in Times, NEW d \in Nat,
           NEW low \in Int, NEW high \in Int,
           \A t \in Times \ {u} : B[t] = A[t],
           B[u] = A[u] + d
    PROVE  Total(Between(B, low, high)) = IF u > low /\ u <= high
                                          THEN Total(Between(A, low, high)) + d
                                          ELSE Total(Between(A, low, high))
PROOF
<1>1. Between(A, low, high) \in Amounts /\ Between(B, low, high) \in Amounts
      BY BetweenTypes
<1>2. /\ \A t \in Times : Between(A, low, high)[t] = IF t > low /\ t <= high THEN A[t] ELSE 0
      /\ \A t \in Times : Between(B, low, high)[t] = IF t > low /\ t <= high THEN B[t] ELSE 0
      BY DEF Between
<1>3. CASE u > low /\ u <= high
  <2>1. \A t \in Times \ {u} : Between(B, low, high)[t] = Between(A, low, high)[t]
        BY <1>2
  <2>2. Between(B, low, high)[u] = Between(A, low, high)[u] + d
        BY <1>2, <1>3
  <2> QED BY <1>1, <1>3, <2>1, <2>2, TotalPlus
<1>4. CASE ~(u > low /\ u <= high)
  <2>1. \A t \in Times : Between(B, low, high)[t] = Between(A, low, high)[t]
        BY <1>2, <1>4
  <2>2. Between(B, low, high) = Between(A, low, high)
        BY <2>1 DEF Between
  <2> QED BY <1>4, <2>2
<1> QED BY <1>3, <1>4

\* No window has more than the limit.
Limited(amounts, window, limit) ==
    \A end \in Times : Total(InWindow(amounts, window, 0, end)) <= limit

\* What is added at the end of a history, where the last window has room for it,
\* leaves every window within its limit.
LEMMA AddingStaysLimited ==
    ASSUME NEW A \in Amounts, NEW B \in Amounts, NEW u \in Times, NEW d \in Nat,
           NEW window \in Nat, 1 <= window, NEW limit \in Nat,
           Charged(A, B, u, d),
           Limited(A, window, limit),
           Total(After(A, u - window)) + d <= limit
    PROVE  Limited(B, window, limit)
PROOF
<1>0. u \in Nat /\ u - window \in Int /\ u > u - window
      BY Windows DEF Times
<1>1. SUFFICES ASSUME NEW end \in Times
               PROVE  Total(InWindow(B, window, 0, end)) <= limit
      BY DEF Limited
<1> DEFINE low == end - window
<1>2. end \in Nat /\ low \in Int /\ end + 0 - window = low
      BY Windows DEF Times
<1>3. /\ InWindow(A, window, 0, end) = Between(A, low, end)
      /\ InWindow(B, window, 0, end) = Between(B, low, end)
  <2>1. 0 \in Nat
        OBVIOUS
  <2> HIDE DEF low
  <2> QED BY <1>2, <2>1, WindowIsBetween
<1> HIDE DEF low
<1>4. CASE u <= end
  <2>1. u - window <= low
        BY <1>0, <1>2, <1>4 DEF low
  <2>2. /\ Total(After(B, low)) \in Nat /\ Total(After(B, u - window)) \in Nat
        /\ Total(After(B, low)) <= Total(After(B, u - window))
        BY <1>0, <1>2, <2>1, LaterIsLess
  <2>3. /\ Total(After(A, u - window)) \in Nat
        /\ Total(After(B, u - window)) = Total(After(A, u - window)) + d
        BY <1>0, AfterCharge DEF Charged
  <2>4. Total(Between(B, low, end)) \in Nat /\ Total(Between(B, low, end)) <= Total(After(B, low))
        BY <1>2, BetweenTypes
  <2> QED BY <1>3, <2>2, <2>3, <2>4
<1>5. CASE ~(u <= end)
  <2>1. Total(Between(B, low, end)) = Total(Between(A, low, end))
        BY <1>2, <1>5, BetweenCharge DEF Charged
  <2> QED BY <1>3, <2>1 DEF Limited
<1> QED BY <1>4, <1>5

\* What was heard between two moments was admitted between them, or in the delay
\* before them.
Delayed(heard, history) ==
    \A low \in Int, high \in Int :
        Total(Between(heard, low, high)) <= Total(Between(history, low - MaxDelay, high))

\* What is heard within the delay after it was admitted keeps it so.
LEMMA HearingDelays ==
    ASSUME NEW S \in Amounts, NEW S1 \in Amounts, NEW A \in Amounts, NEW A1 \in Amounts,
           NEW u \in Times, NEW r \in Times, NEW d \in Nat, u <= r, r <= u + MaxDelay,
           Charged(S, S1, r, d), Charged(A, A1, u, d),
           Delayed(S, A)
    PROVE  Delayed(S1, A1)
PROOF
<1>1. SUFFICES ASSUME NEW low \in Int, NEW high \in Int
               PROVE  Total(Between(S1, low, high)) <= Total(Between(A1, low - MaxDelay, high))
      BY DEF Delayed
<1> DEFINE early == low - MaxDelay
<1>2. early \in Int /\ MaxDelay \in Nat /\ u \in Nat /\ r \in Nat
      BY BudgetAssumption DEF Times
<1>3. Total(Between(S, low, high)) <= Total(Between(A, early, high))
      BY DEF Delayed
<1>4. r > low /\ r <= high => u > early /\ u <= high
      BY <1>2
<1> HIDE DEF early
<1>5. Total(Between(S, low, high)) \in Nat /\ Total(Between(A, early, high)) \in Nat
      BY <1>2, BetweenTypes
<1>6. Total(Between(S1, low, high)) = IF r > low /\ r <= high
                                      THEN Total(Between(S, low, high)) + d
                                      ELSE Total(Between(S, low, high))
      BY BetweenCharge DEF Charged
<1>7. Total(Between(A1, early, high)) = IF u > early /\ u <= high
                                        THEN Total(Between(A, early, high)) + d
                                        ELSE Total(Between(A, early, high))
      BY <1>2, BetweenCharge DEF Charged
<1>8. Total(Between(S1, low, high)) <= Total(Between(A1, early, high))
      BY <1>3, <1>4, <1>5, <1>6, <1>7
<1> QED BY <1>8 DEF early

\* So the windows less the delay are within the limits of the whole ones.
LEMMA DelayedWindows ==
    ASSUME NEW S \in Amounts, NEW A \in Amounts, NEW window \in Nat, NEW limit \in Nat,
           Delayed(S, A), Limited(A, window, limit), NEW end \in Times
    PROVE  Total(InWindow(S, window, MaxDelay, end)) <= limit
PROOF
<1>0. end \in Nat /\ MaxDelay \in Nat /\ 0 \in Nat
      BY BudgetAssumption DEF Times
<1> DEFINE low == end + MaxDelay - window
<1>1. low \in Int /\ low - MaxDelay = end + 0 - window /\ end \in Int
      BY <1>0
<1>2. InWindow(S, window, MaxDelay, end) = Between(S, low, end)
      BY <1>0, WindowIsBetween
<1>3. InWindow(A, window, 0, end) = Between(A, low - MaxDelay, end)
      BY <1>0, <1>1, WindowIsBetween
<1> HIDE DEF low
<1>4. Total(Between(S, low, end)) <= Total(Between(A, low - MaxDelay, end))
      BY <1>1 DEF Delayed
<1>5. /\ low - MaxDelay \in Int
      /\ Total(Between(S, low, end)) \in Nat /\ Total(Between(A, low - MaxDelay, end)) \in Nat
  <2>1. low - MaxDelay \in Int
        BY <1>0, <1>1
  <2> QED BY <1>1, <2>1, BetweenTypes
<1>6. Total(Between(A, low - MaxDelay, end)) <= limit
      BY <1>3 DEF Limited
<1> QED BY <1>2, <1>4, <1>5, <1>6

-----------------------------------------------------------------------------
(* The file covers what was admitted                                       *)

\* Whatever was admitted in a window, the file charges at least as much in the
\* same window by the wall clock, `lag' behind real time.
Covered(charges, history, window, moment, lag) ==
    \A s \in Int : moment - window <= s /\ s < moment =>
        Total(After(history, s)) <= Total(After(charges, s - lag))

\* The totals of a window are numbers.
LEMMA TotalAfter ==
    ASSUME NEW A \in Amounts, NEW s \in Int
    PROVE  Total(After(A, s)) \in Nat
PROOF
<1>1. s <= s
      OBVIOUS
<1> QED BY <1>1, LaterIsLess

\* What has been pruned was in no window.
LEMMA PruningCovers ==
    ASSUME NEW C \in Amounts, NEW H \in Amounts, NEW window \in Nat, NEW wide \in Nat,
           window <= wide, NEW moment \in Nat, NEW lag \in Nat,
           Covered(C, H, window, moment, lag)
    PROVE  Covered(After(C, moment - lag - wide), H, window, moment, lag)
PROOF
<1>1. ASSUME NEW s \in Int, moment - window <= s
      PROVE  After(After(C, moment - lag - wide), s - lag) = After(C, s - lag)
  <2>1. moment - lag - wide \in Int /\ s - lag \in Int /\ moment - lag - wide <= s - lag
        BY <1>1
  <2> QED BY <2>1, AfterAfter
<1> QED BY <1>1 DEF Covered

\* A charge by the wall clock covers what is admitted with it, and what was
\* admitted before.
LEMMA ChargeCovers ==
    ASSUME NEW C \in Amounts, NEW D \in Amounts, NEW H \in Amounts, NEW G \in Amounts,
           NEW window \in Nat, NEW extra \in Nat, NEW moment \in Times, moment \in Nat,
           NEW lag \in Nat, moment - lag \in Times,
           Charged(C, D, moment - lag, extra), Charged(H, G, moment, extra),
           Covered(C, H, window, moment, lag)
    PROVE  Covered(D, G, window, moment, lag) /\ Covered(D, H, window, moment, lag)
PROOF
<1>1. SUFFICES ASSUME NEW s \in Int, moment - window <= s, s < moment
               PROVE  /\ Total(After(G, s)) <= Total(After(D, s - lag))
                      /\ Total(After(H, s)) <= Total(After(D, s - lag))
      BY DEF Covered
<1> DEFINE u == moment - lag
           e == s - lag
<1>2. u \in Times /\ e \in Int /\ u > e
      BY <1>1
<1>3. D[u] = C[u] + extra /\ \A t \in Times \ {u} : D[t] = C[t]
      BY DEF Charged
<1> HIDE DEF u, e
<1>4. Total(After(C, e)) \in Nat /\ Total(After(D, e)) = Total(After(C, e)) + extra
      BY <1>2, <1>3, AfterCharge
<1>5. Total(After(H, s)) \in Nat /\ Total(After(G, s)) = Total(After(H, s)) + extra
      BY <1>1, AfterCharge DEF Charged
<1>6. Total(After(H, s)) <= Total(After(C, e))
      BY <1>1 DEF Covered, e
<1> QED BY <1>4, <1>5, <1>6 DEF e

\* When both clocks go on the windows only lose what is at their end.
LEMMA TickingCovers ==
    ASSUME NEW C \in Amounts, NEW H \in Amounts, NEW window \in Nat,
           NEW moment \in Nat, NEW lag \in Nat,
           \A t \in Times : t > moment => H[t] = 0,
           Covered(C, H, window, moment, lag)
    PROVE  Covered(C, H, window, moment + 1, lag)
PROOF
<1>1. SUFFICES ASSUME NEW s \in Int, moment + 1 - window <= s, s < moment + 1
               PROVE  Total(After(H, s)) <= Total(After(C, s - lag))
      BY DEF Covered
<1>2. s - lag \in Int
      OBVIOUS
<1>3. Total(After(C, s - lag)) \in Nat
      BY <1>2, TotalAfter
<1>4. CASE s < moment
  <2>1. moment - window <= s
        BY <1>1
  <2> QED BY <1>4, <2>1 DEF Covered
<1>5. CASE s = moment
  <2>1. Total(After(H, s)) = 0
        BY <1>5, NothingAfter
  <2> QED BY <1>3, <2>1
<1> QED BY <1>1, <1>4, <1>5

\* When the wall clock is set back its windows only grow.
LEMMA SettingBackCovers ==
    ASSUME NEW C \in Amounts, NEW H \in Amounts, NEW window \in Nat,
           NEW moment \in Nat, NEW lag \in Nat,
           Covered(C, H, window, moment, lag)
    PROVE  Covered(C, H, window, moment, lag + 1)
PROOF
<1>1. SUFFICES ASSUME NEW s \in Int, moment - window <= s, s < moment
               PROVE  Total(After(H, s)) <= Total(After(C, s - (lag + 1)))
      BY DEF Covered
<1>2. s - (lag + 1) \in Int /\ s - lag \in Int /\ s - (lag + 1) <= s - lag
      OBVIOUS
<1>3. /\ Total(After(C, s - lag)) \in Nat /\ Total(After(C, s - (lag + 1))) \in Nat
      /\ Total(After(C, s - lag)) <= Total(After(C, s - (lag + 1)))
      BY <1>2, LaterIsLess
<1>4. Total(After(H, s)) \in Nat /\ Total(After(H, s)) <= Total(After(C, s - lag))
      BY <1>1, TotalAfter DEF Covered
<1> QED BY <1>3, <1>4

-----------------------------------------------------------------------------
(* The invariant of the budget                                             *)

\* The file holds no more than a minute and a day of full use.
Bounded(file) ==
    /\ Total(file.requests) <= max_requests_per_minute
    /\ Total(file.audio) <= max_audio_seconds_per_day

\* The requests are covered for a minute, the audio for a day.
Covers(file, history, moment, lag) ==
    /\ Covered(file.requests, history.requests, Minute, moment, lag)
    /\ Covered(file.audio, history.audio, Day, moment, lag)

\* Nothing has happened in the future.
Past(history, moment) ==
    \A t \in Times : t > moment => history.requests[t] = 0 /\ history.audio[t] = 0

\* What will have been admitted when the decision under way is carried out.
Intended == Plus(admitted, decision.duration, decision.since)

\* The file admits the segment exactly from `until'.
Exact(file, duration, until) ==
    \A now \in Nat : Allowed(file, duration, now) <=> now >= until

\* A history is in the past and within the limits.
Sound(history) ==
    /\ history \in File
    /\ Past(history, real)
    /\ WithinLimits(history, 0)

\* The file that is on disk covers what was admitted, the one that is about to
\* replace it too, and what is about to be sent is charged.
Covering ==
    /\ Sound(admitted)
    /\ Covers(disk, admitted, real, real - clock)
    /\ phase = "saving" => Covers(temporary, admitted, real, real - clock)
    /\ phase = "saving" /\ decision.allowed =>
           Covers(temporary, Intended, real, real - clock)
    /\ phase = "charged" => Covers(disk, Intended, real, real - clock)
    /\ decision.allowed => phase # "idle" /\ Sound(Intended)
    /\ phase = "charged" => decision.allowed

\* What was heard was admitted no longer before than the delay.
Delays ==
    /\ Delayed(sent.requests, admitted.requests)
    /\ Delayed(sent.audio, admitted.audio)

\* A wait that was handed out, or is about to be, is exact.
Promises ==
    /\ phase = "saving" /\ ~decision.allowed =>
           Exact(temporary, decision.duration, decision.stamp + decision.retry_after)
    /\ promise # NoPromise =>
           phase = "idle" /\ Exact(disk, promise.duration, promise.until)

BudgetInv ==
    /\ BudgetTypes
    /\ Bounded(disk) /\ Bounded(temporary)
    /\ Covering
    /\ Delays
    /\ Promises

\* The variables as numbers and files.
LEMMA BudgetNumbers ==
    ASSUME BudgetInv
    PROVE  /\ disk \in File /\ temporary \in File /\ sent \in File /\ admitted \in File
           /\ clock \in Nat /\ real \in Nat /\ clock \in Times /\ real \in Times
           /\ clock <= real /\ real <= MaxTime /\ real - clock \in Nat
           /\ real - (real - clock) = clock
           /\ decision.duration \in Nat /\ decision.retry_after \in Nat
           /\ decision.stamp \in Nat /\ decision.since \in Times /\ decision.since \in Nat
           /\ decision.allowed \in BOOLEAN
BY Windows DEF BudgetInv, BudgetTypes, Times

\* The limits of a history, window by window.
LEMMA LimitsByWindow ==
    ASSUME NEW history
    PROVE  WithinLimits(history, 0) <=>
             /\ Limited(history.requests, Minute, max_requests_per_minute)
             /\ Limited(history.audio, Hour, max_audio_seconds_per_hour)
             /\ Limited(history.audio, Day, max_audio_seconds_per_day)
BY DEF WithinLimits, Limited

LEMMA EmptyFile == Empty \in File /\ Bounded(Empty)
PROOF
<1>1. Nothing \in Amounts /\ Total(Nothing) = 0
      BY TotalNothing
<1>2. Empty \in File /\ Empty.requests = Nothing /\ Empty.audio = Nothing
      BY <1>1 DEF Empty, File
<1> QED BY <1>1, <1>2, Windows DEF Bounded

\* No decision is a decision.
LEMMA NothingDecided ==
    /\ NoDecision.allowed = FALSE
    /\ NoDecision \in [allowed : BOOLEAN, duration : Nat, retry_after : Nat,
                       stamp : Nat, since : Times]
PROOF
<1>1. 0 \in Times
      BY Windows DEF Times
<1> QED BY <1>1 DEF NoDecision

\* An empty file covers an empty history.
LEMMA BudgetStarts == BudgetInit => BudgetInv
PROOF
<1> SUFFICES ASSUME BudgetInit PROVE BudgetInv
    OBVIOUS
<1>1. /\ Nothing \in Amounts /\ Total(Nothing) = 0
      /\ Empty.requests = Nothing /\ Empty.audio = Nothing
      /\ \A t \in Times : Nothing[t] = 0
      BY TotalNothing DEF Empty, Nothing
<1>2. \A s \in Int : Total(After(Nothing, s)) = 0
  <2>1. ASSUME NEW s \in Int PROVE Total(After(Nothing, s)) = 0
    <3>1. \A t \in Times : t > s => Nothing[t] = 0
          BY <1>1
    <3> QED BY <1>1, <3>1, NothingAfter
  <2> QED BY <2>1
<1>3. BudgetTypes
  <2>1. 0 \in Times
        BY Windows DEF Times
  <2>2. NoPromise \in [until : Nat, duration : Nat]
        BY DEF NoPromise
  <2> QED BY <2>1, <2>2, EmptyFile, NothingDecided DEF BudgetInit, BudgetTypes
<1>4. Past(Empty, 0)
      BY <1>1 DEF Past
<1>5. WithinLimits(Empty, 0)
  <2>1. \A window \in Nat, limit \in Nat : Limited(Nothing, window, limit)
    <3>1. ASSUME NEW window \in Nat, NEW limit \in Nat, NEW end \in Times
          PROVE  Total(InWindow(Nothing, window, 0, end)) <= limit
      <4>1. InWindow(Nothing, window, 0, end) = Nothing
            BY <1>1 DEF InWindow, Nothing
      <4> QED BY <1>1, <4>1
    <3> QED BY <3>1 DEF Limited
  <2> QED BY <1>1, <2>1, LimitsByWindow, Windows
<1>6. Covers(Empty, Empty, 0, 0)
  <2>1. \A s \in Int : s - 0 \in Int
        OBVIOUS
  <2>2. Covered(Nothing, Nothing, Minute, 0, 0) /\ Covered(Nothing, Nothing, Day, 0, 0)
        BY <1>2, <2>1 DEF Covered
  <2> QED BY <1>1, <2>2 DEF Covers
<1>7. Covering
  <2>1. /\ admitted = Empty /\ disk = Empty /\ real = 0 /\ real - clock = 0
        /\ phase = "idle" /\ decision.allowed = FALSE
        BY NothingDecided DEF BudgetInit
  <2> QED BY <1>4, <1>5, <1>6, <2>1, EmptyFile DEF Covering, Sound
<1>8. Delays
  <2>1. ASSUME NEW low \in Int, NEW high \in Int
        PROVE  Total(Between(Nothing, low, high)) = 0
    <3>1. Between(Nothing, low, high) = Nothing
          BY <1>1 DEF Between, Nothing
    <3> QED BY <1>1, <3>1
  <2>2. \A low \in Int : low - MaxDelay \in Int
        BY BudgetAssumption
  <2>3. Delayed(Nothing, Nothing)
        BY <2>1, <2>2 DEF Delayed
  <2> QED BY <1>1, <2>3 DEF Delays, BudgetInit
<1>9. Promises
      BY DEF Promises, BudgetInit
<1> QED BY <1>3, <1>7, <1>8, <1>9, EmptyFile DEF BudgetInv, BudgetInit

\* What is denied would have been denied before: earlier windows hold more.
LEMMA DeniedBefore ==
    ASSUME NEW file \in File, NEW duration \in Nat, NEW now \in Nat, NEW earlier \in Nat,
           earlier <= now, Allowed(file, duration, earlier)
    PROVE  Allowed(file, duration, now)
PROOF
<1>1. file.requests \in Amounts /\ file.audio \in Amounts
      BY FileTypes
<1>2. ASSUME NEW A \in Amounts, NEW window \in Nat
      PROVE  /\ Total(Within(A, window, earlier)) \in Nat
             /\ Total(Within(A, window, now)) \in Nat
             /\ Total(Within(A, window, now)) <= Total(Within(A, window, earlier))
  <2>1. /\ earlier - window \in Int /\ now - window \in Int
        /\ earlier - window <= now - window
        OBVIOUS
  <2>2. /\ Within(A, window, earlier) = After(A, earlier - window)
        /\ Within(A, window, now) = After(A, now - window)
        BY WindowIsAfter
  <2> QED BY <2>1, <2>2, LaterIsLess
<1>3. /\ Total(Requests(file, earlier)) \in Nat /\ Total(Requests(file, now)) \in Nat
      /\ Total(Requests(file, now)) <= Total(Requests(file, earlier))
      BY <1>1, <1>2, Windows DEF Requests
<1>4. /\ Total(HourAudio(file, earlier)) \in Nat /\ Total(HourAudio(file, now)) \in Nat
      /\ Total(HourAudio(file, now)) <= Total(HourAudio(file, earlier))
      BY <1>1, <1>2, Windows DEF HourAudio
<1>5. /\ Total(DayAudio(file, earlier)) \in Nat /\ Total(DayAudio(file, now)) \in Nat
      /\ Total(DayAudio(file, now)) <= Total(DayAudio(file, earlier))
      BY <1>1, <1>2, Windows DEF DayAudio
<1> QED BY <1>3, <1>4, <1>5, Windows DEF Allowed, Full, OverHour, OverDay, Over

\* What consume writes into the temporary file and decides.
LEMMA ConsumeKeeps == BudgetInv /\ Consume => BudgetInv'
PROOF
<1> SUFFICES ASSUME BudgetInv, Consume PROVE BudgetInv'
    OBVIOUS
<1>1. PICK duration \in Durations :
          /\ temporary' = IF Allowed(disk, duration, clock)
                          THEN Plus(Pruned(disk, clock), duration, clock)
                          ELSE Pruned(disk, clock)
          /\ decision' = [allowed |-> Allowed(disk, duration, clock), duration |-> duration,
                          retry_after |-> IF Allowed(disk, duration, clock) THEN 0
                                          ELSE RetryAfter(disk, duration, clock),
                          stamp |-> clock, since |-> real]
      BY DEF Consume
<1>2. /\ phase = "idle" /\ phase' = "saving" /\ promise' = NoPromise
      /\ disk' = disk /\ clock' = clock /\ real' = real
      /\ sent' = sent /\ admitted' = admitted
      BY DEF Consume
<1> DEFINE pruned == Pruned(disk, clock)
           charged == Plus(pruned, duration, clock)
           next == Plus(admitted, duration, real)
           lag == real - clock
<1>3. /\ duration \in Nat
      /\ duration <= max_audio_seconds_per_hour /\ duration <= max_audio_seconds_per_day
      BY BudgetAssumption
<1>4. /\ disk \in File /\ admitted \in File /\ clock \in Nat /\ real \in Nat
      /\ clock \in Times /\ real \in Times /\ lag \in Nat /\ real - lag = clock
      BY BudgetNumbers
<1>5. /\ disk.requests \in Amounts /\ disk.audio \in Amounts
      /\ admitted.requests \in Amounts /\ admitted.audio \in Amounts
      BY <1>4, FileTypes
<1>6. /\ BudgetTypes /\ Bounded(disk) /\ Delays /\ Sound(admitted)
      /\ Covers(disk, admitted, real, lag)
      BY DEF BudgetInv, Covering
<1>7. /\ pruned \in File
      /\ pruned.requests = After(disk.requests, clock - Minute)
      /\ pruned.audio = After(disk.audio, clock - Day)
      /\ pruned.requests \in Amounts /\ pruned.audio \in Amounts
      BY <1>4, PrunedFile, FileTypes
<1> HIDE DEF pruned
<1>8. /\ charged.requests \in Amounts /\ charged.audio \in Amounts /\ charged \in File
      /\ Charged(pruned.requests, charged.requests, clock, 1)
      /\ Charged(pruned.audio, charged.audio, clock, duration)
      BY <1>3, <1>4, <1>7, PlusCharges
<1>9. /\ next.requests \in Amounts /\ next.audio \in Amounts /\ next \in File
      /\ Charged(admitted.requests, next.requests, real, 1)
      /\ Charged(admitted.audio, next.audio, real, duration)
      BY <1>3, <1>4, PlusCharges
<1> HIDE DEF charged, next, lag
<1>10. /\ Total(pruned.requests) \in Nat /\ Total(pruned.audio) \in Nat
       /\ Bounded(pruned)
  <2>1. /\ clock - Minute \in Int /\ clock - Day \in Int
        /\ clock - Minute <= clock - Minute /\ clock - Day <= clock - Day
        BY <1>4, Windows
  <2>2. /\ Total(pruned.requests) \in Nat /\ Total(disk.requests) \in Nat
        /\ Total(pruned.requests) <= Total(disk.requests)
        BY <1>5, <1>7, <2>1, LaterIsLess
  <2>3. /\ Total(pruned.audio) \in Nat /\ Total(disk.audio) \in Nat
        /\ Total(pruned.audio) <= Total(disk.audio)
        BY <1>5, <1>7, <2>1, LaterIsLess
  <2> QED BY <1>6, <2>2, <2>3, Windows DEF Bounded
<1>11. Covers(pruned, admitted, real, lag)
  <2>1. Covered(pruned.requests, admitted.requests, Minute, real, lag)
    <3>1. Minute \in Nat /\ Minute <= Minute /\ real - lag - Minute = clock - Minute
          BY <1>4, Windows
    <3>2. Covered(disk.requests, admitted.requests, Minute, real, lag)
          BY <1>6 DEF Covers
    <3>3. Covered(After(disk.requests, real - lag - Minute), admitted.requests, Minute, real, lag)
      <4>1. real \in Nat /\ lag \in Nat
            BY <1>4
      <4> QED BY <1>5, <3>1, <3>2, <4>1, PruningCovers
    <3> QED BY <1>7, <3>1, <3>3
  <2>2. Covered(pruned.audio, admitted.audio, Day, real, lag)
    <3>1. Day \in Nat /\ Day <= Day /\ real - lag - Day = clock - Day
          BY <1>4, Windows
    <3>2. Covered(disk.audio, admitted.audio, Day, real, lag)
          BY <1>6 DEF Covers
    <3>3. Covered(After(disk.audio, real - lag - Day), admitted.audio, Day, real, lag)
      <4>1. real \in Nat /\ lag \in Nat
            BY <1>4
      <4> QED BY <1>5, <3>1, <3>2, <4>1, PruningCovers
    <3> QED BY <1>7, <3>1, <3>3
  <2> QED BY <2>1, <2>2 DEF Covers
<1>12. CASE Allowed(disk, duration, clock)
  <2>1. /\ temporary' = charged
        /\ decision' = [allowed |-> TRUE, duration |-> duration, retry_after |-> 0,
                        stamp |-> clock, since |-> real]
        BY <1>1, <1>12 DEF charged, pruned
  <2>2. Intended' = next
        BY <1>2, <2>1 DEF Intended, next
  <2>3. Covers(charged, next, real, lag) /\ Covers(charged, admitted, real, lag)
    <3>1. /\ Covered(charged.requests, next.requests, Minute, real, lag)
          /\ Covered(charged.requests, admitted.requests, Minute, real, lag)
      <4>1. Covered(pruned.requests, admitted.requests, Minute, real, lag)
            BY <1>11 DEF Covers
      <4>2. Charged(pruned.requests, charged.requests, real - lag, 1) /\ real - lag \in Times
            BY <1>4, <1>8
      <4>3. /\ pruned.requests \in Amounts /\ charged.requests \in Amounts
            /\ admitted.requests \in Amounts /\ next.requests \in Amounts
            /\ Minute \in Nat /\ real \in Times /\ real \in Nat /\ lag \in Nat /\ 1 \in Nat
            /\ Charged(admitted.requests, next.requests, real, 1)
            BY <1>4, <1>5, <1>7, <1>8, <1>9, Windows
      <4> QED BY <4>1, <4>2, <4>3, ChargeCovers
    <3>2. /\ Covered(charged.audio, next.audio, Day, real, lag)
          /\ Covered(charged.audio, admitted.audio, Day, real, lag)
      <4>1. Covered(pruned.audio, admitted.audio, Day, real, lag)
            BY <1>11 DEF Covers
      <4>2. Charged(pruned.audio, charged.audio, real - lag, duration) /\ real - lag \in Times
            BY <1>4, <1>8
      <4>3. /\ pruned.audio \in Amounts /\ charged.audio \in Amounts
            /\ admitted.audio \in Amounts /\ next.audio \in Amounts
            /\ Day \in Nat /\ real \in Times /\ real \in Nat /\ lag \in Nat /\ duration \in Nat
            /\ Charged(admitted.audio, next.audio, real, duration)
            BY <1>3, <1>4, <1>5, <1>7, <1>8, <1>9, Windows
      <4> QED BY <4>1, <4>2, <4>3, ChargeCovers
    <3> QED BY <3>1, <3>2 DEF Covers
  <2>4. /\ Total(After(disk.requests, clock - Minute)) + 1 <= max_requests_per_minute
        /\ Total(After(disk.audio, clock - Hour)) + duration <= max_audio_seconds_per_hour
        /\ Total(After(disk.audio, clock - Day)) + duration <= max_audio_seconds_per_day
    <3>1. /\ Within(disk.requests, Minute, clock) = After(disk.requests, clock - Minute)
          /\ Within(disk.audio, Hour, clock) = After(disk.audio, clock - Hour)
          /\ Within(disk.audio, Day, clock) = After(disk.audio, clock - Day)
      <4>1. clock \in Nat /\ Minute \in Nat /\ Hour \in Nat /\ Day \in Nat
            BY <1>4, Windows
      <4> QED BY <4>1, WindowIsAfter
    <3>2. clock - Minute \in Int /\ clock - Hour \in Int /\ clock - Day \in Int
          BY <1>4, Windows
    <3>3. /\ Total(After(disk.requests, clock - Minute)) \in Nat
          /\ Total(After(disk.audio, clock - Hour)) \in Nat
          /\ Total(After(disk.audio, clock - Day)) \in Nat
          BY <1>5, <3>2, TotalAfter
    <3>4. /\ ~ (Total(Within(disk.requests, Minute, clock)) >= max_requests_per_minute)
          /\ ~ (Total(Within(disk.audio, Hour, clock)) + duration > max_audio_seconds_per_hour)
          /\ ~ (Total(Within(disk.audio, Day, clock)) + duration > max_audio_seconds_per_day)
          BY <1>12 DEF Allowed, Full, OverHour, OverDay, Over, Requests, HourAudio, DayAudio
    <3> QED BY <1>3, <3>1, <3>3, <3>4, Windows
  <2>5. Bounded(charged)
    <3>1. Total(charged.requests) = Total(pruned.requests) + 1
      <4>1. /\ pruned.requests \in Amounts /\ charged.requests \in Amounts
            /\ clock \in Times /\ 1 \in Nat
            /\ Charged(pruned.requests, charged.requests, clock, 1)
            BY <1>4, <1>7, <1>8
      <4> QED BY <4>1, TotalPlus DEF Charged
    <3>2. Total(charged.audio) = Total(pruned.audio) + duration
      <4>1. /\ pruned.audio \in Amounts /\ charged.audio \in Amounts
            /\ clock \in Times /\ duration \in Nat
            /\ Charged(pruned.audio, charged.audio, clock, duration)
            BY <1>3, <1>4, <1>7, <1>8
      <4> QED BY <4>1, TotalPlus DEF Charged
    <3> QED BY <1>3, <1>7, <1>10, <2>4, <3>1, <3>2, Windows DEF Bounded
  <2>6. /\ Total(After(admitted.requests, real - Minute)) + 1 <= max_requests_per_minute
        /\ Total(After(admitted.audio, real - Hour)) + duration <= max_audio_seconds_per_hour
        /\ Total(After(admitted.audio, real - Day)) + duration <= max_audio_seconds_per_day
    <3>1. /\ real - Minute \in Int /\ real - Hour \in Int /\ real - Day \in Int
          /\ real - Minute < real /\ real - Hour < real /\ real - Day < real
          /\ real - Day <= real - Hour
          /\ (real - Minute) - lag = clock - Minute
          /\ (real - Hour) - lag = clock - Hour
          /\ (real - Day) - lag = clock - Day
          BY <1>4, Windows
    <3>2. Total(After(admitted.requests, real - Minute)) <= Total(After(disk.requests, clock - Minute))
      <4>1. Total(After(admitted.requests, real - Minute))
                <= Total(After(disk.requests, (real - Minute) - lag))
            BY <1>6, <3>1 DEF Covers, Covered
      <4> QED BY <3>1, <4>1
    <3>3. Total(After(admitted.audio, real - Hour)) <= Total(After(disk.audio, clock - Hour))
      <4>1. Total(After(admitted.audio, real - Hour))
                <= Total(After(disk.audio, (real - Hour) - lag))
            BY <1>6, <3>1 DEF Covers, Covered
      <4> QED BY <3>1, <4>1
    <3>4. Total(After(admitted.audio, real - Day)) <= Total(After(disk.audio, clock - Day))
      <4>1. Total(After(admitted.audio, real - Day))
                <= Total(After(disk.audio, (real - Day) - lag))
            BY <1>6, <3>1 DEF Covers, Covered
      <4> QED BY <3>1, <4>1
    <3>5. clock - Minute \in Int /\ clock - Hour \in Int /\ clock - Day \in Int
          BY <1>4, Windows
    <3>6. /\ Total(After(admitted.requests, real - Minute)) \in Nat
          /\ Total(After(admitted.audio, real - Hour)) \in Nat
          /\ Total(After(admitted.audio, real - Day)) \in Nat
          /\ Total(After(disk.requests, clock - Minute)) \in Nat
          /\ Total(After(disk.audio, clock - Hour)) \in Nat
          /\ Total(After(disk.audio, clock - Day)) \in Nat
          BY <1>5, <3>1, <3>5, TotalAfter
    <3> QED BY <1>3, <2>4, <3>2, <3>3, <3>4, <3>6, Windows
  <2>7. Past(next, real)
    <3>1. \A t \in Times : t > real => t \in Times \ {real}
          BY <1>4
    <3> QED BY <1>6, <1>9, <3>1 DEF Past, Sound, Charged
  <2>8. WithinLimits(next, 0)
    <3>1. Limited(next.requests, Minute, max_requests_per_minute)
      <4>1. Limited(admitted.requests, Minute, max_requests_per_minute)
            BY <1>6, LimitsByWindow DEF Sound
      <4> QED BY <1>4, <1>5, <1>9, <2>6, <4>1, AddingStaysLimited, Windows
    <3>2. Limited(next.audio, Hour, max_audio_seconds_per_hour)
      <4>1. Limited(admitted.audio, Hour, max_audio_seconds_per_hour)
            BY <1>6, LimitsByWindow DEF Sound
      <4> QED BY <1>3, <1>4, <1>5, <1>9, <2>6, <4>1, AddingStaysLimited, Windows
    <3>3. Limited(next.audio, Day, max_audio_seconds_per_day)
      <4>1. Limited(admitted.audio, Day, max_audio_seconds_per_day)
            BY <1>6, LimitsByWindow DEF Sound
      <4> QED BY <1>3, <1>4, <1>5, <1>9, <2>6, <4>1, AddingStaysLimited, Windows
    <3> QED BY <3>1, <3>2, <3>3, LimitsByWindow
  <2>9. Covering'
    <3>1. Sound(next)'
          BY <1>2, <1>9, <2>2, <2>7, <2>8 DEF Sound, Intended, Past, WithinLimits, InWindow, next
    <3> QED BY <1>2, <1>6, <2>1, <2>2, <2>3, <2>7, <2>8, <1>9 DEF Covering, Sound, lag
  <2>10. Promises'
        BY <1>2, <2>1 DEF Promises
  <2>11. BudgetTypes'
    <3>1. decision' \in [allowed : BOOLEAN, duration : Nat, retry_after : Nat,
                         stamp : Nat, since : Times]
          BY <1>3, <1>4, <2>1
    <3>2. NoPromise \in [until : Nat, duration : Nat]
          BY DEF NoPromise
    <3>3. real <= real + MaxDelay
          BY <1>4, BudgetAssumption
    <3> QED BY <1>2, <1>4, <1>6, <1>8, <2>1, <3>1, <3>2, <3>3 DEF BudgetTypes
  <2> QED BY <1>2, <1>6, <2>1, <2>5, <2>9, <2>10, <2>11 DEF BudgetInv, Bounded, Delays
<1>13. CASE ~Allowed(disk, duration, clock)
  <2> DEFINE wait == RetryAfter(disk, duration, clock)
  <2>1. /\ temporary' = pruned
        /\ decision' = [allowed |-> FALSE, duration |-> duration, retry_after |-> wait,
                        stamp |-> clock, since |-> real]
    <3>1. Allowed(disk, duration, clock) = FALSE
          BY <1>13 DEF Allowed
    <3> QED BY <1>1, <3>1 DEF pruned
  <2>2. /\ wait \in Nat /\ wait >= 1
        /\ \A later \in Nat : later >= clock =>
             (Allowed(disk, duration, later) <=> later >= clock + wait)
        BY <1>3, <1>4, <1>6, <1>13, ExactWait DEF Bounded
  <2> HIDE DEF wait
  <2>3. Exact(pruned, duration, clock + wait)
    <3>1. ASSUME NEW now \in Nat, now >= clock
          PROVE  Allowed(pruned, duration, now) <=> now >= clock + wait
      <4>1. Allowed(pruned, duration, now) <=> Allowed(disk, duration, now)
            BY <1>3, <1>4, <3>1, PrunedLimits DEF Allowed, pruned
      <4> QED BY <2>2, <3>1, <4>1
    <3>2. ASSUME NEW now \in Nat, ~(now >= clock)
          PROVE  ~Allowed(pruned, duration, now)
      <4>1. ~Allowed(pruned, duration, clock)
            BY <1>4, <2>2, <3>1
      <4>2. now <= clock
            BY <1>4, <3>2
      <4> QED BY <1>3, <1>4, <1>7, <4>1, <4>2, DeniedBefore
    <3>3. ASSUME NEW now \in Nat
          PROVE  Allowed(pruned, duration, now) <=> now >= clock + wait
      <4>1. ~(now >= clock) => ~(now >= clock + wait)
            BY <1>4, <2>2
      <4> QED BY <3>1, <3>2, <4>1
    <3> QED BY <3>3 DEF Exact
  <2>4. Covering'
        BY <1>2, <1>6, <1>11, <2>1 DEF Covering, Sound, lag
  <2>5. Promises'
        BY <1>2, <2>1, <2>3 DEF Promises
  <2>6. BudgetTypes'
    <3>1. decision' \in [allowed : BOOLEAN, duration : Nat, retry_after : Nat,
                         stamp : Nat, since : Times]
          BY <1>3, <1>4, <2>1, <2>2
    <3>2. NoPromise \in [until : Nat, duration : Nat]
          BY DEF NoPromise
    <3>3. real <= real + MaxDelay
          BY <1>4, BudgetAssumption
    <3> QED BY <1>2, <1>4, <1>6, <1>7, <2>1, <2>2, <3>1, <3>2, <3>3 DEF BudgetTypes
  <2> QED BY <1>2, <1>6, <1>10, <2>1, <2>4, <2>5, <2>6 DEF BudgetInv, Bounded, Delays
<1> QED BY <1>12, <1>13

\* os.replace puts the temporary file in its place.
LEMMA ReplaceKeeps == BudgetInv /\ Replace => BudgetInv'
PROOF
<1> SUFFICES ASSUME BudgetInv, Replace PROVE BudgetInv'
    OBVIOUS
<1>1. /\ phase = "saving" /\ disk' = temporary
      /\ clock' = clock /\ real' = real /\ sent' = sent /\ admitted' = admitted
      BY DEF Replace
<1>2. /\ BudgetTypes /\ Bounded(disk) /\ Bounded(temporary)
      /\ Covering /\ Delays /\ Promises
      BY DEF BudgetInv
<1>3. promise = NoPromise
      BY <1>1, <1>2 DEF Promises
<1>4. CASE /\ decision.allowed /\ phase' = "charged" /\ temporary' = Empty
           /\ decision' = decision /\ promise' = promise
  <2>1. BudgetTypes'
        BY <1>1, <1>2, <1>4, EmptyFile DEF BudgetTypes
  <2>2. Covering'
    <3>1. Intended' = Intended
          BY <1>1, <1>4 DEF Intended
    <3>2. \A history : Sound(history)' <=> Sound(history)
          BY <1>1 DEF Sound
    <3> QED BY <1>1, <1>2, <1>4, <3>1 DEF Covering, Sound
  <2>3. Promises'
        BY <1>3, <1>4 DEF Promises, NoPromise
  <2> QED BY <1>1, <1>2, <1>4, <2>1, <2>2, <2>3, EmptyFile DEF BudgetInv, Bounded, Delays
<1>5. CASE /\ ~decision.allowed
           /\ promise' = [until |-> decision.stamp + decision.retry_after,
                          duration |-> decision.duration]
           /\ Done
  <2>1. /\ phase' = "idle" /\ temporary' = Empty
        /\ decision' = NoDecision /\ decision'.allowed = FALSE
        BY <1>5, NothingDecided DEF Done
  <2>2. BudgetTypes'
    <3>1. promise' \in [until : Nat, duration : Nat]
          BY <1>2, <1>5, BudgetNumbers
    <3> QED BY <1>1, <1>2, <2>1, <3>1, NothingDecided, EmptyFile DEF BudgetTypes
  <2>3. Covering'
        BY <1>1, <1>2, <2>1 DEF Covering, Sound
  <2>4. Exact(temporary, decision.duration, decision.stamp + decision.retry_after)
        BY <1>1, <1>2, <1>5 DEF Promises
  <2>5. Promises'
        BY <1>1, <1>5, <2>1, <2>4 DEF Promises
  <2> QED BY <1>1, <1>2, <2>1, <2>2, <2>3, <2>5, EmptyFile DEF BudgetInv, Bounded, Delays
<1> QED BY <1>4, <1>5 DEF Replace

\* The write fails, the process is killed or the request is not heard: the
\* charge may stay, unused.
LEMMA GivingUpKeeps == BudgetInv /\ (SaveFails \/ Crash) => BudgetInv'
PROOF
<1> SUFFICES ASSUME BudgetInv, SaveFails \/ Crash PROVE BudgetInv'
    OBVIOUS
<1>1. /\ phase # "idle" /\ disk' = disk /\ promise' = promise
      /\ clock' = clock /\ real' = real /\ sent' = sent /\ admitted' = admitted
      BY DEF SaveFails, Crash
<1>2. /\ phase' = "idle" /\ temporary' = Empty
      /\ decision' = NoDecision /\ decision'.allowed = FALSE
      BY NothingDecided DEF SaveFails, Crash, Done
<1>3. BudgetTypes /\ Bounded(disk) /\ Covering /\ Delays /\ Promises
      BY DEF BudgetInv
<1>4. promise = NoPromise
      BY <1>1, <1>3 DEF Promises
<1>5. BudgetTypes'
      BY <1>1, <1>2, <1>3, NothingDecided, EmptyFile DEF BudgetTypes
<1>6. Covering'
      BY <1>1, <1>2, <1>3 DEF Covering, Sound
<1>7. Promises'
      BY <1>1, <1>2, <1>4 DEF Promises, NoPromise
<1> QED BY <1>1, <1>2, <1>3, <1>5, <1>6, <1>7, EmptyFile DEF BudgetInv, Bounded, Delays

\* The provider hears what was charged.
LEMMA ContactKeeps == BudgetInv /\ Contact => BudgetInv'
PROOF
<1> SUFFICES ASSUME BudgetInv, Contact PROVE BudgetInv'
    OBVIOUS
<1> DEFINE d == decision.duration
           u == decision.since
           heard == Plus(sent, d, real)
<1>1. /\ phase = "charged" /\ disk' = disk /\ promise' = promise
      /\ clock' = clock /\ real' = real /\ sent' = heard /\ admitted' = Intended
      BY DEF Contact, Send, Intended
<1>2. /\ phase' = "idle" /\ temporary' = Empty
      /\ decision' = NoDecision /\ decision'.allowed = FALSE
      BY NothingDecided DEF Contact, Send, Done
<1>3. BudgetTypes /\ Bounded(disk) /\ Covering /\ Delays /\ Promises
      BY DEF BudgetInv
<1>4. promise = NoPromise
      BY <1>1, <1>3 DEF Promises
<1>5. /\ sent \in File /\ admitted \in File /\ d \in Nat
      /\ real \in Nat /\ real \in Times /\ u \in Times
      BY BudgetNumbers
<1>6. u <= real /\ real <= u + MaxDelay
      BY <1>1, <1>3 DEF BudgetTypes
<1>7. /\ Sound(Intended) /\ Covers(disk, Intended, real, real - clock)
      BY <1>1, <1>3 DEF Covering
<1>8. Intended = Plus(admitted, d, u)
      BY DEF Intended
<1> HIDE DEF d, u
<1>9. /\ heard \in File /\ heard.requests \in Amounts /\ heard.audio \in Amounts
      /\ Charged(sent.requests, heard.requests, real, 1)
      /\ Charged(sent.audio, heard.audio, real, d)
      BY <1>5, PlusCharges
<1>10. /\ Intended \in File /\ Intended.requests \in Amounts /\ Intended.audio \in Amounts
       /\ Charged(admitted.requests, Intended.requests, u, 1)
       /\ Charged(admitted.audio, Intended.audio, u, d)
      BY <1>5, <1>8, PlusCharges
<1> HIDE DEF heard
<1>11. /\ sent.requests \in Amounts /\ sent.audio \in Amounts
       /\ admitted.requests \in Amounts /\ admitted.audio \in Amounts
      BY <1>5, FileTypes
<1>12. Delayed(heard.requests, Intended.requests) /\ Delayed(heard.audio, Intended.audio)
  <2>1. Delayed(sent.requests, admitted.requests) /\ Delayed(sent.audio, admitted.audio)
        BY <1>3 DEF Delays
  <2>2. Delayed(heard.requests, Intended.requests)
        BY <1>5, <1>6, <1>9, <1>10, <1>11, <2>1, HearingDelays
  <2>3. Delayed(heard.audio, Intended.audio)
        BY <1>5, <1>6, <1>9, <1>10, <1>11, <2>1, HearingDelays
  <2> QED BY <2>2, <2>3
<1>13. BudgetTypes'
      BY <1>1, <1>2, <1>3, <1>9, <1>10, NothingDecided, EmptyFile DEF BudgetTypes
<1>14. Covering'
      BY <1>1, <1>2, <1>7 DEF Covering, Sound
<1>15. Delays'
      BY <1>1, <1>12 DEF Delays
<1>16. Promises'
      BY <1>1, <1>2, <1>4 DEF Promises, NoPromise
<1> QED BY <1>1, <1>2, <1>3, <1>13, <1>14, <1>15, <1>16, EmptyFile DEF BudgetInv, Bounded

\* What is covered stays covered when time goes on and when the clock is set back.
LEMMA CoversInTime ==
    ASSUME NEW file \in File, NEW history \in File, NEW moment \in Nat, NEW lag \in Nat,
           Past(history, moment), Covers(file, history, moment, lag)
    PROVE  /\ Past(history, moment + 1)
           /\ Covers(file, history, moment + 1, lag)
           /\ Covers(file, history, moment, lag + 1)
PROOF
<1>1. /\ file.requests \in Amounts /\ file.audio \in Amounts
      /\ history.requests \in Amounts /\ history.audio \in Amounts
      BY FileTypes
<1>2. /\ Covered(file.requests, history.requests, Minute, moment, lag)
      /\ Covered(file.audio, history.audio, Day, moment, lag)
      BY DEF Covers
<1>3. /\ \A t \in Times : t > moment => history.requests[t] = 0
      /\ \A t \in Times : t > moment => history.audio[t] = 0
      BY DEF Past
<1>4. /\ Covered(file.requests, history.requests, Minute, moment + 1, lag)
      /\ Covered(file.audio, history.audio, Day, moment + 1, lag)
      BY <1>1, <1>2, <1>3, TickingCovers, Windows
<1>5. /\ Covered(file.requests, history.requests, Minute, moment, lag + 1)
      /\ Covered(file.audio, history.audio, Day, moment, lag + 1)
      BY <1>1, <1>2, SettingBackCovers, Windows
<1>6. Past(history, moment + 1)
  <2>1. \A t \in Times : t > moment + 1 => t > moment
        BY Windows DEF Times
  <2> QED BY <1>3, <2>1 DEF Past
<1> QED BY <1>4, <1>5, <1>6 DEF Covers

\* Time goes on, or the wall clock is set back, between two steps.
LEMMA TimeKeeps == BudgetInv /\ (Tick \/ SetBack) => BudgetInv'
PROOF
<1> SUFFICES ASSUME BudgetInv, Tick \/ SetBack PROVE BudgetInv'
    OBVIOUS
<1> DEFINE lag == real - clock
<1>1. /\ disk' = disk /\ temporary' = temporary /\ phase' = phase /\ decision' = decision
      /\ sent' = sent /\ admitted' = admitted /\ promise' = promise
      BY DEF Tick, SetBack
<1>2. /\ BudgetTypes /\ Bounded(disk) /\ Bounded(temporary)
      /\ Covering /\ Delays /\ Promises
      BY DEF BudgetInv
<1>3. /\ disk \in File /\ temporary \in File /\ admitted \in File /\ lag \in Nat
      /\ real \in Nat /\ clock \in Nat /\ clock <= real /\ real <= MaxTime
      BY BudgetNumbers
<1>4. \/ /\ real < MaxTime /\ real' = real + 1 /\ clock' = clock + 1
         /\ phase = "idle" \/ real < decision.since + MaxDelay
      \/ clock > 0 /\ real' = real /\ clock' = clock - 1
      BY DEF Tick, SetBack
<1>5. \/ real' = real + 1 /\ real' - clock' = lag
      \/ real' = real /\ real' - clock' = lag + 1
      BY <1>3, <1>4
<1>6. BudgetTypes'
  <2>1. real' \in Times /\ clock' \in Times /\ clock' <= real'
        BY <1>3, <1>4, Windows DEF Times
  <2>2. phase # "idle" => decision.since <= real' /\ real' <= decision.since + MaxDelay
    <3>1. decision.since \in Nat /\ MaxDelay \in Nat
          BY BudgetNumbers, BudgetAssumption
    <3>2. phase # "idle" => decision.since <= real /\ real <= decision.since + MaxDelay
          BY <1>2 DEF BudgetTypes
    <3> QED BY <1>3, <1>4, <3>1, <3>2
  <2> QED BY <1>1, <1>2, <2>1, <2>2 DEF BudgetTypes
<1> HIDE DEF lag
<1>7. ASSUME NEW file \in File, NEW history \in File, Past(history, real),
             Covers(file, history, real, lag)
      PROVE  Covers(file, history, real', real' - clock')
  <2>1. Covers(file, history, real + 1, lag) /\ Covers(file, history, real, lag + 1)
        BY <1>3, <1>7, CoversInTime
  <2> QED BY <1>5, <2>1
<1>8. Sound(admitted) /\ Covers(disk, admitted, real, lag)
      BY <1>2 DEF Covering, lag
<1>9. ASSUME NEW history, Sound(history)
      PROVE  history \in File /\ Past(history, real) /\ Past(history, real')
             /\ WithinLimits(history, 0)
  <2>1. history \in File /\ Past(history, real) /\ WithinLimits(history, 0)
        BY <1>9 DEF Sound
  <2>2. \A t \in Times : t > real + 1 => t > real
        BY <1>3, Windows DEF Times
  <2>3. Past(history, real + 1)
        BY <2>1, <2>2 DEF Past
  <2> QED BY <1>5, <2>1, <2>3
<1>10. Intended' = Intended
      BY <1>1 DEF Intended
<1>11. Covering'
  <2>1. Sound(admitted)'
        BY <1>1, <1>8, <1>9 DEF Sound
  <2>2. Covers(disk, admitted, real', real' - clock')
        BY <1>3, <1>7, <1>8, <1>9
  <2>3. phase = "saving" => Covers(temporary, admitted, real', real' - clock')
        BY <1>2, <1>3, <1>7, <1>8, <1>9 DEF Covering, lag
  <2>4. phase = "saving" /\ decision.allowed =>
            Covers(temporary, Intended, real', real' - clock')
        BY <1>2, <1>3, <1>7, <1>9 DEF Covering, lag
  <2>5. phase = "charged" => Covers(disk, Intended, real', real' - clock')
        BY <1>2, <1>3, <1>7, <1>9 DEF Covering, lag
  <2>6. decision.allowed => phase # "idle" /\ Sound(Intended)'
        BY <1>2, <1>9, <1>10 DEF Covering, Sound
  <2>7. phase = "charged" => decision.allowed
        BY <1>2 DEF Covering
  <2> QED BY <1>1, <1>10, <2>1, <2>2, <2>3, <2>4, <2>5, <2>6, <2>7 DEF Covering
<1>12. Promises'
      BY <1>1, <1>2 DEF Promises, NoPromise
<1> QED BY <1>1, <1>2, <1>6, <1>11, <1>12 DEF BudgetInv, Bounded, Delays

-----------------------------------------------------------------------------
(* Theorems about the budget                                               *)

\* The invariant holds in every reachable state.
THEOREM BudgetInvariance == BudgetSpec => []BudgetInv
PROOF
<1>1. BudgetInit => BudgetInv
      BY BudgetStarts
<1>2. BudgetInv /\ [BudgetNext]_budgetVars => BudgetInv'
  <2> SUFFICES ASSUME BudgetInv, [BudgetNext]_budgetVars PROVE BudgetInv'
      OBVIOUS
  <2>1. CASE BudgetNext
        BY <2>1, ConsumeKeeps, ReplaceKeeps, GivingUpKeeps, ContactKeeps, TimeKeeps
           DEF BudgetNext
  <2>2. CASE UNCHANGED budgetVars
        BY <2>2 DEF budgetVars, BudgetInv, BudgetTypes, Bounded, Covering, Sound, Intended,
                    Delays, Promises, NoPromise
  <2> QED BY <2>1, <2>2
<1> QED BY <1>1, <1>2, PTL DEF BudgetSpec

\* Every variable of the budget has its type, and the state file holds no more
\* than the requests of a minute and the audio of a day: consume prunes before
\* it charges, and charges only within the limits.
THEOREM FileStaysSmall == BudgetSpec => []FileIsBounded
PROOF
<1>1. BudgetInv => FileIsBounded
      BY DEF BudgetInv, Bounded, FileIsBounded
<1> QED BY <1>1, BudgetInvariance, PTL

\* Whatever is killed between two steps, whichever write fails, however the wall
\* clock is set back and however long the provider takes to hear it, consume
\* admits no more of what is heard in a minute, an hour or a day of real time
\* than the configuration allows.
THEOREM AdmissionsAreLimited == BudgetSpec => []AdmissionsHold
PROOF
<1>1. BudgetInv => AdmissionsHold
      BY DEF BudgetInv, Covering, Sound, AdmissionsHold
<1> QED BY <1>1, BudgetInvariance, PTL

\* The provider hears no more than the configuration allows in a minute, an hour
\* or a day, each less the delay between the reading of the clock and the contact.
THEOREM LimitsAreKept == BudgetSpec => []LimitsHold
PROOF
<1>1. BudgetInv => LimitsHold
  <2> SUFFICES ASSUME BudgetInv, NEW end \in Times
      PROVE  /\ Total(InWindow(sent.requests, Minute, MaxDelay, end)) <= max_requests_per_minute
             /\ Total(InWindow(sent.audio, Hour, MaxDelay, end)) <= max_audio_seconds_per_hour
             /\ Total(InWindow(sent.audio, Day, MaxDelay, end)) <= max_audio_seconds_per_day
      BY DEF LimitsHold, WithinLimits
  <2>1. /\ sent.requests \in Amounts /\ sent.audio \in Amounts
        /\ admitted.requests \in Amounts /\ admitted.audio \in Amounts
        BY BudgetNumbers, FileTypes
  <2>2. Delayed(sent.requests, admitted.requests) /\ Delayed(sent.audio, admitted.audio)
        BY DEF BudgetInv, Delays
  <2>3. /\ Limited(admitted.requests, Minute, max_requests_per_minute)
        /\ Limited(admitted.audio, Hour, max_audio_seconds_per_hour)
        /\ Limited(admitted.audio, Day, max_audio_seconds_per_day)
        BY LimitsByWindow DEF BudgetInv, Covering, Sound
  <2>4. Total(InWindow(sent.requests, Minute, MaxDelay, end)) <= max_requests_per_minute
        BY <2>1, <2>2, <2>3, DelayedWindows, Windows
  <2>5. Total(InWindow(sent.audio, Hour, MaxDelay, end)) <= max_audio_seconds_per_hour
        BY <2>1, <2>2, <2>3, DelayedWindows, Windows
  <2>6. Total(InWindow(sent.audio, Day, MaxDelay, end)) <= max_audio_seconds_per_day
        BY <2>1, <2>2, <2>3, DelayedWindows, Windows
  <2> QED BY <2>4, <2>5, <2>6
<1> QED BY <1>1, BudgetInvariance, PTL

\* retry_after is exact: while nothing else is submitted, the denied segment is
\* admitted from the moment the wall clock has reached the end of the wait and
\* not a second earlier.
THEOREM RetriesAreExact == BudgetSpec => []RetryIsExact
PROOF
<1>1. BudgetInv => RetryIsExact
  <2> SUFFICES ASSUME BudgetInv, promise # NoPromise
               PROVE  Allowed(disk, promise.duration, clock) <=> clock >= promise.until
      BY DEF RetryIsExact
  <2>1. Exact(disk, promise.duration, promise.until) /\ clock \in Nat
        BY BudgetNumbers DEF BudgetInv, Promises
  <2> QED BY <2>1 DEF Exact
<1> QED BY <1>1, BudgetInvariance, PTL

-----------------------------------------------------------------------------
(* Texts, character by character                                           *)

\* A set of texts with the empty one, and with what a character makes of each of
\* its texts, has every text.
LEMMA TextInduction ==
    ASSUME NEW T \in SUBSET Seq(Chars), <<>> \in T,
           \A text \in T, c \in Chars : Append(text, c) \in T
    PROVE  T = Seq(Chars)
PROOF
<1> DEFINE U == {n \in Nat : \A text \in Seq(Chars) : Len(text) = n => text \in T}
<1>1. 0 \in U
  <2>1. \A text \in Seq(Chars) : Len(text) = 0 => text = <<>>
        BY EmptySeq
  <2> QED BY <2>1
<1>2. ASSUME NEW n \in U PROVE n + 1 \in U
  <2>1. SUFFICES ASSUME NEW text \in Seq(Chars), Len(text) = n + 1 PROVE text \in T
        OBVIOUS
  <2>2. n \in Nat /\ text # <<>>
        BY <2>1
  <2>3. PICK s \in Seq(Chars), c \in Chars : text = Append(s, c)
        BY <2>2, SequenceEmptyOrAppend
  <2>4. Len(s) = n
        BY <2>1, <2>2, <2>3
  <2> QED BY <2>3, <2>4
<1>3. U = Nat
  <2>1. U \in SUBSET Nat
        OBVIOUS
  <2> HIDE DEF U
  <2> QED BY <1>1, <1>2, <2>1, Induction
<1>4. ASSUME NEW text \in Seq(Chars) PROVE text \in T
  <2>1. Len(text) \in U
        BY <1>3
  <2> QED BY <2>1
<1> QED BY <1>4

\* What each step of a recursion along a text makes of what it has and the next
\* character.
Edits == [Seq(Chars) \X Chars -> Seq(Chars)]

\* f[n] is what `edit' has made of the first n characters.
Along(text, edit, f) ==
    f[0] = <<>> /\ \A n \in 1 .. Len(text) : f[n] = edit[<<f[n - 1], text[n]>>]

\* There is such a function.
LEMMA AlongExists ==
    ASSUME NEW text \in Seq(Chars), NEW edit \in Edits
    PROVE  \E f \in [Nat -> Seq(Chars)] : Along(text, edit, f)
PROOF
<1> DEFINE V == Seq(Chars)
           next(n, s) == IF n \in 1 .. Len(text) THEN edit[<<s, text[n]>>] ELSE s
           step == [at \in Nat \X V |-> next(at[1], at[2])]
<1>1. \A n \in Nat : \A s \in V : next(n, s) \in V
  <2>1. \A n \in 1 .. Len(text) : text[n] \in Chars
        OBVIOUS
  <2>2. \A s \in V : \A c \in Chars : edit[<<s, c>>] \in V
        BY DEF Edits
  <2> HIDE DEF V
  <2> QED BY <2>1, <2>2
<1>2. step \in Steps(V)
  <2>1. \A at \in Nat \X V : at[1] \in Nat /\ at[2] \in V
        OBVIOUS
  <2>2. \A at \in Nat \X V : next(at[1], at[2]) \in V
    <3> HIDE DEF next, V
    <3> QED BY <1>1, <2>1
  <2> HIDE DEF next, V
  <2> QED BY <2>2 DEF Steps
<1>3. \A n \in Nat : \A s \in V : step[<<n, s>>] = next(n, s)
  <2> HIDE DEF next, V
  <2> QED OBVIOUS
<1>4. <<>> \in V
      OBVIOUS
<1>5. PICK f \in [Nat -> V] : Iterates(f, <<>>, step)
  <2> HIDE DEF step, V
  <2> QED BY <1>2, <1>4, Recursion
<1>6. ASSUME NEW n \in 1 .. Len(text) PROVE f[n] = edit[<<f[n - 1], text[n]>>]
  <2>1. n \in Nat \ {0} /\ n - 1 \in Nat
        OBVIOUS
  <2>2. f[n - 1] \in V
    <3> HIDE DEF V
    <3> QED BY <2>1
  <2>3. f[n] = next(n, f[n - 1])
    <3> HIDE DEF next, step, V
    <3> QED BY <1>3, <1>5, <2>1, <2>2 DEF Iterates
  <2> QED BY <2>3
<1>7. f[0] = <<>>
      BY <1>5 DEF Iterates
<1> HIDE DEF V, step, next
<1>8. Along(text, edit, f)
      BY <1>6, <1>7 DEF Along
<1> QED BY <1>8 DEF V

\* A function begins so and goes on so as long as it has a text.
Follows(text, edit, g) ==
    /\ g[0] = <<>>
    /\ \A n \in 1 .. Len(text) :
         g[n - 1] \in Seq(Chars) => g[n] = edit[<<g[n - 1], text[n]>>]

\* There is only one, along the text.
LEMMA AlongAgrees ==
    ASSUME NEW text \in Seq(Chars), NEW edit \in Edits,
           NEW f \in [Nat -> Seq(Chars)], Along(text, edit, f),
           NEW g, Follows(text, edit, g)
    PROVE  \A n \in 0 .. Len(text) : g[n] = f[n]
PROOF
<1> DEFINE T == {n \in Nat : n <= Len(text) => g[n] = f[n]}
<1>1. 0 \in T
      BY DEF Along, Follows
<1>2. ASSUME NEW n \in T PROVE n + 1 \in T
  <2>1. n \in Nat
        BY Zenon
  <2>2. n <= Len(text) => g[n] = f[n]
        BY Zenon
  <2>3. ASSUME n + 1 <= Len(text) PROVE g[n + 1] = f[n + 1]
    <3> HIDE DEF T
    <3>1. Len(text) \in Nat
          BY LenProperties
    <3>2. n + 1 \in 1 .. Len(text) /\ (n + 1) - 1 = n /\ n <= Len(text)
          BY <2>1, <2>3, <3>1
    <3>3. g[n] = f[n]
          BY <2>2, <3>2
    <3>4. f[n] \in Seq(Chars)
          BY <2>1
    <3>5. g[n + 1] = edit[<<f[n], text[n + 1]>>]
          BY <3>2, <3>3, <3>4 DEF Follows
    <3>6. f[n + 1] = edit[<<f[n], text[n + 1]>>]
          BY <3>2 DEF Along
    <3> QED BY <3>5, <3>6
  <2>4. n + 1 \in Nat
    <3> HIDE DEF T
    <3> QED BY <2>1
  <2> QED BY <2>3, <2>4, Zenon
<1>3. T = Nat
  <2>1. T \in SUBSET Nat
        OBVIOUS
  <2> HIDE DEF T
  <2> QED BY <1>1, <1>2, <2>1, Induction
<1>4. ASSUME NEW n \in 0 .. Len(text) PROVE g[n] = f[n]
  <2>1. n \in Nat /\ n <= Len(text)
    <3> HIDE DEF T
    <3>1. Len(text) \in Nat
          OBVIOUS
    <3> QED BY <3>1
  <2>2. n \in T
    <3> HIDE DEF T
    <3> QED BY <1>3, <2>1
  <2> QED BY <2>1, <2>2
<1> QED BY <1>4

\* What `edit' makes of a whole text.
Edited(text, edit) ==
    CHOOSE result : \E f \in [Nat -> Seq(Chars)] :
        Along(text, edit, f) /\ result = f[Len(text)]

\* It is what any such function has at its end.
LEMMA EditedIs ==
    ASSUME NEW text \in Seq(Chars), NEW edit \in Edits,
           NEW f \in [Nat -> Seq(Chars)], Along(text, edit, f)
    PROVE  Edited(text, edit) = f[Len(text)]
PROOF
<1> DEFINE R(result) == \E g \in [Nat -> Seq(Chars)] :
                            Along(text, edit, g) /\ result = g[Len(text)]
<1>1. R(f[Len(text)])
      OBVIOUS
<1>2. R(Edited(text, edit))
  <2>1. Edited(text, edit) = CHOOSE result : R(result)
        BY DEF Edited
  <2> HIDE DEF R
  <2> QED BY <1>1, <2>1
<1>3. PICK g \in [Nat -> Seq(Chars)] : Along(text, edit, g) /\ Edited(text, edit) = g[Len(text)]
      BY <1>2
<1>4. Len(text) \in 0 .. Len(text)
      OBVIOUS
<1>5. /\ g[0] = <<>>
      /\ \A n \in 1 .. Len(text) : g[n] = edit[<<g[n - 1], text[n]>>]
      BY <1>3 DEF Along
<1>6. Follows(text, edit, g)
      BY <1>5, Zenon DEF Follows
<1>7. \A n \in 0 .. Len(text) : g[n] = f[n]
      BY <1>6, AlongAgrees, ZenonT(30)
<1>8. g[Len(text)] = f[Len(text)]
      BY <1>4, <1>7
<1> QED BY <1>3, <1>8

\* It is made character by character.
LEMMA EditedSteps ==
    ASSUME NEW edit \in Edits
    PROVE  /\ Edited(<<>>, edit) = <<>>
           /\ \A text \in Seq(Chars) : Edited(text, edit) \in Seq(Chars)
           /\ \A text \in Seq(Chars), c \in Chars :
                Edited(Append(text, c), edit) = edit[<<Edited(text, edit), c>>]
PROOF
<1>1. ASSUME NEW text \in Seq(Chars), NEW f \in [Nat -> Seq(Chars)], Along(text, edit, f)
      PROVE  Edited(text, edit) = f[Len(text)]
      BY <1>1, EditedIs
<1>2. Edited(<<>>, edit) = <<>>
  <2>1. <<>> \in Seq(Chars) /\ Len(<<>>) = 0
        OBVIOUS
  <2>2. PICK f \in [Nat -> Seq(Chars)] : Along(<<>>, edit, f)
        BY <2>1, AlongExists
  <2>3. Edited(<<>>, edit) = f[0]
        BY <1>1, <2>1, <2>2
  <2> QED BY <2>2, <2>3 DEF Along
<1>3. ASSUME NEW text \in Seq(Chars) PROVE Edited(text, edit) \in Seq(Chars)
  <2>1. PICK f \in [Nat -> Seq(Chars)] : Along(text, edit, f)
        BY AlongExists
  <2>2. Len(text) \in Nat
        OBVIOUS
  <2> QED BY <1>1, <2>1, <2>2
<1>4. ASSUME NEW text \in Seq(Chars), NEW c \in Chars
      PROVE  Edited(Append(text, c), edit) = edit[<<Edited(text, edit), c>>]
  <2> DEFINE more == Append(text, c)
  <2>1. /\ more \in Seq(Chars) /\ Len(more) = Len(text) + 1 /\ Len(text) \in Nat
        /\ \A i \in 1 .. Len(text) : more[i] = text[i]
        /\ more[Len(text) + 1] = c
        BY AppendProperties
  <2> HIDE DEF more
  <2>2. PICK f \in [Nat -> Seq(Chars)] : Along(more, edit, f)
        BY <2>1, AlongExists
  <2>3. \A n \in 1 .. Len(text) : n \in 1 .. Len(more)
        BY <2>1
  <2>4. Along(text, edit, f)
        BY <2>1, <2>2, <2>3 DEF Along
  <2>5. Edited(text, edit) = f[Len(text)]
        BY <1>1, <2>4
  <2>6. Edited(more, edit) = f[Len(text) + 1]
        BY <1>1, <2>1, <2>2
  <2>7. f[Len(text) + 1] = edit[<<f[Len(text)], c>>]
    <3>1. Len(text) + 1 \in 1 .. Len(more) /\ (Len(text) + 1) - 1 = Len(text)
          BY <2>1
    <3> QED BY <2>1, <2>2, <3>1 DEF Along
  <2> QED BY <2>5, <2>6, <2>7 DEF more
<1> QED BY <1>2, <1>3, <1>4

-----------------------------------------------------------------------------
(* Normalisation, character by character                                   *)

\* What folding makes of a character.
LEMMA FoldsTo ==
    ASSUME NEW c \in Chars
    PROVE  /\ Folded[c] \in Seq(Chars) /\ Folded[c] # <<>>
           /\ \A i \in 1 .. Len(Folded[c]) : Folded[c][i] \in Separators <=> c \in Separators
PROOF
<1>1. Folded[c] \in Seq(Chars)
      BY MatchAssumption
<1>2. DOMAIN Folded[c] = 1 .. Len(Folded[c])
      BY <1>1
<1> QED BY <1>1, <1>2, MatchAssumption

\* A pair is of characters, and so is what it is composed to, none a separator.
LEMMA Pair ==
    ASSUME NEW b, NEW c, <<b, c>> \in DOMAIN Composed
    PROVE  /\ b \in Chars /\ c \in Chars /\ Composed[<<b, c>>] \in Chars
           /\ b \notin Separators /\ c \notin Separators
           /\ Composed[<<b, c>>] \notin Separators
           /\ \A d : <<c, d>> \notin DOMAIN Composed
           /\ Decomposed[Composed[<<b, c>>]] = Append(Decomposed[b], c)
PROOF
<1> DEFINE p == <<b, c>>
<1>1. p \in DOMAIN Composed /\ p[1] = b /\ p[2] = c
      OBVIOUS
<1>2. DOMAIN Composed \subseteq Chars \X Chars
      BY MatchAssumption
<1>3. b \in Chars /\ c \in Chars
      BY <1>1, <1>2
<1>4. /\ Composed[p] \in Chars
      /\ {p[1], p[2], Composed[p]} \cap Separators = {}
      /\ \A q \in DOMAIN Composed : p[2] # q[1]
      /\ Decomposed[Composed[p]] = Append(Decomposed[p[1]], p[2])
  <2> HIDE DEF p
  <2> QED BY <1>1, MatchAssumption
<1>5. ASSUME NEW d, <<c, d>> \in DOMAIN Composed PROVE FALSE
  <2> DEFINE q == <<c, d>>
  <2>1. q[1] = c
        OBVIOUS
  <2> QED BY <1>1, <1>4, <1>5, <2>1
<1> QED BY <1>1, <1>3, <1>4, <1>5

\* The last character of a text that a character follows.
LEMMA LastOf ==
    ASSUME NEW text \in Seq(Chars), NEW c \in Chars
    PROVE  /\ Last(Append(text, c)) = c
           /\ Front(Append(text, c)) = text
           /\ Append(text, c) # <<>>
           /\ Append(text, c) \in Seq(Chars)
PROOF
<1> DEFINE more == Append(text, c)
<1>1. /\ more \in Seq(Chars) /\ more # <<>> /\ Len(more) = Len(text) + 1
      /\ \A i \in 1 .. Len(text) : more[i] = text[i]
      /\ more[Len(text) + 1] = c
      BY AppendProperties
<1>2. Len(text) \in Nat
      OBVIOUS
<1> HIDE DEF more
<1>3. Last(more) = c
      BY <1>1, <1>2 DEF Last
<1>4. SubSeq(more, 1, Len(text)) = text
      BY <1>1, <1>2
<1>5. Front(more) = text
      BY <1>1, <1>2, <1>4 DEF Front
<1> QED BY <1>1, <1>3, <1>5 DEF more

\* A character joins the last one or follows it.
LEMMA AddedIs ==
    ASSUME NEW c \in Chars
    PROVE  /\ Added(<<>>, c) = <<c>>
           /\ \A s \in Seq(Chars), b \in Chars :
                Added(Append(s, b), c) =
                    IF <<b, c>> \in DOMAIN Composed THEN Append(s, Composed[<<b, c>>])
                    ELSE Append(Append(s, b), c)
           /\ \A s \in Seq(Chars) : Added(s, c) \in Seq(Chars)
PROOF
<1>1. Added(<<>>, c) = <<c>>
  <2>1. Append(<<>>, c) = <<c>>
        OBVIOUS
  <2> QED BY <2>1 DEF Added
<1>2. ASSUME NEW s \in Seq(Chars), NEW b \in Chars
      PROVE  Added(Append(s, b), c) =
                 IF <<b, c>> \in DOMAIN Composed THEN Append(s, Composed[<<b, c>>])
                 ELSE Append(Append(s, b), c)
  <2> DEFINE t == Append(s, b)
  <2>1. Last(t) = b /\ Front(t) = s /\ t # <<>>
        BY LastOf
  <2> HIDE DEF t
  <2>2. Added(t, c) = IF <<b, c>> \in DOMAIN Composed THEN Append(s, Composed[<<b, c>>])
                      ELSE Append(t, c)
        BY <2>1 DEF Added
  <2> QED BY <2>2 DEF t
<1>3. ASSUME NEW s \in Seq(Chars) PROVE Added(s, c) \in Seq(Chars)
  <2>1. CASE s = <<>>
    <3>1. <<c>> \in Seq(Chars)
          OBVIOUS
    <3> QED BY <1>1, <2>1, <3>1
  <2>2. CASE s # <<>>
    <3>1. PICK t \in Seq(Chars), b \in Chars : s = Append(t, b)
          BY <2>2, SequenceEmptyOrAppend
    <3>2. CASE <<b, c>> \in DOMAIN Composed
      <4>1. Composed[<<b, c>>] \in Chars
            BY <3>2, Pair
      <4> QED BY <1>2, <3>1, <3>2, <4>1, LastOf
    <3>3. CASE <<b, c>> \notin DOMAIN Composed
      <4>1. Added(s, c) = Append(s, c)
            BY <1>2, <3>1, <3>3
      <4> QED BY <4>1, LastOf
    <3> QED BY <3>2, <3>3
  <2> QED BY <2>1, <2>2
<1> QED BY <1>1, <1>2, <1>3

\* The edits that the normalisation is made of.
Adding == [at \in Seq(Chars) \X Chars |-> Added(at[1], at[2])]
Folding == [at \in Seq(Chars) \X Chars |-> at[1] \o Folded[at[2]]]
Keeping == [at \in Seq(Chars) \X Chars |->
               IF at[2] \in Separators THEN at[1] ELSE Append(at[1], at[2])]

\* Adding a character makes a text of a text.
LEMMA AddingEdits ==
    Adding \in Edits /\ \A s \in Seq(Chars), c \in Chars : Adding[<<s, c>>] = Added(s, c)
PROOF
<1>1. \A s \in Seq(Chars), c \in Chars : Adding[<<s, c>>] = Added(s, c)
      BY DEF Adding
<1>2. \A at \in Seq(Chars) \X Chars : Added(at[1], at[2]) \in Seq(Chars)
      BY AddedIs
<1> QED BY <1>1, <1>2 DEF Adding, Edits

\* So does adding what a character folds to.
LEMMA FoldingEdits ==
    Folding \in Edits /\ \A s \in Seq(Chars), c \in Chars : Folding[<<s, c>>] = s \o Folded[c]
PROOF
<1>1. \A s \in Seq(Chars), c \in Chars : Folding[<<s, c>>] = s \o Folded[c]
      BY DEF Folding
<1>2. ASSUME NEW at \in Seq(Chars) \X Chars PROVE at[1] \o Folded[at[2]] \in Seq(Chars)
  <2>1. at[1] \in Seq(Chars) /\ Folded[at[2]] \in Seq(Chars)
        BY FoldsTo
  <2> QED BY <2>1, ConcatProperties
<1> QED BY <1>1, <1>2 DEF Folding, Edits

\* So does adding a character that is no separator.
LEMMA KeepingEdits ==
    /\ Keeping \in Edits
    /\ \A s \in Seq(Chars), c \in Chars :
         Keeping[<<s, c>>] = IF c \in Separators THEN s ELSE Append(s, c)
PROOF
<1>1. \A s \in Seq(Chars), c \in Chars :
         Keeping[<<s, c>>] = IF c \in Separators THEN s ELSE Append(s, c)
      BY DEF Keeping
<1>2. ASSUME NEW at \in Seq(Chars) \X Chars
      PROVE  (IF at[2] \in Separators THEN at[1] ELSE Append(at[1], at[2])) \in Seq(Chars)
  <2>1. at[1] \in Seq(Chars) /\ at[2] \in Chars
        OBVIOUS
  <2> QED BY <2>1, LastOf
<1> QED BY <1>1, <1>2 DEF Keeping, Edits

\* Composing is adding, character by character.
LEMMA ComposeIs ==
    ASSUME NEW text \in Seq(Chars)
    PROVE  Compose(text) = Edited(text, Adding)
PROOF
<1>1. PICK f \in [Nat -> Seq(Chars)] : Along(text, Adding, f)
      BY AddingEdits, AlongExists
<1> DEFINE R(g) == g = [n \in 0 .. Len(text) |->
                          IF n = 0 THEN <<>> ELSE Added(g[n - 1], text[n])]
           first == [n \in 0 .. Len(text) |-> f[n]]
           composed == CHOOSE g : R(g)
<1>2. \A n \in 1 .. Len(text) :
         n \in Nat /\ n - 1 \in Nat /\ n - 1 \in 0 .. Len(text) /\ text[n] \in Chars
      OBVIOUS
<1>3. R(first)
  <2>1. ASSUME NEW n \in 1 .. Len(text)
        PROVE  f[n] = Added(f[n - 1], text[n])
    <3>1. f[n] = Adding[<<f[n - 1], text[n]>>]
          BY <1>1 DEF Along
    <3>2. f[n - 1] \in Seq(Chars) /\ text[n] \in Chars
          BY <1>2
    <3> QED BY <3>1, <3>2, AddingEdits
  <2>2. \A n \in 1 .. Len(text) : first[n] = f[n] /\ first[n - 1] = f[n - 1]
        BY <1>2
  <2>3. first[0] = <<>>
    <3>1. f[0] = <<>>
          BY <1>1 DEF Along
    <3>2. 0 \in 0 .. Len(text)
          OBVIOUS
    <3> QED BY <3>1, <3>2
  <2>4. ASSUME NEW n \in 0 .. Len(text)
        PROVE  first[n] = IF n = 0 THEN <<>> ELSE Added(first[n - 1], text[n])
    <3>1. CASE n = 0
      <4> HIDE DEF first
      <4> QED BY <2>3, <3>1
    <3>2. CASE n # 0
      <4>1. n \in 1 .. Len(text)
            BY <3>2
      <4> HIDE DEF first
      <4> QED BY <2>1, <2>2, <3>2, <4>1
    <3> QED BY <3>1, <3>2
  <2> DEFINE next == [n \in 0 .. Len(text) |->
                         IF n = 0 THEN <<>> ELSE Added(first[n - 1], text[n])]
  <2>5. first = next
        BY <2>4
  <2> QED BY <2>5
<1>4. R(composed)
  <2> HIDE DEF R, first
  <2> QED BY <1>3
<1>5. Compose(text) = composed[Len(text)]
      BY DEF Compose
<1> HIDE DEF composed
<1>6. composed[0] = <<>>
  <2>1. 0 \in 0 .. Len(text)
        OBVIOUS
  <2> QED BY <1>4, <2>1
<1>7. ASSUME NEW n \in 1 .. Len(text), composed[n - 1] \in Seq(Chars)
      PROVE  composed[n] = Adding[<<composed[n - 1], text[n]>>]
  <2>1. n \in 0 .. Len(text) /\ n # 0
        OBVIOUS
  <2>2. composed[n] = Added(composed[n - 1], text[n])
        BY <1>4, <2>1
  <2> HIDE DEF R
  <2> QED BY <1>2, <1>7, <2>2, AddingEdits
<1> HIDE DEF R
<1>8. Len(text) \in 0 .. Len(text)
      OBVIOUS
<1>9. Adding \in Edits
      BY AddingEdits
<1>10. Follows(text, Adding, composed)
       BY <1>6, <1>7 DEF Follows
<1>11. composed[Len(text)] = f[Len(text)]
       BY <1>1, <1>8, <1>9, <1>10, AlongAgrees
<1> QED BY <1>1, <1>5, <1>9, <1>11, EditedIs

\* Folding is putting what the characters fold to after one another.
LEMMA FoldIs ==
    ASSUME NEW text \in Seq(Chars)
    PROVE  Fold(text) = Edited(text, Folding)
PROOF
<1>1. PICK f \in [Nat -> Seq(Chars)] : Along(text, Folding, f)
      BY FoldingEdits, AlongExists
<1> DEFINE R(g) == g = [n \in 0 .. Len(text) |->
                          IF n = 0 THEN <<>> ELSE g[n - 1] \o Folded[text[n]]]
           first == [n \in 0 .. Len(text) |-> f[n]]
           folded == CHOOSE g : R(g)
<1>2. \A n \in 1 .. Len(text) :
         n \in Nat /\ n - 1 \in Nat /\ n - 1 \in 0 .. Len(text) /\ text[n] \in Chars
      OBVIOUS
<1>3. R(first)
  <2>1. ASSUME NEW n \in 1 .. Len(text)
        PROVE  f[n] = f[n - 1] \o Folded[text[n]]
    <3>1. f[n] = Folding[<<f[n - 1], text[n]>>]
          BY <1>1 DEF Along
    <3>2. f[n - 1] \in Seq(Chars) /\ text[n] \in Chars
          BY <1>2
    <3> QED BY <3>1, <3>2, FoldingEdits
  <2>2. \A n \in 1 .. Len(text) : first[n] = f[n] /\ first[n - 1] = f[n - 1]
        BY <1>2
  <2>3. first[0] = <<>>
    <3>1. f[0] = <<>>
          BY <1>1 DEF Along
    <3>2. 0 \in 0 .. Len(text)
          OBVIOUS
    <3> QED BY <3>1, <3>2
  <2>4. ASSUME NEW n \in 0 .. Len(text)
        PROVE  first[n] = IF n = 0 THEN <<>> ELSE first[n - 1] \o Folded[text[n]]
    <3>1. CASE n = 0
      <4> HIDE DEF first
      <4> QED BY <2>3, <3>1
    <3>2. CASE n # 0
      <4>1. n \in 1 .. Len(text)
            BY <3>2
      <4> HIDE DEF first
      <4> QED BY <2>1, <2>2, <3>2, <4>1
    <3> QED BY <3>1, <3>2
  <2> DEFINE next == [n \in 0 .. Len(text) |->
                         IF n = 0 THEN <<>> ELSE first[n - 1] \o Folded[text[n]]]
  <2>5. first = next
        BY <2>4
  <2> QED BY <2>5
<1>4. R(folded)
  <2> HIDE DEF R, first
  <2> QED BY <1>3
<1>5. Fold(text) = folded[Len(text)]
      BY DEF Fold
<1> HIDE DEF folded
<1>6. folded[0] = <<>>
  <2>1. 0 \in 0 .. Len(text)
        OBVIOUS
  <2> QED BY <1>4, <2>1
<1>7. ASSUME NEW n \in 1 .. Len(text), folded[n - 1] \in Seq(Chars)
      PROVE  folded[n] = Folding[<<folded[n - 1], text[n]>>]
  <2>1. n \in 0 .. Len(text) /\ n # 0
        OBVIOUS
  <2>2. folded[n] = folded[n - 1] \o Folded[text[n]]
        BY <1>4, <2>1
  <2> HIDE DEF R
  <2> QED BY <1>2, <1>7, <2>2, FoldingEdits
<1> HIDE DEF R
<1>8. Len(text) \in 0 .. Len(text)
      OBVIOUS
<1>9. Folding \in Edits
      BY FoldingEdits
<1>10. Follows(text, Folding, folded)
       BY <1>6, <1>7 DEF Follows
<1>11. folded[Len(text)] = f[Len(text)]
       BY <1>1, <1>8, <1>9, <1>10, AlongAgrees
<1> QED BY <1>1, <1>5, <1>9, <1>11, EditedIs

\* Removing separators is keeping the other characters.
LEMMA WithoutIs ==
    ASSUME NEW text \in Seq(Chars)
    PROVE  WithoutSeparators(text) = Edited(text, Keeping)
PROOF
<1>1. PICK f \in [Nat -> Seq(Chars)] : Along(text, Keeping, f)
      BY KeepingEdits, AlongExists
<1> DEFINE R(g) == g = [n \in 0 .. Len(text) |->
                          IF n = 0 THEN <<>>
                          ELSE IF text[n] \in Separators THEN g[n - 1]
                          ELSE Append(g[n - 1], text[n])]
           first == [n \in 0 .. Len(text) |-> f[n]]
           kept == CHOOSE g : R(g)
<1>2. \A n \in 1 .. Len(text) :
         n \in Nat /\ n - 1 \in Nat /\ n - 1 \in 0 .. Len(text) /\ text[n] \in Chars
      OBVIOUS
<1>3. R(first)
  <2>1. ASSUME NEW n \in 1 .. Len(text)
        PROVE  f[n] = (IF text[n] \in Separators THEN f[n - 1] ELSE Append(f[n - 1], text[n]))
    <3>1. f[n] = Keeping[<<f[n - 1], text[n]>>]
          BY <1>1 DEF Along
    <3>2. f[n - 1] \in Seq(Chars) /\ text[n] \in Chars
          BY <1>2
    <3> QED BY <3>1, <3>2, KeepingEdits
  <2>2. \A n \in 1 .. Len(text) : first[n] = f[n] /\ first[n - 1] = f[n - 1]
        BY <1>2
  <2>3. first[0] = <<>>
    <3>1. f[0] = <<>>
          BY <1>1 DEF Along
    <3>2. 0 \in 0 .. Len(text)
          OBVIOUS
    <3> QED BY <3>1, <3>2
  <2>4. ASSUME NEW n \in 0 .. Len(text)
        PROVE  first[n] = IF n = 0 THEN <<>>
                          ELSE IF text[n] \in Separators THEN first[n - 1]
                          ELSE Append(first[n - 1], text[n])
    <3>1. CASE n = 0
      <4> HIDE DEF first
      <4> QED BY <2>3, <3>1
    <3>2. CASE n # 0
      <4>1. n \in 1 .. Len(text)
            BY <3>2
      <4> HIDE DEF first
      <4> QED BY <2>1, <2>2, <3>2, <4>1
    <3> QED BY <3>1, <3>2
  <2> DEFINE next == [n \in 0 .. Len(text) |->
                         IF n = 0 THEN <<>>
                         ELSE IF text[n] \in Separators THEN first[n - 1]
                         ELSE Append(first[n - 1], text[n])]
  <2>5. first = next
        BY <2>4
  <2> QED BY <2>5
<1>4. R(kept)
  <2> HIDE DEF R, first
  <2> QED BY <1>3
<1>5. WithoutSeparators(text) = kept[Len(text)]
      BY DEF WithoutSeparators
<1> HIDE DEF kept
<1>6. kept[0] = <<>>
  <2>1. 0 \in 0 .. Len(text)
        OBVIOUS
  <2> QED BY <1>4, <2>1
<1>7. ASSUME NEW n \in 1 .. Len(text), kept[n - 1] \in Seq(Chars)
      PROVE  kept[n] = Keeping[<<kept[n - 1], text[n]>>]
  <2>1. n \in 0 .. Len(text) /\ n # 0
        OBVIOUS
  <2>2. kept[n] = (IF text[n] \in Separators THEN kept[n - 1] ELSE Append(kept[n - 1], text[n]))
        BY <1>4, <2>1
  <2> HIDE DEF R
  <2> QED BY <1>2, <1>7, <2>2, KeepingEdits
<1> HIDE DEF R
<1>8. Len(text) \in 0 .. Len(text)
      OBVIOUS
<1>9. Keeping \in Edits
      BY KeepingEdits
<1>10. Follows(text, Keeping, kept)
       BY <1>6, <1>7 DEF Follows
<1>11. kept[Len(text)] = f[Len(text)]
       BY <1>1, <1>8, <1>9, <1>10, AlongAgrees
<1> QED BY <1>1, <1>5, <1>9, <1>11, EditedIs

\* Composing the empty text, and a text and one more character.
LEMMA ComposeSteps ==
    /\ Compose(<<>>) = <<>>
    /\ \A text \in Seq(Chars) : Compose(text) \in Seq(Chars)
    /\ \A text \in Seq(Chars), c \in Chars :
         Compose(Append(text, c)) = Added(Compose(text), c)
PROOF
<1>1. /\ Edited(<<>>, Adding) = <<>>
      /\ \A text \in Seq(Chars) : Edited(text, Adding) \in Seq(Chars)
      /\ \A text \in Seq(Chars), c \in Chars :
           Edited(Append(text, c), Adding) = Adding[<<Edited(text, Adding), c>>]
      BY AddingEdits, EditedSteps
<1>2. <<>> \in Seq(Chars) /\ \A text \in Seq(Chars), c \in Chars : Append(text, c) \in Seq(Chars)
      OBVIOUS
<1>3. \A text \in Seq(Chars) : Compose(text) = Edited(text, Adding)
      BY ComposeIs
<1>4. \A text \in Seq(Chars), c \in Chars :
         Adding[<<Edited(text, Adding), c>>] = Added(Edited(text, Adding), c)
      BY <1>1, AddingEdits
<1>5. Compose(<<>>) = <<>>
      BY <1>1, <1>2, <1>3
<1>6. \A text \in Seq(Chars) : Compose(text) \in Seq(Chars)
      BY <1>1, <1>3
<1>7. ASSUME NEW text \in Seq(Chars), NEW c \in Chars
      PROVE  Compose(Append(text, c)) = Added(Compose(text), c)
  <2>1. Append(text, c) \in Seq(Chars)
        OBVIOUS
  <2>2. Compose(Append(text, c)) = Edited(Append(text, c), Adding)
        BY <2>1, <1>3
  <2>3. Compose(text) = Edited(text, Adding)
        BY <1>3
  <2>4. Edited(Append(text, c), Adding) = Adding[<<Edited(text, Adding), c>>]
        BY <1>1
  <2> QED BY <1>4, <2>2, <2>3, <2>4
<1> QED BY <1>5, <1>6, <1>7

\* Folding is the same, with what the characters fold to.
LEMMA FoldSteps ==
    /\ Fold(<<>>) = <<>>
    /\ \A text \in Seq(Chars) : Fold(text) \in Seq(Chars)
    /\ \A text \in Seq(Chars), c \in Chars :
         Fold(Append(text, c)) = Fold(text) \o Folded[c]
PROOF
<1>1. /\ Edited(<<>>, Folding) = <<>>
      /\ \A text \in Seq(Chars) : Edited(text, Folding) \in Seq(Chars)
      /\ \A text \in Seq(Chars), c \in Chars :
           Edited(Append(text, c), Folding) = Folding[<<Edited(text, Folding), c>>]
      BY FoldingEdits, EditedSteps
<1>2. <<>> \in Seq(Chars) /\ \A text \in Seq(Chars), c \in Chars : Append(text, c) \in Seq(Chars)
      OBVIOUS
<1>3. \A text \in Seq(Chars) : Fold(text) = Edited(text, Folding)
      BY FoldIs
<1>4. \A text \in Seq(Chars), c \in Chars :
         Folding[<<Edited(text, Folding), c>>] = Edited(text, Folding) \o Folded[c]
      BY <1>1, FoldingEdits
<1>5. Fold(<<>>) = <<>>
      BY <1>1, <1>2, <1>3
<1>6. \A text \in Seq(Chars) : Fold(text) \in Seq(Chars)
      BY <1>1, <1>3
<1>7. ASSUME NEW text \in Seq(Chars), NEW c \in Chars
      PROVE  Fold(Append(text, c)) = Fold(text) \o Folded[c]
  <2>1. Append(text, c) \in Seq(Chars)
        OBVIOUS
  <2>2. Fold(Append(text, c)) = Edited(Append(text, c), Folding)
        BY <2>1, <1>3
  <2>3. Fold(text) = Edited(text, Folding)
        BY <1>3
  <2>4. Edited(Append(text, c), Folding) = Folding[<<Edited(text, Folding), c>>]
        BY <1>1
  <2> QED BY <1>4, <2>2, <2>3, <2>4
<1> QED BY <1>5, <1>6, <1>7

\* Removing separators is the same, without them.
LEMMA WithoutSteps ==
    /\ WithoutSeparators(<<>>) = <<>>
    /\ \A text \in Seq(Chars) : WithoutSeparators(text) \in Seq(Chars)
    /\ \A text \in Seq(Chars), c \in Chars :
         WithoutSeparators(Append(text, c)) =
             IF c \in Separators THEN WithoutSeparators(text)
             ELSE Append(WithoutSeparators(text), c)
PROOF
<1>1. Keeping \in Edits
      BY KeepingEdits
<1>2. /\ Edited(<<>>, Keeping) = <<>>
      /\ \A text \in Seq(Chars) : Edited(text, Keeping) \in Seq(Chars)
      /\ \A text \in Seq(Chars), c \in Chars :
           Edited(Append(text, c), Keeping) = Keeping[<<Edited(text, Keeping), c>>]
      BY <1>1, EditedSteps
<1>3. <<>> \in Seq(Chars) /\ \A text \in Seq(Chars), c \in Chars : Append(text, c) \in Seq(Chars)
      OBVIOUS
<1>4. \A text \in Seq(Chars) : WithoutSeparators(text) = Edited(text, Keeping)
      BY WithoutIs
<1>5. \A text \in Seq(Chars), c \in Chars :
         Keeping[<<Edited(text, Keeping), c>>] =
             IF c \in Separators THEN Edited(text, Keeping) ELSE Append(Edited(text, Keeping), c)
      BY <1>2, KeepingEdits
<1>6. WithoutSeparators(<<>>) = <<>>
      BY <1>2, <1>3, <1>4
<1>7. \A text \in Seq(Chars) : WithoutSeparators(text) \in Seq(Chars)
      BY <1>2, <1>4
<1>8. ASSUME NEW text \in Seq(Chars), NEW c \in Chars
      PROVE  WithoutSeparators(Append(text, c)) = IF c \in Separators THEN WithoutSeparators(text)
             ELSE Append(WithoutSeparators(text), c)
  <2>1. Append(text, c) \in Seq(Chars)
        OBVIOUS
  <2>2. WithoutSeparators(Append(text, c)) = Edited(Append(text, c), Keeping)
        BY <2>1, <1>4
  <2>3. WithoutSeparators(text) = Edited(text, Keeping)
        BY <1>4
  <2>4. Edited(Append(text, c), Keeping) = Keeping[<<Edited(text, Keeping), c>>]
        BY <1>2
  <2> QED BY <1>5, <2>2, <2>3, <2>4
<1> QED BY <1>6, <1>7, <1>8

\* Two ways of putting a character behind two texts.
LEMMA ConcatAppend ==
    ASSUME NEW s \in Seq(Chars), NEW t \in Seq(Chars), NEW c \in Chars
    PROVE  /\ s \o t \in Seq(Chars)
           /\ s \o Append(t, c) = Append(s \o t, c)
PROOF
<1> QED OBVIOUS

\* Three texts one after another.
Associated(s, t, u) == (s \o t) \o u = s \o (t \o u)

\* It does not matter which two are put together first.
LEMMA Associates ==
    ASSUME NEW s \in Seq(Chars), NEW t \in Seq(Chars), NEW u \in Seq(Chars)
    PROVE  Associated(s, t, u)
PROOF
<1> DEFINE T == {v \in Seq(Chars) : Associated(s, t, v)}
           p == s \o t
<1>1. p \in Seq(Chars)
      BY ConcatAppend
<1>2. <<>> \in T
  <2>1. t \o <<>> = t /\ p \o <<>> = p
    <3> HIDE DEF p
    <3> QED BY <1>1, ConcatEmptySeq
  <2>2. Associated(s, t, <<>>)
        BY <2>1, Zenon DEF Associated
  <2> QED BY <2>2
<1>3. ASSUME NEW v \in T, NEW c \in Chars PROVE Append(v, c) \in T
  <2> DEFINE q == t \o v
  <2>1. v \in Seq(Chars) /\ Associated(s, t, v)
        BY Zenon
  <2> HIDE DEF T
  <2>2. Append(v, c) \in Seq(Chars) /\ q \in Seq(Chars) /\ t \o Append(v, c) = Append(q, c)
        BY <2>1, ConcatAppend, LastOf
  <2>3. p \o v = s \o q
        BY <2>1, Zenon DEF Associated
  <2> HIDE DEF p, q
  <2>4. p \o Append(v, c) = Append(p \o v, c)
        BY <1>1, <2>1, ConcatAppend
  <2>5. s \o Append(q, c) = Append(s \o q, c)
        BY <2>2, ConcatAppend
  <2>6. p \o Append(v, c) = s \o (t \o Append(v, c))
        BY <2>2, <2>3, <2>4, <2>5, Zenon
  <2>7. Associated(s, t, Append(v, c))
        BY <2>6, Zenon DEF Associated, p
  <2> QED BY <2>2, <2>7 DEF T
<1>4. T = Seq(Chars)
  <2>1. T \in SUBSET Seq(Chars)
        OBVIOUS
  <2> HIDE DEF T
  <2> QED BY <1>2, <1>3, <2>1, TextInduction
<1>5. u \in T
  <2> HIDE DEF T
  <2> QED BY <1>4
<1> QED BY <1>5, Zenon

\* The part of a composed text that is compared.
Rest(composed) == WithoutSeparators(Fold(composed))

\* The part of a composed character that is compared.
Part(c) == IF c \in Separators THEN <<>> ELSE Folded[c]

\* It is a text, and not empty unless the character is a separator.
LEMMA PartTypes ==
    ASSUME NEW c \in Chars
    PROVE  Part(c) \in Seq(Chars) /\ (c \notin Separators => Part(c) = Folded[c] /\ Part(c) # <<>>)
PROOF
<1> QED BY FoldsTo DEF Part

\* Removing separators from a text that another without them, or one of nothing
\* else, follows.
LEMMA WithoutPart ==
    ASSUME NEW s \in Seq(Chars), NEW t \in Seq(Chars), NEW separators \in BOOLEAN,
           \A i \in 1 .. Len(t) : t[i] \in Separators <=> separators
    PROVE  WithoutSeparators(s \o t) =
               IF separators THEN WithoutSeparators(s) ELSE WithoutSeparators(s) \o t
PROOF
<1> DEFINE W(u) == WithoutSeparators(u)
           Kept(u) == IF separators THEN W(s) ELSE W(s) \o u
           T == {u \in Seq(Chars) :
                   (\A i \in 1 .. Len(u) : u[i] \in Separators <=> separators) => W(s \o u) = Kept(u)}
<1>1. <<>> \in T
  <2>1. s \o <<>> = s /\ W(s) \o <<>> = W(s)
        BY WithoutSteps, ConcatEmptySeq
  <2>2. W(s \o <<>>) = Kept(<<>>)
        BY <2>1
  <2>3. <<>> \in Seq(Chars)
        OBVIOUS
  <2> HIDE DEF W, Kept
  <2> QED BY <2>2, <2>3
<1>2. ASSUME NEW u \in T, NEW c \in Chars PROVE Append(u, c) \in T
  <2> DEFINE more == Append(u, c)
  <2>1. u \in Seq(Chars) /\ more \in Seq(Chars)
        OBVIOUS
  <2>2. /\ Len(more) = Len(u) + 1 /\ Len(u) \in Nat
        /\ \A i \in 1 .. Len(u) : more[i] = u[i]
        /\ more[Len(u) + 1] = c
        BY <2>1, AppendProperties
  <2> HIDE DEF more
  <2>3. SUFFICES ASSUME \A i \in 1 .. Len(more) : more[i] \in Separators <=> separators
                 PROVE  W(s \o more) = Kept(more)
    <3> HIDE DEF W, Kept
    <3> QED BY <2>1 DEF more
  <2>4. c \in Separators <=> separators
    <3>1. Len(u) + 1 \in 1 .. Len(more)
          BY <2>2
    <3> QED BY <2>2, <2>3, <3>1
  <2>5. \A i \in 1 .. Len(u) : u[i] \in Separators <=> separators
    <3>1. \A i \in 1 .. Len(u) : i \in 1 .. Len(more)
          BY <2>2
    <3> QED BY <2>2, <2>3, <3>1
  <2>6. W(s \o u) = Kept(u)
    <3> HIDE DEF W, Kept
    <3> QED BY <2>5
  <2>7. s \o u \in Seq(Chars) /\ s \o more = Append(s \o u, c)
        BY <2>1, ConcatAppend DEF more
  <2>8. W(s \o more) = IF c \in Separators THEN W(s \o u) ELSE Append(W(s \o u), c)
        BY <2>7, WithoutSteps
  <2>9. W(s) \in Seq(Chars)
        BY WithoutSteps
  <2>10. Append(W(s) \o u, c) = W(s) \o more
    <3> HIDE DEF W
    <3> QED BY <2>1, <2>9, ConcatAppend DEF more
  <2> HIDE DEF W
  <2> QED BY <2>4, <2>6, <2>8, <2>10
<1>3. T = Seq(Chars)
  <2>1. T \in SUBSET Seq(Chars)
        OBVIOUS
  <2> HIDE DEF T
  <2> QED BY <1>1, <1>2, <2>1, TextInduction
<1>4. t \in T
      BY <1>3
<1> QED BY <1>4

\* What is compared of a composed text is that of its characters.
LEMMA RestSteps ==
    /\ Rest(<<>>) = <<>>
    /\ \A text \in Seq(Chars) : Rest(text) \in Seq(Chars)
    /\ \A text \in Seq(Chars), c \in Chars : Rest(Append(text, c)) = Rest(text) \o Part(c)
PROOF
<1>1. Rest(<<>>) = <<>>
      BY FoldSteps, WithoutSteps DEF Rest
<1>2. \A text \in Seq(Chars) : Rest(text) \in Seq(Chars)
      BY FoldSteps, WithoutSteps DEF Rest
<1>3. ASSUME NEW text \in Seq(Chars), NEW c \in Chars
      PROVE  Rest(Append(text, c)) = Rest(text) \o Part(c)
  <2> DEFINE s == Fold(text)
             t == Folded[c]
             separators == c \in Separators
  <2>1. s \in Seq(Chars) /\ Fold(Append(text, c)) = s \o t
        BY FoldSteps
  <2>2. t \in Seq(Chars) /\ \A i \in 1 .. Len(t) : t[i] \in Separators <=> separators
        BY FoldsTo
  <2>3. separators \in BOOLEAN
        OBVIOUS
  <2>4. WithoutSeparators(s \o t) =
            IF separators THEN WithoutSeparators(s) ELSE WithoutSeparators(s) \o t
    <3> HIDE DEF s, t, separators
    <3> QED BY <2>1, <2>2, <2>3, WithoutPart
  <2>5. WithoutSeparators(s) \in Seq(Chars)
        BY <2>1, WithoutSteps
  <2>6. WithoutSeparators(s) \o <<>> = WithoutSeparators(s)
        BY <2>5, ConcatEmptySeq
  <2>7. Rest(Append(text, c)) = WithoutSeparators(s \o t) /\ Rest(text) = WithoutSeparators(s)
        BY <2>1 DEF Rest
  <2> HIDE DEF s
  <2> QED BY <2>4, <2>6, <2>7 DEF Part
<1> QED BY <1>1, <1>2, <1>3

\* What is compared of two composed texts behind one another.
LEMMA RestConcat ==
    ASSUME NEW s \in Seq(Chars), NEW t \in Seq(Chars)
    PROVE  Rest(s \o t) = Rest(s) \o Rest(t)
PROOF
<1> DEFINE T == {u \in Seq(Chars) : Rest(s \o u) = Rest(s) \o Rest(u)}
<1>1. <<>> \in T
  <2>1. s \o <<>> = s /\ Rest(s) \o <<>> = Rest(s)
        BY RestSteps, ConcatEmptySeq
  <2> QED BY <2>1, RestSteps
<1>2. ASSUME NEW u \in T, NEW c \in Chars PROVE Append(u, c) \in T
  <2>1. u \in Seq(Chars) /\ s \o u \in Seq(Chars) /\ Part(c) \in Seq(Chars)
        BY PartTypes, ConcatAppend
  <2>2. Rest(s \o Append(u, c)) = Rest(Append(s \o u, c))
        BY <2>1, ConcatAppend
  <2>3. Rest(Append(s \o u, c)) = Rest(s \o u) \o Part(c)
        BY <2>1, RestSteps
  <2>4. Rest(Append(u, c)) = Rest(u) \o Part(c)
        BY <2>1, RestSteps
  <2>5. (Rest(s) \o Rest(u)) \o Part(c) = Rest(s) \o (Rest(u) \o Part(c))
    <3>1. Rest(s) \in Seq(Chars) /\ Rest(u) \in Seq(Chars)
          BY <2>1, RestSteps
    <3>2. Associated(Rest(s), Rest(u), Part(c))
          BY <2>1, <3>1, Associates
    <3> QED BY <3>2, Zenon DEF Associated
  <2>6. Rest(s \o u) = Rest(s) \o Rest(u)
        OBVIOUS
  <2>7. Append(u, c) \in Seq(Chars)
        BY <2>1
  <2> QED BY <2>2, <2>3, <2>4, <2>5, <2>6, <2>7
<1>3. T = Seq(Chars)
  <2>1. T \in SUBSET Seq(Chars)
        OBVIOUS
  <2> HIDE DEF T
  <2> QED BY <1>1, <1>2, <2>1, TextInduction
<1>4. t \in T
      BY <1>3
<1> QED BY <1>4

\* A text is composed to one that ends in a separator if and only if it does.
LEMMA ComposedEnd ==
    ASSUME NEW text \in Seq(Chars), NEW c \in Chars
    PROVE  /\ \E s \in Seq(Chars), b \in Chars :
                Compose(Append(text, c)) = Append(s, b) /\ (b \in Separators <=> c \in Separators)
           /\ c \in Separators => Compose(Append(text, c)) = Append(Compose(text), c)
PROOF
<1> DEFINE done == Compose(text)
<1>1. done \in Seq(Chars) /\ Compose(Append(text, c)) = Added(done, c)
      BY ComposeSteps
<1> HIDE DEF done
<1>2. CASE done = <<>>
  <2>1. Added(done, c) = Append(done, c)
        BY <1>2, AddedIs
  <2> QED BY <1>1, <2>1 DEF done
<1>3. CASE done # <<>>
  <2>1. PICK s \in Seq(Chars), b \in Chars : done = Append(s, b)
        BY <1>1, <1>3, SequenceEmptyOrAppend
  <2>2. CASE <<b, c>> \in DOMAIN Composed
    <3>1. Added(done, c) = Append(s, Composed[<<b, c>>])
          BY <2>1, <2>2, AddedIs
    <3>2. Composed[<<b, c>>] \in Chars \ Separators /\ c \notin Separators
          BY <2>2, Pair
    <3> QED BY <1>1, <3>1, <3>2
  <2>3. CASE <<b, c>> \notin DOMAIN Composed
    <3>1. Added(done, c) = Append(done, c)
          BY <2>1, <2>3, AddedIs
    <3> QED BY <1>1, <3>1 DEF done
  <2> QED BY <2>2, <2>3
<1> QED BY <1>2, <1>3

\* Behind a text whose last character begins no pair, another is composed by itself.
LEMMA ComposedApart ==
    ASSUME NEW text \in Seq(Chars), NEW more \in Seq(Chars),
           NEW s \in Seq(Chars), NEW b \in Chars, Compose(text) = Append(s, b),
           \A c : <<b, c>> \notin DOMAIN Composed
    PROVE  Compose(text \o more) = Compose(text) \o Compose(more)
PROOF
<1> DEFINE T == {u \in Seq(Chars) : Compose(text \o u) = Compose(text) \o Compose(u)}
<1>1. <<>> \in T
  <2>1. text \o <<>> = text /\ Compose(text) \o <<>> = Compose(text)
        BY ComposeSteps, ConcatEmptySeq
  <2>2. Compose(text \o <<>>) = Compose(text) \o Compose(<<>>)
        BY <2>1, ComposeSteps
  <2> QED BY <2>2
<1>2. ASSUME NEW u \in T, NEW c \in Chars PROVE Append(u, c) \in T
  <2> DEFINE front == Compose(text)
             done == Compose(u)
  <2>1. u \in Seq(Chars) /\ text \o u \in Seq(Chars) /\ Append(u, c) \in Seq(Chars)
        BY ConcatAppend
  <2>2. front \in Seq(Chars) /\ done \in Seq(Chars) /\ front = Append(s, b)
        BY <2>1, ComposeSteps
  <2>3. Compose(text \o Append(u, c)) = Added(front \o done, c)
    <3>1. text \o Append(u, c) = Append(text \o u, c)
          BY <2>1, ConcatAppend
    <3>2. Compose(Append(text \o u, c)) = Added(Compose(text \o u), c)
          BY <2>1, ComposeSteps
    <3> QED BY <3>1, <3>2
  <2>4. Compose(Append(u, c)) = Added(done, c)
        BY <2>1, ComposeSteps
  <2> HIDE DEF front, done
  <2>5. \A t \in Seq(Chars), e \in Chars :
           front \o t \in Seq(Chars) /\ front \o Append(t, e) = Append(front \o t, e)
        BY <2>2, ConcatAppend
  <2>6. Added(front \o done, c) = front \o Added(done, c)
    <3>1. CASE done = <<>>
      <4>1. front \o done = front /\ Added(done, c) = <<c>>
            BY <2>2, <3>1, AddedIs, ConcatEmptySeq
      <4>2. Added(front, c) = Append(front, c)
            BY <2>2, AddedIs
      <4>4. Append(front, c) = front \o <<c>>
            BY <2>2, AppendIsConcat
      <4> QED BY <4>1, <4>2, <4>4
    <3>2. CASE done # <<>>
      <4>1. PICK t \in Seq(Chars), d \in Chars : done = Append(t, d)
            BY <2>2, <3>2, SequenceEmptyOrAppend
      <4>2. /\ front \o t \in Seq(Chars)
            /\ \A e \in Chars : front \o Append(t, e) = Append(front \o t, e)
            /\ front \o Append(done, c) = Append(front \o done, c)
            BY <2>2, <2>5
      <4>6. front \o Append(t, d) = Append(front \o t, d)
            BY <4>2
      <4>3. front \o done = Append(front \o t, d)
            BY <4>1, <4>6, Zenon
      <4>4. CASE <<d, c>> \in DOMAIN Composed
        <5>4. Added(Append(front \o t, d), c) = Append(front \o t, Composed[<<d, c>>])
              BY <4>2, <4>4, AddedIs, Zenon
        <5>1. Added(front \o done, c) = Append(front \o t, Composed[<<d, c>>])
              BY <4>3, <5>4, Zenon
        <5>2. Added(done, c) = Append(t, Composed[<<d, c>>])
              BY <4>1, <4>4, AddedIs
        <5>3. Composed[<<d, c>>] \in Chars
              BY <4>4, Pair
        <5> QED BY <4>2, <5>1, <5>2, <5>3
      <4>5. CASE <<d, c>> \notin DOMAIN Composed
        <5>1. Added(Append(front \o t, d), c) = Append(Append(front \o t, d), c)
              BY <4>2, <4>5, AddedIs
        <5>2. Added(done, c) = Append(done, c)
              BY <4>1, <4>5, AddedIs
        <5> QED BY <4>2, <4>3, <5>1, <5>2
      <4> QED BY <4>4, <4>5
    <3> QED BY <3>1, <3>2
  <2> QED BY <2>1, <2>3, <2>4, <2>6 DEF front
<1>3. T = Seq(Chars)
  <2>1. T \in SUBSET Seq(Chars)
        OBVIOUS
  <2> HIDE DEF T
  <2> QED BY <1>1, <1>2, <2>1, TextInduction
<1>4. more \in T
      BY <1>3
<1> QED BY <1>4

-----------------------------------------------------------------------------
(* Separators around a text                                                *)

\* What is compared of a text is that of the composed text.
LEMMA NormalIs ==
    ASSUME NEW text \in Seq(Chars)
    PROVE  /\ normalize_for_match(text) = Rest(Compose(text))
           /\ normalize_for_match(text) \in Seq(Chars)
PROOF
<1>1. normalize_for_match(text) = Rest(Compose(text))
      BY DEF normalize_for_match, Rest
<1> QED BY <1>1, ComposeSteps, RestSteps

\* Of the empty text it is nothing.
LEMMA NormalOfNothing == normalize_for_match(<<>>) = <<>>
PROOF
<1>1. normalize_for_match(<<>>) = Rest(Compose(<<>>))
      BY DEF normalize_for_match, Rest
<1> QED BY <1>1, ComposeSteps, RestSteps

\* Separators behind a text are not compared.
LEMMA SeparatorsBehind ==
    ASSUME NEW text \in Seq(Chars), NEW more \in Seq(Chars),
           \A i \in 1 .. Len(more) : more[i] \in Separators
    PROVE  normalize_for_match(text \o more) = normalize_for_match(text)
PROOF
<1> DEFINE N(u) == normalize_for_match(u)
           T == {u \in Seq(Chars) :
                   (\A i \in 1 .. Len(u) : u[i] \in Separators) => N(text \o u) = N(text)}
<1>1. <<>> \in T
  <2>1. text \o <<>> = text
        BY ConcatEmptySeq
  <2> HIDE DEF N
  <2> QED BY <2>1
<1>2. ASSUME NEW u \in T, NEW c \in Chars PROVE Append(u, c) \in T
  <2> DEFINE next == Append(u, c)
  <2>1. u \in Seq(Chars) /\ next \in Seq(Chars)
        OBVIOUS
  <2>2. /\ Len(next) = Len(u) + 1 /\ Len(u) \in Nat
        /\ \A i \in 1 .. Len(u) : next[i] = u[i]
        /\ next[Len(u) + 1] = c
        BY <2>1, AppendProperties
  <2> HIDE DEF next
  <2>3. SUFFICES ASSUME \A i \in 1 .. Len(next) : next[i] \in Separators
                 PROVE  N(text \o next) = N(text)
    <3> HIDE DEF N
    <3> QED BY <2>1 DEF next
  <2>4. c \in Separators
    <3>1. Len(u) + 1 \in 1 .. Len(next)
          BY <2>2
    <3> QED BY <2>2, <2>3, <3>1
  <2>5. \A i \in 1 .. Len(u) : u[i] \in Separators
    <3>1. \A i \in 1 .. Len(u) : i \in 1 .. Len(next)
          BY <2>2
    <3> QED BY <2>2, <2>3, <3>1
  <2>6. N(text \o u) = N(text)
    <3> HIDE DEF N
    <3> QED BY <2>5
  <2>7. text \o u \in Seq(Chars) /\ text \o next = Append(text \o u, c)
        BY <2>1, ConcatAppend DEF next
  <2>8. Compose(text \o next) = Append(Compose(text \o u), c) /\ Compose(text \o u) \in Seq(Chars)
        BY <2>4, <2>7, ComposedEnd, ComposeSteps
  <2>9. Rest(Append(Compose(text \o u), c)) = Rest(Compose(text \o u)) \o <<>>
        BY <2>4, <2>8, RestSteps DEF Part
  <2>10. Rest(Compose(text \o u)) \o <<>> = Rest(Compose(text \o u))
        BY <2>8, RestSteps, ConcatEmptySeq
  <2>11. text \o next \in Seq(Chars)
        BY <2>1, ConcatAppend
  <2>12. N(text \o next) = Rest(Compose(text \o next)) /\ N(text \o u) = Rest(Compose(text \o u))
        BY <2>7, <2>11, NormalIs
  <2> QED BY <2>6, <2>8, <2>9, <2>10, <2>12
<1>3. T = Seq(Chars)
  <2>1. T \in SUBSET Seq(Chars)
        OBVIOUS
  <2> HIDE DEF T
  <2> QED BY <1>1, <1>2, <2>1, TextInduction
<1>4. more \in T
      BY <1>3
<1> QED BY <1>4

\* Nor are those before it.
LEMMA SeparatorsBefore ==
    ASSUME NEW text \in Seq(Chars), NEW more \in Seq(Chars),
           \A i \in 1 .. Len(more) : more[i] \in Separators
    PROVE  normalize_for_match(more \o text) = normalize_for_match(text)
PROOF
<1>1. CASE more = <<>>
  <2>1. more \o text = text
        BY <1>1, ConcatEmptySeq
  <2> QED BY <2>1
<1>2. CASE more # <<>>
  <2>1. PICK u \in Seq(Chars), c \in Chars : more = Append(u, c)
        BY <1>2, SequenceEmptyOrAppend
  <2>2. c \in Separators
    <3>1. Len(more) = Len(u) + 1 /\ Len(u) \in Nat /\ more[Len(u) + 1] = c
          BY <2>1, AppendProperties
    <3>2. Len(more) \in 1 .. Len(more)
          BY <3>1
    <3> QED BY <3>1, <3>2
  <2>3. Compose(more) = Append(Compose(u), c) /\ Compose(u) \in Seq(Chars)
        BY <2>1, <2>2, ComposedEnd, ComposeSteps
  <2>4. \A d : <<c, d>> \notin DOMAIN Composed
        BY <2>2, Pair
  <2>5. Compose(more \o text) = Compose(more) \o Compose(text)
        BY <2>3, <2>4, ComposedApart
  <2>6. Compose(more) \in Seq(Chars) /\ Compose(text) \in Seq(Chars)
        BY ComposeSteps
  <2>7. Rest(Compose(more \o text)) = Rest(Compose(more)) \o Rest(Compose(text))
        BY <2>5, <2>6, RestConcat
  <2>8. Rest(Compose(more)) = <<>>
    <3>1. <<>> \o more = more /\ <<>> \in Seq(Chars)
          BY ConcatEmptySeq
    <3>2. normalize_for_match(<<>> \o more) = normalize_for_match(<<>>)
          BY <3>1, SeparatorsBehind
    <3> QED BY <3>1, <3>2, NormalIs, NormalOfNothing
  <2>9. <<>> \o Rest(Compose(text)) = Rest(Compose(text))
        BY <2>6, RestSteps, ConcatEmptySeq
  <2>10. more \o text \in Seq(Chars)
        BY ConcatAppend
  <2> QED BY <2>7, <2>8, <2>9, <2>10, NormalIs
<1> QED BY <1>1, <1>2

\* A text that does not end in a separator has something to compare.
LEMMA NormalOfSomething ==
    ASSUME NEW text \in Seq(Chars), NEW c \in Chars, c \notin Separators
    PROVE  normalize_for_match(Append(text, c)) # <<>>
PROOF
<1>1. PICK s \in Seq(Chars), b \in Chars :
        Compose(Append(text, c)) = Append(s, b) /\ b \notin Separators
      BY ComposedEnd
<1>2. Rest(Append(s, b)) = Rest(s) \o Part(b)
      BY RestSteps
<1>3. Part(b) \in Seq(Chars) /\ Part(b) # <<>> /\ Rest(s) \in Seq(Chars)
      BY <1>1, PartTypes, RestSteps
<1>4. Rest(s) \o Part(b) # <<>>
      BY <1>3, ConcatEqualIffEmpty
<1>5. Append(text, c) \in Seq(Chars)
      OBVIOUS
<1> QED BY <1>1, <1>2, <1>4, <1>5, NormalIs

\* Trimming a text takes nothing away that is compared, and leaves nothing at its
\* ends that is trimmed.
LEMMA TrimKeeps ==
    ASSUME NEW text \in Seq(Chars), NEW set \in SUBSET Separators
    PROVE  /\ Trim(text, set) \in Seq(Chars)
           /\ normalize_for_match(Trim(text, set)) = normalize_for_match(text)
           /\ Trim(text, set) # <<>> =>
                Trim(text, set)[1] \notin set /\ Last(Trim(text, set)) \notin set
PROOF
<1> DEFINE kept == {n \in DOMAIN text : text[n] \notin set}
           N(u) == normalize_for_match(u)
<1>0. DOMAIN text = 1 .. Len(text) /\ Len(text) \in Nat
      OBVIOUS
<1>1. CASE kept = {}
  <2>1. Trim(text, set) = <<>>
        BY <1>1 DEF Trim
  <2>2. \A i \in 1 .. Len(text) : text[i] \in Separators
        BY <1>0, <1>1
  <2>3. <<>> \in Seq(Chars) /\ <<>> \o text = text
        BY ConcatEmptySeq
  <2>4. N(<<>> \o text) = N(<<>>)
        BY <2>2, <2>3, SeparatorsBehind
  <2> QED BY <2>1, <2>3, <2>4
<1>2. CASE kept # {}
  <2>1. kept \in SUBSET (0 .. Len(text)) /\ kept \in SUBSET (1 .. Len(text))
        BY <1>0
  <2>2. \A i \in 1 .. Len(text) : i \notin kept => text[i] \in set
        BY <1>0
  <2>3. \A i \in kept : text[i] \notin set
        OBVIOUS
  <2>4. Trim(text, set) = SubSeq(text, Min(kept), Max(kept))
        BY <1>2 DEF Trim
  <2> HIDE DEF kept, N
  <2>5. /\ Min(kept) \in kept /\ \A y \in kept : Min(kept) <= y
        /\ Max(kept) \in kept /\ \A y \in kept : Max(kept) >= y
        BY <1>0, <1>2, <2>1, Extremes
  <2> DEFINE a == Min(kept)
             b == Max(kept)
             before == SubSeq(text, 1, a - 1)
             middle == SubSeq(text, a, b)
             behind == SubSeq(text, b + 1, Len(text))
  <2>6. a \in 1 .. Len(text) /\ b \in 1 .. Len(text) /\ a <= b
        BY <2>1, <2>5
  <2>7. text[a] \notin set /\ text[b] \notin set
        BY <2>3, <2>5
  <2>8. \A i \in 1 .. a - 1 : text[i] \in set
        BY <1>0, <2>2, <2>5, <2>6
  <2>9. \A i \in b + 1 .. Len(text) : text[i] \in set
        BY <1>0, <2>2, <2>5, <2>6
  <2> HIDE DEF a, b
  <2>10. \A i \in 1 .. Len(text) : text[i] \in Chars
        OBVIOUS
  <2>11. /\ before \in Seq(Chars) /\ Len(before) = a - 1
         /\ \A i \in 1 .. a - 1 : before[i] = text[i]
        BY <1>0, <2>6, <2>10
  <2>12. /\ behind \in Seq(Chars) /\ Len(behind) = Len(text) - b
         /\ \A i \in 1 .. Len(text) - b : behind[i] = text[b + i]
    <3>1. \A i \in b + 1 .. Len(text) : text[i] \in Chars
          BY <1>0, <2>6, <2>10
    <3>2. b + 1 \in Int /\ Len(text) \in Int /\ b \in Int /\ b <= Len(text)
          BY <1>0, <2>6
    <3>3. /\ behind \in Seq(Chars)
          /\ Len(behind) = IF b + 1 <= Len(text) THEN Len(text) - (b + 1) + 1 ELSE 0
          /\ \A i \in 1 .. Len(text) - (b + 1) + 1 : behind[i] = text[(b + 1) + i - 1]
          BY <3>1, <3>2, SubSeqProperties
    <3> HIDE DEF behind
    <3>4. \A i \in 1 .. Len(text) - b :
             i \in 1 .. Len(text) - (b + 1) + 1 /\ (b + 1) + i - 1 = b + i
          BY <3>2
    <3>5. Len(behind) = Len(text) - b
          BY <3>2, <3>3
    <3> QED BY <3>3, <3>4, <3>5
  <2>13. /\ middle \in Seq(Chars) /\ Len(middle) = b - a + 1
         /\ middle[1] = text[a] /\ middle[b - a + 1] = text[b]
    <3>1. \A i \in a .. b : text[i] \in Chars
          BY <1>0, <2>6, <2>10
    <3>2. a \in Int /\ b \in Int /\ a <= b
          BY <2>6
    <3>3. /\ middle \in Seq(Chars) /\ Len(middle) = b - a + 1
          /\ \A i \in 1 .. b - a + 1 : middle[i] = text[a + i - 1]
          BY <3>1, <3>2, SubSeqProperties
    <3> HIDE DEF middle
    <3>4. 1 \in 1 .. b - a + 1 /\ b - a + 1 \in 1 .. b - a + 1 /\ a + 1 - 1 = a /\ a + (b - a + 1) - 1 = b
          BY <3>2
    <3> QED BY <3>3, <3>4
  <2>14. text = (before \o middle) \o behind
    <3>1. before \o middle = SubSeq(text, 1, b)
      <4>1. /\ 1 \in 1 .. Len(text) + 1 /\ a - 1 \in 1 - 1 .. Len(text)
            /\ b \in a - 1 .. Len(text) /\ (a - 1) + 1 = a
            BY <1>0, <2>6
      <4>2. SubSeq(text, 1, a - 1) \o SubSeq(text, (a - 1) + 1, b) = SubSeq(text, 1, b)
            BY <4>1, ConcatAdjacentSubSeq
      <4> QED BY <4>1, <4>2
    <3>2. SubSeq(text, 1, b) \o behind = SubSeq(text, 1, Len(text))
      <4>1. /\ 1 \in 1 .. Len(text) + 1 /\ b \in 1 - 1 .. Len(text)
            /\ Len(text) \in b .. Len(text)
            BY <1>0, <2>6
      <4> QED BY <4>1, ConcatAdjacentSubSeq
    <3>3. SubSeq(text, 1, Len(text)) = text
          BY SubSeqFull
    <3> QED BY <3>1, <3>2, <3>3
  <2> HIDE DEF before, middle, behind
  <2>15. N(text) = N(before \o middle)
    <3>1. \A i \in 1 .. Len(behind) : behind[i] \in Separators
      <4>1. \A i \in 1 .. Len(text) - b : b + i \in b + 1 .. Len(text)
            BY <1>0, <2>6
      <4> QED BY <2>9, <2>12, <4>1
    <3>2. before \o middle \in Seq(Chars)
          BY <2>11, <2>13, ConcatProperties
    <3> QED BY <2>12, <2>14, <3>1, <3>2, SeparatorsBehind DEF N
  <2>16. N(before \o middle) = N(middle)
    <3>1. \A i \in 1 .. Len(before) : before[i] \in Separators
          BY <2>8, <2>11
    <3> QED BY <2>11, <2>13, <3>1, SeparatorsBefore DEF N
  <2>17. Last(middle) = text[b]
        BY <2>13 DEF Last
  <2>18. Trim(text, set) = middle
        BY <2>4 DEF middle, a, b
  <2> QED BY <2>7, <2>13, <2>15, <2>16, <2>17, <2>18 DEF N
<1> QED BY <1>1, <1>2

-----------------------------------------------------------------------------
(* Where a wake word ends                                                  *)

\* A text begins with another if it has the same characters as far as that goes.
LEMMA PrefixIs ==
    ASSUME NEW s \in Seq(Chars), NEW t \in Seq(Chars)
    PROVE  IsPrefix(s, t) <=> Len(s) <= Len(t) /\ \A i \in 1 .. Len(s) : s[i] = t[i]
PROOF
<1>1. Len(s) \in Nat /\ Len(t) \in Nat /\ SubSeq(s, 1, Len(s)) = s
      BY SubSeqFull
<1>2. ASSUME Len(s) <= Len(t)
      PROVE  /\ SubSeq(t, 1, Len(s)) \in Seq(Chars) /\ Len(SubSeq(t, 1, Len(s))) = Len(s)
             /\ \A i \in 1 .. Len(s) : SubSeq(t, 1, Len(s))[i] = t[i]
  <2>1. Len(s) \in 0 .. Len(t)
        BY <1>1, <1>2
  <2> QED BY <2>1, Beginning
<1>3. ASSUME Len(s) <= Len(t), \A i \in 1 .. Len(s) : s[i] = t[i]
      PROVE  s = SubSeq(t, 1, Len(s))
  <2> DEFINE u == SubSeq(t, 1, Len(s))
  <2>1. u \in Seq(Chars) /\ Len(s) = Len(u) /\ \A i \in 1 .. Len(s) : s[i] = u[i]
        BY <1>2, <1>3
  <2> HIDE DEF u
  <2>2. s = u
        BY <2>1, SeqEqual
  <2> QED BY <2>2 DEF u
<1> QED BY <1>1, <1>2, <1>3 DEF IsPrefix

\* How a composed text goes on when the text does: x is what its last character has
\* become, `marks' what has joined it, and `behind' what has come after them.  Of
\* the rest of the text alone, the same marks are composed to themselves.
Goes(text, more, front, b, x, marks, behind) ==
    /\ Compose(text \o more) = Append(front, x) \o behind
    /\ Compose(more) = marks \o behind
    /\ Decomposed[x] = Decomposed[b] \o marks
    /\ b \notin Separators => x \notin Separators
    /\ behind = <<>> => \A c \in Chars : Added(marks, c) = Append(marks, c)

\* A mark joins it.
LEMMA MarkJoins ==
    ASSUME NEW text \in Seq(Chars), NEW more \in Seq(Chars), NEW front \in Seq(Chars),
           NEW b \in Chars, NEW x \in Chars, NEW marks \in Seq(Chars),
           Goes(text, more, front, b, x, marks, <<>>),
           NEW c \in Chars, <<x, c>> \in DOMAIN Composed
    PROVE  Goes(text, Append(more, c), front, b, Composed[<<x, c>>], Append(marks, c), <<>>)
PROOF
<1> DEFINE y == Composed[<<x, c>>]
           next == Append(marks, c)
<1>1. /\ y \in Chars /\ y \notin Separators
      /\ \A d : <<c, d>> \notin DOMAIN Composed
      /\ Decomposed[y] = Append(Decomposed[x], c)
      BY Pair
<1> HIDE DEF y
<1>2. next \in Seq(Chars) /\ next \o <<>> = next /\ marks \o <<>> = marks
      BY LastOf, ConcatEmptySeq
<1>3. /\ Append(front, x) \in Seq(Chars) /\ Append(front, x) \o <<>> = Append(front, x)
      /\ Append(front, y) \in Seq(Chars) /\ Append(front, y) \o <<>> = Append(front, y)
      BY <1>1, LastOf, ConcatEmptySeq
<1>4. Compose(text \o Append(more, c)) = Append(front, y)
  <2>1. text \o more \in Seq(Chars) /\ text \o Append(more, c) = Append(text \o more, c)
        BY ConcatAppend
  <2>2. Compose(Append(text \o more, c)) = Added(Compose(text \o more), c)
        BY <2>1, ComposeSteps
  <2>3. Compose(text \o more) = Append(front, x)
        BY <1>3 DEF Goes
  <2>4. Added(Append(front, x), c) = Append(front, y)
        BY AddedIs DEF y
  <2> QED BY <2>1, <2>2, <2>3, <2>4
<1>5. Compose(Append(more, c)) = next
  <2>1. Compose(Append(more, c)) = Added(Compose(more), c)
        BY ComposeSteps
  <2>2. Compose(more) = marks
        BY <1>2 DEF Goes
  <2>3. Added(marks, c) = Append(marks, c)
        BY DEF Goes
  <2> QED BY <2>1, <2>2, <2>3
<1>6. Decomposed[y] = Decomposed[b] \o next
  <2>1. Decomposed[b] \in Seq(Chars)
        BY MatchAssumption
  <2>2. Decomposed[x] = Decomposed[b] \o marks
        BY DEF Goes
  <2>3. Decomposed[b] \o Append(marks, c) = Append(Decomposed[b] \o marks, c)
        BY <2>1, ConcatAppend
  <2> QED BY <1>1, <2>2, <2>3
<1>7. ASSUME NEW d \in Chars PROVE Added(next, d) = Append(next, d)
      BY <1>1, AddedIs
<1> HIDE DEF next
<1>8. Goes(text, Append(more, c), front, b, y, next, <<>>)
      BY <1>1, <1>2, <1>3, <1>4, <1>5, <1>6, <1>7 DEF Goes
<1> QED BY <1>8 DEF y, next

\* Another character comes after it.
LEMMA CharacterFollows ==
    ASSUME NEW text \in Seq(Chars), NEW more \in Seq(Chars), NEW front \in Seq(Chars),
           NEW b \in Chars, NEW x \in Chars, NEW marks \in Seq(Chars),
           Goes(text, more, front, b, x, marks, <<>>),
           NEW c \in Chars, <<x, c>> \notin DOMAIN Composed
    PROVE  Goes(text, Append(more, c), front, b, x, marks, <<c>>)
PROOF
<1>1. /\ Append(front, x) \in Seq(Chars) /\ Append(front, x) \o <<>> = Append(front, x)
      /\ Append(Append(front, x), c) = Append(front, x) \o <<c>>
      BY LastOf, ConcatEmptySeq, AppendIsConcat
<1>2. marks \o <<>> = marks /\ Append(marks, c) = marks \o <<c>>
      BY ConcatEmptySeq, AppendIsConcat
<1>3. Compose(text \o Append(more, c)) = Append(front, x) \o <<c>>
  <2>1. text \o more \in Seq(Chars) /\ text \o Append(more, c) = Append(text \o more, c)
        BY ConcatAppend
  <2>2. Compose(Append(text \o more, c)) = Added(Compose(text \o more), c)
        BY <2>1, ComposeSteps
  <2>3. Compose(text \o more) = Append(front, x)
        BY <1>1 DEF Goes
  <2>4. Added(Append(front, x), c) = Append(Append(front, x), c)
        BY AddedIs
  <2> QED BY <1>1, <2>1, <2>2, <2>3, <2>4
<1>4. Compose(Append(more, c)) = marks \o <<c>>
  <2>1. Compose(Append(more, c)) = Added(Compose(more), c)
        BY ComposeSteps
  <2>2. Compose(more) = marks
        BY <1>2 DEF Goes
  <2>3. Added(marks, c) = Append(marks, c)
        BY DEF Goes
  <2> QED BY <1>2, <2>1, <2>2, <2>3
<1>5. <<c>> # <<>>
      OBVIOUS
<1>6. Decomposed[x] = Decomposed[b] \o marks /\ (b \notin Separators => x \notin Separators)
      BY DEF Goes
<1> QED BY <1>3, <1>4, <1>5, <1>6 DEF Goes

\* From then on both are composed alike.
LEMMA BothGoOn ==
    ASSUME NEW text \in Seq(Chars), NEW more \in Seq(Chars), NEW front \in Seq(Chars),
           NEW b \in Chars, NEW x \in Chars, NEW marks \in Seq(Chars),
           NEW t \in Seq(Chars), NEW d \in Chars,
           Goes(text, more, front, b, x, marks, Append(t, d)), NEW c \in Chars
    PROVE  \E behind \in Seq(Chars) : Goes(text, Append(more, c), front, b, x, marks, behind)
PROOF
<1> DEFINE start == Append(front, x)
<1>1. start \in Seq(Chars)
      BY LastOf
<1> HIDE DEF start
<1>2. ASSUME NEW s \in Seq(Chars)
      PROVE  /\ s \o t \in Seq(Chars)
             /\ s \o Append(t, d) = Append(s \o t, d)
             /\ \A e \in Chars : s \o Append(t, e) = Append(s \o t, e)
             /\ s \o Append(Append(t, d), c) = Append(Append(s \o t, d), c)
  <2>1. \A u \in Seq(Chars), e \in Chars : s \o u \in Seq(Chars) /\ s \o Append(u, e) = Append(s \o u, e)
        BY ConcatAppend
  <2>2. Append(t, d) \in Seq(Chars)
        BY LastOf
  <2> QED BY <2>1, <2>2
<1>3. Compose(text \o Append(more, c)) = Added(Append(start \o t, d), c)
  <2>1. text \o more \in Seq(Chars) /\ text \o Append(more, c) = Append(text \o more, c)
        BY ConcatAppend
  <2>2. Compose(Append(text \o more, c)) = Added(Compose(text \o more), c)
        BY <2>1, ComposeSteps
  <2>3. Compose(text \o more) = start \o Append(t, d)
        BY DEF Goes, start
  <2> QED BY <1>1, <1>2, <2>1, <2>2, <2>3
<1>4. Compose(Append(more, c)) = Added(Append(marks \o t, d), c)
  <2>1. Compose(Append(more, c)) = Added(Compose(more), c)
        BY ComposeSteps
  <2>2. Compose(more) = marks \o Append(t, d)
        BY DEF Goes
  <2> QED BY <1>2, <2>1, <2>2
<1>5. Decomposed[x] = Decomposed[b] \o marks /\ (b \notin Separators => x \notin Separators)
      BY DEF Goes
<1>6. CASE <<d, c>> \in DOMAIN Composed
  <2> DEFINE e == Composed[<<d, c>>]
  <2>1. e \in Chars
        BY <1>6, Pair
  <2>2. \A s \in Seq(Chars) : Added(Append(s, d), c) = Append(s, e)
        BY <1>6, AddedIs
  <2> HIDE DEF e
  <2>3. Append(t, e) \in Seq(Chars) /\ Append(t, e) # <<>>
        BY <2>1, LastOf
  <2>7. ASSUME NEW s \in Seq(Chars) PROVE Added(Append(s \o t, d), c) = s \o Append(t, e)
    <3>1. s \o t \in Seq(Chars)
          BY <1>2
    <3>2. s \o Append(t, e) = Append(s \o t, e)
          BY <1>2, <2>1, Zenon
    <3>3. Added(Append(s \o t, d), c) = Append(s \o t, e)
          BY <2>2, <3>1, Zenon
    <3> QED BY <3>2, <3>3, Zenon
  <2>4. Compose(text \o Append(more, c)) = start \o Append(t, e)
        BY <1>1, <1>3, <2>7, Zenon
  <2>5. Compose(Append(more, c)) = marks \o Append(t, e)
        BY <1>4, <2>7, Zenon
  <2>6. Goes(text, Append(more, c), front, b, x, marks, Append(t, e))
        BY <1>5, <2>3, <2>4, <2>5 DEF Goes, start
  <2> QED BY <2>3, <2>6
<1>7. CASE <<d, c>> \notin DOMAIN Composed
  <2> DEFINE z == Append(Append(t, d), c)
  <2>1. z \in Seq(Chars) /\ z # <<>>
        BY LastOf
  <2>2. \A s \in Seq(Chars) : Added(Append(s, d), c) = Append(Append(s, d), c)
        BY <1>7, AddedIs
  <2>3. ASSUME NEW s \in Seq(Chars) PROVE Added(Append(s \o t, d), c) = s \o z
    <3>1. s \o t \in Seq(Chars)
          BY <1>2
    <3>2. s \o z = Append(Append(s \o t, d), c)
          BY <1>2, Zenon
    <3>3. Added(Append(s \o t, d), c) = Append(Append(s \o t, d), c)
          BY <2>2, <3>1, Zenon
    <3> QED BY <3>2, <3>3, Zenon
  <2> HIDE DEF z
  <2>4. Compose(text \o Append(more, c)) = start \o z
        BY <1>1, <1>3, <2>3, Zenon
  <2>5. Compose(Append(more, c)) = marks \o z
        BY <1>4, <2>3, Zenon
  <2>6. Goes(text, Append(more, c), front, b, x, marks, z)
        BY <1>5, <2>1, <2>4, <2>5 DEF Goes, start
  <2> QED BY <2>1, <2>6
<1> QED BY <1>6, <1>7

\* So it is for every text that goes on.
LEMMA GoesOn ==
    ASSUME NEW text \in Seq(Chars), NEW more \in Seq(Chars), NEW front \in Seq(Chars),
           NEW b \in Chars, Compose(text) = Append(front, b)
    PROVE  \E x \in Chars, marks \in Seq(Chars), behind \in Seq(Chars) :
             Goes(text, more, front, b, x, marks, behind)
PROOF
<1> DEFINE E(u) == \E x \in Chars, marks \in Seq(Chars), behind \in Seq(Chars) :
                     Goes(text, u, front, b, x, marks, behind)
           T == {u \in Seq(Chars) : E(u)}
<1>1. <<>> \in T
  <2>1. /\ <<>> \in Seq(Chars) /\ text \o <<>> = text /\ <<>> \o <<>> = <<>>
        /\ Append(front, b) \o <<>> = Append(front, b)
    <3>1. Append(front, b) \in Seq(Chars) /\ <<>> \in Seq(Chars)
          BY LastOf
    <3> QED BY <3>1, ConcatEmptySeq
  <2>2. Decomposed[b] \o <<>> = Decomposed[b]
    <3>1. Decomposed[b] \in Seq(Chars)
          BY MatchAssumption
    <3> QED BY <3>1, ConcatEmptySeq
  <2>3. \A c \in Chars : Added(<<>>, c) = Append(<<>>, c)
    <3>1. \A c \in Chars : Append(<<>>, c) = <<c>>
          OBVIOUS
    <3> QED BY <3>1, AddedIs
  <2>4. Goes(text, <<>>, front, b, b, <<>>, <<>>)
        BY <2>1, <2>2, <2>3, ComposeSteps DEF Goes
  <2> QED BY <2>1, <2>4
<1>2. ASSUME NEW u \in T, NEW c \in Chars PROVE Append(u, c) \in T
  <2>1. u \in Seq(Chars) /\ E(u) /\ Append(u, c) \in Seq(Chars)
        OBVIOUS
  <2>2. PICK x \in Chars, marks \in Seq(Chars), behind \in Seq(Chars) :
          Goes(text, u, front, b, x, marks, behind)
        BY <2>1
  <2>3. <<c>> \in Seq(Chars) /\ <<>> \in Seq(Chars) /\ Append(marks, c) \in Seq(Chars)
        OBVIOUS
  <2>4. CASE behind = <<>> /\ <<x, c>> \in DOMAIN Composed
    <3>1. Goes(text, Append(u, c), front, b, Composed[<<x, c>>], Append(marks, c), <<>>)
          BY <2>1, <2>2, <2>4, MarkJoins
    <3>2. Composed[<<x, c>>] \in Chars
          BY <2>4, Pair
    <3>3. E(Append(u, c))
          BY <2>3, <3>1, <3>2
    <3> QED BY <2>1, <3>3
  <2>5. CASE behind = <<>> /\ <<x, c>> \notin DOMAIN Composed
    <3>1. Goes(text, Append(u, c), front, b, x, marks, <<c>>)
          BY <2>1, <2>2, <2>5, CharacterFollows
    <3>2. E(Append(u, c))
          BY <2>3, <3>1
    <3> QED BY <2>1, <3>2
  <2>6. CASE behind # <<>>
    <3>1. PICK t \in Seq(Chars), d \in Chars : behind = Append(t, d)
          BY <2>6, SequenceEmptyOrAppend
    <3>2. \E z \in Seq(Chars) : Goes(text, Append(u, c), front, b, x, marks, z)
          BY <2>1, <2>2, <3>1, BothGoOn
    <3>3. E(Append(u, c))
          BY <3>2
    <3> QED BY <2>1, <3>3
  <2> QED BY <2>4, <2>5, <2>6
<1>3. T = Seq(Chars)
  <2>1. T \in SUBSET Seq(Chars)
        OBVIOUS
  <2> HIDE DEF T
  <2> QED BY <1>1, <1>2, <2>1, TextInduction
<1>4. more \in T
  <2> HIDE DEF T
  <2> QED BY <1>3
<1> QED BY <1>4

\* A character that a base has become folds to what the base and the marks do,
\* unless its first character is another.
LEMMA PartGrows ==
    ASSUME NEW b \in Chars, NEW x \in Chars, NEW marks \in Seq(Chars),
           Decomposed[x] = Decomposed[b] \o marks,
           b \notin Separators, x \notin Separators, Folded[b][1] = Folded[x][1]
    PROVE  Part(x) = Part(b) \o Rest(marks)
PROOF
<1> DEFINE D == Decomposed[b]
           E == Decomposed[x]
<1>1. D \in Seq(Chars) /\ E \in Seq(Chars)
      BY MatchAssumption
<1>2. IsPrefix(D, E) =>
          Folded[x] = Folded[b] \o WithoutSeparators(Fold(SubSeq(E, Len(D) + 1, Len(E))))
  <2>1. \A y, z \in Chars :
          IsPrefix(Decomposed[y], Decomposed[z]) /\ Folded[y][1] = Folded[z][1] =>
            Folded[z] = Folded[y] \o WithoutSeparators(Fold(
                SubSeq(Decomposed[z], Len(Decomposed[y]) + 1, Len(Decomposed[z]))))
        BY MatchAssumption, Zenon
  <2> QED BY <2>1, Zenon
<1>3. E = D \o marks
      OBVIOUS
<1> HIDE DEF D, E
<1>4. /\ Len(E) = Len(D) + Len(marks) /\ Len(D) \in Nat /\ Len(marks) \in Nat
      /\ \A i \in 1 .. Len(D) + Len(marks) : E[i] = IF i <= Len(D) THEN D[i] ELSE marks[i - Len(D)]
      BY <1>1, <1>3, ConcatProperties
<1>5. IsPrefix(D, E)
  <2>1. \A i \in 1 .. Len(D) : i \in 1 .. Len(D) + Len(marks) /\ i <= Len(D)
        BY <1>4
  <2>2. Len(D) <= Len(E) /\ \A i \in 1 .. Len(D) : D[i] = E[i]
        BY <1>4, <2>1
  <2> QED BY <1>1, <2>2, PrefixIs
<1>6. marks = SubSeq(E, Len(D) + 1, Len(E))
  <2> DEFINE tail == SubSeq(E, Len(D) + 1, Len(E))
  <2>1. Len(D) + 1 \in Int /\ Len(E) \in Int
        BY <1>4
  <2>2. \A i \in Len(D) + 1 .. Len(E) : E[i] \in Chars
    <3>1. \A i \in Len(D) + 1 .. Len(E) : i \in 1 .. Len(E)
          BY <1>4
    <3> QED BY <1>1, <3>1
  <2>3. /\ tail \in Seq(Chars)
        /\ Len(tail) = IF Len(D) + 1 <= Len(E) THEN Len(E) - (Len(D) + 1) + 1 ELSE 0
        /\ \A i \in 1 .. Len(E) - (Len(D) + 1) + 1 : tail[i] = E[(Len(D) + 1) + i - 1]
        BY <2>1, <2>2, SubSeqProperties
  <2> HIDE DEF tail
  <2>4. Len(tail) = Len(marks)
        BY <1>4, <2>3
  <2>5. ASSUME NEW i \in 1 .. Len(marks) PROVE marks[i] = tail[i]
    <3>1. /\ i \in 1 .. Len(E) - (Len(D) + 1) + 1 /\ (Len(D) + 1) + i - 1 = Len(D) + i
          /\ Len(D) + i \in 1 .. Len(D) + Len(marks) /\ ~ (Len(D) + i <= Len(D))
          /\ (Len(D) + i) - Len(D) = i
          BY <1>4
    <3>2. tail[i] = E[Len(D) + i]
          BY <2>3, <3>1
    <3>3. E[Len(D) + i] = marks[i]
          BY <1>4, <3>1
    <3> QED BY <3>2, <3>3
  <2>6. marks = tail
        BY <2>3, <2>4, <2>5, SeqEqual
  <2> QED BY <2>6 DEF tail
<1>7. Folded[x] = Folded[b] \o Rest(marks)
      BY <1>2, <1>5, <1>6 DEF Rest
<1> QED BY <1>7 DEF Part

\* The last character of a text is composed into the last one there is; the rest of
\* what is composed was so without it, but for a last one that it may have changed.
LEMMA LastComposed ==
    ASSUME NEW text \in Seq(Chars), NEW c \in Chars
    PROVE  \E front \in Seq(Chars), b \in Chars :
             /\ Compose(Append(text, c)) = Append(front, b)
             /\ \E more \in Seq(Chars) : normalize_for_match(text) = Rest(front) \o more
PROOF
<1> DEFINE done == Compose(text)
<1>1. /\ done \in Seq(Chars) /\ Compose(Append(text, c)) = Added(done, c)
      /\ normalize_for_match(text) = Rest(done) /\ Rest(done) \in Seq(Chars)
      BY ComposeSteps, NormalIs, RestSteps
<1> HIDE DEF done
<1>2. CASE Added(done, c) = Append(done, c)
  <2>1. Rest(done) \o <<>> = Rest(done) /\ <<>> \in Seq(Chars)
        BY <1>1, ConcatEmptySeq
  <2>2. normalize_for_match(text) = Rest(done) \o <<>>
        BY <1>1, <2>1
  <2>3. \E more \in Seq(Chars) : normalize_for_match(text) = Rest(done) \o more
        BY <2>1, <2>2
  <2> QED BY <1>1, <1>2, <2>3
<1>3. CASE Added(done, c) # Append(done, c)
  <2>1. done # <<>>
    <3>1. Append(<<>>, c) = <<c>>
          OBVIOUS
    <3> QED BY <1>3, <3>1, AddedIs
  <2>2. PICK s \in Seq(Chars), d \in Chars : done = Append(s, d)
        BY <1>1, <2>1, SequenceEmptyOrAppend
  <2>3. <<d, c>> \in DOMAIN Composed /\ Added(done, c) = Append(s, Composed[<<d, c>>])
        BY <1>3, <2>2, AddedIs
  <2>4. Composed[<<d, c>>] \in Chars
        BY <2>3, Pair
  <2>5. Rest(done) = Rest(s) \o Part(d) /\ Part(d) \in Seq(Chars)
        BY <2>2, RestSteps, PartTypes
  <2>6. \E more \in Seq(Chars) : normalize_for_match(text) = Rest(s) \o more
        BY <1>1, <2>5
  <2> QED BY <1>1, <2>3, <2>4, <2>6
<1> QED BY <1>2, <1>3

\* Where two texts begin with a third that reaches beyond what they have in common,
\* what follows that begins alike.
LEMMA BeginAlike ==
    ASSUME NEW a \in Seq(Chars), NEW s \in Seq(Chars), NEW t \in Seq(Chars), NEW u \in Seq(Chars),
           IsPrefix(a, s \o t), IsPrefix(a, s \o u), Len(s) < Len(a)
    PROVE  t # <<>> /\ u # <<>> /\ t[1] = u[1]
PROOF
<1> DEFINE n == Len(s) + 1
<1>1. Len(s) \in Nat /\ Len(t) \in Nat /\ Len(u) \in Nat /\ Len(a) \in Nat
      OBVIOUS
<1>2. ASSUME NEW v \in Seq(Chars), IsPrefix(a, s \o v) PROVE v # <<>> /\ a[n] = v[1]
  <2>1. /\ s \o v \in Seq(Chars) /\ Len(s \o v) = Len(s) + Len(v) /\ Len(v) \in Nat
        /\ \A i \in 1 .. Len(s) + Len(v) : (s \o v)[i] = IF i <= Len(s) THEN s[i] ELSE v[i - Len(s)]
        BY ConcatProperties
  <2>2. Len(a) <= Len(s \o v) /\ \A i \in 1 .. Len(a) : a[i] = (s \o v)[i]
        BY <1>2, <2>1, PrefixIs
  <2>3. n \in 1 .. Len(a) /\ n \in 1 .. Len(s) + Len(v) /\ ~ (n <= Len(s)) /\ n - Len(s) = 1 /\ Len(v) > 0
    <3>1. Len(a) <= Len(s) + Len(v)
          BY <2>1, <2>2
    <3> QED BY <1>1, <2>1, <3>1
  <2>4. a[n] = (s \o v)[n]
        BY <2>2, <2>3
  <2>5. (s \o v)[n] = v[1]
        BY <2>1, <2>3
  <2>6. v # <<>>
        BY <2>3
  <2> QED BY <2>4, <2>5, <2>6
<1> HIDE DEF n
<1> QED BY <1>2

\* A prefix that is not longer than the first of two texts is one of that alone.
LEMMA ShortPrefix ==
    ASSUME NEW a \in Seq(Chars), NEW s \in Seq(Chars), NEW t \in Seq(Chars), NEW u \in Seq(Chars),
           IsPrefix(a, s \o t), Len(a) <= Len(s)
    PROVE  IsPrefix(a, s \o u)
PROOF
<1>1. Len(s) \in Nat /\ Len(t) \in Nat /\ Len(u) \in Nat /\ Len(a) \in Nat
      OBVIOUS
<1>2. /\ s \o t \in Seq(Chars) /\ Len(s \o t) = Len(s) + Len(t)
      /\ \A i \in 1 .. Len(s) + Len(t) : (s \o t)[i] = IF i <= Len(s) THEN s[i] ELSE t[i - Len(s)]
      BY ConcatProperties
<1>3. /\ s \o u \in Seq(Chars) /\ Len(s \o u) = Len(s) + Len(u)
      /\ \A i \in 1 .. Len(s) + Len(u) : (s \o u)[i] = IF i <= Len(s) THEN s[i] ELSE u[i - Len(s)]
      BY ConcatProperties
<1>4. \A i \in 1 .. Len(a) :
         i \in 1 .. Len(s) + Len(t) /\ i \in 1 .. Len(s) + Len(u) /\ i <= Len(s)
      BY <1>1
<1>5. \A i \in 1 .. Len(a) : a[i] = (s \o t)[i]
      BY <1>2, PrefixIs
<1>6. \A i \in 1 .. Len(a) : a[i] = (s \o u)[i]
      BY <1>2, <1>3, <1>4, <1>5
<1>7. Len(a) <= Len(s \o u)
      BY <1>1, <1>3
<1> QED BY <1>3, <1>6, <1>7, PrefixIs

\* What is compared of a composed text around one of its characters.
LEMMA RestAround ==
    ASSUME NEW front \in Seq(Chars), NEW x \in Chars, NEW behind \in Seq(Chars)
    PROVE  Rest(Append(front, x) \o behind) = Rest(front) \o (Part(x) \o Rest(behind))
PROOF
<1>1. Append(front, x) \in Seq(Chars)
      BY LastOf
<1>2. Rest(Append(front, x) \o behind) = Rest(Append(front, x)) \o Rest(behind)
      BY <1>1, RestConcat
<1>3. Rest(Append(front, x)) = Rest(front) \o Part(x)
      BY RestSteps
<1>4. Rest(front) \in Seq(Chars) /\ Part(x) \in Seq(Chars) /\ Rest(behind) \in Seq(Chars)
      BY RestSteps, PartTypes
<1>5. Associated(Rest(front), Part(x), Rest(behind))
      BY <1>4, Associates
<1> QED BY <1>2, <1>3, <1>5, Zenon DEF Associated

\* A text in four parts, put together from either side.
FourParts(s, t, u, v) == s \o ((t \o u) \o v) = (s \o t) \o (u \o v)

\* It does not matter from which.
LEMMA PutTogether ==
    ASSUME NEW s \in Seq(Chars), NEW t \in Seq(Chars), NEW u \in Seq(Chars), NEW v \in Seq(Chars)
    PROVE  FourParts(s, t, u, v)
PROOF
<1> DEFINE p == u \o v
<1>1. p \in Seq(Chars)
      BY ConcatProperties
<1>2. Associated(t, u, v)
      BY Associates
<1> HIDE DEF p
<1>3. Associated(s, t, p)
      BY <1>1, Associates
<1>4. s \o ((t \o u) \o v) = s \o (t \o p)
      BY <1>2, Zenon DEF Associated, p
<1>5. (s \o t) \o p = s \o (t \o p)
      BY <1>3, Zenon DEF Associated
<1> QED BY <1>4, <1>5, Zenon DEF p, FourParts

\* What is compared of a text, of the one it goes on to, and of the rest.
Compared(text, more, front, b, x, marks, behind) ==
    /\ normalize_for_match(text) = Rest(front) \o Part(b)
    /\ normalize_for_match(text \o more) = Rest(front) \o (Part(x) \o Rest(behind))
    /\ normalize_for_match(more) = Rest(marks) \o Rest(behind)

\* It is what the composed texts say.
LEMMA GoesCompared ==
    ASSUME NEW text \in Seq(Chars), NEW more \in Seq(Chars), NEW front \in Seq(Chars),
           NEW b \in Chars, NEW x \in Chars, NEW marks \in Seq(Chars), NEW behind \in Seq(Chars),
           Compose(text) = Append(front, b), Goes(text, more, front, b, x, marks, behind)
    PROVE  Compared(text, more, front, b, x, marks, behind)
PROOF
<1>1. normalize_for_match(text) = Rest(front) \o Part(b)
      BY NormalIs, RestSteps
<1>2. text \o more \in Seq(Chars)
      BY ConcatAppend
<1>3. normalize_for_match(text \o more) = Rest(Compose(text \o more))
      BY <1>2, NormalIs
<1>4. Compose(text \o more) = Append(front, x) \o behind /\ Compose(more) = marks \o behind
      BY DEF Goes
<1>5. Rest(Append(front, x) \o behind) = Rest(front) \o (Part(x) \o Rest(behind))
      BY RestAround
<1>6. normalize_for_match(more) = Rest(Compose(more))
      BY NormalIs
<1>7. Rest(marks \o behind) = Rest(marks) \o Rest(behind)
      BY RestConcat
<1> QED BY <1>1, <1>3, <1>4, <1>5, <1>6, <1>7 DEF Compared

\* Nothing that is compared of two texts is lost between them.
Apart(text, more) ==
    normalize_for_match(text \o more) = normalize_for_match(text) \o normalize_for_match(more)

\* If the last character folds to what it did and what the marks do, then it is so.
LEMMA GoesApart ==
    ASSUME NEW text \in Seq(Chars), NEW more \in Seq(Chars), NEW front \in Seq(Chars),
           NEW b \in Chars, NEW x \in Chars, NEW marks \in Seq(Chars), NEW behind \in Seq(Chars),
           Compared(text, more, front, b, x, marks, behind),
           Part(x) = Part(b) \o Rest(marks)
    PROVE  Apart(text, more)
PROOF
<1>1. /\ Rest(front) \in Seq(Chars) /\ Part(b) \in Seq(Chars)
      /\ Rest(marks) \in Seq(Chars) /\ Rest(behind) \in Seq(Chars)
      BY RestSteps, PartTypes
<1>2. FourParts(Rest(front), Part(b), Rest(marks), Rest(behind))
      BY <1>1, PutTogether
<1> QED BY <1>2 DEF FourParts, Compared, Apart

\* The wake word ends where the beginning of the text that is compared first begins
\* with it: what is compared of the text is that of the two sides, and before the
\* end there is no more than the wake word and the rest of what its last character
\* folds to.
LEMMA WordEnds ==
    ASSUME NEW text \in Seq(Chars), NEW a \in Seq(Chars), a # <<>>,
           NEW n \in 1 .. Len(text),
           IsPrefix(a, normalize_for_match(SubSeq(text, 1, n))),
           \A k \in 1 .. Len(text) :
             IsPrefix(a, normalize_for_match(SubSeq(text, 1, k))) => n <= k,
           IsPrefix(a, normalize_for_match(text))
    PROVE  /\ normalize_for_match(text) =
                  normalize_for_match(SubSeq(text, 1, n))
                  \o normalize_for_match(SubSeq(text, n + 1, Len(text)))
           /\ \E c \in Chars :
                Len(normalize_for_match(SubSeq(text, 1, n))) < Len(a) + Len(Folded[c])
PROOF
<1> DEFINE N(t) == normalize_for_match(t)
           before == SubSeq(text, 1, n - 1)
           word == SubSeq(text, 1, n)
           after == SubSeq(text, n + 1, Len(text))
<1>1. /\ n \in Nat /\ n - 1 \in Nat /\ Len(text) \in Nat /\ n <= Len(text)
      /\ n - 1 \in 0 .. Len(text) /\ n \in 0 .. Len(text) /\ text[n] \in Chars
      OBVIOUS
<1>2. /\ before \in Seq(Chars) /\ Len(before) = n - 1
      /\ \A i \in 1 .. n - 1 : before[i] = text[i]
      BY <1>1, Beginning
<1>3. word \in Seq(Chars) /\ Len(word) = n /\ \A i \in 1 .. n : word[i] = text[i]
      BY <1>1, Beginning
<1>4. after \in Seq(Chars) /\ text = word \o after
  <2>1. \A i \in n + 1 .. Len(text) : text[i] \in Chars
    <3>1. \A i \in n + 1 .. Len(text) : i \in 1 .. Len(text)
          BY <1>1
    <3> QED BY <3>1
  <2>2. n + 1 \in Int /\ Len(text) \in Int
        BY <1>1
  <2>3. after \in Seq(Chars)
        BY <2>1, <2>2, SubSeqProperties
  <2>4. 1 \in 1 .. Len(text) + 1 /\ n \in 1 - 1 .. Len(text) /\ Len(text) \in n .. Len(text)
        BY <1>1
  <2>5. word \o after = SubSeq(text, 1, Len(text))
        BY <2>4, ConcatAdjacentSubSeq
  <2> QED BY <2>3, <2>5, SubSeqFull
<1>5. ~ IsPrefix(a, N(before))
  <2>1. CASE n = 1
    <3>1. before = <<>>
          BY <1>2, <2>1, EmptySeq
    <3>2. N(before) = <<>>
      <4> HIDE DEF before
      <4> QED BY <3>1, NormalOfNothing
    <3>3. <<>> \in Seq(Chars) /\ Len(<<>>) = 0
          BY EmptySeq
    <3>4. Len(a) \in Nat \ {0}
          BY EmptySeq
    <3>5. ~ (Len(a) <= 0)
          BY <3>4
    <3> HIDE DEF N, before
    <3> QED BY <3>2, <3>3, <3>5, PrefixIs
  <2>2. CASE n # 1
    <3>1. n - 1 \in 1 .. Len(text) /\ ~ (n <= n - 1)
          BY <1>1, <2>2
    <3> QED BY <3>1
  <2> QED BY <2>1, <2>2
<1>6. IsPrefix(a, N(word)) /\ IsPrefix(a, N(text))
      OBVIOUS
<1> HIDE DEF before, word, after
<1>7. word = Append(before, text[n])
  <2>1. /\ Append(before, text[n]) \in Seq(Chars) /\ Len(Append(before, text[n])) = n
        /\ \A i \in 1 .. n - 1 : Append(before, text[n])[i] = before[i]
        /\ Append(before, text[n])[n] = text[n]
    <3>1. (n - 1) + 1 = n
          BY <1>1
    <3> QED BY <1>1, <1>2, <3>1, AppendProperties
  <2>2. ASSUME NEW i \in 1 .. n PROVE Append(before, text[n])[i] = text[i]
    <3>1. i = n \/ i \in 1 .. n - 1
          BY <1>1
    <3> QED BY <1>2, <2>1, <3>1
  <2> QED BY <1>3, <2>1, <2>2, SeqEqual
<1>8. PICK front \in Seq(Chars), b \in Chars :
        /\ Compose(word) = Append(front, b)
        /\ \E more \in Seq(Chars) : N(before) = Rest(front) \o more
  <2>1. \E front \in Seq(Chars), b \in Chars :
          /\ Compose(Append(before, text[n])) = Append(front, b)
          /\ \E more \in Seq(Chars) : N(before) = Rest(front) \o more
        BY <1>1, <1>2, LastComposed, Zenon
  <2> QED BY <1>7, <2>1, Zenon
<1>9. PICK x \in Chars, marks \in Seq(Chars), behind \in Seq(Chars) :
        Goes(word, after, front, b, x, marks, behind)
      BY <1>3, <1>4, <1>8, GoesOn
<1>10. /\ Rest(front) \in Seq(Chars) /\ Rest(marks) \in Seq(Chars) /\ Rest(behind) \in Seq(Chars)
       /\ Part(b) \in Seq(Chars) /\ Part(x) \in Seq(Chars)
       BY RestSteps, PartTypes
<1>11. Compared(word, after, front, b, x, marks, behind)
       BY <1>3, <1>4, <1>8, <1>9, GoesCompared
<1>12. N(word) = Rest(front) \o Part(b) /\ N(text) = Rest(front) \o (Part(x) \o Rest(behind))
       BY <1>4, <1>11 DEF Compared
<1>13. Len(Rest(front)) < Len(a)
  <2>1. SUFFICES ASSUME ~ (Len(Rest(front)) < Len(a)) PROVE FALSE
        OBVIOUS
  <2>2. Len(Rest(front)) \in Nat /\ Len(a) \in Nat
        BY <1>10
  <2>3. Len(a) <= Len(Rest(front))
        BY <2>1, <2>2
  <2>4. PICK more \in Seq(Chars) : N(before) = Rest(front) \o more
        BY <1>8
  <2>5. IsPrefix(a, Rest(front) \o more)
        BY <1>6, <1>10, <1>12, <2>2, <2>3, ShortPrefix
  <2> QED BY <1>5, <2>4, <2>5
<1>14. /\ Part(b) # <<>> /\ Part(x) \o Rest(behind) # <<>>
       /\ Part(b)[1] = (Part(x) \o Rest(behind))[1]
  <2>1. Part(x) \o Rest(behind) \in Seq(Chars)
        BY <1>10, ConcatProperties
  <2> QED BY <1>6, <1>10, <1>12, <1>13, <2>1, BeginAlike
<1>15. b \notin Separators /\ x \notin Separators
       BY <1>9, <1>14 DEF Part, Goes
<1>16. Part(x) = Folded[x] /\ Part(b) = Folded[b] /\ Part(x) # <<>>
       BY <1>15, PartTypes
<1>17. Folded[b][1] = Folded[x][1]
  <2>1. Len(Part(x)) \in Nat \ {0} /\ Len(Rest(behind)) \in Nat
        BY <1>10, <1>16, EmptySeq
  <2>2. 1 \in 1 .. Len(Part(x)) + Len(Rest(behind)) /\ 1 <= Len(Part(x))
        BY <2>1
  <2>3. (Part(x) \o Rest(behind))[1] = Part(x)[1]
        BY <1>10, <2>2, ConcatProperties
  <2> QED BY <1>14, <1>16, <2>3
<1>18. Part(x) = Part(b) \o Rest(marks)
       BY <1>9, <1>15, <1>17, PartGrows DEF Goes
<1>19. N(text) = N(word) \o N(after)
  <2>1. Apart(word, after)
        BY <1>3, <1>4, <1>11, <1>18, GoesApart
  <2> QED BY <1>4, <2>1 DEF Apart
<1>20. Len(N(word)) < Len(a) + Len(Folded[b])
  <2>1. Len(N(word)) = Len(Rest(front)) + Len(Part(b))
        BY <1>10, <1>12, ConcatProperties
  <2>2. Len(Rest(front)) \in Nat /\ Len(Part(b)) \in Nat /\ Len(a) \in Nat
        BY <1>10
  <2> QED BY <1>13, <1>16, <2>1, <2>2
<1> QED BY <1>19, <1>20 DEF word, after

-----------------------------------------------------------------------------
(* Which wake word it is                                                   *)

\* Wake words that the configuration accepts.
Fit(words) ==
    AcceptedWords(words) /\ \A at \in Aliases(words) : Alias(words, at) \in Seq(Chars)

\* What is compared of an alias.
Sought(words, at) == normalize_for_match(Alias(words, at))

\* The place of an alias: its word, and a number in its list.
LEMMA AliasPlace ==
    ASSUME NEW words, NEW at \in Aliases(words)
    PROVE  /\ at[1] \in DOMAIN words
           /\ at[2] \in Int /\ at[2] \in 1 .. Len(words[at[1]].aliases)
           /\ at = <<at[1], at[2]>>
PROOF
<1>1. PICK w \in DOMAIN words : at \in {<<w, i>> : i \in 1 .. Len(words[w].aliases)}
      BY DEF Aliases
<1>2. PICK i \in 1 .. Len(words[w].aliases) : at = <<w, i>>
      BY <1>1
<1>3. at[1] = w /\ at[2] = i
      BY <1>2
<1> QED BY <1>2, <1>3

\* It is a text that is not empty, because aliases have a least length.
LEMMA AliasIsSought ==
    ASSUME NEW words, Fit(words), NEW at \in Aliases(words)
    PROVE  Sought(words, at) \in Seq(Chars) /\ Sought(words, at) # <<>>
PROOF
<1>1. Sought(words, at) \in Seq(Chars)
      BY NormalIs DEF Fit, Sought
<1>2. Len(Sought(words, at)) >= MIN_NORMALIZED_ALIAS_LENGTH
      BY DEF Fit, AcceptedWords, Sought
<1>3. MIN_NORMALIZED_ALIAS_LENGTH \in Nat \ {0}
      BY MatchAssumption
<1>4. Sought(words, at) # <<>>
  <2>1. SUFFICES ASSUME Sought(words, at) = <<>> PROVE FALSE
        OBVIOUS
  <2>2. 0 >= MIN_NORMALIZED_ALIAS_LENGTH
        BY <1>2, <2>1, EmptySeq
  <2> QED BY <1>3, <2>2
<1> QED BY <1>1, <1>4

\* Two aliases of the same length that a text begins with are one.
LEMMA SameLength ==
    ASSUME NEW words, Fit(words), NEW compared \in Seq(Chars),
           NEW at \in Candidates(compared, words), NEW other \in Candidates(compared, words),
           Len(Sought(words, at)) = Len(Sought(words, other))
    PROVE  at = other
PROOF
<1>1. /\ at \in Aliases(words) /\ IsPrefix(Sought(words, at), compared)
      /\ other \in Aliases(words) /\ IsPrefix(Sought(words, other), compared)
      BY DEF Candidates, Sought
<1> DEFINE s == Sought(words, at)
           t == Sought(words, other)
<1>2. s \in Seq(Chars) /\ t \in Seq(Chars) /\ Len(s) = Len(t)
      BY <1>1, AliasIsSought
<1>3. IsPrefix(s, compared) /\ IsPrefix(t, compared)
      BY <1>1
<1> HIDE DEF s, t
<1>4. \A i \in 1 .. Len(s) : s[i] = compared[i]
      BY <1>2, <1>3, PrefixIs
<1>5. \A i \in 1 .. Len(t) : t[i] = compared[i]
      BY <1>2, <1>3, PrefixIs
<1>6. \A i \in 1 .. Len(s) : s[i] = t[i]
      BY <1>2, <1>4, <1>5
<1>7. s = t
      BY <1>2, <1>6, SeqEqual
<1>8. Collide(Alias(words, at), Alias(words, other))
      BY <1>7 DEF Collide, Sought, s, t
<1> QED BY <1>1, <1>8 DEF Fit, AcceptedWords

\* The longest of the aliases that a text begins with is longer than the others.
LEMMA LongestIs ==
    ASSUME NEW words, Fit(words), NEW compared \in Seq(Chars),
           Candidates(compared, words) # {}
    PROVE  LET chosen == Longest(Candidates(compared, words), words)
           IN  /\ chosen \in Candidates(compared, words)
               /\ \A other \in Candidates(compared, words) :
                    other = chosen \/ Len(Sought(words, other)) < Len(Sought(words, chosen))
PROOF
<1> DEFINE candidates == Candidates(compared, words)
           length(at) == Len(Sought(words, at))
           earlier(at, other) == at[1] < other[1] \/ (at[1] = other[1] /\ at[2] <= other[2])
           Before(at) == \A other \in candidates :
                            \/ length(at) > length(other)
                            \/ length(at) = length(other) /\ earlier(at, other)
           lengths == {length(at) : at \in candidates}
           chosen == Longest(candidates, words)
<1>1. ASSUME NEW at \in candidates
      PROVE  at \in Aliases(words) /\ length(at) \in 0 .. Len(compared) /\ at[2] <= at[2]
  <2>1. at \in Aliases(words) /\ IsPrefix(Sought(words, at), compared)
        BY DEF Candidates, Sought
  <2>2. Sought(words, at) \in Seq(Chars)
        BY <2>1, AliasIsSought
  <2>3. Len(Sought(words, at)) <= Len(compared)
        BY <2>1, <2>2, PrefixIs
  <2>4. Len(Sought(words, at)) \in Nat /\ Len(compared) \in Nat
        BY <2>2
  <2>5. at[2] \in Int
        BY <2>1, AliasPlace
  <2>6. at[2] <= at[2]
        BY <2>5
  <2> QED BY <2>1, <2>3, <2>4, <2>6
<1>2. \A at, other \in candidates : length(at) = length(other) => at = other
      BY SameLength
<1>3. chosen = CHOOSE at \in candidates : Before(at)
      BY DEF Longest, Sought
<1>4. candidates # {}
      OBVIOUS
<1> HIDE DEF candidates, length, chosen
<1>5. \E at \in candidates : Before(at)
  <2>1. lengths \in SUBSET (0 .. Len(compared)) /\ lengths # {} /\ Len(compared) \in Nat
        BY <1>1, <1>4
  <2>2. PICK x \in lengths : \A y \in lengths : x >= y
    <3> HIDE DEF lengths
    <3> QED BY <2>1, GreatestNumber
  <2>3. PICK at \in candidates : x = length(at)
        OBVIOUS
  <2>4. ASSUME NEW other \in candidates
        PROVE  \/ length(at) > length(other)
               \/ length(at) = length(other) /\ earlier(at, other)
    <3>1. length(other) \in lengths
          OBVIOUS
    <3>2. length(at) >= length(other)
      <4> HIDE DEF lengths
      <4> QED BY <2>2, <2>3, <3>1
    <3>3. length(at) \in Nat /\ length(other) \in Nat
          BY <1>1
    <3>4. CASE length(at) # length(other)
      <4>1. length(at) > length(other)
            BY <3>2, <3>3, <3>4
      <4> HIDE DEF earlier
      <4> QED BY <4>1
    <3>5. CASE length(at) = length(other)
      <4>1. at = other
            BY <1>2, <3>5
      <4>2. earlier(at, other)
            BY <1>1, <4>1
      <4> QED BY <3>5, <4>2
    <3> QED BY <3>4, <3>5
  <2> QED BY <2>4
<1>6. chosen \in candidates /\ Before(chosen)
  <2> HIDE DEF Before
  <2> QED BY <1>3, <1>5
<1>7. ASSUME NEW other \in candidates, other # chosen PROVE length(other) < length(chosen)
  <2>1. length(chosen) # length(other)
        BY <1>2, <1>6, <1>7
  <2>2. length(chosen) > length(other)
        BY <1>6, <2>1
  <2>3. length(chosen) \in Nat /\ length(other) \in Nat
        BY <1>1, <1>6
  <2> QED BY <2>2, <2>3
<1> QED BY <1>6, <1>7 DEF candidates, length, chosen

\* The wake word that a text begins with has an end, and the text is what is before
\* it and what is after it.
LEMMA WordEndIs ==
    ASSUME NEW text \in Seq(Chars), NEW a \in Seq(Chars), a # <<>>,
           IsPrefix(a, normalize_for_match(text))
    PROVE  LET end == WordEnd(text, a)
               before == normalize_for_match(SubSeq(text, 1, end))
               after == normalize_for_match(SubSeq(text, end + 1, Len(text)))
           IN  /\ end \in 1 .. Len(text)
               /\ IsPrefix(a, before)
               /\ normalize_for_match(text) = before \o after
               /\ \E c \in Chars : Len(before) < Len(a) + Len(Folded[c])
PROOF
<1> DEFINE N(t) == normalize_for_match(t)
           ends == {n \in DOMAIN text : IsPrefix(a, N(SubSeq(text, 1, n)))}
           end == WordEnd(text, a)
<1>1. DOMAIN text = 1 .. Len(text) /\ Len(text) \in Nat
      OBVIOUS
<1>2. text # <<>>
  <2>1. SUFFICES ASSUME text = <<>> PROVE FALSE
        OBVIOUS
  <2>2. N(text) = <<>> /\ <<>> \in Seq(Chars)
        BY <2>1, NormalOfNothing
  <2>3. Len(a) <= Len(<<>>)
    <3>1. IsPrefix(a, <<>>)
          BY <2>2
    <3> QED BY <2>2, <3>1, PrefixIs
  <2>4. Len(a) \in Nat \ {0} /\ Len(<<>>) = 0
        BY EmptySeq
  <2> QED BY <2>3, <2>4
<1>3. Len(text) \in 1 .. Len(text)
  <2>1. Len(text) \in Nat \ {0}
        BY <1>2, EmptySeq
  <2> QED BY <2>1
<1>4. Len(text) \in ends
  <2>1. SubSeq(text, 1, Len(text)) = text
        BY SubSeqFull
  <2> QED BY <1>1, <1>3, <2>1
<1>5. ends \in SUBSET (0 .. Len(text)) /\ ends # {} /\ ends \in SUBSET (1 .. Len(text))
      BY <1>1, <1>4
<1>6. \A n \in ends : IsPrefix(a, N(SubSeq(text, 1, n)))
      OBVIOUS
<1>7. \A n \in 1 .. Len(text) : IsPrefix(a, N(SubSeq(text, 1, n))) => n \in ends
      BY <1>1
<1>8. end = Min(ends)
      BY <1>5 DEF WordEnd
<1> HIDE DEF ends, end
<1>9. end \in ends /\ \A n \in ends : end <= n
      BY <1>1, <1>5, <1>8, Extremes
<1>10. end \in 1 .. Len(text) /\ IsPrefix(a, N(SubSeq(text, 1, end)))
      BY <1>5, <1>6, <1>9
<1>11. \A n \in 1 .. Len(text) : IsPrefix(a, N(SubSeq(text, 1, n))) => end <= n
      BY <1>7, <1>9
<1>12. /\ N(text) = N(SubSeq(text, 1, end)) \o N(SubSeq(text, end + 1, Len(text)))
       /\ \E c \in Chars : Len(N(SubSeq(text, 1, end))) < Len(a) + Len(Folded[c])
      BY <1>10, <1>11, WordEnds
<1> QED BY <1>10, <1>12 DEF end

-----------------------------------------------------------------------------
(* The command                                                             *)

\* What is behind a text is a suffix of both together, and what is before it is the
\* rest.
LEMMA BothSides ==
    ASSUME NEW s \in Seq(Chars), NEW t \in Seq(Chars)
    PROVE  /\ IsSuffix(t, s \o t)
           /\ SubSeq(s \o t, 1, Len(s \o t) - Len(t)) = s
PROOF
<1> DEFINE u == s \o t
<1>1. /\ u \in Seq(Chars) /\ Len(u) = Len(s) + Len(t) /\ Len(s) \in Nat /\ Len(t) \in Nat
      /\ \A i \in 1 .. Len(s) + Len(t) : u[i] = IF i <= Len(s) THEN s[i] ELSE t[i - Len(s)]
      BY ConcatProperties
<1> HIDE DEF u
<1>2. ASSUME NEW v \in Seq(Chars)
      PROVE  /\ Reverse(v) \in Seq(Chars) /\ Len(Reverse(v)) = Len(v)
             /\ \A i \in 1 .. Len(v) : Reverse(v)[i] = v[(Len(v) - i) + 1]
  <2>1. Len(v) \in Nat /\ \A i \in 1 .. Len(v) : (Len(v) - i) + 1 \in 1 .. Len(v)
        OBVIOUS
  <2>2. \A i \in 1 .. Len(v) : v[(Len(v) - i) + 1] \in Chars
        BY <2>1
  <2>3. [i \in 1 .. Len(v) |-> v[(Len(v) - i) + 1]] \in [1 .. Len(v) -> Chars]
        BY <2>2
  <2>4. Reverse(v) = [i \in 1 .. Len(v) |-> v[(Len(v) - i) + 1]]
        BY DEF Reverse
  <2> QED BY <2>1, <2>3, <2>4
<1>3. IsSuffix(t, u)
  <2>1. ASSUME NEW i \in 1 .. Len(t) PROVE Reverse(t)[i] = Reverse(u)[i]
    <3>1. Reverse(t)[i] = t[(Len(t) - i) + 1]
          BY <1>2
    <3>2. i \in 1 .. Len(u)
          BY <1>1
    <3>3. Reverse(u)[i] = u[(Len(u) - i) + 1]
          BY <1>1, <1>2, <3>2
    <3> DEFINE j == (Len(u) - i) + 1
    <3>4. j \in 1 .. Len(s) + Len(t) /\ ~ (j <= Len(s)) /\ j - Len(s) = (Len(t) - i) + 1
          BY <1>1
    <3>5. u[j] = t[j - Len(s)]
      <4> HIDE DEF j
      <4> QED BY <1>1, <3>4
    <3> QED BY <3>1, <3>3, <3>4, <3>5
  <2>2. /\ Reverse(t) \in Seq(Chars) /\ Len(Reverse(t)) = Len(t)
        /\ Reverse(u) \in Seq(Chars) /\ Len(Reverse(u)) = Len(u)
        BY <1>1, <1>2
  <2>3. Len(t) <= Len(u)
        BY <1>1
  <2>4. IsPrefix(Reverse(t), Reverse(u))
        BY <2>1, <2>2, <2>3, PrefixIs
  <2> QED BY <2>4 DEF IsSuffix
<1>4. SubSeq(u, 1, Len(u) - Len(t)) = s
  <2>1. Len(u) - Len(t) = Len(s) /\ Len(s) \in 0 .. Len(u)
        BY <1>1
  <2> DEFINE first == SubSeq(u, 1, Len(s))
  <2>2. /\ first \in Seq(Chars) /\ Len(first) = Len(s)
        /\ \A i \in 1 .. Len(s) : first[i] = u[i]
        BY <1>1, <2>1, Beginning
  <2> HIDE DEF first
  <2>3. \A i \in 1 .. Len(s) : i \in 1 .. Len(s) + Len(t) /\ i <= Len(s)
        BY <1>1
  <2>4. \A i \in 1 .. Len(s) : first[i] = s[i]
        BY <1>1, <2>2, <2>3
  <2>5. first = s
        BY <2>2, <2>4, SeqEqual
  <2> QED BY <2>1, <2>5 DEF first
<1> QED BY <1>3, <1>4 DEF u

\* The rest of a text is a text.
LEMMA RestOfText ==
    ASSUME NEW text \in Seq(Chars), NEW n \in 1 .. Len(text)
    PROVE  SubSeq(text, n + 1, Len(text)) \in Seq(Chars)
PROOF
<1>1. n + 1 \in Int /\ Len(text) \in Int
      OBVIOUS
<1>2. \A i \in n + 1 .. Len(text) : i \in 1 .. Len(text)
      OBVIOUS
<1>3. \A i \in n + 1 .. Len(text) : text[i] \in Chars
      BY <1>2
<1> QED BY <1>1, <1>3, SubSeqProperties

\* Something without separators at its ends has something to compare.
LEMMA CommandIsSomething ==
    ASSUME NEW command \in Seq(Chars), command # <<>>, Last(command) \notin Separators
    PROVE  normalize_for_match(command) # <<>>
PROOF
<1>1. PICK s \in Seq(Chars), c \in Chars : command = Append(s, c)
      BY SequenceEmptyOrAppend
<1>2. c \notin Separators
      BY <1>1, LastOf
<1> QED BY <1>1, <1>2, NormalOfSomething

\* How a text is matched, if it begins with an alias.
LEMMA Matches ==
    ASSUME NEW words, Fit(words), NEW text \in Seq(Chars),
           Candidates(normalize_for_match(text), words) # {}
    PROVE  \E at \in Aliases(words), before \in Seq(Chars), command \in Seq(Chars) :
             /\ at \in Candidates(normalize_for_match(text), words)
             /\ \A other \in Candidates(normalize_for_match(text), words) :
                  other = at \/ Len(Sought(words, other)) < Len(Sought(words, at))
             /\ IsPrefix(Sought(words, at), before)
             /\ normalize_for_match(text) = before \o normalize_for_match(command)
             /\ \E c \in Chars : Len(before) < Len(Sought(words, at)) + Len(Folded[c])
             /\ command # <<>> => command[1] \notin Separators /\ Last(command) \notin Separators
             /\ match_wake_word_prefix(text, words) =
                    IF command = <<>> THEN NoMatch
                    ELSE [wake_word_id |-> words[at[1]].id, command |-> command]
PROOF
<1> DEFINE compared == normalize_for_match(text)
           at == Longest(Candidates(compared, words), words)
           a == Sought(words, at)
           end == WordEnd(text, a)
           before == normalize_for_match(SubSeq(text, 1, end))
           rest == SubSeq(text, end + 1, Len(text))
           command == _strip_separators(rest)
<1>1. compared \in Seq(Chars) /\ Candidates(compared, words) # {}
      BY NormalIs
<1>2. /\ at \in Candidates(compared, words)
      /\ \A other \in Candidates(compared, words) : other = at \/ Len(Sought(words, other)) < Len(a)
  <2> HIDE DEF compared
  <2> QED BY <1>1, LongestIs
<1>3. at \in Aliases(words) /\ IsPrefix(a, compared)
  <2> HIDE DEF at
  <2> QED BY <1>2 DEF Candidates, Sought
<1>4. a \in Seq(Chars) /\ a # <<>>
  <2> HIDE DEF at
  <2> QED BY <1>3, AliasIsSought
<1>5. match_wake_word_prefix(text, words) =
          IF command = <<>> THEN NoMatch ELSE [wake_word_id |-> words[at[1]].id, command |-> command]
      BY DEF match_wake_word_prefix, Sought
<1> HIDE DEF a
<1>6. /\ end \in 1 .. Len(text) /\ IsPrefix(a, before)
      /\ compared = before \o normalize_for_match(rest)
      /\ \E c \in Chars : Len(before) < Len(a) + Len(Folded[c])
      BY <1>3, <1>4, WordEndIs
<1> HIDE DEF end
<1>7. SubSeq(text, 1, end) \in Seq(Chars) /\ rest \in Seq(Chars)
  <2>1. end \in 0 .. Len(text)
        BY <1>6
  <2> QED BY <1>6, <2>1, Beginning, RestOfText
<1>8. before \in Seq(Chars)
      BY <1>7, NormalIs
<1> HIDE DEF rest, before, compared, at
<1>9. /\ command \in Seq(Chars) /\ normalize_for_match(command) = normalize_for_match(rest)
      /\ command # <<>> => command[1] \notin Separators /\ Last(command) \notin Separators
      BY <1>7, TrimKeeps DEF _strip_separators
<1> HIDE DEF command
<1>10. compared = before \o normalize_for_match(command)
      BY <1>6, <1>9
<1> QED BY <1>2, <1>3, <1>5, <1>6, <1>8, <1>9, <1>10 DEF compared, a

\* An accepted list of wake words is one of texts.
LEMMA AcceptedFit ==
    ASSUME NEW words \in Accepted
    PROVE  Fit(words)
PROOF
<1>1. words \in WordLists /\ AcceptedWords(words)
      BY DEF Accepted
<1>2. \A at \in Aliases(words) : Alias(words, at) \in Seq(Chars)
      BY <1>1, MatchAssumption
<1> QED BY <1>1, <1>2 DEF Fit

\* What is matched is nothing, or else has a command.
LEMMA NoMatchHasNoCommand ==
    ASSUME NEW id, NEW command, command # <<>>
    PROVE  [wake_word_id |-> id, command |-> command] # NoMatch
PROOF
<1>1. [wake_word_id |-> id, command |-> command].command = command
      OBVIOUS
<1>2. NoMatch.command = <<>>
      BY DEF NoMatch
<1> QED BY <1>1, <1>2

\* A text that begins with no alias is not matched.
LEMMA NoCandidates ==
    ASSUME NEW words, NEW text, Candidates(normalize_for_match(text), words) = {}
    PROVE  match_wake_word_prefix(text, words) = NoMatch
PROOF
<1> QED BY DEF match_wake_word_prefix

\* Every text is what is before a command and the command.
LEMMA CommandFollows ==
    ASSUME transcript \in Seq(Chars)
    PROVE  CommandIsRest
PROOF
<1>1. SUFFICES ASSUME NEW words \in Accepted, match_wake_word_prefix(transcript, words) # NoMatch
               PROVE  LET match == match_wake_word_prefix(transcript, words)
                          compared == normalize_for_match(transcript)
                          command == normalize_for_match(match.command)
                          word == SubSeq(compared, 1, Len(compared) - Len(command))
                      IN  /\ command # <<>>
                          /\ IsSuffix(command, compared)
                          /\ match.command[1] \notin Separators
                          /\ Last(match.command) \notin Separators
                          /\ \E at \in Aliases(words) :
                               /\ words[at[1]].id = match.wake_word_id
                               /\ IsPrefix(Sought(words, at), word)
                               /\ \E c \in DOMAIN Folded :
                                    Len(word) < Len(Sought(words, at)) + Len(Folded[c])
                               /\ \A other \in Aliases(words) :
                                    IsPrefix(Sought(words, other), compared) =>
                                        \/ Len(Sought(words, other)) < Len(Sought(words, at))
                                        \/ other = at
      BY DEF CommandIsRest, Sought
<1> DEFINE match == match_wake_word_prefix(transcript, words)
           compared == normalize_for_match(transcript)
<1>2. Fit(words)
      BY AcceptedFit
<1>3. Candidates(compared, words) # {}
      BY <1>1, NoCandidates
<1>4. PICK at \in Aliases(words), before \in Seq(Chars), text \in Seq(Chars) :
        /\ at \in Candidates(compared, words)
        /\ \A other \in Candidates(compared, words) :
             other = at \/ Len(Sought(words, other)) < Len(Sought(words, at))
        /\ IsPrefix(Sought(words, at), before)
        /\ compared = before \o normalize_for_match(text)
        /\ \E c \in Chars : Len(before) < Len(Sought(words, at)) + Len(Folded[c])
        /\ text # <<>> => text[1] \notin Separators /\ Last(text) \notin Separators
        /\ match = IF text = <<>> THEN NoMatch
                   ELSE [wake_word_id |-> words[at[1]].id, command |-> text]
      BY <1>2, <1>3, Matches
<1> DEFINE command == normalize_for_match(text)
           word == SubSeq(compared, 1, Len(compared) - Len(command))
<1>5. text # <<>>
      BY <1>1, <1>4
<1>6. match.command = text /\ match.wake_word_id = words[at[1]].id
      BY <1>4, <1>5
<1>7. command \in Seq(Chars) /\ command # <<>>
      BY <1>4, <1>5, CommandIsSomething, NormalIs
<1> HIDE DEF match
<1>8. IsSuffix(command, compared) /\ word = before
      BY <1>4, <1>7, BothSides
<1>9. \E c \in DOMAIN Folded : Len(before) < Len(Sought(words, at)) + Len(Folded[c])
  <2>1. DOMAIN Folded = Chars
        BY MatchAssumption
  <2> QED BY <1>4, <2>1
<1>10. ASSUME NEW other \in Aliases(words), IsPrefix(Sought(words, other), compared)
       PROVE  Len(Sought(words, other)) < Len(Sought(words, at)) \/ other = at
  <2>1. other \in Candidates(compared, words)
        BY <1>10 DEF Candidates, Sought
  <2> QED BY <1>4, <2>1
<1>11. text[1] \notin Separators /\ Last(text) \notin Separators /\ IsPrefix(Sought(words, at), before)
       BY <1>4, <1>5
<1> HIDE DEF compared, command, word
<1>12. normalize_for_match(match.command) = command
       BY <1>6 DEF command
<1> QED BY <1>6, <1>7, <1>8, <1>9, <1>10, <1>11, <1>12 DEF match, compared, word

\* A text of which nothing but an alias is compared has no command.
LEMMA NothingFollows ==
    ASSUME NEW words, Fit(words), NEW text \in Seq(Chars), NEW at \in Aliases(words),
           normalize_for_match(text) = Sought(words, at)
    PROVE  match_wake_word_prefix(text, words) = NoMatch
PROOF
<1> DEFINE compared == normalize_for_match(text)
<1>1. compared \in Seq(Chars) /\ Len(compared) \in Nat
      BY NormalIs
<1>2. IsPrefix(compared, compared)
      BY <1>1, PrefixIs
<1>3. at \in Candidates(compared, words)
      BY <1>2 DEF Candidates, Sought
<1>4. PICK chosen \in Aliases(words), before \in Seq(Chars), command \in Seq(Chars) :
        /\ chosen \in Candidates(compared, words)
        /\ \A other \in Candidates(compared, words) :
             other = chosen \/ Len(Sought(words, other)) < Len(Sought(words, chosen))
        /\ IsPrefix(Sought(words, chosen), before)
        /\ compared = before \o normalize_for_match(command)
        /\ \E c \in Chars : Len(before) < Len(Sought(words, chosen)) + Len(Folded[c])
        /\ command # <<>> => command[1] \notin Separators /\ Last(command) \notin Separators
        /\ match_wake_word_prefix(text, words) =
               IF command = <<>> THEN NoMatch
               ELSE [wake_word_id |-> words[chosen[1]].id, command |-> command]
      BY <1>3, Matches
<1>5. SUFFICES ASSUME command # <<>> PROVE FALSE
      BY <1>4
<1> DEFINE rest == normalize_for_match(command)
<1>6. rest \in Seq(Chars) /\ rest # <<>>
      BY <1>4, <1>5, CommandIsSomething, NormalIs
<1>7. Sought(words, chosen) \in Seq(Chars) /\ Len(Sought(words, chosen)) \in Nat
      BY AliasIsSought
<1>8. Len(compared) <= Len(Sought(words, chosen))
  <2>1. at = chosen \/ Len(Sought(words, at)) < Len(Sought(words, chosen))
        BY <1>3, <1>4
  <2>2. compared = Sought(words, at)
        OBVIOUS
  <2> HIDE DEF compared
  <2> QED BY <1>1, <1>7, <2>1, <2>2
<1> HIDE DEF rest, compared
<1>9. Len(Sought(words, chosen)) <= Len(before)
      BY <1>4, <1>7, PrefixIs
<1>10. Len(compared) = Len(before) + Len(rest)
       BY <1>4, <1>6, ConcatProperties DEF rest, compared
<1>11. Len(rest) \in Nat \ {0} /\ Len(before) \in Nat /\ Len(Sought(words, chosen)) \in Nat
       BY <1>6, <1>7, EmptySeq
<1> QED BY <1>1, <1>8, <1>9, <1>10, <1>11

\* Each of the accepted wake words is accepted by itself.
LEMMA OneWordFits ==
    ASSUME NEW words, Fit(words), NEW at \in Aliases(words)
    PROVE  LET word == words[at[1]]
           IN  /\ Fit(<<word>>)
               /\ <<1, at[2]>> \in Aliases(<<word>>)
               /\ Alias(<<word>>, <<1, at[2]>>) = Alias(words, at)
PROOF
<1> DEFINE word == words[at[1]]
           one == <<word>>
<1>1. DOMAIN one = {1} /\ one[1] = word
      OBVIOUS
<1>2. at[1] \in DOMAIN words /\ at[2] \in 1 .. Len(word.aliases)
      BY AliasPlace
<1> HIDE DEF one
<1>3. 1 \in DOMAIN one /\ at[2] \in 1 .. Len(one[1].aliases)
      BY <1>1, <1>2
<1>4. <<1, at[2]>> \in Aliases(one) /\ Alias(one, <<1, at[2]>>) = Alias(words, at)
      BY <1>1, <1>3 DEF Aliases, Alias
<1>5. ASSUME NEW p \in Aliases(one)
      PROVE  /\ p = <<1, p[2]>>
             /\ <<at[1], p[2]>> \in Aliases(words)
             /\ Alias(one, p) = Alias(words, <<at[1], p[2]>>)
  <2>1. p[1] \in DOMAIN one /\ p = <<p[1], p[2]>> /\ p[2] \in 1 .. Len(one[p[1]].aliases)
        BY AliasPlace
  <2>2. p[1] = 1 /\ p = <<1, p[2]>> /\ p[2] \in 1 .. Len(words[at[1]].aliases)
        BY <1>1, <2>1
  <2>3. <<at[1], p[2]>> \in Aliases(words)
        BY <1>2, <2>2 DEF Aliases
  <2> QED BY <1>1, <2>2, <2>3 DEF Alias
<1>6. \A p \in Aliases(one) : Alias(one, p) \in Seq(Chars)
      BY <1>5 DEF Fit
<1>7. AcceptedWords(one)
  <2>1. \A v, w \in DOMAIN one : one[v].id = one[w].id => v = w
        BY <1>1
  <2>2. \A p \in Aliases(one) :
           Len(normalize_for_match(Alias(one, p))) >= MIN_NORMALIZED_ALIAS_LENGTH
        BY <1>5 DEF Fit, AcceptedWords
  <2>3. ASSUME NEW p \in Aliases(one), NEW q \in Aliases(one), Collide(Alias(one, p), Alias(one, q))
        PROVE  p = q
    <3>1. Collide(Alias(words, <<at[1], p[2]>>), Alias(words, <<at[1], q[2]>>))
          BY <1>5, <2>3
    <3>2. <<at[1], p[2]>> = <<at[1], q[2]>>
          BY <1>5, <3>1 DEF Fit, AcceptedWords
    <3>3. p[2] = q[2]
          BY <3>2
    <3> QED BY <1>5, <3>3
  <2> QED BY <2>1, <2>2, <2>3 DEF AcceptedWords
<1> QED BY <1>4, <1>6, <1>7 DEF Fit, one

\* No command is made of the wake word alone.
LEMMA NoCommandMade ==
    ASSUME transcript \in Seq(Chars)
    PROVE  WakeWordAloneIsNoCommand
PROOF
<1>1. SUFFICES ASSUME NEW words \in Accepted, NEW at \in Aliases(words),
                      normalize_for_match(transcript) = Sought(words, at)
               PROVE  /\ match_wake_word_prefix(transcript, words) = NoMatch
                      /\ command_from_transcript(transcript, words[at[1]]) = <<>>
      BY DEF WakeWordAloneIsNoCommand, Sought
<1>2. Fit(words)
      BY AcceptedFit
<1>3. match_wake_word_prefix(transcript, words) = NoMatch
      BY <1>1, <1>2, NothingFollows
<1> DEFINE word == words[at[1]]
           clean == Strip(transcript)
<1>4. clean \in Seq(Chars) /\ normalize_for_match(clean) = normalize_for_match(transcript)
  <2>1. Spaces \in SUBSET Separators
        BY MatchAssumption
  <2> QED BY <2>1, TrimKeeps DEF Strip
<1>5. /\ Fit(<<word>>) /\ <<1, at[2]>> \in Aliases(<<word>>)
      /\ Alias(<<word>>, <<1, at[2]>>) = Alias(words, at)
      BY <1>2, OneWordFits
<1> HIDE DEF clean
<1>6. match_wake_word_prefix(clean, <<word>>) = NoMatch
  <2> HIDE DEF word
  <2>1. normalize_for_match(clean) = Sought(<<word>>, <<1, at[2]>>)
        BY <1>1, <1>4, <1>5 DEF Sought
  <2> QED BY <1>4, <1>5, <2>1, NothingFollows
<1>7. \E n \in 1 .. Len(word.aliases) : Collide(clean, word.aliases[n])
  <2>1. at[2] \in 1 .. Len(word.aliases)
        BY AliasPlace
  <2>2. Collide(clean, word.aliases[at[2]])
        BY <1>1, <1>4 DEF Collide, Sought, Alias
  <2> QED BY <2>1, <2>2
<1>8. command_from_transcript(transcript, word) = <<>>
  <2> HIDE DEF word
  <2> QED BY <1>6, <1>7 DEF command_from_transcript, clean
<1> QED BY <1>3, <1>8

\* For every alphabet, all accepted wake words and every text.
THEOREM CommandsAreTheRest == TextSpec => []CommandIsRest
PROOF
<1>1. TextInit => transcript \in Seq(Chars)
      BY DEF TextInit
<1>2. transcript \in Seq(Chars) /\ [Grow]_transcript => (transcript \in Seq(Chars))'
      BY DEF Grow
<1>3. transcript \in Seq(Chars) => CommandIsRest
      BY CommandFollows
<1> QED BY <1>1, <1>2, <1>3, PTL DEF TextSpec

\* Whichever alias it is, and whatever separators are around it.
THEOREM NoCommandOfTheWakeWord == TextSpec => []WakeWordAloneIsNoCommand
PROOF
<1>1. TextInit => transcript \in Seq(Chars)
      BY DEF TextInit
<1>2. transcript \in Seq(Chars) /\ [Grow]_transcript => (transcript \in Seq(Chars))'
      BY DEF Grow
<1>3. transcript \in Seq(Chars) => WakeWordAloneIsNoCommand
      BY NoCommandMade
<1> QED BY <1>1, <1>2, <1>3, PTL DEF TextSpec
=============================================================================
