---------------------- MODULE TranscriptQueue_proofs -----------------------
(***************************************************************************)
(* Proofs that the transcript queue abandons no job, serves in order,      *)
(* counts its drops and implements the mailbox of LatestMailbox, for any   *)
(* number of submissions and attempts.                                     *)
(***************************************************************************)
EXTENDS TranscriptQueue, FiniteSetTheorems, TLAPS

Busy == {"taken", "recognize", "publish", "backoff", "blocked"}

\* What is queued is the newest segment, untouched; the others are older.
Numbering ==
    /\ \A j \in Jobs : j > submitted => result[j] = "unsent" /\ published[j] = "unsent"
    /\ got <= submitted
    /\ current <= submitted
    /\ dropped_segments <= submitted
    /\ queue # <<>> =>
         /\ queue = <<submitted>>
         /\ submitted \in Jobs
         /\ result[submitted] = "pending"
         /\ published[submitted] = "pending"
         /\ got < submitted
         /\ current < submitted

\* Which task may hold a job, by where the runner is suspended.
Holders ==
    /\ got # NoJob <=> get_task = "done"
    /\ get_task # "none" => runner = "waiting" \/ (cancelled /\ runner = "ended")
    /\ current # NoJob <=> runner \in Busy
    /\ runner = "absent" => ~cancelled /\ submitted = 0

\* What get_task and the runner have settled of the job they hold.
Progressed ==
    /\ got # NoJob => result[got] = "pending"
    /\ runner \in {"taken", "recognize"} => result[current] = "pending"
    /\ runner \in {"publish", "backoff", "blocked"} => result[current] # "pending"
    /\ runner = "blocked" => published[current] # "pending"
    /\ runner = "backoff" => attempt < MaxAttempts

\* The inductive invariant.
IInv ==
    /\ TypeOK
    /\ Numbering
    /\ Holders
    /\ Progressed
    /\ NoAbandonedJob
    /\ OneServedOneWaiting
    /\ DropsAreCounted

-----------------------------------------------------------------------------
(* Lemmas about the operators                                              *)

\* Jobs is finite, and `none' is no job: the sizes of sets of jobs can be counted.
LEMMA JobsFacts ==
    /\ MaxJobs \in Nat
    /\ Jobs \subseteq Nat
    /\ NoJob \notin Jobs
    /\ NoJob = 0
    /\ IsFiniteSet(Jobs)
<1>1. MaxJobs \in Nat
  BY QueueAssumption
<1> QED
  BY <1>1, FS_Interval DEF Jobs, NoJob

\* The jobs in the queue, and what a step that leaves the queue alone or
\* empties it makes of them.
LEMMA QueuedFacts ==
    /\ queue = <<>> => Queued = {}
    /\ queue = <<submitted>> => Queued = {submitted}
    /\ queue' = <<>> => Queued' = {}
    /\ queue' = <<submitted'>> => Queued' = {submitted'}
  BY DEF Queued

\* _resolve_dropped keeps the futures' types, settles the open ones of S and
\* touches no other.
LEMMA DroppedFacts ==
    ASSUME NEW S, NEW res \in [Jobs -> Results], NEW pub \in [Jobs -> Deliveries]
    PROVE  /\ DroppedResult(res, S) \in [Jobs -> Results]
           /\ DroppedDelivery(pub, S) \in [Jobs -> Deliveries]
           /\ \A j \in Jobs :
                /\ j \notin S => DroppedResult(res, S)[j] = res[j]
                /\ j \notin S => DroppedDelivery(pub, S)[j] = pub[j]
                /\ j \in S => DroppedResult(res, S)[j] # "pending"
                /\ j \in S => DroppedDelivery(pub, S)[j] # "pending"
                /\ j \in S /\ res[j] = "pending" => DroppedResult(res, S)[j] = "dropped"
                /\ res[j] # "pending" => DroppedResult(res, S)[j] = res[j]
                /\ pub[j] # "pending" => DroppedDelivery(pub, S)[j] = pub[j]
  BY DEF DroppedResult, DroppedDelivery, Results, Deliveries, Answers

\* The count of dropped jobs, when no job or one more job is dropped.
LEMMA DropCount ==
    ASSUME NEW S \in SUBSET Jobs, NEW j \in Jobs \ S
    PROVE  Cardinality(S \cup {j}) = Cardinality(S) + 1
  BY JobsFacts, FS_Subset, FS_AddElement

-----------------------------------------------------------------------------
(* The invariant                                                           *)

\* A session that has not begun has no job and no queue entry.
LEMMA InitIInv == Init => IInv
<1> SUFFICES ASSUME Init PROVE IInv
  OBVIOUS
<1> USE DEF Init
<1>1. TypeOK
  <2>1. 0 \in 0 .. MaxJobs /\ 0 \in 0 .. MaxAttempts
    BY QueueAssumption
  <2>2. queue \in Seq(Jobs) /\ Len(queue) <= 1
    OBVIOUS
  <2> QED
    BY <2>1, <2>2 DEF TypeOK, Results, Deliveries, RunnerStates
<1>2. Numbering /\ Holders /\ Progressed
  BY DEF Numbering, Holders, Progressed, NoJob, Busy
<1>3. NoAbandonedJob /\ OneServedOneWaiting
  BY QueuedFacts DEF NoAbandonedJob, OneServedOneWaiting
<1>4. DropsAreCounted
  <2>1. {j \in Jobs : result[j] = "dropped"} = {}
    OBVIOUS
  <2> QED
    BY <2>1, FS_EmptySet DEF DropsAreCounted
<1> QED
  BY <1>1, <1>2, <1>3, <1>4 DEF IInv

\* submit: the queued job, if any, is dropped for the new one.
LEMMA SubmitStep == ASSUME IInv, Submit PROVE IInv'
<1> DEFINE job == submitted + 1
           opened == [result EXCEPT ![job] = "pending"]
           promised == [published EXCEPT ![job] = "pending"]
<1> USE JobsFacts
<1>1. /\ submitted \in Nat /\ submitted < MaxJobs /\ submitted' = job
      /\ job \in Jobs /\ ~cancelled /\ cancelled' = cancelled /\ stop' = stop
      /\ get_task' = get_task /\ got' = got /\ runner' = runner /\ runner # "absent"
      /\ current' = current /\ attempt' = attempt
      /\ queue' = <<job>>
      /\ result' = DroppedResult(opened, Queued)
      /\ published' = DroppedDelivery(promised, Queued)
      /\ dropped_segments' = dropped_segments + Len(queue)
  BY DEF IInv, TypeOK, Submit, Enqueue, Jobs, taskVars
<1>2. opened \in [Jobs -> Results] /\ promised \in [Jobs -> Deliveries]
  BY <1>1 DEF IInv, TypeOK, Results, Deliveries
<1>3. /\ \A j \in Jobs \ {job} : opened[j] = result[j] /\ promised[j] = published[j]
      /\ opened[job] = "pending" /\ promised[job] = "pending"
  BY <1>1 DEF IInv, TypeOK
<1> HIDE DEF opened, promised
<1>4. /\ queue = <<>> \/ queue = <<submitted>>
      /\ Queued = IF queue = <<>> THEN {} ELSE {submitted}
      /\ Queued' = {job}
      /\ Len(queue) = IF queue = <<>> THEN 0 ELSE 1
      /\ job \notin Queued
  BY <1>1, QueuedFacts DEF IInv, Numbering
<1>5. /\ result' \in [Jobs -> Results] /\ published' \in [Jobs -> Deliveries]
      /\ result'[job] = "pending" /\ published'[job] = "pending"
      /\ \A j \in Jobs \ ({job} \cup Queued) : result'[j] = result[j] /\ published'[j] = published[j]
      /\ \A j \in Queued : result'[j] = "dropped" /\ published'[j] # "pending"
  <2>1. \A j \in Queued : j \in Jobs /\ opened[j] = "pending"
    BY <1>3, <1>4 DEF IInv, Numbering
  <2>2. /\ result' \in [Jobs -> Results] /\ published' \in [Jobs -> Deliveries]
        /\ \A j \in Jobs : j \notin Queued => result'[j] = opened[j] /\ published'[j] = promised[j]
        /\ \A j \in Jobs : j \in Queued /\ opened[j] = "pending" => result'[j] = "dropped"
        /\ \A j \in Jobs : j \in Queued => published'[j] # "pending"
    BY <1>1, <1>2, DroppedFacts
  <2> QED
    BY <1>1, <1>3, <1>4, <2>1, <2>2, ZenonT(30)
<1>6. dropped_segments' \in 0 .. MaxJobs /\ dropped_segments' <= job
  BY <1>1, <1>4 DEF IInv, TypeOK, Numbering
<1>7. Numbering'
  <2>1. \A j \in Jobs : j > job => j \in Jobs \ ({job} \cup Queued) /\ j > submitted
    BY <1>1, <1>4
  <2>2. got' = got /\ current' = current /\ got \in Nat /\ current \in Nat
    BY <1>1 DEF IInv, TypeOK
  <2> QED
    BY <1>1, <1>5, <1>6, <2>1, <2>2 DEF IInv, Numbering
<1>8. Holders' /\ runner' = runner
  BY <1>1 DEF Holders, IInv
<1>9. Progressed'
  <2>0. got # NoJob => result'[got] = result[got]
    <3>1. got # NoJob => got \in Jobs /\ got < job /\ got \notin Queued
      BY <1>1, <1>4 DEF IInv, TypeOK, Numbering
    <3>2. got # NoJob => got \in Jobs \ ({job} \cup Queued)
      BY <1>1, <3>1
    <3> QED
      BY <1>5, <3>2
  <2>1. CASE runner \in Busy
    <3>1. current # NoJob /\ current \in Jobs /\ current < job /\ current \notin Queued
      BY <1>1, <1>4, <2>1 DEF IInv, TypeOK, Holders, Numbering
    <3> QED
      BY <1>1, <1>5, <2>0, <3>1 DEF IInv, Progressed
  <2> QED
    BY <1>1, <1>8, <2>0, <2>1 DEF IInv, Progressed, Busy
<1>10. NoAbandonedJob'
  <2> SUFFICES ASSUME NEW j \in Jobs, result'[j] = "pending" \/ published'[j] = "pending"
               PROVE  j \in Held'
    BY DEF NoAbandonedJob
  <2>1. CASE j = job
    BY <1>4, <2>1 DEF Held
  <2>2. CASE j # job
    <3>1. j \notin Queued
      BY <1>5
    <3>2. j \in {got, current}
      BY <1>1, <1>5, <2>2, <3>1 DEF IInv, NoAbandonedJob, Held
    <3> QED
      BY <1>1, <3>2 DEF Held
  <2> QED
    BY <2>1, <2>2
<1>11. OneServedOneWaiting'
  BY <1>1, <1>4, <1>7 DEF IInv, OneServedOneWaiting, Numbering
<1>12. DropsAreCounted'
  <2> DEFINE before == {j \in Jobs : result[j] = "dropped"}
             after == {j \in Jobs : result'[j] = "dropped"}
  <2>1. result[job] = "unsent"
    BY <1>1 DEF IInv, Numbering
  <2>2. CASE queue = <<>>
    <3>1. after = before
      BY <1>4, <1>5, <2>1, <2>2
    <3>2. dropped_segments' = dropped_segments
      BY <1>1, <1>4, <2>2 DEF IInv, TypeOK
    <3> QED
      BY <1>1, <3>1, <3>2 DEF IInv, DropsAreCounted
  <2>3. CASE queue = <<submitted>>
    <3>1. submitted \in Jobs \ before /\ Queued = {submitted}
      BY <1>4, <2>3 DEF IInv, Numbering
    <3>2. after = before \cup {submitted}
      BY <1>5, <2>1, <3>1
    <3>3. Cardinality(after) = Cardinality(before) + 1
      BY <3>1, <3>2, DropCount
    <3> QED
      BY <1>1, <1>4, <2>3, <3>3 DEF IInv, DropsAreCounted, TypeOK
  <2> QED
    BY <1>4, <2>2, <2>3
<1>13. TypeOK'
  BY <1>1, <1>5, <1>6 DEF IInv, TypeOK
<1> QED
  BY <1>7, <1>8, <1>9, <1>10, <1>11, <1>12, <1>13 DEF IInv

\* queue.get() returns the queued job to get_task.
LEMMA GetJobStep == ASSUME IInv, GetJob PROVE IInv'
<1> USE JobsFacts
<1>1. /\ get_task = "waiting" /\ get_task' = "done"
      /\ queue = <<submitted>> /\ queue' = <<>> /\ got' = submitted
      /\ UNCHANGED <<stop, submitted, dropped_segments, futures, runner, current, attempt, cancelled>>
      /\ submitted \in Jobs
  <2>1. queue = <<submitted>> /\ submitted \in Jobs
    BY DEF IInv, Numbering, GetJob
  <2>2. Head(<<submitted>>) = submitted /\ Tail(<<submitted>>) = <<>>
    OBVIOUS
  <2> QED
    BY <2>1, <2>2 DEF GetJob
<1>2. result' = result /\ published' = published
  BY <1>1 DEF futures
<1>3. runner \notin Busy /\ current = NoJob /\ got = NoJob
  BY <1>1 DEF IInv, Holders, TypeOK, Busy
<1>4. Queued = {submitted} /\ Queued' = {}
  BY <1>1, QueuedFacts
<1>5. TypeOK'
  BY <1>1, <1>2 DEF IInv, TypeOK
<1>6. Numbering' /\ Holders' /\ Progressed'
  BY <1>1, <1>2, <1>3 DEF IInv, Numbering, Holders, Progressed, TypeOK
<1>7. NoAbandonedJob'
  BY <1>1, <1>2, <1>3, <1>4 DEF IInv, NoAbandonedJob, Held
<1>8. OneServedOneWaiting' /\ DropsAreCounted'
  BY <1>1, <1>2, <1>3, <1>4 DEF IInv, OneServedOneWaiting, DropsAreCounted
<1> QED
  BY <1>5, <1>6, <1>7, <1>8 DEF IInv

\* The runner reaches the top of its loop with no job in its hands, and
\* whatever is open waits in the queue.
LEMMA LoopTopStep ==
    ASSUME IInv, runner # "absent", RunnerSame,
           NEW res \in [Jobs -> Results], NEW pub \in [Jobs -> Deliveries],
           LoopTop(res, pub),
           \A j \in Jobs : j > submitted => res[j] = "unsent" /\ pub[j] = "unsent",
           queue # <<>> => res[submitted] = "pending" /\ pub[submitted] = "pending",
           ~cancelled => \A j \in Jobs : res[j] = "pending" \/ pub[j] = "pending" => j \in Queued,
           ~stop /\ ~cancelled =>
                dropped_segments = Cardinality({j \in Jobs : res[j] = "dropped"})
    PROVE  IInv'
<1> USE JobsFacts
<1>1. /\ UNCHANGED <<stop, submitted, dropped_segments, cancelled>>
      /\ current' = NoJob /\ attempt' = 0 /\ got' = NoJob
      /\ submitted \in Nat
  BY DEF RunnerSame, LoopTop, IInv, TypeOK
<1>2. CASE stop
  <2>1. /\ runner' = "ended" /\ get_task' = "none" /\ queue' = <<>>
        /\ result' = DroppedResult(res, Queued)
        /\ published' = DroppedDelivery(pub, Queued)
    BY <1>2 DEF LoopTop
  <2>2. /\ result' \in [Jobs -> Results] /\ published' \in [Jobs -> Deliveries]
        /\ \A j \in Jobs \ Queued : result'[j] = res[j] /\ published'[j] = pub[j]
        /\ \A j \in Jobs \cap Queued : result'[j] # "pending" /\ published'[j] # "pending"
    BY <2>1, DroppedFacts
  <2>3. Queued' = {} /\ \A j \in Queued : j = submitted
    BY <2>1, QueuedFacts DEF IInv, Numbering
  <2>4. TypeOK'
    <3>1. 0 \in 0 .. MaxAttempts /\ Len(queue') <= 1 /\ queue' \in Seq(Jobs)
      BY <2>1, QueueAssumption
    <3> QED
      BY <1>1, <2>1, <2>2, <3>1 DEF IInv, TypeOK, RunnerStates
  <2>5. Numbering' /\ Holders' /\ Progressed'
    BY <1>1, <2>1, <2>2, <2>3 DEF IInv, Numbering, Holders, Progressed, Busy
  <2>6. NoAbandonedJob'
    BY <1>1, <2>2 DEF NoAbandonedJob
  <2>7. OneServedOneWaiting' /\ DropsAreCounted'
    BY <1>1, <1>2, <2>3 DEF OneServedOneWaiting, DropsAreCounted
  <2> QED
    BY <2>4, <2>5, <2>6, <2>7 DEF IInv
<1>3. CASE ~stop
  <2>1. /\ runner' = "waiting" /\ get_task' = "waiting" /\ queue' = queue
        /\ result' = res /\ published' = pub
    BY <1>3 DEF LoopTop
  <2>2. Queued' = Queued
    BY <2>1 DEF Queued
  <2>3. TypeOK'
    <3>1. 0 \in 0 .. MaxAttempts
      BY QueueAssumption
    <3> QED
      BY <1>1, <2>1, <3>1 DEF IInv, TypeOK, RunnerStates
  <2>4. Numbering' /\ Holders' /\ Progressed'
    BY <1>1, <2>1 DEF IInv, Numbering, Holders, Progressed, Busy
  <2>5. NoAbandonedJob'
    BY <1>1, <2>1, <2>2 DEF NoAbandonedJob, Held
  <2>6. OneServedOneWaiting'
    BY <1>1, <2>1, <2>2, <2>4, QueuedFacts DEF OneServedOneWaiting, Numbering, IInv
  <2>7. DropsAreCounted'
    BY <1>1, <2>1 DEF DropsAreCounted
  <2> QED
    BY <2>3, <2>4, <2>5, <2>6, <2>7 DEF IInv
<1> QED
  BY <1>2, <1>3

\* The runner ends a job whose result is still open without an event.
LEMMA UnpublishedStep ==
    ASSUME IInv, runner \in {"taken", "recognize"}, ~cancelled, RunnerSame,
           NEW answer \in Answers \ {"dropped"}, FinishUnpublished(answer)
    PROVE  IInv'
<1> USE JobsFacts
<1> DEFINE res == [result EXCEPT ![current] = answer]
           pub == [published EXCEPT ![current] = "no"]
<1>1. /\ current \in Jobs /\ got = NoJob /\ current <= submitted
      /\ submitted \in Nat /\ result[current] = "pending" /\ runner # "absent"
      /\ result \in [Jobs -> Results] /\ published \in [Jobs -> Deliveries]
  BY DEF IInv, TypeOK, Holders, Numbering, Progressed, Busy
<1>2. /\ res \in [Jobs -> Results] /\ pub \in [Jobs -> Deliveries]
      /\ \A j \in Jobs \ {current} : res[j] = result[j] /\ pub[j] = published[j]
      /\ res[current] = answer /\ pub[current] = "no"
      /\ answer # "pending" /\ answer # "dropped"
  BY <1>1 DEF Results, Deliveries, Answers
<1>3. LoopTop(res, pub)
  BY DEF FinishUnpublished
<1> HIDE DEF res, pub
<1>4. \A j \in Jobs : j > submitted => res[j] = "unsent" /\ pub[j] = "unsent"
  BY <1>1, <1>2 DEF IInv, Numbering
<1>5. queue # <<>> => res[submitted] = "pending" /\ pub[submitted] = "pending"
  BY <1>1, <1>2 DEF IInv, Numbering
<1>6. \A j \in Jobs : res[j] = "pending" \/ pub[j] = "pending" => j \in Queued
  BY <1>1, <1>2 DEF IInv, NoAbandonedJob, Held
<1>7. {j \in Jobs : res[j] = "dropped"} = {j \in Jobs : result[j] = "dropped"}
  BY <1>1, <1>2
<1>8. ~stop /\ ~cancelled =>
        dropped_segments = Cardinality({j \in Jobs : res[j] = "dropped"})
  BY <1>7 DEF IInv, DropsAreCounted
<1> QED
  BY <1>1, <1>2, <1>3, <1>4, <1>5, <1>6, <1>8, LoopTopStep

\* The runner ends a job whose result is known with its event's delivery.
LEMMA PublishedStep ==
    ASSUME IInv, runner \in {"publish", "backoff"}, RunnerSame,
           NEW delivery \in {"yes", "no"}, FinishPublished(delivery)
    PROVE  IInv'
<1> USE JobsFacts
<1> DEFINE pub == [published EXCEPT ![current] = delivery]
<1>1. /\ current \in Jobs /\ got = NoJob /\ current <= submitted
      /\ submitted \in Nat /\ result[current] # "pending" /\ runner # "absent"
      /\ result \in [Jobs -> Results] /\ published \in [Jobs -> Deliveries]
  BY DEF IInv, TypeOK, Holders, Numbering, Progressed, Busy
<1>2. /\ pub \in [Jobs -> Deliveries]
      /\ \A j \in Jobs \ {current} : pub[j] = published[j]
      /\ pub[current] = delivery /\ delivery # "pending"
  BY <1>1 DEF Deliveries
<1>3. LoopTop(result, pub)
  BY DEF FinishPublished
<1> HIDE DEF pub
<1>4. \A j \in Jobs : j > submitted => result[j] = "unsent" /\ pub[j] = "unsent"
  BY <1>1, <1>2 DEF IInv, Numbering
<1>5. queue # <<>> => result[submitted] = "pending" /\ pub[submitted] = "pending"
  BY <1>1, <1>2 DEF IInv, Numbering
<1>6. ~cancelled => \A j \in Jobs : result[j] = "pending" \/ pub[j] = "pending" => j \in Queued
  BY <1>1, <1>2 DEF IInv, NoAbandonedJob, Held
<1> QED
  BY <1>1, <1>2, <1>3, <1>4, <1>5, <1>6, LoopTopStep DEF IInv, DropsAreCounted

\* The runner reaches the top of its loop with nothing to settle.
LEMMA IdleStep ==
    ASSUME IInv, runner \in {"starting", "stopping", "blocked"}, RunnerSame,
           LoopTop(result, published)
    PROVE  IInv'
<1> USE JobsFacts
<1>1. /\ got = NoJob /\ runner # "absent"
      /\ result \in [Jobs -> Results] /\ published \in [Jobs -> Deliveries]
      /\ current \in Jobs => result[current] # "pending" /\ published[current] # "pending"
  BY DEF IInv, TypeOK, Holders, Progressed, Busy
<1>2. /\ \A j \in Jobs : j > submitted => result[j] = "unsent" /\ published[j] = "unsent"
      /\ queue # <<>> => result[submitted] = "pending" /\ published[submitted] = "pending"
  BY DEF IInv, Numbering
<1>3. ~cancelled => \A j \in Jobs : result[j] = "pending" \/ published[j] = "pending" => j \in Queued
  BY <1>1 DEF IInv, NoAbandonedJob, Held
<1> QED
  BY <1>1, <1>2, <1>3, LoopTopStep DEF IInv, DropsAreCounted

\* The session's own steps, but for submit.
LEMMA StartStep == ASSUME IInv, Start PROVE IInv'
<1>1. /\ runner = "absent" /\ runner' = "starting"
      /\ UNCHANGED <<stop, queue, submitted, dropped_segments, result, published,
                     get_task, got, current, attempt, cancelled>>
  BY DEF Start, futures
<1>2. Queued' = Queued
  BY <1>1 DEF Queued
<1>3. TypeOK'
  BY <1>1 DEF IInv, TypeOK, RunnerStates
<1>4. Numbering' /\ Holders' /\ Progressed'
  BY <1>1 DEF IInv, Numbering, Holders, Progressed, Busy
<1>5. NoAbandonedJob' /\ OneServedOneWaiting' /\ DropsAreCounted'
  BY <1>1, <1>2 DEF IInv, NoAbandonedJob, Held, OneServedOneWaiting, DropsAreCounted
<1> QED
  BY <1>3, <1>4, <1>5 DEF IInv

\* The session cancels the runner: from here on futures may stay open.
LEMMA CancelStep == ASSUME IInv, Cancel PROVE IInv'
<1>1. /\ runner # "absent" /\ cancelled' = TRUE
      /\ UNCHANGED <<stop, queue, submitted, dropped_segments, result, published,
                     get_task, got, runner, current, attempt>>
  BY DEF Cancel, futures, taskVars
<1>2. Queued' = Queued
  BY <1>1 DEF Queued
<1>3. TypeOK'
  BY <1>1 DEF IInv, TypeOK
<1>4. Numbering' /\ Holders' /\ Progressed'
  BY <1>1 DEF IInv, Numbering, Holders, Progressed, Busy
<1>5. NoAbandonedJob' /\ OneServedOneWaiting' /\ DropsAreCounted'
  BY <1>1, <1>2 DEF IInv, NoAbandonedJob, OneServedOneWaiting, DropsAreCounted
<1> QED
  BY <1>3, <1>4, <1>5 DEF IInv

\* discard_pending settles the queued job, if there is one, as not processed.
LEMMA DiscardStep == ASSUME IInv, DiscardPending PROVE IInv'
<1> USE JobsFacts
<1>1. /\ cancelled /\ cancelled' /\ runner = "ended" /\ queue' = <<>>
      /\ result' = DroppedResult(result, Queued)
      /\ published' = DroppedDelivery(published, Queued)
      /\ UNCHANGED <<stop, submitted, dropped_segments, get_task, got, runner, current, attempt>>
  BY DEF DiscardPending, Drop, taskVars, IInv, TypeOK
<1>2. /\ result' \in [Jobs -> Results] /\ published' \in [Jobs -> Deliveries]
      /\ \A j \in Jobs \ Queued : result'[j] = result[j] /\ published'[j] = published[j]
      /\ \A j \in Jobs : j \in Queued => j = submitted /\ got < j
      /\ Queued' = {}
  BY <1>1, DroppedFacts, QueuedFacts DEF IInv, TypeOK, Numbering
<1>3. TypeOK'
  BY <1>1, <1>2 DEF IInv, TypeOK
<1>4. Numbering' /\ Holders'
  BY <1>1, <1>2 DEF IInv, Numbering, Holders, TypeOK
<1>5. Progressed'
  <2>1. got # NoJob => got \in Jobs \ Queued
    BY <1>2 DEF IInv, TypeOK
  <2> QED
    BY <1>1, <1>2, <2>1 DEF IInv, Progressed
<1>6. NoAbandonedJob' /\ OneServedOneWaiting' /\ DropsAreCounted'
  BY <1>1, <1>2 DEF IInv, NoAbandonedJob, OneServedOneWaiting, DropsAreCounted
<1> QED
  BY <1>3, <1>4, <1>5, <1>6 DEF IInv

\* A new queue starts with no job.
LEMMA NewSessionStep == ASSUME IInv, NewSession PROVE IInv'
<1> USE JobsFacts
<1>1. /\ queue' = <<>> /\ submitted' = 0 /\ dropped_segments' = 0
      /\ result' = [j \in Jobs |-> "unsent"] /\ published' = [j \in Jobs |-> "unsent"]
      /\ get_task' = "none" /\ got' = NoJob /\ runner' = "absent" /\ current' = NoJob
      /\ attempt' = 0 /\ cancelled' = FALSE /\ stop' = stop
  BY DEF NewSession
<1>2. TypeOK'
  <2>1. 0 \in 0 .. MaxJobs /\ 0 \in 0 .. MaxAttempts /\ <<>> \in Seq(Jobs) /\ Len(<<>>) <= 1
    BY QueueAssumption
  <2> QED
    BY <1>1, <2>1 DEF IInv, TypeOK, Results, Deliveries, RunnerStates
<1>3. Numbering' /\ Holders' /\ Progressed'
  BY <1>1 DEF Numbering, Holders, Progressed, Busy
<1>4. NoAbandonedJob' /\ OneServedOneWaiting'
  BY <1>1, QueuedFacts DEF NoAbandonedJob, OneServedOneWaiting
<1>5. DropsAreCounted'
  <2>1. {j \in Jobs : result'[j] = "dropped"} = {}
    BY <1>1
  <2> QED
    BY <1>1, <2>1, FS_EmptySet DEF DropsAreCounted
<1> QED
  BY <1>2, <1>3, <1>4, <1>5 DEF IInv

\* The stop event settles nothing by itself.
LEMMA StopStep == ASSUME IInv, Stop PROVE IInv'
<1>1. /\ stop' = TRUE
      /\ UNCHANGED <<queue, submitted, dropped_segments, result, published,
                     get_task, got, runner, current, attempt, cancelled>>
  BY DEF Stop, futures, taskVars
<1>2. Queued' = Queued
  BY <1>1 DEF Queued
<1>3. TypeOK'
  BY <1>1 DEF IInv, TypeOK
<1>4. Numbering' /\ Holders' /\ Progressed'
  BY <1>1 DEF IInv, Numbering, Holders, Progressed
<1>5. NoAbandonedJob' /\ OneServedOneWaiting' /\ DropsAreCounted'
  BY <1>1, <1>2 DEF IInv, NoAbandonedJob, Held, OneServedOneWaiting, DropsAreCounted
<1> QED
  BY <1>3, <1>4, <1>5 DEF IInv

\* The runner takes the job from get_task.
LEMMA TakeStep == ASSUME IInv, RunnerTakes PROVE IInv'
<1> USE JobsFacts
<1>1. /\ runner = "waiting" /\ ~cancelled /\ get_task = "done"
      /\ current' = got /\ got' = NoJob /\ get_task' = "none" /\ runner' = "taken"
      /\ UNCHANGED <<stop, queue, submitted, dropped_segments, result, published,
                     attempt, cancelled>>
  BY DEF RunnerTakes, RunnerSame, futures
<1>2. got \in Jobs /\ current = NoJob /\ Queued' = Queued
  BY <1>1 DEF IInv, TypeOK, Holders, Busy, Queued
<1>3. TypeOK'
  BY <1>1, <1>2 DEF IInv, TypeOK, RunnerStates
<1>4. Numbering'
  BY <1>1, <1>2 DEF IInv, TypeOK, Numbering
<1>5. Holders' /\ Progressed'
  BY <1>1, <1>2 DEF IInv, Holders, Progressed, Busy
<1>6. NoAbandonedJob' /\ OneServedOneWaiting' /\ DropsAreCounted'
  BY <1>1, <1>2 DEF IInv, NoAbandonedJob, Held, OneServedOneWaiting, DropsAreCounted
<1> QED
  BY <1>3, <1>4, <1>5, <1>6 DEF IInv

\* The runner leaves its race because of the stop event: get_task's job, if it
\* has one, is dropped.
LEMMA StopsStep == ASSUME IInv, RunnerStops PROVE IInv'
<1> USE JobsFacts
<1>1. /\ runner = "waiting" /\ ~cancelled /\ stop /\ stop'
      /\ result' = DroppedResult(result, {got})
      /\ published' = DroppedDelivery(published, {got})
      /\ got' = NoJob /\ get_task' = "none" /\ runner' = "stopping"
      /\ UNCHANGED <<queue, submitted, dropped_segments, current, attempt, cancelled>>
  BY DEF RunnerStops, RunnerSame, Drop, IInv, TypeOK
<1>2. /\ result' \in [Jobs -> Results] /\ published' \in [Jobs -> Deliveries]
      /\ \A j \in Jobs \ {got} : result'[j] = result[j] /\ published'[j] = published[j]
      /\ got \in Jobs => result'[got] # "pending" /\ published'[got] # "pending"
  <2> DEFINE S == {got}
  <2>1. result \in [Jobs -> Results] /\ published \in [Jobs -> Deliveries]
    BY DEF IInv, TypeOK
  <2>2. result' = DroppedResult(result, S) /\ published' = DroppedDelivery(published, S)
    BY <1>1
  <2>3. \A j \in Jobs : j \in S <=> j = got
    OBVIOUS
  <2> HIDE DEF S
  <2>4. /\ result' \in [Jobs -> Results] /\ published' \in [Jobs -> Deliveries]
        /\ \A j \in Jobs : j \notin S => result'[j] = result[j] /\ published'[j] = published[j]
        /\ \A j \in Jobs : j \in S => result'[j] # "pending" /\ published'[j] # "pending"
    BY <2>1, <2>2, DroppedFacts
  <2> QED
    BY <2>3, <2>4
<1>3. current = NoJob /\ Queued' = Queued /\ got \in Nat /\ submitted \in Nat
  BY <1>1 DEF IInv, TypeOK, Holders, Busy, Queued
<1>4. TypeOK'
  BY <1>1, <1>2 DEF IInv, TypeOK, RunnerStates
<1>5. Numbering'
  <2>1. queue # <<>> => submitted \in Jobs \ {got}
    BY <1>3 DEF IInv, Numbering
  <2>2. \A j \in Jobs : j > submitted => j # got
    BY <1>3 DEF IInv, Numbering
  <2> QED
    BY <1>1, <1>2, <1>3, <2>1, <2>2 DEF IInv, Numbering
<1>6. Holders' /\ Progressed'
  BY <1>1, <1>2, <1>3 DEF IInv, Holders, Progressed, Busy
<1>7. NoAbandonedJob' /\ OneServedOneWaiting' /\ DropsAreCounted'
  <2>1. NoAbandonedJob'
    BY <1>1, <1>2, <1>3 DEF IInv, NoAbandonedJob, Held
  <2>2. OneServedOneWaiting'
    BY <1>1, <1>3, <1>5, QueuedFacts DEF IInv, OneServedOneWaiting, Numbering
  <2> QED
    BY <1>1, <2>1, <2>2 DEF DropsAreCounted
<1> QED
  BY <1>4, <1>5, <1>6, <1>7 DEF IInv

\* The budget's verdict on the job.
LEMMA ConsumesStep == ASSUME IInv, RunnerConsumes PROVE IInv'
<1> USE JobsFacts
<1>1. runner = "taken" /\ ~cancelled /\ RunnerSame /\ current \in Jobs /\ got = NoJob
  BY DEF RunnerConsumes, IInv, TypeOK, Holders, Busy
<1>2. UNCHANGED <<stop, submitted, dropped_segments, cancelled>>
  BY <1>1 DEF RunnerSame
<1>3. CASE /\ runner' = "recognize"
           /\ UNCHANGED <<queue, futures, get_task, got, current, attempt>>
  <2>1. result' = result /\ published' = published /\ Queued' = Queued
    BY <1>3 DEF futures, Queued
  <2>2. TypeOK'
    BY <1>2, <1>3, <2>1 DEF IInv, TypeOK, RunnerStates
  <2>3. Numbering' /\ Holders' /\ Progressed'
    BY <1>1, <1>2, <1>3, <2>1 DEF IInv, Numbering, Holders, Progressed, Busy
  <2>4. NoAbandonedJob' /\ OneServedOneWaiting' /\ DropsAreCounted'
    BY <1>2, <1>3, <2>1 DEF IInv, NoAbandonedJob, Held, OneServedOneWaiting, DropsAreCounted
  <2> QED
    BY <2>2, <2>3, <2>4 DEF IInv
<1>4. CASE /\ result' = [result EXCEPT ![current] = "denied"]
           /\ published' = [published EXCEPT ![current] = "no"]
           /\ runner' = "blocked"
           /\ UNCHANGED <<queue, get_task, got, current, attempt>>
  <2>1. /\ result' \in [Jobs -> Results] /\ published' \in [Jobs -> Deliveries]
        /\ \A j \in Jobs \ {current} : result'[j] = result[j] /\ published'[j] = published[j]
        /\ result'[current] = "denied" /\ published'[current] = "no"
        /\ result[current] = "pending"
        /\ Queued' = Queued
    BY <1>1, <1>4 DEF IInv, TypeOK, Progressed, Results, Deliveries, Answers, Queued
  <2>2. TypeOK'
    BY <1>2, <1>4, <2>1 DEF IInv, TypeOK, RunnerStates
  <2>3. Numbering'
    <3>1. submitted \in Nat /\ current <= submitted /\ (queue # <<>> => submitted \in Jobs \ {current})
      BY DEF IInv, TypeOK, Numbering
    <3>2. \A j \in Jobs : j > submitted => j # current
      BY <3>1
    <3> QED
      BY <1>2, <1>4, <2>1, <3>1, <3>2 DEF IInv, Numbering
  <2>4. Holders' /\ Progressed'
    BY <1>1, <1>2, <1>4, <2>1 DEF IInv, Holders, Progressed, Busy
  <2>5. NoAbandonedJob' /\ OneServedOneWaiting'
    BY <1>2, <1>4, <2>1 DEF IInv, NoAbandonedJob, Held, OneServedOneWaiting
  <2>6. DropsAreCounted'
    <3>1. {j \in Jobs : result'[j] = "dropped"} = {j \in Jobs : result[j] = "dropped"}
      BY <2>1
    <3> QED
      BY <1>2, <3>1 DEF IInv, DropsAreCounted
  <2> QED
    BY <2>2, <2>3, <2>4, <2>5, <2>6 DEF IInv
<1>5. CASE FinishUnpublished("failed")
  BY <1>1, <1>5, UnpublishedStep DEF Answers
<1> QED
  BY <1>3, <1>4, <1>5 DEF RunnerConsumes

\* The provider's answer.
LEMMA RecognizesStep == ASSUME IInv, RunnerRecognizes PROVE IInv'
<1> USE JobsFacts
<1>1. runner = "recognize" /\ ~cancelled /\ RunnerSame /\ current \in Jobs /\ got = NoJob
  BY DEF RunnerRecognizes, IInv, TypeOK, Holders, Busy
<1>2. UNCHANGED <<stop, submitted, dropped_segments, cancelled>>
  BY <1>1 DEF RunnerSame
<1>3. CASE \E answer \in {"failed", "empty", "text"} : FinishUnpublished(answer)
  BY <1>1, <1>3, UnpublishedStep DEF Answers
<1>4. CASE /\ result' = [result EXCEPT ![current] = "text"]
           /\ runner' = "publish"
           /\ attempt' = 1
           /\ UNCHANGED <<queue, published, get_task, got, current>>
  <2>1. /\ result' \in [Jobs -> Results]
        /\ \A j \in Jobs \ {current} : result'[j] = result[j]
        /\ result'[current] = "text" /\ result[current] = "pending"
        /\ Queued' = Queued /\ published' = published
    BY <1>1, <1>4 DEF IInv, TypeOK, Progressed, Results, Answers, Queued
  <2>2. TypeOK'
    BY <1>2, <1>4, <2>1, QueueAssumption DEF IInv, TypeOK, RunnerStates
  <2>3. Numbering'
    <3>1. submitted \in Nat /\ current <= submitted /\ (queue # <<>> => submitted \in Jobs \ {current})
      BY DEF IInv, TypeOK, Numbering
    <3>2. \A j \in Jobs : j > submitted => j # current
      BY <3>1
    <3> QED
      BY <1>2, <1>4, <2>1, <3>1, <3>2 DEF IInv, Numbering
  <2>4. Holders' /\ Progressed'
    BY <1>1, <1>2, <1>4, <2>1 DEF IInv, Holders, Progressed, Busy
  <2>5. NoAbandonedJob' /\ OneServedOneWaiting'
    BY <1>2, <1>4, <2>1 DEF IInv, NoAbandonedJob, Held, OneServedOneWaiting
  <2>6. DropsAreCounted'
    <3>1. {j \in Jobs : result'[j] = "dropped"} = {j \in Jobs : result[j] = "dropped"}
      BY <2>1
    <3> QED
      BY <1>2, <3>1 DEF IInv, DropsAreCounted
  <2> QED
    BY <2>2, <2>3, <2>4, <2>5, <2>6 DEF IInv
<1> QED
  BY <1>3, <1>4 DEF RunnerRecognizes, RunnerFails

\* The runner moves between attempts: no future changes.
LEMMA AttemptStep ==
    ASSUME IInv, runner \in {"publish", "backoff"}, runner' \in {"publish", "backoff"},
           attempt' \in 0 .. MaxAttempts, RunnerSame,
           runner' = "backoff" => attempt' < MaxAttempts,
           UNCHANGED <<queue, futures, get_task, got, current>>
    PROVE  IInv'
<1>1. UNCHANGED <<stop, submitted, dropped_segments, cancelled, result, published>>
  BY DEF RunnerSame, futures
<1>2. Queued' = Queued
  BY DEF Queued
<1>3. TypeOK'
  BY <1>1 DEF IInv, TypeOK, RunnerStates
<1>4. Numbering' /\ Holders' /\ Progressed'
  BY <1>1 DEF IInv, Numbering, Holders, Progressed, Busy
<1>5. NoAbandonedJob' /\ OneServedOneWaiting' /\ DropsAreCounted'
  BY <1>1, <1>2 DEF IInv, NoAbandonedJob, Held, OneServedOneWaiting, DropsAreCounted
<1> QED
  BY <1>3, <1>4, <1>5 DEF IInv

\* An attempt to publish ends: the event is settled, or the runner pauses for another attempt.
LEMMA PublishesStep == ASSUME IInv, RunnerPublishes PROVE IInv'
<1>1. runner = "publish" /\ RunnerSame
  BY DEF RunnerPublishes
<1>2. CASE FinishPublished("yes") \/ FinishPublished("no")
  BY <1>1, <1>2, PublishedStep
<1>3. CASE /\ runner' = "backoff"
           /\ UNCHANGED <<queue, futures, get_task, got, current, attempt>>
           /\ ~LastAttempt
  <2>1. attempt' \in 0 .. MaxAttempts /\ attempt' < MaxAttempts
    BY <1>3, QueueAssumption DEF IInv, TypeOK, LastAttempt
  <2> QED
    BY <1>1, <1>3, <2>1, AttemptStep
<1> QED
  BY <1>2, <1>3 DEF RunnerPublishes

\* The pause ends: another attempt at the same job, or the stop event settles it.
LEMMA RetriesStep == ASSUME IInv, RunnerRetries PROVE IInv'
<1>1. runner = "backoff" /\ RunnerSame
  BY DEF RunnerRetries
<1>2. CASE FinishPublished("no")
  BY <1>1, <1>2, PublishedStep
<1>3. CASE /\ attempt' = attempt + 1
           /\ runner' = "publish"
           /\ UNCHANGED <<queue, futures, get_task, got, current>>
  <2>1. attempt' \in 0 .. MaxAttempts
    BY <1>1, <1>3, QueueAssumption DEF IInv, TypeOK, Progressed
  <2> QED
    BY <1>1, <1>3, <2>1, AttemptStep
<1> QED
  BY <1>2, <1>3 DEF RunnerRetries

\* CancelledError ends the runner wherever it is suspended.
LEMMA CancelledStep == ASSUME IInv, RunnerCancelled PROVE IInv'
<1> USE JobsFacts
<1>1. /\ cancelled /\ runner # "absent" /\ runner' = "ended"
      /\ current' = NoJob /\ attempt' = 0
      /\ UNCHANGED <<stop, queue, submitted, dropped_segments, result, published,
                     get_task, got, cancelled>>
  BY DEF RunnerCancelled, RunnerSame, futures
<1>2. Queued' = Queued /\ submitted \in Nat
  BY <1>1 DEF Queued, IInv, TypeOK
<1>3. TypeOK'
  <2>1. 0 \in 0 .. MaxAttempts
    BY QueueAssumption
  <2> QED
    BY <1>1, <2>1 DEF IInv, TypeOK, RunnerStates
<1>4. Numbering' /\ Holders' /\ Progressed'
  BY <1>1, <1>2 DEF IInv, Numbering, Holders, Progressed, Busy
<1>5. NoAbandonedJob' /\ DropsAreCounted'
  BY <1>1 DEF NoAbandonedJob, DropsAreCounted
<1>6. OneServedOneWaiting'
  BY <1>1, <1>2, <1>4, QueuedFacts DEF IInv, OneServedOneWaiting, Numbering
<1> QED
  BY <1>3, <1>4, <1>5, <1>6 DEF IInv

\* Each step of the queue keeps the inductive invariant: one case per action.
LEMMA NextIInv == IInv /\ [Next]_vars => IInv'
<1> SUFFICES ASSUME IInv, [Next]_vars PROVE IInv'
  OBVIOUS
<1>1. CASE Start \/ Submit \/ Cancel \/ DiscardPending \/ NewSession
  BY <1>1, StartStep, SubmitStep, CancelStep, DiscardStep, NewSessionStep
<1>2. CASE Stop
  BY <1>2, StopStep
<1>3. CASE GetJob
  BY <1>3, GetJobStep
<1>4. CASE RunnerStarts \/ RunnerExits
  BY <1>4, IdleStep DEF RunnerStarts, RunnerExits
<1>5. CASE RunnerTakes \/ RunnerStops
  BY <1>5, TakeStep, StopsStep
<1>6. CASE RunnerConsumes \/ RunnerRecognizes
  BY <1>6, ConsumesStep, RecognizesStep
<1>7. CASE RunnerPublishes \/ RunnerRetries
  BY <1>7, PublishesStep, RetriesStep
<1>8. CASE RunnerUnblocks
  BY <1>8, IdleStep DEF RunnerUnblocks
<1>9. CASE RunnerCancelled
  BY <1>9, CancelledStep
<1>10. CASE UNCHANGED vars
  <2>1. UNCHANGED <<stop, queue, submitted, dropped_segments, result, published,
                    get_task, got, runner, current, attempt, cancelled>>
    BY <1>10 DEF vars, futures, taskVars
  <2>2. Queued' = Queued
    BY <2>1 DEF Queued
  <2> QED
    BY <2>1, <2>2 DEF IInv, TypeOK, Numbering, Holders, Progressed, NoAbandonedJob,
                      Held, OneServedOneWaiting, DropsAreCounted
<1> QED
  BY <1>1, <1>2, <1>3, <1>4, <1>5, <1>6, <1>7, <1>8, <1>9, <1>10 DEF Next, Session, Runner

-----------------------------------------------------------------------------
(* The theorems                                                            *)

\* Every reachable state of the queue satisfies the inductive invariant.
THEOREM Invariant == Spec => []IInv
<1> QED
  BY InitIInv, NextIInv, PTL DEF Spec

\* The queue's fields and futures have their types in every interleaving.
THEOREM TypeCorrect == Spec => []TypeOK
<1>1. IInv => TypeOK
  BY DEF IInv
<1> QED
  BY <1>1, Invariant, PTL

\* Whatever the submitter, get_task, the runner, failures and the stop event
\* do, an open future belongs to a job that somebody holds.
THEOREM NobodyAbandoned == Spec => []NoAbandonedJob
<1>1. IInv => NoAbandonedJob
  BY DEF IInv
<1> QED
  BY <1>1, Invariant, PTL

\* One segment is in service, and only the newest waits.
THEOREM BoundedAndInOrder == Spec => []OneServedOneWaiting
<1>1. IInv => OneServedOneWaiting
  BY DEF IInv
<1> QED
  BY <1>1, Invariant, PTL

\* dropped_segments counts the segments that newer ones have replaced.
THEOREM DropCounterExact == Spec => []DropsAreCounted
<1>1. IInv => DropsAreCounted
  BY DEF IInv
<1> QED
  BY <1>1, Invariant, PTL

-----------------------------------------------------------------------------
(* The queue and the mailbox of LatestMailbox                              *)

\* The mailbox's state as the refinement mapping makes it.
Waiting == IF queue = <<>> THEN NoJob ELSE Head(queue)
Serving == IF current # NoJob THEN current ELSE got
Fates(res) == [j \in Jobs |-> Fate(res[j])]
Closing == stop \/ cancelled

MailboxStep == [Mailbox!Next]_(Mailbox!vars)

-----------------------------------------------------------------------------
(* Lemmas about the mapping                                                *)

\* A segment's fate follows from the two futures of its job.
LEMMA FateFacts ==
    \A x \in Results :
        /\ Fate(x) = "open" <=> x = "pending"
        /\ Fate(x) = "none" <=> x = "unsent"
        /\ Fate(x) = "skipped" <=> x = "dropped"
        /\ Fate(x) = "answered" <=> x \in Answers \ {"dropped"}
  BY DEF Fate, Results, Answers

\* Dropping jobs of the queue skips segments of the mailbox.
LEMMA DropMaps ==
    ASSUME NEW S, NEW res \in [Jobs -> Results]
    PROVE  Fates(DroppedResult(res, S)) = Mailbox!Settled(Fates(res), S, "skipped")
<1>1. \A j \in Jobs : res[j] \in Results
  OBVIOUS
<1>2. Fate("dropped") = "skipped"
  BY DEF Fate
<1>3. \A j \in Jobs :
        Fate(IF j \in S /\ res[j] = "pending" THEN "dropped" ELSE res[j]) =
          IF j \in S /\ Fate(res[j]) = "open" THEN "skipped" ELSE Fate(res[j])
  BY <1>1, <1>2, FateFacts
<1> QED
  BY <1>3 DEF Fates, DroppedResult, Mailbox!Settled, Mailbox!Jobs, Jobs

\* The mailbox's actions, by what becomes of the four parts of its state.
LEMMA StutterByParts ==
    ASSUME UNCHANGED <<submitted, Waiting, Serving, Closing>>,
           Fates(result)' = Fates(result)
    PROVE  MailboxStep
  BY DEF MailboxStep, Mailbox!vars, Waiting, Serving, Closing, Fates

\* Put: one more segment is sent, and it is the one that waits.
LEMMA PutByParts ==
    ASSUME submitted < MaxJobs, submitted' = submitted + 1, Waiting' = submitted',
           Fates(result)' = Mailbox!Settled([Fates(result) EXCEPT ![submitted'] = "open"],
                                            {Waiting}, "skipped"),
           UNCHANGED <<Serving, Closing>>
    PROVE  MailboxStep
  BY DEF MailboxStep, Mailbox!Next, Mailbox!Put, Waiting, Serving, Closing, Fates

\* Take: the waiting segment goes into service.
LEMMA TakeByParts ==
    ASSUME Serving = NoJob, Waiting # NoJob, Serving' = Waiting, Waiting' = NoJob,
           UNCHANGED <<submitted, Closing>>, Fates(result)' = Fates(result)
    PROVE  MailboxStep
  BY DEF MailboxStep, Mailbox!Next, Mailbox!Take, Mailbox!NoJob, NoJob,
         Waiting, Serving, Closing, Fates

\* Answer: the segment in service is settled and stays in service.
LEMMA AnswerByParts ==
    ASSUME Serving # NoJob, Fates(result)[Serving] = "open",
           Fates(result)' = Mailbox!Settled(Fates(result), {Serving}, "answered"),
           UNCHANGED <<submitted, Waiting, Serving, Closing>>
    PROVE  MailboxStep
  BY DEF MailboxStep, Mailbox!Next, Mailbox!Answer, Mailbox!NoJob, NoJob,
         Waiting, Serving, Closing, Fates

\* Finish: the segment in service leaves it, on closing with the waiting one.
LEMMA FinishByParts ==
    ASSUME Serving # NoJob, Serving' = NoJob, UNCHANGED <<submitted, Closing>>,
           \/ /\ Fates(result)' = Mailbox!Settled(Fates(result), {Serving}, "answered")
              /\ Waiting' = Waiting
           \/ /\ Closing
              /\ Waiting' = NoJob
              /\ Fates(result)' =
                   Mailbox!Settled(Mailbox!Settled(Fates(result), {Serving}, "answered"),
                                   {Waiting}, "skipped")
    PROVE  MailboxStep
  BY DEF MailboxStep, Mailbox!Next, Mailbox!Finish, Mailbox!NoJob, NoJob,
         Waiting, Serving, Closing, Fates

\* Close: nothing but the closing flag.
LEMMA CloseByParts ==
    ASSUME ~Closing, Closing', UNCHANGED <<submitted, Waiting, Serving>>,
           Fates(result)' = Fates(result)
    PROVE  MailboxStep
<1>1. Closing' = TRUE
  BY DEF Closing
<1> QED
  BY <1>1 DEF MailboxStep, Mailbox!Next, Mailbox!Close, Waiting, Serving, Closing, Fates

\* Empty: a closing mailbox skips what waits.
LEMMA EmptyByParts ==
    ASSUME Closing, Waiting' = NoJob, UNCHANGED <<submitted, Serving, Closing>>,
           Fates(result)' = Mailbox!Settled(Fates(result), {Waiting}, "skipped")
    PROVE  MailboxStep
  BY DEF MailboxStep, Mailbox!Next, Mailbox!Empty, Mailbox!NoJob, NoJob,
         Waiting, Serving, Closing, Fates

\* Abandon: a closing mailbox lets go of what it served.
LEMMA AbandonByParts ==
    ASSUME Closing, Serving' = NoJob, UNCHANGED <<submitted, Waiting, Closing>>,
           \/ Fates(result)' = Fates(result)
           \/ Fates(result)' = Mailbox!Settled(Fates(result), {Serving}, "skipped")
    PROVE  MailboxStep
  BY DEF MailboxStep, Mailbox!Next, Mailbox!Abandon, Mailbox!NoJob, NoJob,
         Waiting, Serving, Closing, Fates

\* Renew: every part as in the initial state.
LEMMA RenewByParts ==
    ASSUME Closing, submitted' = 0, Waiting' = NoJob, Serving' = NoJob, Closing' = FALSE,
           Fates(result)' = [j \in Jobs |-> "none"]
    PROVE  MailboxStep
  BY DEF MailboxStep, Mailbox!Next, Mailbox!Renew, Mailbox!NoJob, NoJob,
         Mailbox!Jobs, Jobs, Waiting, Serving, Closing, Fates

-----------------------------------------------------------------------------
(* The steps                                                               *)

\* The queue's side of the mapping, in every reachable state.
LEMMA PartsOf ==
    ASSUME IInv
    PROVE  /\ Waiting = IF queue = <<>> THEN NoJob ELSE submitted
           /\ queue # <<>> => submitted \in Jobs
           /\ \A f, how : Mailbox!Settled(f, Queued, how) = Mailbox!Settled(f, {Waiting}, how)
           /\ Fates(result) \in [Jobs -> {"none", "open", "answered", "skipped"}]
           /\ runner \in Busy => Serving = current /\ current \in Jobs /\ got = NoJob
           /\ runner \notin Busy => Serving = got /\ current = NoJob
           /\ result \in [Jobs -> Results]
<1> USE JobsFacts
<1>1. queue # <<>> => queue = <<submitted>> /\ submitted \in Jobs
  BY DEF IInv, Numbering
<1>2. Waiting = IF queue = <<>> THEN NoJob ELSE submitted
  BY <1>1 DEF Waiting
<1>3. \A j \in Jobs : j \in Queued <=> j \in {Waiting}
  BY <1>1, <1>2, QueuedFacts
<1>4. \A f, how : Mailbox!Settled(f, Queued, how) = Mailbox!Settled(f, {Waiting}, how)
  BY <1>3 DEF Mailbox!Settled, Mailbox!Jobs, Jobs
<1>5. result \in [Jobs -> Results]
  BY DEF IInv, TypeOK
<1>6. Fates(result) \in [Jobs -> {"none", "open", "answered", "skipped"}]
  BY <1>5 DEF Fates, Fate
<1>7. /\ runner \in Busy => Serving = current /\ current \in Jobs /\ got = NoJob
      /\ runner \notin Busy => Serving = got /\ current = NoJob
  BY DEF IInv, TypeOK, Holders, Serving, Busy
<1> QED
  BY <1>1, <1>2, <1>4, <1>5, <1>6, <1>7

\* Settling a segment that is settled, or none, changes nothing.
LEMMA SettledAlready ==
    ASSUME NEW f, f = [j \in Jobs |-> f[j]], NEW j, NEW how,
           j \in Jobs => f[j] # "open"
    PROVE  Mailbox!Settled(f, {j}, how) = f
<1>1. \A i \in Jobs : (IF i \in {j} /\ f[i] = "open" THEN how ELSE f[i]) = f[i]
  OBVIOUS
<1> QED
  BY <1>1 DEF Mailbox!Settled, Mailbox!Jobs, Jobs

\* A result that becomes known is an answer of the mailbox.
LEMMA AnswerMaps ==
    ASSUME NEW res \in [Jobs -> Results], NEW j \in Jobs, res[j] = "pending",
           NEW answer \in Answers \ {"dropped"}
    PROVE  Fates([res EXCEPT ![j] = answer]) = Mailbox!Settled(Fates(res), {j}, "answered")
<1>1. Fate(answer) = "answered" /\ Fate(res[j]) = "open"
  BY FateFacts DEF Results
<1>2. \A i \in Jobs :
        Fate([res EXCEPT ![j] = answer][i]) =
          IF i \in {j} /\ Fate(res[i]) = "open" THEN "answered" ELSE Fate(res[i])
  BY <1>1
<1> QED
  BY <1>2 DEF Fates, Mailbox!Settled, Mailbox!Jobs, Jobs

\* submit is a put of the mailbox, which skips the segment it replaces.
LEMMA SubmitMaps == ASSUME IInv, Submit PROVE MailboxStep
<1> USE JobsFacts
<1> DEFINE job == submitted + 1
           opened == [result EXCEPT ![job] = "pending"]
<1>1. /\ submitted < MaxJobs /\ submitted' = job /\ job \in Jobs
      /\ queue' = <<job>> /\ result' = DroppedResult(opened, Queued)
      /\ UNCHANGED <<stop, cancelled, got, current>>
  BY DEF Submit, Enqueue, taskVars, IInv, TypeOK, Jobs
<1>2. opened \in [Jobs -> Results]
  BY PartsOf DEF Results
<1>3. Fates(opened) = [Fates(result) EXCEPT ![job] = "open"]
  <2>1. \A j \in Jobs : Fate(opened[j]) = IF j = job THEN "open" ELSE Fate(result[j])
    BY PartsOf DEF Fate
  <2> QED
    BY <2>1 DEF Fates
<1> HIDE DEF opened
<1>4. Fates(result') = Mailbox!Settled(Fates(opened), Queued, "skipped")
  BY <1>1, <1>2, DropMaps
<1>5. Fates(result)' = Mailbox!Settled([Fates(result) EXCEPT ![submitted'] = "open"],
                                       {Waiting}, "skipped")
  BY <1>1, <1>3, <1>4, PartsOf, ZenonT(30) DEF Fates
<1>6. Waiting' = submitted' /\ Serving' = Serving /\ Closing' = Closing
  BY <1>1 DEF Waiting, Serving, Closing
<1> QED
  BY <1>1, <1>5, <1>6, PutByParts

\* get_task's receipt of the job takes the segment into service.
LEMMA GetJobMaps == ASSUME IInv, GetJob PROVE MailboxStep
<1> USE JobsFacts
<1>1. /\ get_task = "waiting" /\ queue # <<>> /\ got' = Head(queue) /\ queue' = Tail(queue)
      /\ UNCHANGED <<stop, submitted, result, current, cancelled>>
  BY DEF GetJob, futures
<1>2. queue = <<submitted>> /\ submitted \in Jobs /\ got = NoJob /\ current = NoJob
  BY <1>1 DEF IInv, Numbering, Holders, TypeOK, Busy
<1>3. got' = submitted /\ queue' = <<>>
  <2>1. Head(<<submitted>>) = submitted /\ Tail(<<submitted>>) = <<>>
    OBVIOUS
  <2> QED
    BY <1>1, <1>2, <2>1
<1>4. Waiting = submitted /\ Waiting' = NoJob /\ Serving = NoJob /\ Serving' = submitted
  BY <1>1, <1>2, <1>3 DEF Waiting, Serving
<1>5. Closing' = Closing /\ Fates(result)' = Fates(result)
  BY <1>1 DEF Closing, Fates
<1> QED
  BY <1>1, <1>2, <1>4, <1>5, TakeByParts

\* The top of the runner's loop ends a service, if there was one, and empties
\* a mailbox that is closing.
LEMMA LoopTopMaps ==
    ASSUME IInv, RunnerSame, NEW res \in [Jobs -> Results], NEW pub, LoopTop(res, pub),
           Serving # NoJob =>
             Fates(res) = Mailbox!Settled(Fates(result), {Serving}, "answered"),
           Serving = NoJob => res = result
    PROVE  MailboxStep
<1>1. /\ UNCHANGED <<submitted, stop, cancelled>> /\ Closing' = Closing
      /\ Serving' = NoJob
  BY DEF RunnerSame, LoopTop, Closing, Serving
<1>2. CASE stop
  <2>1. queue' = <<>> /\ result' = DroppedResult(res, Queued) /\ Waiting' = NoJob /\ Closing
    BY <1>2 DEF LoopTop, Waiting, Closing
  <2>2. Fates(result') = Mailbox!Settled(Fates(res), Queued, "skipped")
    BY <2>1, DropMaps
  <2>3. Fates(result)' = Mailbox!Settled(Fates(res), {Waiting}, "skipped")
    BY <2>2, PartsOf DEF Fates
  <2>4. CASE Serving # NoJob
    BY <1>1, <2>1, <2>3, <2>4, FinishByParts
  <2>5. CASE Serving = NoJob
    BY <1>1, <2>1, <2>3, <2>5, EmptyByParts
  <2> QED
    BY <2>4, <2>5
<1>3. CASE ~stop
  <2>1. Waiting' = Waiting /\ Fates(result)' = Fates(res)
    BY <1>3 DEF LoopTop, Waiting, Fates
  <2>2. CASE Serving # NoJob
    BY <1>1, <2>1, <2>2, FinishByParts
  <2>3. CASE Serving = NoJob
    BY <1>1, <2>1, <2>3, StutterByParts
  <2> QED
    BY <2>2, <2>3
<1> QED
  BY <1>2, <1>3

\* The service of a segment without an event ends with its answer.
LEMMA UnpublishedMaps ==
    ASSUME IInv, runner \in {"taken", "recognize"}, RunnerSame,
           NEW answer \in Answers \ {"dropped"}, FinishUnpublished(answer)
    PROVE  MailboxStep
<1> USE JobsFacts
<1> DEFINE res == [result EXCEPT ![current] = answer]
<1>1. /\ current \in Jobs /\ Serving = current /\ result[current] = "pending"
      /\ result \in [Jobs -> Results]
  BY PartsOf DEF IInv, Progressed, Busy
<1>2. Fates(res) = Mailbox!Settled(Fates(result), {current}, "answered")
  BY <1>1, AnswerMaps
<1>3. res \in [Jobs -> Results]
  BY <1>1 DEF Results
<1>4. LoopTop(res, [published EXCEPT ![current] = "no"])
  BY DEF FinishUnpublished
<1> HIDE DEF res
<1> QED
  BY <1>1, <1>2, <1>3, <1>4, LoopTopMaps

\* The service of a segment whose result is known ends.
LEMMA AnsweredMaps ==
    ASSUME IInv, runner \in {"publish", "backoff", "blocked"}, RunnerSame,
           NEW pub, LoopTop(result, pub)
    PROVE  MailboxStep
<1> USE JobsFacts
<1>1. /\ current \in Jobs /\ Serving = current /\ result[current] # "pending"
      /\ result \in [Jobs -> Results]
  BY PartsOf DEF IInv, Progressed, Busy
<1>2. Fates(result)[current] # "open" /\ Fates(result) = [j \in Jobs |-> Fates(result)[j]]
  BY <1>1, FateFacts DEF Fates
<1>3. Fates(result) = Mailbox!Settled(Fates(result), {current}, "answered")
  BY <1>2, SettledAlready
<1> QED
  BY <1>1, <1>3, LoopTopMaps

\* The runner turns to its loop without a job.
LEMMA IdleMaps ==
    ASSUME IInv, runner \in {"starting", "stopping"}, RunnerSame,
           LoopTop(result, published)
    PROVE  MailboxStep
<1>1. Serving = NoJob /\ result \in [Jobs -> Results]
  BY PartsOf DEF IInv, Holders, Busy
<1> QED
  BY <1>1, LoopTopMaps

\* A runner that sees the stop event leaves the mailbox closing.
LEMMA StopsMaps == ASSUME IInv, RunnerStops PROVE MailboxStep
<1>1. /\ runner = "waiting" /\ Closing /\ result' = DroppedResult(result, {got})
      /\ got' = NoJob /\ UNCHANGED <<queue, current, stop, submitted, cancelled>>
  BY DEF RunnerStops, RunnerSame, Drop, Closing
<1>2. Serving = got /\ current = NoJob /\ result \in [Jobs -> Results]
  BY <1>1, PartsOf DEF Busy
<1>3. Fates(result') = Mailbox!Settled(Fates(result), {Serving}, "skipped")
  BY <1>1, <1>2, DropMaps
<1>4. Serving' = NoJob /\ Waiting' = Waiting /\ Closing' = Closing
  BY <1>1, <1>2 DEF Serving, Waiting, Closing
<1> QED
  BY <1>1, <1>3, <1>4, AbandonByParts DEF Fates

\* A denied segment, and one whose event is to be published.
LEMMA AnsweredInService ==
    ASSUME IInv, runner \in {"taken", "recognize"}, NEW answer \in {"denied", "text"},
           result' = [result EXCEPT ![current] = answer],
           UNCHANGED <<queue, got, current, stop, submitted, cancelled>>
    PROVE  MailboxStep
<1> USE JobsFacts
<1>1. /\ current \in Jobs /\ Serving = current /\ result[current] = "pending"
      /\ result \in [Jobs -> Results]
  BY PartsOf DEF IInv, Progressed, Busy
<1>2. Fates(result)[Serving] = "open"
  BY <1>1, FateFacts DEF Fates
<1>3. Fates(result') = Mailbox!Settled(Fates(result), {Serving}, "answered")
  BY <1>1, AnswerMaps DEF Answers
<1>4. UNCHANGED <<Waiting, Serving, Closing>>
  BY DEF Waiting, Serving, Closing
<1> QED
  BY <1>1, <1>2, <1>3, <1>4, AnswerByParts DEF Fates

\* A cancelled runner lets go of its job; get_task keeps its own.
LEMMA CancelledMaps == ASSUME IInv, RunnerCancelled PROVE MailboxStep
<1>1. /\ Closing /\ current' = NoJob
      /\ UNCHANGED <<queue, result, got, stop, submitted, cancelled>>
  BY DEF RunnerCancelled, RunnerSame, futures, Closing
<1>2. Waiting' = Waiting /\ Closing' = Closing /\ Fates(result)' = Fates(result)
  BY <1>1 DEF Waiting, Closing, Fates
<1>3. CASE runner \in Busy
  <2>1. Serving' = NoJob
    BY <1>1, <1>3, PartsOf DEF Serving
  <2> QED
    BY <1>1, <1>2, <2>1, AbandonByParts
<1>4. CASE runner \notin Busy
  <2>1. Serving' = Serving
    BY <1>1, <1>4, PartsOf DEF Serving
  <2> QED
    BY <1>1, <1>2, <2>1, StutterByParts
<1> QED
  BY <1>3, <1>4

\* Steps that leave queue, results and jobs in service alone.
LEMMA StutterMaps ==
    ASSUME UNCHANGED <<queue, submitted, result, stop, cancelled>>,
           \/ UNCHANGED <<got, current>>
           \/ current = NoJob /\ current' = got /\ got' = NoJob
    PROVE  MailboxStep
<1>1. Waiting' = Waiting /\ Closing' = Closing /\ Fates(result)' = Fates(result)
  BY DEF Waiting, Closing, Fates
<1>2. Serving' = Serving
  BY DEF Serving
<1> QED
  BY <1>1, <1>2, StutterByParts

\* The stop event and the end of the session close the mailbox.
LEMMA ClosingMaps ==
    ASSUME IInv, Stop \/ Cancel
    PROVE  MailboxStep
<1>1. /\ Closing' /\ UNCHANGED <<queue, submitted, result, got, current>>
      /\ Closing' \in BOOLEAN /\ Closing \in BOOLEAN
  BY DEF Stop, Cancel, Closing, futures, taskVars
<1>2. Waiting' = Waiting /\ Serving' = Serving /\ Fates(result)' = Fates(result)
  BY <1>1 DEF Waiting, Serving, Fates
<1> QED
  BY <1>1, <1>2, CloseByParts, StutterByParts

\* discard_pending empties the mailbox of a session that is over.
LEMMA DiscardMaps == ASSUME IInv, DiscardPending PROVE MailboxStep
<1>1. /\ Closing /\ queue' = <<>> /\ result' = DroppedResult(result, Queued)
      /\ UNCHANGED <<submitted, got, current, stop, cancelled>>
  BY DEF DiscardPending, Drop, taskVars, Closing
<1>2. Fates(result') = Mailbox!Settled(Fates(result), Queued, "skipped")
  BY <1>1, PartsOf, DropMaps
<1>3. Fates(result)' = Mailbox!Settled(Fates(result), {Waiting}, "skipped")
  BY <1>2, PartsOf DEF Fates
<1>4. Waiting' = NoJob /\ Serving' = Serving /\ Closing' = Closing
  BY <1>1 DEF Waiting, Serving, Closing
<1> QED
  BY <1>1, <1>3, <1>4, EmptyByParts

\* The queue of the next session is a new mailbox.
LEMMA NewSessionMaps == ASSUME IInv, NewSession PROVE MailboxStep
<1>1. /\ queue' = <<>> /\ submitted' = 0 /\ result' = [j \in Jobs |-> "unsent"]
      /\ got' = NoJob /\ current' = NoJob /\ stop' = FALSE /\ cancelled' = FALSE
      /\ runner = "ended" => cancelled
      /\ runner = "absent" \/ runner = "ended"
  BY DEF NewSession
<1>2. Fates(result)' = [j \in Jobs |-> "none"]
  BY <1>1 DEF Fates, Fate
<1>3. Waiting' = NoJob /\ Serving' = NoJob /\ Closing' = FALSE
  BY <1>1 DEF Waiting, Serving, Closing
<1>4. CASE Closing
  BY <1>1, <1>2, <1>3, <1>4, RenewByParts
<1>5. CASE ~Closing
  <2>1. runner = "absent" /\ submitted = 0
    BY <1>1, <1>5 DEF Closing, IInv, Holders
  <2>2. \A j \in Jobs : result[j] = "unsent"
    BY <2>1, JobsFacts DEF IInv, Numbering, Jobs
  <2>3. Fates(result) = [j \in Jobs |-> "none"]
    BY <2>2 DEF Fates, Fate
  <2>4. queue = <<>>
    BY <2>1 DEF IInv, Numbering, Jobs
  <2>5. got = NoJob /\ current = NoJob
    BY <2>1 DEF IInv, Holders, TypeOK, Busy
  <2>6. Waiting = NoJob /\ Serving = NoJob /\ Closing = FALSE
    BY <1>5, <2>4, <2>5 DEF Waiting, Serving, Closing, IInv, TypeOK
  <2> QED
    BY <1>1, <1>2, <1>3, <2>1, <2>3, <2>6, StutterByParts
<1> QED
  BY <1>4, <1>5

\* An empty queue is an empty mailbox.
LEMMA InitMaps == Init => Mailbox!Init
<1> SUFFICES ASSUME Init PROVE Mailbox!Init
  OBVIOUS
<1>1. [j \in Jobs |-> Fate(result[j])] = [j \in Jobs |-> "none"]
  BY DEF Init, Fate
<1> QED
  BY <1>1 DEF Init, Mailbox!Init, Mailbox!NoJob, NoJob, Mailbox!Jobs, Jobs

\* Each step of the queue is a step of the mailbox or a stutter.
LEMMA NextMaps == IInv /\ [Next]_vars => MailboxStep
<1> SUFFICES ASSUME IInv, [Next]_vars PROVE MailboxStep
  OBVIOUS
<1>1. CASE Start \/ UNCHANGED vars
  <2>1. UNCHANGED <<queue, submitted, result, stop, cancelled, got, current>>
    BY <1>1 DEF Start, vars, futures, taskVars
  <2> QED
    BY <2>1, StutterMaps
<1>2. CASE Submit \/ DiscardPending \/ NewSession
  BY <1>2, SubmitMaps, DiscardMaps, NewSessionMaps
<1>3. CASE Stop \/ Cancel
  BY <1>3, ClosingMaps
<1>4. CASE GetJob
  BY <1>4, GetJobMaps
<1>5. CASE RunnerStarts \/ RunnerExits
  BY <1>5, IdleMaps DEF RunnerStarts, RunnerExits
<1>6. CASE RunnerTakes
  <2>1. /\ current = NoJob /\ current' = got /\ got' = NoJob
        /\ UNCHANGED <<queue, submitted, result, stop, cancelled>>
    BY <1>6, PartsOf DEF RunnerTakes, RunnerSame, futures, Busy
  <2> QED
    BY <2>1, StutterMaps
<1>7. CASE RunnerStops
  BY <1>7, StopsMaps
<1>8. CASE RunnerConsumes
  <2>1. runner = "taken" /\ RunnerSame /\ UNCHANGED <<stop, submitted, cancelled>>
    BY <1>8 DEF RunnerConsumes, RunnerSame
  <2>2. CASE UNCHANGED <<queue, futures, get_task, got, current, attempt>>
    BY <2>1, <2>2, StutterMaps DEF futures
  <2>3. CASE /\ result' = [result EXCEPT ![current] = "denied"]
             /\ UNCHANGED <<queue, get_task, got, current, attempt>>
    BY <2>1, <2>3, AnsweredInService
  <2>4. CASE FinishUnpublished("failed")
    BY <2>1, <2>4, UnpublishedMaps DEF Answers
  <2> QED
    BY <1>8, <2>2, <2>3, <2>4 DEF RunnerConsumes
<1>9. CASE RunnerRecognizes
  <2>1. runner = "recognize" /\ RunnerSame /\ UNCHANGED <<stop, submitted, cancelled>>
    BY <1>9 DEF RunnerRecognizes, RunnerSame
  <2>2. CASE \E answer \in {"failed", "empty", "text"} : FinishUnpublished(answer)
    BY <2>1, <2>2, UnpublishedMaps DEF Answers
  <2>3. CASE /\ result' = [result EXCEPT ![current] = "text"]
             /\ UNCHANGED <<queue, published, get_task, got, current>>
    BY <2>1, <2>3, AnsweredInService
  <2> QED
    BY <1>9, <2>2, <2>3 DEF RunnerRecognizes, RunnerFails
<1>10. CASE RunnerPublishes \/ RunnerRetries
  <2>1. runner \in {"publish", "backoff"} /\ RunnerSame /\ UNCHANGED <<stop, submitted, cancelled>>
    BY <1>10 DEF RunnerPublishes, RunnerRetries, RunnerSame
  <2>2. CASE FinishPublished("yes") \/ FinishPublished("no")
    BY <2>1, <2>2, AnsweredMaps DEF FinishPublished
  <2>3. CASE UNCHANGED <<queue, futures, get_task, got, current>>
    BY <2>1, <2>3, StutterMaps DEF futures
  <2> QED
    BY <1>10, <2>2, <2>3 DEF RunnerPublishes, RunnerRetries
<1>11. CASE RunnerUnblocks
  BY <1>11, AnsweredMaps DEF RunnerUnblocks
<1>12. CASE RunnerCancelled
  BY <1>12, CancelledMaps
<1> QED
  BY <1>1, <1>2, <1>3, <1>4, <1>5, <1>6, <1>7, <1>8, <1>9, <1>10, <1>11, <1>12
     DEF Next, Session, Runner

-----------------------------------------------------------------------------
(* The refinement                                                          *)

\* The queue implements the mailbox of its documentation: whatever its tasks
\* do, segments are served one at a time and in order, the newest waits, and
\* until it closes none is skipped but for a newer one.
THEOREM Refinement == Spec => ImplementsMailbox
<1> QED
  BY InitMaps, NextMaps, Invariant, PTL DEF Spec, ImplementsMailbox, Mailbox!Spec, MailboxStep

-----------------------------------------------------------------------------
(* What the submitter can rely on                                          *)

\* Every segment put has a fate, and one that was skipped was not the newest.
Kept ==
    /\ \A j \in Jobs : j <= submitted => Fates(result)[j] # "none"
    /\ ~Closing => \A j \in Jobs : Fates(result)[j] = "skipped" => j < submitted

\* The runner leaves the queue only for the stop event or its own cancellation.
EndsForAReason == runner = "ended" => stop \/ cancelled

\* Settling fates changes those that are open and no other.
LEMMA SettledFacts ==
    ASSUME NEW f, NEW S, NEW how
    PROVE  \A j \in Jobs :
             Mailbox!Settled(f, S, how)[j] =
               IF j \in S /\ f[j] = "open" THEN how ELSE f[j]
  BY DEF Mailbox!Settled, Mailbox!Jobs, Jobs

\* The mailbox's steps by what they do to the fates: one is put, all are taken
\* back, or some are settled, with an answer as long as the mailbox is not closing.
LEMMA FatesByStep ==
    ASSUME MailboxStep
    PROVE  \/ /\ submitted < MaxJobs
              /\ submitted' = submitted + 1
              /\ Closing' = Closing
              /\ Fates(result)' = Mailbox!Settled([Fates(result) EXCEPT ![submitted'] = "open"],
                                                  {Waiting}, "skipped")
           \/ submitted' = 0 /\ Fates(result)' = [j \in Jobs |-> "none"]
           \/ /\ submitted' = submitted
              /\ Closing => Closing'
              /\ \/ Fates(result)' = Fates(result)
                 \/ \E S : Fates(result)' = Mailbox!Settled(Fates(result), S, "answered")
                 \/ Closing /\ \E S : Fates(result)' = Mailbox!Settled(Fates(result), S, "skipped")
                 \/ Closing /\ \E S, T :
                      Fates(result)' = Mailbox!Settled(
                          Mailbox!Settled(Fates(result), S, "answered"), T, "skipped")
<1> USE DEF Waiting, Serving, Closing, Fates
<1>1. CASE Mailbox!Put
  BY <1>1 DEF Mailbox!Put
<1>2. CASE Mailbox!Renew
  BY <1>2 DEF Mailbox!Renew, Mailbox!Jobs, Jobs
<1>3. CASE Mailbox!Take \/ Mailbox!Close \/ UNCHANGED Mailbox!vars
  BY <1>3 DEF Mailbox!Take, Mailbox!Close, Mailbox!vars
<1>4. CASE Mailbox!Answer
  BY <1>4 DEF Mailbox!Answer
<1>5. CASE Mailbox!Finish
  BY <1>5 DEF Mailbox!Finish
<1>6. CASE Mailbox!Empty \/ Mailbox!Abandon
  BY <1>6 DEF Mailbox!Empty, Mailbox!Abandon
<1> QED
  BY <1>1, <1>2, <1>3, <1>4, <1>5, <1>6 DEF MailboxStep, Mailbox!Next

\* Until the mailbox closes, the segment that is skipped is the one that a newer
\* one replaces: what the mailbox promises, the queue keeps.
LEMMA KeptStep == ASSUME IInv, IInv', Kept, MailboxStep PROVE Kept'
<1> USE JobsFacts
<1> DEFINE F == Fates(result)
           G == Fates(result)'
<1>1. /\ submitted \in Nat /\ submitted' \in 0 .. MaxJobs
      /\ \A j \in Jobs : j <= submitted => F[j] # "none"
      /\ ~Closing => \A j \in Jobs : F[j] = "skipped" => j < submitted
      /\ \A j \in Jobs : j > submitted => F[j] = "none"
      /\ Waiting = IF queue = <<>> THEN NoJob ELSE submitted
  BY PartsOf, FateFacts DEF IInv, TypeOK, Numbering, Kept, Fates, Results
<1>2. SUFFICES /\ \A j \in Jobs : j <= submitted' => G[j] # "none"
               /\ ~Closing' => \A j \in Jobs : G[j] = "skipped" => j < submitted'
  BY DEF Kept
<1> HIDE DEF F, G
<1>3. CASE /\ submitted < MaxJobs
           /\ submitted' = submitted + 1
           /\ Closing' = Closing
           /\ G = Mailbox!Settled([F EXCEPT ![submitted'] = "open"], {Waiting}, "skipped")
  <2> DEFINE opened == [F EXCEPT ![submitted'] = "open"]
  <2>1. \A j \in Jobs : opened[j] = IF j = submitted' THEN "open" ELSE F[j]
    BY DEF F, Fates
  <2>0. G = Mailbox!Settled(opened, {Waiting}, "skipped")
    BY <1>3
  <2> HIDE DEF opened
  <2>2. \A j \in Jobs : G[j] = IF j \in {Waiting} /\ opened[j] = "open" THEN "skipped" ELSE opened[j]
    BY <2>0, SettledFacts
  <2>3. Waiting # submitted' /\ Waiting < submitted'
    BY <1>1, <1>3
  <2>4. \A j \in Jobs : j <= submitted' => j = submitted' \/ j <= submitted
    BY <1>1, <1>3
  <2>5. \A j \in Jobs : j < submitted => j < submitted'
    BY <1>1, <1>3
  <2> QED
    BY <1>1, <1>3, <2>1, <2>2, <2>3, <2>4, <2>5
<1>4. CASE submitted' = 0 /\ G = [j \in Jobs |-> "none"]
  BY <1>4 DEF Jobs
<1>5. CASE submitted' = submitted /\ (Closing => Closing') /\ G = F
  BY <1>1, <1>5
<1>6. ASSUME submitted' = submitted, Closing => Closing',
             NEW S, G = Mailbox!Settled(F, S, "answered")
      PROVE  /\ \A j \in Jobs : j <= submitted' => G[j] # "none"
             /\ ~Closing' => \A j \in Jobs : G[j] = "skipped" => j < submitted'
  <2>1. \A j \in Jobs : G[j] = IF j \in S /\ F[j] = "open" THEN "answered" ELSE F[j]
    BY <1>6, SettledFacts
  <2> QED
    BY <1>1, <1>6, <2>1
<1>7. ASSUME submitted' = submitted, Closing',
             NEW S, NEW T,
             \/ G = Mailbox!Settled(F, S, "skipped")
             \/ G = Mailbox!Settled(Mailbox!Settled(F, S, "answered"), T, "skipped")
      PROVE  \A j \in Jobs : j <= submitted' => G[j] # "none"
  <2>1. \A j \in Jobs : Mailbox!Settled(F, S, "answered")[j] =
                          IF j \in S /\ F[j] = "open" THEN "answered" ELSE F[j]
    BY SettledFacts
  <2>2. \A j \in Jobs : Mailbox!Settled(F, S, "skipped")[j] =
                          IF j \in S /\ F[j] = "open" THEN "skipped" ELSE F[j]
    BY SettledFacts
  <2>3. \A j \in Jobs : Mailbox!Settled(Mailbox!Settled(F, S, "answered"), T, "skipped")[j] =
                          IF j \in T /\ Mailbox!Settled(F, S, "answered")[j] = "open"
                          THEN "skipped" ELSE Mailbox!Settled(F, S, "answered")[j]
    BY SettledFacts
  <2> QED
    BY <1>1, <1>7, <2>1, <2>2, <2>3
<1> QED
  BY <1>3, <1>4, <1>5, <1>6, <1>7, FatesByStep DEF F, G

\* A runner that ends does so at the top of its loop after the stop event, or
\* because it is cancelled; the stop event and the cancellation last.
LEMMA EndsStep == EndsForAReason /\ [Next]_vars => EndsForAReason'
<1> SUFFICES ASSUME EndsForAReason, [Next]_vars PROVE EndsForAReason'
  OBVIOUS
<1> USE DEF EndsForAReason
<1>1. CASE Session \/ Stop \/ GetJob \/ UNCHANGED vars
  BY <1>1 DEF Session, Start, Submit, Cancel, DiscardPending, NewSession, Stop, GetJob,
              vars, taskVars
<1>2. CASE RunnerCancelled
  BY <1>2 DEF RunnerCancelled, RunnerSame
<1>3. CASE RunnerSame /\ (runner' # "ended" \/ stop)
  BY <1>3 DEF RunnerSame
<1>4. ASSUME NEW res, NEW pub, LoopTop(res, pub) PROVE runner' # "ended" \/ stop
  BY <1>4 DEF LoopTop
<1>5. CASE RunnerStarts \/ RunnerTakes \/ RunnerStops \/ RunnerExits \/ RunnerConsumes
  BY <1>3, <1>4, <1>5 DEF RunnerStarts, RunnerTakes, RunnerStops, RunnerExits,
                          RunnerConsumes, FinishUnpublished
<1>6. CASE RunnerRecognizes \/ RunnerPublishes \/ RunnerRetries \/ RunnerUnblocks
  BY <1>3, <1>4, <1>6 DEF RunnerRecognizes, RunnerFails, RunnerPublishes, RunnerRetries,
                          RunnerUnblocks, FinishUnpublished, FinishPublished
<1> QED
  BY <1>1, <1>2, <1>5, <1>6 DEF Next, Runner

\* Beside the queue at most one segment is open, the one that get_task or the
\* runner has, or had when it was cancelled; none as long as get_task waits.
Leftover ==
    /\ got # NoJob => got \in Unresolved
    /\ \A i, j \in Unresolved \ Queued : i = j
    /\ get_task = "waiting" => Unresolved \subseteq Queued

\* Until the runner is cancelled every open segment has a holder, and of get_task
\* and the runner only one has any.
LEMMA LeftoverBefore == IInv /\ ~cancelled => Leftover
<1> SUFFICES ASSUME IInv, ~cancelled PROVE Leftover
  OBVIOUS
<1>1. Unresolved \subseteq (Queued \cup {got, current}) \ {NoJob}
  BY DEF IInv, NoAbandonedJob, Unresolved, Held
<1>2. got = NoJob \/ current = NoJob
  BY DEF IInv, OneServedOneWaiting
<1>3. got # NoJob => got \in Unresolved
  BY DEF IInv, Progressed, TypeOK, Unresolved
<1>4. get_task = "waiting" => got = NoJob /\ current = NoJob
  BY DEF IInv, Holders, Busy, TypeOK
<1>5. \A i, j \in Unresolved \ Queued : i = j
  BY <1>1, <1>2
<1>6. get_task = "waiting" => Unresolved \subseteq Queued
  BY <1>1, <1>4
<1> QED
  BY <1>3, <1>5, <1>6 DEF Leftover

\* What _resolve_dropped leaves open was open and is not among the dropped.
LEMMA DroppedUnresolved ==
    ASSUME NEW S, NEW pub \in [Jobs -> Deliveries], result \in [Jobs -> Results],
           \A j \in Jobs : pub[j] = "pending" => published[j] = "pending",
           result' = DroppedResult(result, S), published' = DroppedDelivery(pub, S)
    PROVE  Unresolved' \subseteq Unresolved \ S
<1> SUFFICES ASSUME NEW j \in Jobs, result'[j] = "pending" \/ published'[j] = "pending"
             PROVE  (result[j] = "pending" \/ published[j] = "pending") /\ j \notin S
  BY DEF Unresolved
<1> QED
  BY DroppedFacts

\* A cancelled runner settles what it still settles, and at most one segment is
\* left over.
LEMMA LeftoverStep == IInv /\ IInv' /\ Leftover /\ [Next]_vars => Leftover'
<1> SUFFICES ASSUME IInv, IInv', Leftover, [Next]_vars PROVE Leftover'
  OBVIOUS
<1>1. CASE ~cancelled'
  BY <1>1, LeftoverBefore, PTL
<1>2. CASE UNCHANGED <<queue, futures, get_task, got>>
  BY <1>2 DEF Leftover, Unresolved, Queued, futures
<1>3. CASE GetJob
  <2>1. /\ get_task = "waiting" /\ get_task' = "done" /\ got' = Head(queue)
        /\ queue # <<>> /\ queue' = Tail(queue) /\ UNCHANGED futures
    BY <1>3 DEF GetJob
  <2>2. queue = <<submitted>> /\ submitted \in Jobs /\ result[submitted] = "pending"
    BY <2>1 DEF IInv, Numbering
  <2>3. got' = submitted /\ queue' = <<>> /\ Queued = {submitted}
    BY <2>1, <2>2, QueuedFacts
  <2>4. Unresolved' = Unresolved /\ submitted \in Unresolved /\ Unresolved \subseteq {submitted}
    BY <2>1, <2>2, <2>3 DEF Leftover, Unresolved, futures
  <2> QED
    BY <2>1, <2>3, <2>4 DEF Leftover
<1>4. ASSUME Unresolved' \subseteq Unresolved \ Queued, queue' = <<>>,
             got' # NoJob => got' = got /\ got' \in Unresolved', get_task' # "waiting"
      PROVE  Leftover'
  <2>1. Queued' = {}
    BY <1>4, QueuedFacts
  <2> QED
    BY <1>4, <2>1 DEF Leftover
<1>5. CASE DiscardPending
  <2>1. /\ queue' = <<>> /\ got' = got /\ get_task' = get_task /\ runner = "ended"
        /\ result' = DroppedResult(result, Queued)
        /\ published' = DroppedDelivery(published, Queued)
    BY <1>5 DEF DiscardPending, Drop, taskVars
  <2>2. Unresolved' \subseteq Unresolved \ Queued
    BY <2>1, DroppedUnresolved DEF IInv, TypeOK
  <2>3. got # NoJob => got \in Jobs /\ result[got] = "pending" /\ got \notin Queued
    BY JobsFacts DEF IInv, TypeOK, Progressed, OneServedOneWaiting
  <2>4. got' # NoJob => got' \in Unresolved'
    BY <2>1, <2>3, DroppedFacts DEF IInv, TypeOK, Unresolved
  <2>5. CASE get_task = "waiting"
    <3>1. Unresolved' = {} /\ got = NoJob
      BY <2>2, <2>5 DEF Leftover, IInv, Holders
    <3> QED
      BY <2>1, <3>1 DEF Leftover
  <2> QED
    BY <1>4, <2>1, <2>2, <2>4, <2>5
<1>6. CASE cancelled /\ (RunnerRetries \/ RunnerUnblocks)
  <2>1. PICK delivery \in {published[current], "no"} :
          LoopTop(result, [published EXCEPT ![current] = delivery])
    <3>1. current \in Jobs => published = [published EXCEPT ![current] = published[current]]
      BY DEF IInv, TypeOK
    <3>2. runner \in {"backoff", "blocked"} => current \in Jobs
      BY DEF IInv, TypeOK, Holders, Busy
    <3> QED
      BY <1>6, <3>1, <3>2 DEF RunnerRetries, RunnerUnblocks, WaitEnds, FinishPublished
  <2> DEFINE pub == [published EXCEPT ![current] = delivery]
  <2>2. /\ queue' = <<>> /\ got' = NoJob /\ get_task' = "none"
        /\ result' = DroppedResult(result, Queued)
        /\ published' = DroppedDelivery(pub, Queued)
    BY <1>6, <2>1 DEF RunnerRetries, RunnerUnblocks, WaitEnds, LoopTop
  <2>3. /\ pub \in [Jobs -> Deliveries]
        /\ \A j \in Jobs : pub[j] = "pending" => published[j] = "pending"
    BY DEF IInv, TypeOK, Deliveries
  <2> HIDE DEF pub
  <2>4. Unresolved' \subseteq Unresolved \ Queued
    BY <2>2, <2>3, DroppedUnresolved DEF IInv, TypeOK
  <2> QED
    BY <1>4, <2>2, <2>4
<1>7. CASE cancelled /\ Runner
  <2>1. CASE RunnerCancelled
    BY <1>2, <2>1 DEF RunnerCancelled
  <2> QED
    BY <1>6, <1>7, <2>1 DEF Runner, RunnerStarts, RunnerTakes, RunnerStops, RunnerExits,
                            RunnerConsumes, RunnerRecognizes, RunnerPublishes
<1>8. CASE Session
  BY <1>1, <1>2, <1>5, <1>8 DEF Session, Start, Submit, Cancel, NewSession, taskVars
<1>9. CASE Stop \/ UNCHANGED vars
  BY <1>2, <1>9 DEF Stop, vars, taskVars
<1>10. CASE ~cancelled /\ Runner
  BY <1>1, <1>10 DEF Runner, RunnerStarts, RunnerTakes, RunnerStops, RunnerExits,
                     RunnerConsumes, RunnerRecognizes, RunnerPublishes, RunnerRetries,
                     RunnerUnblocks, RunnerCancelled, RunnerSame
<1> QED
  BY <1>3, <1>7, <1>8, <1>9, <1>10 DEF Next

\* Whoever submits can rely on it: the futures of every segment submitted are
\* open or settled, until the session closes the newest is not dropped, the
\* runner is there until the gateway stops or the session cancels it, and beside
\* the queue at most one segment is open.
THEOREM SubmitterServed == Spec => [](IInv /\ Kept /\ EndsForAReason /\ Leftover)
<1>1. Init => Kept /\ EndsForAReason /\ Leftover
  BY JobsFacts, InitIInv, LeftoverBefore
     DEF Init, Kept, EndsForAReason, Fates, Fate, Jobs
<1>2. /\ IInv /\ IInv' /\ Kept /\ EndsForAReason /\ [Next]_vars => Kept' /\ EndsForAReason'
      /\ IInv /\ IInv' /\ Leftover /\ [Next]_vars => Leftover'
  BY NextMaps, KeptStep, EndsStep, LeftoverStep
<1> QED
  BY <1>1, <1>2, Invariant, PTL DEF Spec

=============================================================================
