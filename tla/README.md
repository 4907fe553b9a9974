# Formal models of the RTSP Assist Gateway

The gateway (`src/rtsp_assist_gateway/gateway/`) turns the microphone of an
RTSP camera into voice commands for Home Assistant: ffmpeg delivers PCM, a
segmenter cuts it into speech segments, a wake word provider or the speech
itself decides what is a command, Home Assistant's speech-to-text transcribes
it, and the command goes out over MQTT.  It is one asyncio process with a few
helper threads; what is hard about it is the order of things: tasks that race,
futures that somebody must resolve, retries that overlap late answers, a stop
event that may come at any await, and a privacy budget that must survive a kill.

This directory holds TLA+ modules that model that behaviour, TLC configurations
that check it on small instances, and proofs checked by TLAPS.  `PROJECT.json`
maps each definition to its source lines.  Line numbers below are those of the
file named beside them, all in `gateway/` unless they carry a path.

## 1. Inventory

### Components, state, operations

| component | source | state | operations |
|---|---|---|---|
| Speech segmenter | `vad.py` `SpeechSegmentCollector` | pre-roll deque, open segment, speech and silence counters, active flag, the detector's recurrent state | `feed`, `reset` |
| Transcript queue | `transcript.py` `LatestTranscriptQueue` | a queue of one, two futures per job, the drop counter | `submit`, `run`, `discard_pending` |
| Transcript processor, event publisher | `transcript.py` | none beyond the attempt under way | `recognize`, `publish` with three attempts |
| microWakeWord worker | `microwake_worker.py` | the last completed segment, the command under way, the runner's task | `run_forever`, `run_once`, `read_for_wake` |
| HA STT, ambient, canary workers | `stt_worker.py`, `transcript.py`, `worker.py` | the backoff of sessions and of a publication | `run_forever`, `run_once` |
| Submission budget | `budget.py` | a JSON file of request and audio time stamps | `consume` |
| MQTT publisher | `mqtt.py` | the connected event, the paho client and its thread | `connect`, `publish`, `close`, two callbacks |
| Wyoming detector | `wyoming_client.py` | three tasks and a connection | `detect` |
| RTSP source | `source.py` | the ffmpeg process | `start`, `read_chunk`, `close` |
| HA STT client | `ha_stt.py` `HaSttClient` | a WebSocket dialogue: handler, offset, transcript | `transcribe` |
| Event encoding, matcher | `transcript.py` 50-94, `matcher.py` | none (pure) | `encode_transcript_event`, `match_wake_word_prefix`, `command_from_transcript` |
| Configuration, main | `config.py`, `main.py` | the accepted options, the stop event, the publisher, the worker | `parse_options`, `build_worker`, `run`, signals |
| Release script | `src/scripts/release_tag.py` | refs of the clone and of the remote | validation, tag, atomic push |
| Version and packaging checks | `src/scripts/check_versions.py`, `verify_packaging.py` | none | static checks of files |

### How they interact

`main.py` builds one worker and a stop event that SIGTERM and SIGINT set.  A
worker opens the RTSP source, reads chunks and feeds each to its segmenter.

* The **wake worker** hands its reading function to the Wyoming detector, so a
  chunk is heard by the provider and by the segmenter.  With transcript events
  enabled each completed segment is submitted to the transcript queue, whose
  runner is a task beside the worker; after a detection the worker picks the
  segment that belongs to it, awaits that job's `result` future without a
  timeout, publishes the command until it succeeds, and gives the transcript
  event one more second.
* A transcription is one call of the **HA STT client**, which opens a WebSocket to
  Home Assistant for it, under one deadline.
* The **other workers** take one segment (or detection), handle it, close the
  source and pause.
* Every request to the STT provider is charged to the **budget** first.
* Every publication goes through one **MQTT publisher**, in a thread per call;
  paho's network thread calls back into it.

### Hard behaviours, and what makes each component correct

| component | hard | correct means |
|---|---|---|
| segmenter | a long mixture of speech, silence, failures and resets; four limits compared just after two counters changed | no onset is clipped, no audio is joined across a reset or handed out twice, memory is bounded, a returned segment is usable |
| queue | submitter, `get_task`, runner, stop and cancellation interleave at every await | nobody waits on a future that nobody resolves; one in service, the newest waiting; drops are counted |
| wake worker | the session ends by success, failure or stop with the runner anywhere | the awaited job is always worked on and never dropped; a session leaves at most one unanswered segment behind; it listens again |
| session workers | a stop between any two steps; two kinds of backoff | commands and events are not lost until stopped; backoff as configured; no busy loop |
| budget | a kill or a failed write between load, write, replace and request; time that passes and a clock that is set back between them; three windows | no more is admitted in real time than allowed; `retry_after` is exact |
| publisher | acknowledgements lost, late or duplicated; callbacks during close; threads that outlive their coroutine | at least once, no success without arrival; a closed publisher stays closed |
| STT client | Home Assistant may speak early, late, twice or never; deadline, lost connection or cancellation at any await, the closing handshake included | the audio is heard once and in order; a returned text is that of this run; the call ends |
| source, main | an ffmpeg that ignores SIGTERM; a stop at any time; two chains of conditions that choose source and worker | no process outlives its session; every enabled mode gets the source, pipeline and limits it asks for |
| encoding, matcher | normal forms longer or shorter than the text; characters of several bytes; a flag that changes the size it reports on | the longest text that fits; the command is what follows the wake word, and the word alone is none |
| release script | other releasers, pushes and tags by hand between validation and push; a lost answer; HEAD moves | one tag, of the validated commit, that stays |
| detector | three tasks race and two are cancelled in each round | provider and segmenter hear the same chunks; nothing is left at work; stop ends it, unless a write waits for ever |

`PROJECT.json` lists each of these hazards at its line with the properties that
cover it.

## 2. Modules

| module | models | state and actions |
|---|---|---|
| `SpeechSegment` | `SpeechSegmentCollector` | its six fields under their names; a chunk is its position in the stream and the detector's verdict; `Feed`, `FeedError`, `Reset` |
| `SpeechSegment_proofs` | | invariants and theorems of the segmenter and of the detector that feeds it |
| `LatestMailbox` | abstract: what README.md 168-169 promises of the queue | `sent`, `waiting`, `serving`, the fate of each segment |
| `TranscriptQueue_proofs` | | its inductive invariant and theorems, the refinement of the mailbox, and what a submitter may rely on |
| `TranscriptQueue` | queue, processor, publisher of events | one action per stretch between two awaits of the submitter, of `get_task` and of the runner; both futures of each job |
| `MicroWakeWorker` | the wake worker, composed with `TranscriptQueue` (`Q == INSTANCE`) | the program counter of `run_once` and `run_forever`; each step on the queue is the queue's own action |
| `MicroWakeWorker_proofs` | | its invariant over that of the queue, and its theorems |
| `SpeechWorkers` | the other three workers | `mode` selects the worker; the pauses and retries of `run_forever` |
| `SubmissionBudget` | `SubmissionBudget.consume` | the file and the temporary file as amounts by stamp, the clock, real time, and what the provider has heard, by the time it was admitted and by the time it was heard |
| `AtLeastOnce` | abstract: at-least-once delivery (README.md 138) | copies of a payload: offered, doubted, arrived, confirmed |
| `PahoPublisher` | `PahoPublisher` and, as an external party, the paho client and the broker | phases of the publisher, calls by thread, the client's outbox, the link |
| `PahoPublisher_proofs` | | its invariant, that it stays closed, the refinement of at-least-once delivery |
| `WyomingDetector` | `WyomingDetector.detect` | its three tasks, chunks that arrived, were fed and were sent |
| `HaSttClient` | `HaSttClient.transcribe`; Home Assistant is external and says any message at any time | where the call is suspended, what was said, received and heard; one action per message, frame and interruption |
| `HaSttClient_proofs` | | its invariant and theorems |
| `SpeechWorkers_proofs` | | the session workers' invariant and theorems; the text of the events they publish; the commands found in transcripts; the budget before their requests |
| `Configuration` | `parse_options` | operators only: which options are accepted |
| `FfmpegSource` | `FfmpegPcmSource` and, as external parties, ffmpeg and the child watcher | the object, its process, and processes nobody holds |
| `Gateway` | `main.py` and the session loop every worker has; composes `Configuration` and `FfmpegSource` | `options`, `active`, `publisher`, `worker`, `stop` |
| `Gateway_proofs` | | types, held processes, the decision table |
| `Texts` | transcripts as sequences of characters, stripping | operators only |
| `TranscriptEvent` | `encode_transcript_event` | operators only; the binary search is a recursive function |
| `WakeMatcher` | `matcher.py`, the wake words `config.py` accepts, `command_from_transcript` | operators only; composing, folding and dropping separators are recursive functions |
| `TranscriptText` | the two above, for every text | `transcript`, which grows by a character |
| `ReleaseTag` | `release_tag.py`; git, GitHub and the developers are external | refs of remote and clones, the step of each script; one action per git or gh command |
| `ReleaseTag_proofs` | | its invariant and theorem |

Each `MC` module extends its component and is run with the `.cfg` of its name.

### How a step is chosen

asyncio tasks run until they await, so an action is what one task does from one
await to the next, and every interleaving of those is explored.  Where
`asyncio.wait` returns, the tasks that are done *by then* count, as in the
code: the stop event may be set and its task not have run.  Threads
(`PahoPublisher`) interleave at every access to shared state.  A cancelled
runner leaves its `get_task` alive, and `asyncio.wait_for` hands an
already-set event even to a task that is being cancelled; both are modelled.

In a module, operators marked "Slip for X" are plausible wrong versions of the
operator `X` that follows; no action uses them.  They are there to see that
each property would notice: with the slip in place of `X` TLC finds that
property violated (`"mutants"` in `PROJECT.json`).

### Abstractions

* Audio is positions and verdicts (`SpeechSegment`), a length (`MicroWakeWorker`)
  or a count (`WyomingDetector`).  The wake worker's segment shrinks to its
  length because `SpeechSegment` settles what it contains.
* The budget's file is what it charges at each stamp.  `consume` sorts its entries
  by stamp before it looks at them, and entries of one stamp leave a window
  together: their order does not show.  Two histories beside it, in real time:
  `admitted` has each request that reached the provider where `consume` read the
  clock for it, `sent` where the provider was contacted.  Between the two,
  `MaxDelay` at most may pass.  In the code that is the write and `fsync` of the
  file, which nothing limits, and the connection and login, which are under
  the 45 s of `ha_stt.py` 31.
* Outside `TranscriptEvent` and `WakeMatcher` text, JSON, MQTT topics and log
  lines are left out; an answer is one of `text`, `empty`, `denied`, `failed`.
* In `TranscriptEvent` a character is the bytes it makes of the event, in
  `WakeMatcher` what it composes with and folds to.  The alphabet of the run has
  one character of each kind (a case pair, one that folds to two, one that a
  mark composes, one whose mark stays when its case is folded, as that of `İ`
  does, one that JSON escapes, a separator); Unicode's tables are Python's, and
  `MatchAssumption` says what of them the matcher relies on (section 4).  Of
  NFKC it has the composing of a base with the marks behind it; that compatibility
  forms (full-width letters, ligatures) are replaced, and that marks of different
  classes are put in order, is left out.  `AcceptedWords` is the check of the HA STT modes, across all wake
  words; `microwakeword_activation` makes it within each word, which is all that
  `command_from_transcript` uses.
* A section of the options is what its acceptance and the choice of the worker
  depend on: switches, IDs and limits.  Types, names, labels and URIs are one
  flag, `wellformed`.
* A message of Home Assistant is its type and the handler or text in it.
* A commit is its ancestors, whether its tests pass and whether its versions
  match the tag.
* Seconds and backoffs are small integers.  The budget's floats are integers,
  so rounding at the edge of a window is not covered.
* Whether a segment is recent enough for a detection is a free choice
  (`fresh`): no guarantee of the code decides it.
* The real clock is monotonic; the wall clock may be set back at any moment, in a
  call of `consume` too, never ahead of real time.  A clock that jumps ahead prunes budget entries early, and the
  code does not guard against it.

## 3. Runs

| run | question | bounds, and why they are enough | states |
|---|---|---|---|
| `speech_segment` | is every segment whole, usable, and handed out once? | counts 2/2/4/2/6 (pre-roll, end silence, minimum, minimum of speech, maximum) in place of 10/25/16/4/469.  As shipped a segment that silence ends has 26 chunks at least, so the minimum of 16 never rejects one; here it is above the end silence, so that it does.  A stream of 12 holds two segments of maximal length or several shorter ones with resets between | 872 |
| `transcript_queue` | is every job's future resolved, and the newest kept? | three jobs: one served, one waiting, one that replaces it; two attempts: one retried, one last | 4,759 |
| `microwake_worker` | does the worker ever hang, spin, lose a command or leave speech behind? | the same queue, an open segment of two chunks at most before it closes by itself | 137,996 |
| `wake_blocked_by_delivery` | does delivery of a transcript ever hold up a wake command? | two jobs are enough: it does (section 6) | - |
| `speech_workers` | are command and event delivered, backoffs right, stops heeded? | three attempts as shipped, and a maximum backoff (6) that, like the 30 s of the code, is no power of two | 2,074 |
| `submission_budget` | do the limits hold in real time, is `retry_after` exact? | windows of 2, 3 and 5 ticks and limits that each window reaches by itself; a delay of up to 1, so that two requests are heard closer together than they were admitted; time to 6, so that the day window rolls over | 747,194 |
| `paho_publisher` | at least once, over any connection? | a command and an event in flight together, each with one retry, so an old copy can outlive a new one | 57,017 |
| `wyoming_detector` | do provider and segmenter hear the same? | three chunks: one being written, one in the pipe, one arriving | 1,530 |
| `ha_stt_client` | is the text that of this audio, and does the call end? | audio of up to two frames, the last one whole or short; six messages: the five of a regular run and one more, two of them ahead of the client; two handlers and texts, so that a wrong one shows | 1,263,341 |
| `gateway` | is each accepted configuration run as it says, and is nothing left behind? | sections that are left out, right, or off by one setting; lists of no source, one, two, a duplicate, a malformed one; sessions without bound | 289,035 |
| `transcript_text` | is the event the longest that fits, and the command what follows the word? | every text of up to five of nine characters: the longest alias (three characters as normalised, four as written) and a command; room for none to five bytes | 66,430 |
| `release_tag` | is what is published what was validated? | two releasers, who are interchangeable (symmetry), and three commits: one that may be released and two children that lack green tests or the version | 1,705,446 |

Each module with state has its types as one invariant: `TypeOK`, `DetectTypes`
of the detector, `BudgetTypes` of the budget, `Types` in `ReleaseTag_proofs`
(`TranscriptText` has one variable and needs none).  All of them are proved; a
run repeats that of the wake worker and, as the first part of `FileIsBounded`,
that of the budget.  Properties:

* `RetainedIsOneRun`, `CountersMatchSegment`, `PreRollKept`,
  `CompletedIsUsable`, `NoAudioTwice`: the segmenter, as in section 1.
* `NoAbandonedJob`: until the session cancels the runner, a job with an open
  future is in the queue, with `get_task`, or with the runner.
  `DropsAreCounted`: the counter.  (`OneServedOneWaiting`, the bound, is proved
  and follows from the mailbox.)
  `ImplementsMailbox`: refinement of `LatestMailbox`, with "in service" mapped
  to the runner's job or, before it is taken, `get_task`'s.
  `EverySubmissionSettles`: in the end neither the result nor the delivery of a
  segment is open, unless the session cancels the runner or it has ended.
* `AwaitedJobIsServed`, `CommandNotDropped`, `SessionLeavesLittle`,
  `NoBusyLoop`, `StopsEventually`, `ListensAgain`: the wake worker.
  `SessionLeavesLittle` says what a session may leave: `get_task`, which a
  cancelled runner does not cancel (`transcript.py` 250-252), and at most one
  segment without its answers, `get_task`'s if it has taken one.  Nobody awaits
  them any more.
* `ResultsAreDelivered`, `BackoffMatchesFailures`, `NoBusyLoop`,
  `StopsEventually`: the session workers.
* `AdmissionsHold`, `LimitsHold`, `RetryIsExact`, `FileIsBounded`: the budget.  The
  first two are about requests that reached the provider, in *real* time, not
  about the file.  `AdmissionsHold` counts each where `consume` read the clock for
  it, and the limits hold exactly.  `LimitsHold` counts it where the provider
  was contacted, and there they hold of windows shorter by `MaxDelay`: with a
  limit of one a minute, a request charged at 0 s and heard at 30 s may be
  followed by one charged and heard at 60 s.  The code promises no more, and
  with the whole windows in place of the shorter ones TLC finds that behaviour.
* `ImplementsAtLeastOnce`, `ClosedStaysClosed`, `CallsReturn`: the publisher.
* `SameStream`, `NothingLeftBehind`, `EndsOnStop`: the detector.  `EndsOnStop`: once
  the stop event is set `detect` returns, or one write to the provider never ends;
  nothing else can hold it up.
* `AudioInOrder`, `OutcomeIsHonest`, `EndsByDeadline`: the STT client.  The
  second traces a returned text back to what Home Assistant said: after the
  authentication, in the run that was announced, after the last frame, with no
  failure in between.
* `NothingLeftRunning`, `EveryModeAsConfigured`, `StopsEventually`: the process.
  `EveryModeAsConfigured` compares the worker with the section of each enabled
  mode, although one worker may serve two of them with one pipeline and budget.
* `EncodedIsLongest`, `CommandIsRest`, `WakeWordAloneIsNoCommand`: the texts,
  each against a definition that does not search.
* `ReleaseIsVerified`: the release script.

All runs switch deadlock checking off because every system here may really
stop: the stop event ends the worker for good, or the bound of the model is
reached.  What must not stop is stated by the liveness properties.

### Fairness

Weak fairness only, on the steps of the program, never on the environment:
speech, failures, the stop event and broken links may come or not.

* asyncio resumes each task whose awaitable is done: `GetJob`, `Runner`,
  `Progress` of the workers, `Driven` (what `detect` does between its writes),
  `StopSeen` and `ChunkRead` are weakly fair.
* That an external answer comes at all is a property of a timeout in the code:
  the STT dialogue runs under `asyncio.timeout` (`ha_stt.py` 46), an attempt to
  publish waits 10 s for its acknowledgement (`mqtt.py` 119) and raises, the
  pauses between attempts are `asyncio.wait_for` on the stop event, and ffmpeg
  is killed 3 s after being terminated (`source.py` 84-91).
* `HaSttClient`: only the call's own first step, its deadline and the closing
  handshake (which has a timeout of 5 s) are fair.  Home Assistant need not even
  take the audio.
* `Gateway`: the steps of `run` and of `close`, and what the operating system
  guarantees: SIGKILL ends ffmpeg and the event loop reaps its children.  ffmpeg
  need not heed SIGTERM.  That a session in use ends once the stop event is set
  is what the runs of the workers show (`StopsEventually` of each).
* A write to the wake word provider (`wyoming_client.py` 69, 96) has no timeout and
  does not look at the stop event.  It is not fair in `WyomingDetector`, and
  `EndsOnStop` leaves out the behaviours in which one waits for ever.  The
  workers see of `detect` that it returns once stopped (`DetectStops` is part of
  their fair `Progress`): this one assumption is *not* backed by the code, so
  their liveness holds for a provider that reads or disconnects.

## 4. Proofs

Eight modules hold the proofs.  Each theorem holds for every value of the
constants that the named assumption of its module allows; the runs show the same
property on a small instance.  Every invariant proved has the same shape: an
inductive invariant that TLC checked before the proof, a lemma for the initial
state and one for each action (or group of similar ones), and consequences of
`Spec => []IInv`.

### Segmenter
`SpeechSegment_proofs` proves, for all counts allowed by `CountsAssumption`
and for streams of every length, that each invariant of the `speech_segment` run
holds, with `BoundedMemory` and `NoAudioTwice`:

* `CountsAssumption`: each count is positive (`__init__` forces it) and the
  pre-roll and the onset chunk together are below the maximum (11 < 469 as
  shipped).  The last part is needed: with a longer pre-roll a segment would
  exceed the maximum at its first chunk.
* The stated invariants are not inductive by themselves.  That the pre-roll of a
  new segment holds no speech (`PrebufferIsSilent`) is what makes the first
  speech of a segment its onset and the speech counter right when the segment
  opens; `CompletedIsReleased` ties the segment just returned to the stream.
  `IInv` is the conjunction.
* One lemma for the initial state and one for each branch of a call (a silent
  chunk while nobody speaks, an onset, a chunk of an open segment, an ending,
  a failure, a reset); they rest on lemmas about appending to a sequence, the
  positions of speech and the suffix that `Newest` keeps.
* `Invariant` concludes `Spec => []IInv`; `TypeCorrect`, `RetainedRun`,
  `MemoryBounded`, `CountersCorrect`, `OnsetsKept` and `SegmentsUsable` follow,
  and `AudioOnce` proves the action property from the same invariant.

### Transcript queue

`TranscriptQueue_proofs` proves `TypeOK`, `NoAbandonedJob`,
`OneServedOneWaiting` and `DropsAreCounted` for any number of submissions and of
attempts (`QueueAssumption`: both are positive).  Three facts make them
inductive:

* `Numbering`: jobs above `submitted` are unsent, and what is queued is the
  newest job, open and newer than any that is held.  Without it `submit` could
  drop a job that is in service.
* `Holders`: who may hold a job follows from where the runner is suspended.
  `get_task` holds one only while the runner waits, or after it was cancelled
  and left its `get_task` behind.
* `Progressed`: what a suspended runner has already settled of its job, so that
  each way to leave that point settles the rest.

The second part of the module proves `ImplementsMailbox`.  The mapping has
four parts (waiting, serving, fates, closing); a first group of lemmas states each
action of `LatestMailbox` by what becomes of the parts, a second maps each
branch of the code to one of them.  `Renew` is only possible in a closing
mailbox, so the refinement includes that no session ends its queue otherwise.

The last part is what somebody who submits relies on.  `SubmitterServed` adds to
the invariant that every segment submitted has an open or settled future and
that, until the gateway stops or the session cancels the runner, the newest is
not dropped and the runner has not ended.  Its last part, `Leftover`, holds after
the cancellation too: beside the queue at most one segment is open, since of
`get_task` and the runner only one had any (`LeftoverBefore`), and a `get_task` that
still waits then has nothing but the queue's segment to take.

### Wake worker

`MicroWakeWorker_proofs` proves every invariant of the `microwake_worker` run,
for any number of segments, attempts and chunks (`WorkerAssumption`: the first two
are positive, and a segment closes by itself after two chunks at the earliest).
The proof is by composition:

* Each step of the worker on the queue *is* an action of `TranscriptQueue`, by the
  way the model is written (`QueueUsed`, a lemma that says no more than that).
* So whatever is proved about the queue holds of the worker's queue
  (`Queue == INSTANCE TranscriptQueue_proofs`, `SameQueue`); `QueueServes` is what
  the worker needs of it.
* The worker's own invariant stays small: `Resources` says what is open where
  the worker is suspended, and `Association` that its segments are numbered as
  the queue numbers them, that it awaits the newest, and that nothing is
  submitted meanwhile.  Neither `AwaitedJobIsServed` nor `CommandNotDropped`
  is inductive without them: newer speech could replace the awaited job.
* `LittleLeft` is `SessionLeavesLittle`: `Resources` for the worker's part, and
  `Leftover` of the queue for what a cancelled runner may leave.

### Publisher

`PahoPublisher_proofs` proves `TypeOK`, `ClosedStaysClosed` and
`ImplementsAtLeastOnce` for any payloads and any positive number of calls.  The
invariant adds that a copy exists only after its call, that only what the broker
has is acknowledged, and that the thread runs and the flag is set only between
`connect` and the end of `close`.

### Detector

The last part of `SpeechSegment_proofs` proves `DetectTypes`, `SameStream` and
`NothingLeftBehind` for streams of every length.  `Ahead` says by how much the
collector is ahead of the provider for each state of the reader, `Tasks` which
tasks exist where `detect` is suspended.

### Session workers

`SpeechWorkers_proofs` proves `TypeOK`, `ResultsAreDelivered` and `NoBusyLoop`
for all four modes and any number of attempts and failures
(`WorkersAssumption`: attempts, the maximum backoff and the bound on counted
failures are positive, and that many doublings reach the maximum).  Neither
property is inductive: `Deliveries` says what a turn still owes in each state of
the worker, `Attempts` that an event is only given up after the last attempt,
`Outcomes` which return values each mode can come to, so that a session that
returns nothing was told to stop.

`BackoffMatchesFailures` compares the pause with a power of two, and the model
counts failures only up to a bound.  `Pacing` carries the pause itself as the
power for the failures so far, for each of the two loops; doubling (`PowersDouble`)
takes it from one failure to the next, and past the bound both sides are the
maximum.

### Event encoding

`TranscriptText` has no process to speak of; what is proved is what a recursive
definition computes for every text.  The provers have no induction over data, so
the module builds it:

* from the well-foundedness of the numbers it derives that every non-empty set of
  them has a least element (`LeastNumber`), from that induction over *sets* of
  numbers (`Induction`: a set with 0 and every successor is `Nat`), and from that
  recursion (`Recursion`: for every base and step a function iterates them);
* so the function that a recursive definition `CHOOSE`s exists, and what it
  returns follows by `Induction` over the set of the numbers for which it does;
* with that the bytes of a text are a sum that grows with each character, a
  shorter beginning fits if a longer one does, and the binary search returns the
  greatest length that fits (`SearchEnds`, by induction over the width of the
  interval).

`EncodedAsLongAsFits` is the property `EncodedIsLongest`, for any alphabet, sizes
of characters, limit and metadata (`TextAssumption`).  The section stands in
`SpeechWorkers_proofs`, whose workers publish these events, as do the next two.

### Wake words

`CommandsAreTheRest` and `NoCommandOfTheWakeWord` are the properties
`CommandIsRest` and `WakeWordAloneIsNoCommand`, for any alphabet, any wake words
and transcripts of every length.

* *The tables* (`MatchAssumption`).  A case fold is not empty and neither makes
  nor loses a separator; what composes is no separator, and no character is the
  mark of one pair and the base of another; and of two characters, one of which
  has further marks, either the folds differ in their first character or the fold
  of the marks follows that of the base.  `unicodedata` and `str.casefold` (Unicode
  14, canonical composition) agree for each of the 12,113 characters that a base
  and marks compose; the last part speaks of 91 pairs of such a
  character and one with fewer marks, `I` and `İ` the best known of them.
* *Recursion over texts.*  `Induction` gives induction over sets of texts
  (`TextInduction`) and a function along each text (`AlongExists`, `AlongAgrees`);
  `ComposeSteps`, `FoldSteps` and `WithoutSteps` say what one more character does,
  and nothing after them looks at the recursion.
* *The cut* (`WordEnds`).  `match_wake_word_prefix` normalises ever longer
  beginnings of the text and cuts where one begins with the alias.  What matters is
  that a mark behind the cut may join the character before it.  `Goes` says how a
  composed text goes on: by the marks that its last character has taken in, and
  what has come after them.  It holds for every text and every continuation, by
  induction over the continuation (`GoesOn`: the next character joins, or it
  follows).  The cut is at the first beginning of the text that the alias fits, so
  the alias reaches into the fold of its last character, as it stands there and as
  it stands in the whole text: both folds begin alike.  Then the fold of the marks
  comes behind that of the base, and nothing is lost at the cut (`GoesApart`).
* *The alias.*  Accepted aliases differ as normalised, so of those a text
  begins with at most one has the greatest length (`LongestIs`); the cut comes less
  than one character's fold behind it (`WordEndIs`).
* *Trimming* drops separators only (`TrimKeeps`), and these neither compose nor
  count (`SeparatorsBefore`, `SeparatorsBehind`), so the command is what follows
  the word, and it is not empty exactly if something is left of it.
* *The word alone.*  If all of the text normalises to an alias, that alias is
  the longest and nothing is left (`NothingFollows`).

### Budget

`SpeechWorkers_proofs` proves the four properties of the `submission_budget` run
for any windows, limits, durations and times (`BudgetAssumption`: the windows are
positive and in order, at least one request is allowed, and a segment alone is
within the audio limits, which `config.py` makes sure of; the delay is any number).

* *Totals.*  The sum of a window is a recursive function; `TotalGrows` and
  `TotalPlus` (what is added at one stamp is added to the total) follow by
  `Induction`, and the rest of the proof uses no other fact about sums.
* `AdmissionsHold` speaks of real time and of what reached the provider, `consume`
  of the wall clock and the file.  The invariant that joins them is `Covered`: in
  every window that ends now, the file charges at least what was admitted, with
  the window moved back by the lag of the clock.  It survives a tick (the lag
  stays), a clock set back (the window by the wall clock grows), pruning (what
  is pruned was in no window) and a kill or failed write at any point, because
  the charge is on disk before the request goes out.
* While a decision is under way time goes on and the clock may be set back.
  `Intended` is what will have been admitted once it is carried out, at the moment
  the clock was read.  It is within the limits: the last window had room for it,
  and of what is older a window that takes it in has no more than that one
  (`AddingStaysLimited`).  It stays covered by the charge until the request goes
  out (`CoversInTime`).
* `LimitsHold` follows from `AdmissionsHold` and `Delayed`: what was heard between
  two moments was admitted between them or in the delay before them
  (`HearingDelays`, `DelayedWindows`).
* `RetryIsExact` is `Promises`: from the denial on, the file admits the segment
  exactly from `until`, at every later time.  The lemmas `AudioWait` and
  `RequestWait` prove it for one limit (between two stamps nothing leaves a window,
  so the first stamp that frees enough is the exact moment), `ExactWait` for the
  longest of the waits, `PrunedLimits` for the file that the denial has pruned.
  The wait for a request is only exact because the file holds no more requests
  than the limit, the second part of `FileIsBounded`.

### STT client

`HaSttClient_proofs` proves `TypeOK`, `AudioInOrder` and `OutcomeIsHonest` for
audio and frames of every length and any number of messages
(`ClientAssumption`: a frame is not empty; the outcomes are distinct).  The
invariant adds, for each state of the call, what has been received and sent
(`Phases`), that the handler in use is the first one announced (`Announced`),
that the frames end where the offset stands (`Frames`), and that up to now the
run has not ended, has not failed, and `transcript` is what it said last
(`RunSoFar`).  Lemmas show that what Home Assistant adds does not change what
was received; one lemma per part of the invariant covers the actions.

### Gateway

`Gateway_proofs` needs no assumption on the constants.  `TypeCorrect` is by
cases.  `NothingLeft` rests on `SourceHeld`: a process that runs is held by an
object, which only a session has, so each way out must close it.
`ModesAsConfigured` rests on `WorkerBuilt` (past `Load` the options are the
accepted ones and `active` is what the first chain chose) and on two lemmas
about the decision table: at most one mode is enabled (from the cardinality that
`parse_options` counts), and the worker the second chain builds serves every
enabled section, because the sections that share a worker have the same
contract.

### Release script

`ReleaseTag_proofs` proves `ReleaseIsVerified` for any number of releasers and any
history of commits (`CommitsAssumption`: descent is reflexive and transitive, and
the initial commit is one of them).  `Validated` says what a
script has established by the time it is at each of its steps; it survives the
steps of the others because `main` only goes forward, a successful workflow stays
successful, and nobody switches the protection off.  `Kept` and `Verified` say that a
published tag is protected, hence stays, and what it points to; `Honest` that a
script reports only a release of its own.

### Only model-checked

* All liveness (`EverySubmissionSettles`, `StopsEventually`, `ListensAgain`,
  `CallsReturn`, `EndsOnStop`, `EndsByDeadline`): `ENABLED` and fairness are out
  of the prover's reach.

## 5. Not modelled, and why

* The types, names, labels and URIs that `config.py` parses: tests on single
  fields reach them, and no other component depends on how they fail.
* The response that `fetch_mqtt_credentials` validates: `Gateway` has its
  success and its failure.
* Loading and validating the budget's JSON: a damaged file refuses every
  submission; modelled files are the ones `_save` writes.
* Building the payload of a detection and of a command, log lines, MQTT topics.
* Parsing of versions (`check_versions.py`) and the packaging rules
  (`verify_packaging.py`): static checks without state; `ReleaseTag` has the
  set of commits that pass them.
* Dockerfile, `config.yaml`, `run.sh`: declarative, no behaviour of their own.

## 6. Where code and documentation differ

README.md 169-170 (of the repository) says that transcript delivery "also uses
bounded retry and is allowed to drop rather than block wake activation".  The
wake worker awaits its own job's result without a timeout
(`microwake_worker.py` 192), and the one runner publishes the event of an
earlier segment, with its attempts and pauses, before it takes the next job
(`transcript.py` 273-274).  So a command spoken just after other speech waits
for that delivery to end while the broker is away.  The wait is bounded by the
three attempts.  `wake_blocked_by_delivery` shows the shortest such behaviour.

### What the models show that no document mentions

None of these contradicts a document; each is a behaviour of the code that a
reader of the properties should know of.

* The deadline of a transcription is also over the closing handshake: if it
  passes there, a text already obtained is discarded
  (`ha_stt.py` 46-54).
* A text that exceeds the size by exactly one byte fits once it is marked, since
  `true` is shorter than `false`: the event is complete and says it is
  truncated.  `EncodedIsLongest` admits that case only.
* An alias may end inside what a character folds to (an alias ending in `s`
  before an `ß`): the character counts to the wake word as a whole.
  `CommandIsRest` allows the word to be longer than the alias by less than what
  one character folds to.
* In the wake worker's mode a transcript of punctuation alone (say `"."`) is a
  command: it is neither empty nor an alias.
* `release_tag.py` tags and pushes `HEAD`, not the commit it validated.  While
  HEAD stays where it was the two are the same, and `ReleaseIsVerified` holds
  whatever happens on the remote; if a developer moves it during the checks,
  what was never validated is published (README.md 198 promises the exact
  target).  A push that fails leaves the local tag, which must be deleted
  before a retry.

## 7. Plan

Built, in this order: the segmenter; the queue with its mailbox; the wake worker
over the queue; the budget; the session workers; the publisher with its abstract
delivery; the detector; the STT client; the source, the configuration and the
process; the texts; the release script; and the proofs of section 4.

Next: a composition of `HaSttClient` with the queue's processor, in which the
outcome of a job is that of its dialogue instead of a free choice.
