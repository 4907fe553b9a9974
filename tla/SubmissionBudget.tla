------------------------- MODULE SubmissionBudget --------------------------
(***************************************************************************)
(* SubmissionBudget (budget.py): the privacy budget that stands in front   *)
(* of every request to the speech-to-text provider.  Each call of consume  *)
(* reads the state file, prunes it, decides, and replaces the file; no     *)
(* state is kept in the process.                                           *)
(*                                                                         *)
(* The file lists its entries in any order, and consume sorts them by      *)
(* stamp before it looks at them: here it is what is charged at each       *)
(* stamp.  Entries of one stamp leave a window together, so the wait is    *)
(* the same for each of them.                                              *)
(*                                                                         *)
(* `clock' is time.time(), which may be set back; `real' is the time the   *)
(* household lives in.  Both may go on between any two steps: between the  *)
(* reading of the clock and the moment the provider is contacted lie the   *)
(* write of the file, the connection and the login.  One tick is the       *)
(* second that retry_after is at least.                                    *)
(***************************************************************************)
EXTENDS Naturals, FiniteSetsExt

CONSTANTS
    Minute, Hour, Day,          \* the three windows
    max_requests_per_minute,
    max_audio_seconds_per_hour,
    max_audio_seconds_per_day,
    Durations,                  \* audio_seconds of the segments submitted
    MaxDelay,                   \* how long it may be from the clock to the contact
    MaxTime,                    \* bound of the model: the end of real time
    MaxLag                      \* bound of the model: how far back the clock is set

\* config.py admits no limit below the longest segment the collector returns.
ASSUME BudgetAssumption ==
    /\ Minute \in Nat \ {0}
    /\ Minute <= Hour /\ Hour <= Day
    /\ Hour \in Nat /\ Day \in Nat
    /\ max_requests_per_minute \in Nat \ {0}
    /\ max_audio_seconds_per_hour \in Nat
    /\ max_audio_seconds_per_day \in Nat
    /\ \A d \in Durations :
         d \in Nat \ {0} /\ d <= max_audio_seconds_per_hour /\ d <= max_audio_seconds_per_day
    /\ MaxDelay \in Nat /\ MaxTime \in Nat /\ MaxLag \in Nat

VARIABLES
    disk,       \* the state file: requests and audio seconds, by stamp
    temporary,  \* the file written beside it, before os.replace
    phase,      \* "idle", "saving" the decision or "charged" and not yet sent
    decision,   \* what consume is about to return
    clock, real,
    sent,       \* history: what reached the provider, by the real time it did
    admitted,   \* history: the same, by the real time consume read the clock
    promise     \* the last retry_after handed out, until the next submission

budgetVars == <<disk, temporary, phase, decision, clock, real, sent, admitted, promise>>

Times == 0 .. MaxTime
Amounts == [Times -> Nat]
File == [requests : Amounts, audio : Amounts]
Nothing == [t \in Times |-> 0]
Empty == [requests |-> Nothing, audio |-> Nothing]
NoPromise == [until |-> 0, duration |-> 0]
\* A decision with its reading of the clock, and (history) the real time of it.
NoDecision == [allowed |-> FALSE, duration |-> 0, retry_after |-> 0, stamp |-> 0, since |-> 0]

BudgetInit ==
    /\ disk = Empty
    /\ temporary = Empty
    /\ phase = "idle"
    /\ decision = NoDecision
    /\ clock = 0
    /\ real = 0
    /\ sent = Empty
    /\ admitted = Empty
    /\ promise = NoPromise

-----------------------------------------------------------------------------
(* The decision                                                            *)

\* Slip for Young: a stamp from before the clock was set back does not count.
YoungAndPast(t, window, now) == t <= now /\ now < t + window
\* What is younger than the window by the wall clock.  A stamp from before the
\* clock was set back counts as young.
Young(stamp, window, now) == now < stamp + window

Within(amounts, window, now) ==
    [t \in Times |-> IF Young(t, window, now) THEN amounts[t] ELSE 0]

Total(amounts) ==
    LET sum[t \in Times] == IF t = 0 THEN amounts[0] ELSE sum[t - 1] + amounts[t]
    IN  sum[MaxTime]

Stamps(amounts) == {t \in Times : amounts[t] > 0}

Requests(file, now) == Within(file.requests, Minute, now)
HourAudio(file, now) == Within(file.audio, Hour, now)
DayAudio(file, now) == Within(file.audio, Day, now)

\* Slip for Over: the new segment is not counted.
OverAlready(amounts, duration, limit) == Total(amounts) > limit
Over(amounts, duration, limit) == Total(amounts) + duration > limit

Full(file, now) == Total(Requests(file, now)) >= max_requests_per_minute
OverHour(file, duration, now) ==
    Over(HourAudio(file, now), duration, max_audio_seconds_per_hour)
OverDay(file, duration, now) ==
    Over(DayAudio(file, now), duration, max_audio_seconds_per_day)

Allowed(file, duration, now) ==
    /\ ~Full(file, now)
    /\ ~OverHour(file, duration, now)
    /\ ~OverDay(file, duration, now)

After(amounts, stamp) == [t \in Times |-> IF t > stamp THEN amounts[t] ELSE 0]

\* Slip for RetryForAudio: the age of the oldest entry, whatever it frees.
RetryForOldest(amounts, duration, limit, window, now) ==
    Min(Stamps(amounts)) + window - now

\* _retry_for_audio: until enough of the oldest entries have left the window.
RetryForAudio(amounts, duration, limit, window, now) ==
    LET enough == {t \in Stamps(amounts) : ~Over(After(amounts, t), duration, limit)}
    IN  IF enough = {} THEN window ELSE Min(enough) + window - now

\* The wait each exceeded limit asks for, and the longest of them.
Waits(file, duration, now) ==
    (IF Full(file, now) THEN {Min(Stamps(Requests(file, now))) + Minute - now} ELSE {})
    \cup (IF OverHour(file, duration, now)
          THEN {RetryForAudio(HourAudio(file, now), duration,
                              max_audio_seconds_per_hour, Hour, now)} ELSE {})
    \cup (IF OverDay(file, duration, now)
          THEN {RetryForAudio(DayAudio(file, now), duration,
                              max_audio_seconds_per_day, Day, now)} ELSE {})

RetryAfter(file, duration, now) == Max(Waits(file, duration, now) \cup {1})

\* The pruned state, with the new charge if there is one.
Pruned(file, now) == [requests |-> Requests(file, now), audio |-> DayAudio(file, now)]

Plus(file, duration, stamp) ==
    [requests |-> [file.requests EXCEPT ![stamp] = @ + 1],
     audio |-> [file.audio EXCEPT ![stamp] = @ + duration]]

-----------------------------------------------------------------------------
(* consume                                                                 *)

\* Load, decide and write the temporary file.
Consume ==
    /\ phase = "idle"
    /\ \E duration \in Durations :
         LET allowed == Allowed(disk, duration, clock)
             pruned == Pruned(disk, clock)
         IN  /\ temporary' = IF allowed THEN Plus(pruned, duration, clock) ELSE pruned
             /\ decision' = [allowed |-> allowed, duration |-> duration,
                             retry_after |-> IF allowed THEN 0
                                             ELSE RetryAfter(disk, duration, clock),
                             stamp |-> clock, since |-> real]
    /\ phase' = "saving"
    /\ promise' = NoPromise
    /\ UNCHANGED <<disk, clock, real, sent, admitted>>

\* A temporary file left behind is truncated before it is used again, and
\* nothing reads it: the model forgets it.
Done ==
    /\ phase' = "idle"
    /\ temporary' = Empty
    /\ decision' = NoDecision

\* os.replace, and consume returns.
Replace ==
    /\ phase = "saving"
    /\ disk' = temporary
    /\ \/ /\ decision.allowed
          /\ phase' = "charged"
          /\ temporary' = Empty
          /\ UNCHANGED <<decision, promise>>
       \/ /\ ~decision.allowed
          /\ promise' = [until |-> decision.stamp + decision.retry_after,
                         duration |-> decision.duration]
          /\ Done
    /\ UNCHANGED <<clock, real, sent, admitted>>

\* The file cannot be written: BudgetError, and nothing is submitted.
SaveFails ==
    /\ phase = "saving"
    /\ Done
    /\ UNCHANGED <<disk, clock, real, sent, admitted, promise>>

\* The caller goes on to transcribe(), and the provider hears the request.
Send ==
    /\ decision.allowed
    /\ sent' = Plus(sent, decision.duration, real)
    /\ admitted' = Plus(admitted, decision.duration, decision.since)
    /\ Done
    /\ UNCHANGED <<disk, clock, real, promise>>

\* Slip for Contact: the provider is contacted before the charge is on disk.
ContactEarly == phase \in {"saving", "charged"} /\ Send
Contact == phase = "charged" /\ Send

\* The add-on is killed and started again, or the request fails before the
\* provider has heard it.
Crash ==
    /\ phase # "idle"
    /\ Done
    /\ UNCHANGED <<disk, clock, real, sent, admitted, promise>>

\* Time goes on, in a call under way for no longer than its delay.
Tick ==
    /\ real < MaxTime
    /\ phase = "idle" \/ real < decision.since + MaxDelay
    /\ real' = real + 1
    /\ clock' = clock + 1
    /\ UNCHANGED <<disk, temporary, phase, decision, sent, admitted, promise>>

\* The wall clock is set back, in a call under way too.  It never gains on real
\* time in this model.
SetBack ==
    /\ clock > 0
    /\ real < clock + MaxLag
    /\ clock' = clock - 1
    /\ UNCHANGED <<disk, temporary, phase, decision, real, sent, admitted, promise>>

BudgetNext ==
    \/ Consume \/ Replace \/ SaveFails \/ Contact \/ Crash \/ Tick \/ SetBack

BudgetSpec == BudgetInit /\ [][BudgetNext]_budgetVars

-----------------------------------------------------------------------------
(* Properties                                                              *)

\* Every variable has its type; consume never asks for a wait below a second, and
\* a call under way has not outlasted its delay.
BudgetTypes ==
    /\ disk \in File
    /\ temporary \in File
    /\ phase \in {"idle", "saving", "charged"}
    /\ decision \in [allowed : BOOLEAN, duration : Nat, retry_after : Nat,
                     stamp : Nat, since : Times]
    /\ phase = "saving" /\ ~decision.allowed => decision.retry_after >= 1
    /\ clock \in Times /\ real \in Times /\ clock <= real
    /\ phase # "idle" => decision.since <= real /\ real <= decision.since + MaxDelay
    /\ sent \in File /\ admitted \in File
    /\ promise \in [until : Nat, duration : Nat]

\* What lies in the window, less `margin', that ends at `end'.
InWindow(amounts, window, margin, end) ==
    [t \in Times |-> IF t <= end /\ end + margin < t + window THEN amounts[t] ELSE 0]

\* No minute, hour or day, each less the margin, has more than the limits.
WithinLimits(history, margin) ==
    \A end \in Times :
        /\ Total(InWindow(history.requests, Minute, margin, end)) <= max_requests_per_minute
        /\ Total(InWindow(history.audio, Hour, margin, end)) <= max_audio_seconds_per_hour
        /\ Total(InWindow(history.audio, Day, margin, end)) <= max_audio_seconds_per_day

\* The household's promise, in real time: whatever crashes, failed writes and
\* corrections of the clock happen, and whenever the provider comes to hear it,
\* consume never admits more within a minute, an hour or a day than the
\* configuration allows.
AdmissionsHold == WithinLimits(admitted, 0)

\* What the provider hears: a request may reach it up to MaxDelay after it was
\* admitted, so that two may come closer together than they were admitted, and
\* the limits hold of the windows less that delay.
LimitsHold == WithinLimits(sent, MaxDelay)

\* retry_after is exact: if nothing else is submitted, the denied segment is
\* admitted from the moment the wall clock has reached the end of the wait, and
\* not a second earlier, however the clock is corrected meanwhile.
RetryIsExact ==
    promise # NoPromise /\ phase = "idle" =>
        (Allowed(disk, promise.duration, clock) <=> clock >= promise.until)

\* Every variable has its type, and the state file cannot outgrow the budget it
\* enforces.
FileIsBounded ==
    /\ BudgetTypes
    /\ Total(disk.requests) <= max_requests_per_minute
    /\ Total(disk.audio) <= max_audio_seconds_per_day
=============================================================================
