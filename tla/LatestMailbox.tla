--------------------------- MODULE LatestMailbox ---------------------------
(***************************************************************************)
(* What the transcript queue promises, without its tasks: segments are     *)
(* served one at a time and in order, at most the newest one waits, and    *)
(* until the mailbox closes a segment is skipped only for a newer one.     *)
(* README.md 168-169: "A bounded queue keeps only one in-flight and one    *)
(* latest pending PCM segment".                                            *)
(***************************************************************************)
EXTENDS Naturals

CONSTANT MaxJobs

Jobs == 1 .. MaxJobs
NoJob == 0

VARIABLES
    sent,     \* segments put so far, which is also the newest one
    waiting,  \* the segment that waits, or NoJob
    serving,  \* the segment being served, or NoJob
    fate,     \* "none", "open", "answered" or "skipped", for each segment
    closing   \* the gateway stops or the session ends

vars == <<sent, waiting, serving, fate, closing>>

Init ==
    /\ sent = 0
    /\ waiting = NoJob
    /\ serving = NoJob
    /\ fate = [j \in Jobs |-> "none"]
    /\ closing = FALSE

Settled(f, S, how) ==
    [j \in Jobs |-> IF j \in S /\ f[j] = "open" THEN how ELSE f[j]]

Put ==
    /\ sent < MaxJobs
    /\ sent' = sent + 1
    /\ waiting' = sent'
    /\ fate' = Settled([fate EXCEPT ![sent'] = "open"], {waiting}, "skipped")
    /\ UNCHANGED <<serving, closing>>

Take ==
    /\ serving = NoJob
    /\ waiting # NoJob
    /\ serving' = waiting
    /\ waiting' = NoJob
    /\ UNCHANGED <<sent, fate, closing>>

\* The answer may come before the service ends: an answered segment is still
\* being published, or holds the mailbox until the budget allows another.
Answer ==
    /\ serving # NoJob
    /\ fate[serving] = "open"
    /\ fate' = Settled(fate, {serving}, "answered")
    /\ UNCHANGED <<sent, waiting, serving, closing>>

Finish ==
    /\ serving # NoJob
    /\ serving' = NoJob
    /\ \/ /\ fate' = Settled(fate, {serving}, "answered")
          /\ UNCHANGED waiting
       \/ /\ closing
          /\ waiting' = NoJob
          /\ fate' = Settled(Settled(fate, {serving}, "answered"), {waiting}, "skipped")
    /\ UNCHANGED <<sent, closing>>

Close ==
    /\ ~closing
    /\ closing' = TRUE
    /\ UNCHANGED <<sent, waiting, serving, fate>>

\* A closing mailbox drops what it has not begun, or forgets what it was at.
Empty ==
    /\ closing
    /\ waiting' = NoJob
    /\ fate' = Settled(fate, {waiting}, "skipped")
    /\ UNCHANGED <<sent, serving, closing>>

Abandon ==
    /\ closing
    /\ serving' = NoJob
    /\ fate' \in {fate, Settled(fate, {serving}, "skipped")}
    /\ UNCHANGED <<sent, waiting, closing>>

\* The next session begins with a mailbox of its own once this one is closing.
Renew ==
    /\ closing
    /\ sent' = 0
    /\ waiting' = NoJob
    /\ serving' = NoJob
    /\ fate' = [j \in Jobs |-> "none"]
    /\ closing' = FALSE

Next == Put \/ Take \/ Answer \/ Finish \/ Close \/ Empty \/ Abandon \/ Renew

Spec == Init /\ [][Next]_vars
=============================================================================
