---------------------------- MODULE HaSttClient ----------------------------
(***************************************************************************)
(* HaSttClient.transcribe (ha_stt.py): one call, which opens a WebSocket   *)
(* to Home Assistant, authenticates, starts a pipeline restricted to STT,  *)
(* sends the audio in frames and reads until the run ends.  One deadline   *)
(* is over the connection, the dialogue and the closing handshake, and the *)
(* calling task may be cancelled at any await.                             *)
(*                                                                         *)
(* Home Assistant is external: it says what it likes whenever it likes,    *)
(* and may fall silent or drop the connection.                             *)
(***************************************************************************)
EXTENDS Naturals, Sequences

CONSTANTS
    Handlers,         \* valid STT binary handlers, 0 .. 255 in the code
    Texts,            \* transcripts
    Invalid, None,
    SEND_CHUNK_BYTES, \* an even number of bytes
    MaxLength,        \* bound of the model: of the audio, in bytes
    MaxMessages,      \* bound of the model: of what Home Assistant says
    MaxUnread         \* bound of the model: of what it says ahead of the client

ASSUME ClientAssumption ==
    /\ SEND_CHUNK_BYTES \in Nat \ {0}
    /\ MaxLength \in Nat
    /\ MaxMessages \in Nat
    /\ MaxUnread \in Nat
    /\ None \notin Handlers \cup Texts
    /\ Invalid \notin Handlers \cup Texts
    /\ {"error", "cancelled"} \cap (Texts \cup {None}) = {}

VARIABLES
    token,      \* is there a Supervisor token?
    audio,      \* the audio's length: its bytes are 0 .. audio - 1
    main,       \* where the call is suspended
    handler, transcript, offset, \* local variables of _run_stt
    outcome,    \* a text, "error" or "cancelled"; that of the block while closing
    expired,    \* the deadline has passed
    cancelled,  \* the calling task was cancelled
    link,       \* the connection holds
    said, seen, \* Home Assistant's messages, and how many of them were received
    heard       \* history: the binary frames sent, each with its handler and the
                \* bytes from .. to - 1

dialogue == <<handler, transcript, offset>>
clocks == <<expired, cancelled>>
remote == <<link, said>>
vars == <<token, audio, main, dialogue, outcome, clocks, remote, seen, heard>>

\* "failed" is a result without success or an error event; "unreadable" is
\* binary, no JSON, no object or one with fields of the wrong type.
Messages ==
    [type : {"auth_required", "auth_ok", "other", "failed", "run-end", "unreadable"},
     value : {None}]
    \cup [type : {"run-start"}, value : Handlers \cup {Invalid}]
    \cup [type : {"stt-end"}, value : Texts \cup {Invalid}]

Receiving == {"hello", "auth", "starting", "awaiting"}
Talking == Receiving \cup {"sending"}
MainStates == Talking \cup {"called", "connecting", "closing", "ended"}

Init ==
    /\ token \in BOOLEAN
    /\ audio \in 0 .. MaxLength
    /\ main = "called"
    /\ handler = None
    /\ transcript = None
    /\ offset = 0
    /\ outcome = None
    /\ expired = FALSE
    /\ cancelled = FALSE
    /\ link = FALSE
    /\ said = <<>>
    /\ seen = 0
    /\ heard = <<>>

\* The block is left: the connection is closed on the way out.
Leave(how) ==
    /\ main' = "closing"
    /\ outcome' = how

-----------------------------------------------------------------------------
(* The connection                                                          *)

Call ==
    /\ main = "called"
    /\ IF token /\ audio # 0 /\ audio % 2 = 0
       THEN main' = "connecting" /\ outcome' = outcome
       ELSE main' = "ended" /\ outcome' = "error"
    /\ UNCHANGED <<token, audio, dialogue, clocks, remote, seen, heard>>

Connect ==
    /\ main = "connecting"
    /\ \/ main' = "hello" /\ link' = TRUE /\ outcome' = outcome
       \/ main' = "ended" /\ outcome' = "error" /\ link' = link
    /\ UNCHANGED <<token, audio, dialogue, clocks, said, seen, heard>>

\* Received messages can still be read; then recv raises, as send does at once.
ConnectionLost ==
    /\ main \in Talking
    /\ ~link
    /\ main = "sending" \/ seen = Len(said)
    /\ Leave("error")
    /\ UNCHANGED <<token, audio, dialogue, clocks, remote, seen, heard>>

\* The closing handshake, which has a timeout of its own.
Close ==
    /\ main = "closing"
    /\ main' = "ended"
    /\ link' = FALSE
    /\ UNCHANGED <<token, audio, outcome, dialogue, clocks, said, seen, heard>>

-----------------------------------------------------------------------------
(* Messages                                                                *)

\* _receive_json, and what each state does with the message.
Receive(handle(_)) ==
    /\ seen < Len(said)
    /\ seen' = seen + 1
    /\ IF said[seen + 1].type = "unreadable"
       THEN Leave("error") /\ UNCHANGED <<handler, transcript>>
       ELSE handle(said[seen + 1])
    /\ UNCHANGED <<token, audio, offset, clocks, remote, heard>>

\* Each half of _authenticate answers what it received; sending fails on a
\* connection that is lost.
Expect(message, type, next) ==
    /\ IF message.type = type /\ link
       THEN main' = next /\ outcome' = outcome
       ELSE Leave("error")
    /\ UNCHANGED <<handler, transcript>>

Hello(message) == Expect(message, "auth_required", "auth")
Auth(message) == Expect(message, "auth_ok", "starting")

\* Until the run starts all else is ignored but a failure.
AwaitStart(message) ==
    /\ \/ /\ message.type = "failed" \/ message = [type |-> "run-start", value |-> Invalid]
          /\ Leave("error")
          /\ handler' = handler
       \/ /\ message.type = "run-start"
          /\ message.value # Invalid
          /\ handler' = message.value
          /\ main' = "sending"
          /\ outcome' = outcome
       \/ /\ message.type \notin {"failed", "run-start"}
          /\ UNCHANGED <<handler, main, outcome>>
    /\ transcript' = transcript

\* Slip for AwaitEnd: return at the first result.
AwaitResult(message) ==
    /\ \/ message.type = "stt-end" /\ Leave(message.value) /\ transcript' = message.value
       \/ message.type # "stt-end" /\ UNCHANGED <<main, outcome, transcript>>
    /\ handler' = handler

\* The last result before the end of the run is the transcript.
AwaitEnd(message) ==
    /\ \/ /\ message.type = "failed" \/ message = [type |-> "stt-end", value |-> Invalid]
          /\ Leave("error")
          /\ transcript' = transcript
       \/ /\ message.type = "stt-end"
          /\ message.value # Invalid
          /\ transcript' = message.value
          /\ UNCHANGED <<main, outcome>>
       \/ /\ message.type = "run-end"
          /\ Leave(IF transcript = None THEN "error" ELSE transcript)
          /\ transcript' = transcript
       \/ /\ message.type \notin {"failed", "stt-end", "run-end"}
          /\ UNCHANGED <<transcript, main, outcome>>
    /\ handler' = handler

ReceiveMessage ==
    \/ main = "hello" /\ Receive(Hello)
    \/ main = "auth" /\ Receive(Auth)
    \/ main = "starting" /\ Receive(AwaitStart)
    \/ main = "awaiting" /\ Receive(AwaitEnd)

-----------------------------------------------------------------------------
(* Audio                                                                   *)

\* Slip for More: range(0, len(audio) + 1, SEND_CHUNK_BYTES).
MoreOrNone(at) == at <= audio

\* range(0, len(audio), SEND_CHUNK_BYTES) goes on.
More(at) == at < audio

Frame(from, to) == [handler |-> handler, from |-> from, to |-> to]

\* audio[offset : offset + SEND_CHUNK_BYTES], which may be shorter.
Slice(at) ==
    LET to == at + SEND_CHUNK_BYTES
    IN  Frame(at, IF to < audio THEN to ELSE audio)

SendChunk ==
    /\ main = "sending"
    /\ link
    /\ More(offset)
    /\ heard' = Append(heard, Slice(offset))
    /\ offset' = offset + SEND_CHUNK_BYTES
    /\ UNCHANGED <<token, audio, main, handler, transcript, outcome, clocks, remote, seen>>

\* A frame without audio ends the stream.
SendEnd ==
    /\ main = "sending"
    /\ link
    /\ ~More(offset)
    /\ heard' = Append(heard, Frame(audio, audio))
    /\ main' = "awaiting"
    /\ UNCHANGED <<token, audio, dialogue, outcome, clocks, remote, seen>>

-----------------------------------------------------------------------------
(* Interruptions                                                           *)

\* A cancellation or the deadline is raised where the call is suspended.
Interrupt(how) ==
    /\ outcome' = how
    /\ IF main \in Talking
       THEN main' = "closing" /\ UNCHANGED link
       ELSE main' = "ended" /\ link' = FALSE
    /\ UNCHANGED <<token, audio, dialogue, said, seen, heard>>

\* Slip for Deadline: the timeout is around the dialogue alone.
DeadlineOfDialogue ==
    /\ main \in Talking \cup {"closing"}
    /\ ~expired
    /\ expired' = TRUE
    /\ Interrupt(IF cancelled THEN "cancelled" ELSE "error")
    /\ UNCHANGED cancelled

\* asyncio.timeout, once.  A cancellation from outside is stronger.
Deadline ==
    /\ main \in Talking \cup {"connecting", "closing"}
    /\ ~expired
    /\ expired' = TRUE
    /\ Interrupt(IF cancelled THEN "cancelled" ELSE "error")
    /\ UNCHANGED cancelled

\* The caller gives the call up: MicroWakeWordActivationWorker.run_once cancels
\* the queue's runner.
Cancel ==
    /\ main \in Talking \cup {"connecting", "closing"}
    /\ ~cancelled
    /\ cancelled' = TRUE
    /\ Interrupt("cancelled")
    /\ UNCHANGED expired

-----------------------------------------------------------------------------
(* Home Assistant and the network                                          *)

\* What is said to a call that is leaving is never received.
Say ==
    /\ link
    /\ main \in Talking
    /\ Len(said) < MaxMessages
    /\ Len(said) - seen < MaxUnread
    /\ \E message \in Messages : said' = Append(said, message)
    /\ UNCHANGED <<token, audio, main, dialogue, outcome, clocks, link, seen, heard>>

LinkBreaks ==
    /\ link
    /\ link' = FALSE
    /\ UNCHANGED <<token, audio, main, dialogue, outcome, clocks, said, seen, heard>>

-----------------------------------------------------------------------------

Next ==
    \/ Call \/ Connect \/ ConnectionLost \/ Close \/ ReceiveMessage
    \/ SendChunk \/ SendEnd \/ Deadline \/ Cancel \/ Say \/ LinkBreaks

Spec == Init /\ [][Next]_vars

\* Home Assistant owes nothing, not even to take the audio: only the call's own
\* steps and its timers are fair.
FairSpec == Spec /\ WF_vars(Call) /\ WF_vars(Deadline) /\ WF_vars(Close)

-----------------------------------------------------------------------------
(* Properties                                                              *)

\* Every variable has its type.
TypeOK ==
    /\ token \in BOOLEAN
    /\ audio \in 0 .. MaxLength
    /\ main \in MainStates
    /\ handler \in Handlers \cup {None}
    /\ transcript \in Texts \cup {None}
    /\ offset \in Nat
    /\ outcome \in Texts \cup {None, "error", "cancelled"}
    /\ expired \in BOOLEAN
    /\ cancelled \in BOOLEAN
    /\ link \in BOOLEAN
    /\ said \in Seq(Messages)
    /\ seen \in 0 .. Len(said)
    /\ heard \in Seq([handler : Handlers, from : Nat, to : Nat])

\* said[i] is the first message of its type after said[j].
FirstAfter(i, type, j) ==
    /\ i > j
    /\ said[i].type = type
    /\ \A k \in j + 1 .. i - 1 : said[k].type # type

\* What was heard is the audio from its beginning, in order and without a gap;
\* every frame names the handler of the first run-start received after the
\* authentication; the frame without audio, which ends the stream for the
\* provider, is sent once, after the last byte.
AudioInOrder ==
    /\ heard # <<>> =>
         /\ said[1].type = "auth_required"
         /\ said[2].type = "auth_ok"
         /\ \E i \in 3 .. seen :
              /\ FirstAfter(i, "run-start", 2)
              /\ \A n \in 1 .. Len(heard) : heard[n].handler = said[i].value
    /\ \A n \in 1 .. Len(heard) :
         /\ heard[n].from = IF n = 1 THEN 0 ELSE heard[n - 1].to
         /\ heard[n].to <= audio
         /\ heard[n].from = heard[n].to =>
              n = Len(heard) /\ heard[n].to = audio /\ main # "sending"

\* A returned text is what Home Assistant said last in the run it started and
\* ended, for the whole of the audio, without a failure in between; a cancelled
\* call never returns as if it had not been.
OutcomeIsHonest ==
    /\ outcome \in Texts =>
         /\ heard # <<>>
         /\ heard[Len(heard)].from = audio
         /\ \E start, last, end \in 3 .. seen :
              /\ FirstAfter(start, "run-start", 2)
              /\ FirstAfter(end, "run-end", start)
              /\ last \in start .. end
              /\ said[last] = [type |-> "stt-end", value |-> outcome]
              /\ \A k \in last + 1 .. end : said[k].type # "stt-end"
              /\ \A k \in 3 .. end : said[k].type \notin {"failed", "unreadable"}
    /\ cancelled => outcome = "cancelled"

\* The call ends whatever Home Assistant does or leaves undone.
EndsByDeadline == <>(main = "ended")
=============================================================================
