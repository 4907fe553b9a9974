------------------------- MODULE HaSttClient_proofs ------------------------
(***************************************************************************)
(* Proofs about HaSttClient, for audio of every length, frames of every    *)
(* size and any number of messages.                                        *)
(***************************************************************************)
EXTENDS HaSttClient, SequenceTheorems, TLAPS

-----------------------------------------------------------------------------
(* The inductive invariant                                                 *)

\* The first two messages received let the client in.
Greeted ==
    /\ seen >= 2
    /\ said[1].type = "auth_required"
    /\ said[2].type = "auth_ok"

Unauthenticated == {"called", "connecting", "hello", "auth"}

\* What each state of the call has received, sent and decided so far.
Phases ==
    /\ main \in {"called", "connecting", "hello"} => seen = 0
    /\ main = "auth" => seen = 1 /\ said[1].type = "auth_required"
    /\ main \in {"starting", "sending", "awaiting"} => Greeted
    /\ main \in Unauthenticated \cup {"starting"} =>
         handler = None /\ transcript = None /\ offset = 0 /\ heard = <<>>
    /\ main \in {"sending", "awaiting"} => handler # None /\ audio > 0
    /\ main = "sending" => transcript = None
    /\ main \in {"hello", "auth", "starting"} => audio > 0
    /\ main = "connecting" => audio > 0
    /\ main \notin {"closing", "ended"} => outcome = None
    /\ cancelled => main \in {"closing", "ended"} /\ outcome = "cancelled"

\* The handler is that of the first run-start after the authentication, and
\* until one is received there was no failure.
Announced ==
    /\ handler # None =>
         /\ Greeted
         /\ \E i \in 3 .. seen : FirstAfter(i, "run-start", 2) /\ said[i].value = handler
    /\ main = "starting" =>
         \A k \in 3 .. seen : said[k].type \notin {"run-start", "failed", "unreadable"}

\* The frames sent are the audio up to the offset, in order.
Frames ==
    /\ heard # <<>> => handler # None
    /\ \A n \in 1 .. Len(heard) :
         /\ heard[n].handler = handler
         /\ heard[n].from = IF n = 1 THEN 0 ELSE heard[n - 1].to
         /\ heard[n].to <= audio
         /\ heard[n].from = heard[n].to =>
              n = Len(heard) /\ heard[n].to = audio /\ main # "sending"
    /\ main = "sending" =>
         IF heard = <<>> THEN offset = 0
         ELSE heard[Len(heard)].to = IF offset < audio THEN offset ELSE audio
    /\ main = "awaiting" => heard # <<>> /\ heard[Len(heard)].from = audio

\* The run goes on without a failure, and the transcript is what it said last.
Running(start) ==
    /\ FirstAfter(start, "run-start", 2)
    /\ \A k \in start + 1 .. seen : said[k].type # "run-end"
    /\ \A k \in 3 .. seen : said[k].type \notin {"failed", "unreadable"}
    /\ transcript # None =>
         \E last \in start .. seen :
           /\ said[last] = [type |-> "stt-end", value |-> transcript]
           /\ \A k \in last + 1 .. seen : said[k].type # "stt-end"

RunSoFar ==
    main \in {"sending", "awaiting"} => \E start \in 3 .. seen : Running(start)

IInv ==
    /\ TypeOK
    /\ Phases
    /\ Announced
    /\ Frames
    /\ RunSoFar
    /\ OutcomeIsHonest

-----------------------------------------------------------------------------
(* Types                                                                   *)

\* The initial state satisfies the invariant.
LEMMA Initially == Init => IInv
PROOF
<1> SUFFICES ASSUME Init PROVE IInv
    OBVIOUS
<1> USE ClientAssumption
<1>1. said \in Seq(Messages) /\ heard \in Seq([handler : Handlers, from : Nat, to : Nat])
      /\ Len(said) = 0 /\ Len(heard) = 0
      BY DEF Init
<1>2. outcome \notin Texts
      BY DEF Init
<1>3. TypeOK
  <2>1. main \in MainStates /\ seen \in 0 .. Len(said) /\ offset \in Nat
        BY <1>1 DEF Init, MainStates
  <2>2. /\ token \in BOOLEAN /\ expired \in BOOLEAN /\ cancelled \in BOOLEAN /\ link \in BOOLEAN
        /\ audio \in 0 .. MaxLength
        BY DEF Init
  <2>3. /\ handler \in Handlers \cup {None}
        /\ transcript \in Texts \cup {None}
        /\ outcome \in Texts \cup {None, "error", "cancelled"}
        BY DEF Init
  <2> QED BY <1>1, <2>1, <2>2, <2>3 DEF TypeOK
<1>4. Phases
      BY DEF Init, Phases, Unauthenticated
<1>5. Announced /\ RunSoFar
      BY DEF Init, Announced, RunSoFar
<1>6. Frames /\ OutcomeIsHonest
      BY <1>1, <1>2 DEF Init, Frames, OutcomeIsHonest
<1> QED BY <1>3, <1>4, <1>5, <1>6 DEF IInv

\* What each received message leads to keeps the types.
LEMMA ReceiveTypes ==
    ASSUME TypeOK, ReceiveMessage
    PROVE  TypeOK'
PROOF
<1> USE ClientAssumption
<1>1. said[seen + 1] \in Messages /\ seen' \in 0 .. Len(said')
      /\ UNCHANGED <<token, audio, offset, clocks, remote, heard>>
      BY DEF TypeOK, ReceiveMessage, Receive, remote, clocks
<1>2. CASE main = "hello" /\ Receive(Hello)
      BY <1>1, <1>2 DEF TypeOK, Receive, Hello, Expect, Leave, MainStates, Talking, Receiving, clocks, remote
<1>3. CASE main = "auth" /\ Receive(Auth)
      BY <1>1, <1>3 DEF TypeOK, Receive, Auth, Expect, Leave, MainStates, Talking, Receiving, clocks, remote
<1>4. CASE main = "starting" /\ Receive(AwaitStart)
      BY <1>1, <1>4 DEF TypeOK, Receive, AwaitStart, Leave, MainStates, Talking, Receiving, clocks, remote, Messages
<1>5. CASE main = "awaiting" /\ Receive(AwaitEnd)
      BY <1>1, <1>5 DEF TypeOK, Receive, AwaitEnd, Leave, MainStates, Talking, Receiving, clocks, remote, Messages
<1> QED BY <1>2, <1>3, <1>4, <1>5 DEF ReceiveMessage

\* A frame sent while a handler is known keeps the types.
LEMMA SendTypes ==
    ASSUME IInv, SendChunk \/ SendEnd
    PROVE  TypeOK'
PROOF
<1> USE ClientAssumption DEF IInv
<1>1. handler \in Handlers /\ main = "sending" /\ offset \in Nat /\ audio \in Nat
      BY DEF TypeOK, Phases, SendChunk, SendEnd
<1>2. Slice(offset) \in [handler : Handlers, from : Nat, to : Nat]
      /\ Frame(audio, audio) \in [handler : Handlers, from : Nat, to : Nat]
      BY <1>1 DEF Slice, Frame
<1>3. heard' \in Seq([handler : Handlers, from : Nat, to : Nat])
  <2> DEFINE R == [handler : Handlers, from : Nat, to : Nat]
  <2>1. heard \in Seq(R) /\ Slice(offset) \in R /\ Frame(audio, audio) \in R
        BY <1>2 DEF TypeOK
  <2>2. heard' \in {Append(heard, Slice(offset)), Append(heard, Frame(audio, audio))}
        BY DEF SendChunk, SendEnd
  <2> HIDE DEF R
  <2>3. heard' \in Seq(R)
        BY <2>1, <2>2
  <2> QED BY <2>3 DEF R
<1>4. offset' \in Nat /\ main' \in MainStates
      BY <1>1 DEF SendChunk, SendEnd, dialogue, MainStates, Talking, Receiving
<1> QED BY <1>3, <1>4 DEF SendChunk, SendEnd, TypeOK, dialogue, clocks, remote

\* Every step keeps the types.
LEMMA TypesKept ==
    ASSUME IInv, Next
    PROVE  TypeOK'
PROOF
<1> USE ClientAssumption DEF IInv
<1>1. CASE Call \/ Connect \/ ConnectionLost \/ Close \/ LinkBreaks
      BY <1>1 DEF TypeOK, MainStates, Talking, Receiving, Leave, Call, Connect, ConnectionLost, Close,
                  LinkBreaks, dialogue, clocks, remote
<1>2. CASE Deadline \/ Cancel
      BY <1>2 DEF TypeOK, MainStates, Talking, Receiving, Deadline, Cancel, Interrupt, dialogue
<1>3. CASE Say
  <2>1. said' \in Seq(Messages) /\ Len(said') = Len(said) + 1
        BY <1>3 DEF TypeOK, Say
  <2>2. seen' \in 0 .. Len(said')
        BY <1>3, <2>1 DEF TypeOK, Say
  <2> QED BY <1>3, <2>1, <2>2 DEF TypeOK, Say, dialogue, clocks
<1> QED BY <1>1, <1>2, <1>3, ReceiveTypes, SendTypes DEF Next

\* What Home Assistant has said stays said.
LEMMA SaidStays ==
    ASSUME IInv, Next
    PROVE  \A k \in 1 .. Len(said) : said'[k] = said[k]
PROOF
<1> USE DEF IInv
<1>1. CASE Say
      BY <1>1 DEF TypeOK, Say
<1>2. CASE ReceiveMessage
      BY <1>2 DEF ReceiveMessage, Receive, remote
<1>3. CASE ~Say /\ ~ReceiveMessage
      BY <1>3 DEF Next, Call, Connect, ConnectionLost, Close, SendChunk, SendEnd,
                  Deadline, Cancel, Interrupt, LinkBreaks, remote
<1> QED BY <1>1, <1>2, <1>3

\* Messages are received one by one, by ReceiveMessage alone.
LEMMA SeenMoves ==
    ASSUME IInv, Next
    PROVE  /\ ReceiveMessage => seen' = seen + 1
           /\ ~ReceiveMessage => seen' = seen
PROOF
<1>1. CASE ReceiveMessage
      BY <1>1 DEF ReceiveMessage, Receive
<1>2. CASE ~ReceiveMessage
      BY <1>2 DEF Next, Call, Connect, ConnectionLost, Close, SendChunk, SendEnd,
                  Deadline, Cancel, Interrupt, LinkBreaks, Say
<1> QED BY <1>1, <1>2

\* A message is received only by the state that waits for it.
LEMMA PhasesOfReceiving ==
    ASSUME IInv, ReceiveMessage
    PROVE  Phases'
PROOF
<1> USE ClientAssumption DEF IInv
<1>1. seen \in Nat /\ seen' = seen + 1 /\ UNCHANGED <<said, audio, offset, heard, cancelled>>
      /\ main \in Receiving
      BY DEF TypeOK, ReceiveMessage, Receive, remote, clocks, Receiving
<1>2. CASE main = "hello" /\ Receive(Hello)
      BY <1>1, <1>2 DEF TypeOK, Phases, Receive, Hello, Expect, Leave, Unauthenticated
<1>3. CASE main = "auth" /\ Receive(Auth)
      BY <1>1, <1>3 DEF TypeOK, Phases, Greeted, Receive, Auth, Expect, Leave, Unauthenticated
<1>4. CASE main = "starting" /\ Receive(AwaitStart)
  <2>1. said[seen + 1] \in Messages
        BY <1>4 DEF TypeOK, Receive
  <2> QED BY <1>1, <1>4, <2>1 DEF TypeOK, Phases, Greeted, Receive, AwaitStart, Leave, Messages,
                                  Unauthenticated
<1>5. CASE main = "awaiting" /\ Receive(AwaitEnd)
      BY <1>1, <1>5 DEF TypeOK, Phases, Greeted, Receive, AwaitEnd, Leave, Unauthenticated
<1> QED BY <1>2, <1>3, <1>4, <1>5 DEF ReceiveMessage

\* Every step leads to a state that has received and sent what it should.
LEMMA PhasesKept ==
    ASSUME IInv, Next
    PROVE  Phases'
PROOF
<1> USE ClientAssumption DEF IInv
<1>1. CASE Call \/ Connect
      BY <1>1 DEF TypeOK, Phases, Greeted, Call, Connect, Unauthenticated, dialogue, clocks, remote
<1>2. CASE SendChunk \/ SendEnd
  <2>1. /\ main = "sending" /\ main' \in {"sending", "awaiting"}
        /\ UNCHANGED <<audio, handler, transcript, outcome, cancelled>>
        /\ Greeted'
        BY <1>2 DEF Phases, Greeted, SendChunk, SendEnd, dialogue, clocks, remote
  <2> QED BY <2>1 DEF Phases, Unauthenticated
<1>3. CASE Deadline \/ Cancel
      BY <1>3 DEF TypeOK, Phases, Greeted, Deadline, Cancel, Interrupt, Unauthenticated, Talking, Receiving,
                  dialogue
<1>4. CASE Say
      BY <1>4, SaidStays DEF TypeOK, Phases, Greeted, Say, Unauthenticated, Talking, Receiving, dialogue, clocks
<1>5. CASE ConnectionLost
      BY <1>5 DEF TypeOK, Phases, ConnectionLost, Leave, Unauthenticated, Talking, Receiving, dialogue,
                  clocks, remote
<1>6. CASE Close \/ LinkBreaks
      BY <1>6 DEF TypeOK, Phases, Greeted, Close, LinkBreaks, Unauthenticated, dialogue, clocks
<1> QED BY <1>1, <1>2, <1>3, <1>4, <1>5, <1>6, PhasesOfReceiving DEF Next

\* The run-start whose handler is used is the first one.
LEMMA AnnouncedKept ==
    ASSUME IInv, Next
    PROVE  Announced'
PROOF
<1> USE ClientAssumption DEF IInv
<1>1. /\ seen \in Nat /\ seen' \in {seen, seen + 1}
      /\ \A k \in 1 .. seen : said'[k] = said[k]
      BY SeenMoves, SaidStays DEF TypeOK
<1>2. CASE UNCHANGED handler /\ main' # "starting"
      BY <1>1, <1>2 DEF Announced, Greeted, FirstAfter
<1>3. CASE main = "starting" /\ Receive(AwaitStart)
  <2>1. /\ said[seen + 1] \in Messages /\ said' = said /\ seen' = seen + 1
        /\ handler = None /\ Greeted
        BY <1>3 DEF TypeOK, Receive, remote, Phases, Unauthenticated
  <2>2. Greeted'
        BY <1>1, <2>1 DEF Greeted
  <2>3. CASE handler' = None
        BY <1>1, <1>3, <2>1, <2>3 DEF Announced, Receive, AwaitStart, Leave, Messages
  <2>4. CASE handler' # None
    <3>1. /\ said[seen + 1].type = "run-start" /\ handler' = said[seen + 1].value
          /\ main' = "sending"
          BY <1>3, <2>1, <2>4 DEF Receive, AwaitStart, Leave
    <3>2. FirstAfter(seen + 1, "run-start", 2)
          BY <1>1, <1>3, <2>1, <3>1 DEF Announced, Greeted, FirstAfter
    <3> QED BY <1>1, <2>1, <2>2, <3>1, <3>2 DEF Announced, Greeted, FirstAfter
  <2> QED BY <2>3, <2>4
<1>4. CASE main = "auth" /\ Receive(Auth)
  <2>1. seen' = 2 /\ handler' = None
        BY <1>4 DEF Phases, Unauthenticated, Receive, Auth, Expect
  <2> QED BY <2>1 DEF Announced
<1>5. CASE main = "starting" /\ UNCHANGED <<handler, main, seen>>
      BY <1>1, <1>5 DEF Announced, Greeted, FirstAfter
<1>6. CASE ReceiveMessage
      BY <1>2, <1>3, <1>4, <1>6 DEF ReceiveMessage, Receive, Hello, Auth, Expect, AwaitEnd, Leave
<1>7. CASE ~ReceiveMessage
      BY <1>2, <1>5, <1>7 DEF Next, Call, Connect, ConnectionLost, Close, SendChunk, SendEnd,
             Leave, Deadline, Cancel, Interrupt, LinkBreaks, Say, dialogue
<1> QED BY <1>6, <1>7

-----------------------------------------------------------------------------
(* What was sent                                                           *)

\* A frame goes on where the one before it ended.
LEMMA FramesKept ==
    ASSUME IInv, Next
    PROVE  Frames'
PROOF
<1> USE ClientAssumption DEF IInv
<1>1. CASE SendChunk
  <2> DEFINE frame == Slice(offset)
  <2>1. /\ heard' = Append(heard, frame) /\ offset' = offset + SEND_CHUNK_BYTES
        /\ offset \in Nat /\ audio \in Nat /\ offset < audio
        /\ main = "sending" /\ UNCHANGED <<main, handler, audio>>
        BY <1>1 DEF SendChunk, More, TypeOK
  <2>2. /\ frame.handler = handler /\ frame.from = offset
        /\ frame.to = IF offset + SEND_CHUNK_BYTES < audio THEN offset + SEND_CHUNK_BYTES ELSE audio
        BY <2>1 DEF Slice, Frame
  <2>3. /\ Len(heard') = Len(heard) + 1 /\ Len(heard) \in Nat
        /\ heard'[Len(heard) + 1] = frame
        /\ \A n \in 1 .. Len(heard) : heard'[n] = heard[n]
        /\ heard' # <<>> /\ heard = <<>> <=> Len(heard) = 0
        BY <2>1 DEF TypeOK
  <2>4. frame.from = IF Len(heard) = 0 THEN 0 ELSE heard[Len(heard)].to
        BY <2>1, <2>2, <2>3 DEF Frames
  <2> HIDE DEF frame
  <2>5. \A n \in 1 .. Len(heard') :
          /\ heard'[n].handler = handler'
          /\ heard'[n].from = IF n = 1 THEN 0 ELSE heard'[n - 1].to
          /\ heard'[n].to <= audio'
          /\ heard'[n].from # heard'[n].to
        BY <2>1, <2>2, <2>3, <2>4 DEF Frames
  <2> QED BY <2>1, <2>2, <2>3, <2>5 DEF Frames, Phases
<1>2. CASE SendEnd
  <2> DEFINE frame == Frame(audio, audio)
  <2>1. /\ heard' = Append(heard, frame)
        /\ offset \in Nat /\ audio \in Nat /\ offset >= audio /\ audio > 0
        /\ main = "sending" /\ main' = "awaiting" /\ UNCHANGED <<handler, audio>>
        BY <1>2 DEF SendEnd, More, TypeOK, Phases, dialogue
  <2>2. frame.handler = handler /\ frame.from = audio /\ frame.to = audio
        BY DEF Frame
  <2>3. /\ Len(heard') = Len(heard) + 1 /\ Len(heard) \in Nat
        /\ heard'[Len(heard) + 1] = frame
        /\ \A n \in 1 .. Len(heard) : heard'[n] = heard[n]
        /\ heard' # <<>> /\ heard = <<>> <=> Len(heard) = 0
        BY <2>1 DEF TypeOK
  <2>4. heard # <<>> /\ heard[Len(heard)].to = audio
        BY <2>1, <2>3 DEF Frames
  <2> HIDE DEF frame
  <2>5. \A n \in 1 .. Len(heard') :
          /\ heard'[n].handler = handler'
          /\ heard'[n].from = IF n = 1 THEN 0 ELSE heard'[n - 1].to
          /\ heard'[n].to <= audio'
          /\ heard'[n].from = heard'[n].to => n = Len(heard')
        BY <2>1, <2>2, <2>3, <2>4 DEF Frames
  <2> QED BY <2>1, <2>2, <2>3, <2>5 DEF Frames, Phases
<1>3. CASE main = "starting" /\ Receive(AwaitStart)
  <2>1. heard = <<>> /\ offset = 0 /\ UNCHANGED <<heard, offset>> /\ main' # "awaiting" /\ Len(heard) = 0
        BY <1>3 DEF Phases, Unauthenticated, Receive, AwaitStart, Leave
  <2> QED BY <2>1 DEF Frames
<1>4. CASE UNCHANGED <<heard, handler, offset, audio>> /\ main' # "sending" /\ main' # "awaiting"
      BY <1>4 DEF Frames
<1>5. CASE UNCHANGED <<heard, handler, offset, audio, main>>
      BY <1>5 DEF Frames
<1>6. CASE ReceiveMessage
      BY <1>3, <1>4, <1>5, <1>6 DEF ReceiveMessage, Receive, Hello, Auth, Expect, AwaitEnd, Leave
<1>7. CASE ~ReceiveMessage
      BY <1>1, <1>2, <1>4, <1>5, <1>7 DEF Next, Call, Connect, ConnectionLost, Close,
             Leave, Deadline, Cancel, Interrupt, LinkBreaks, Say, dialogue
<1> QED BY <1>6, <1>7

-----------------------------------------------------------------------------
(* The run                                                                 *)

\* The run that is read has not failed, and its last result is the transcript.
LEMMA RunKept ==
    ASSUME IInv, Next
    PROVE  RunSoFar'
PROOF
<1> USE ClientAssumption DEF IInv
<1>1. /\ seen \in Nat /\ seen' \in {seen, seen + 1}
      /\ \A k \in 1 .. seen : said'[k] = said[k]
      BY SeenMoves, SaidStays DEF TypeOK
<1>2. CASE main = "starting" /\ Receive(AwaitStart)
  <2> SUFFICES ASSUME main' = "sending" PROVE RunSoFar'
      BY <1>2 DEF Receive, AwaitStart, Leave, RunSoFar
  <2>1. /\ said[seen + 1].type = "run-start" /\ said' = said /\ seen' = seen + 1
        /\ transcript' = None /\ seen >= 2
        BY <1>2 DEF Receive, AwaitStart, Leave, remote, Phases, Unauthenticated, Greeted
  <2>2. \A k \in 3 .. seen : said[k].type \notin {"run-start", "failed", "unreadable"}
        BY <1>2 DEF Announced
  <2>3. PICK start \in Nat : start = seen + 1
        BY <1>1
  <2>4. Running(start)'
        BY <1>1, <2>1, <2>2, <2>3 DEF Running, FirstAfter
  <2> QED BY <1>1, <2>1, <2>3, <2>4 DEF RunSoFar
<1>3. CASE main = "awaiting" /\ Receive(AwaitEnd)
  <2> SUFFICES ASSUME main' = "awaiting" PROVE RunSoFar'
      BY <1>3 DEF Receive, AwaitEnd, Leave, RunSoFar
  <2>1. /\ said[seen + 1] \in Messages /\ said' = said /\ seen' = seen + 1
        BY <1>3 DEF TypeOK, Receive, remote
  <2>2. said[seen + 1].type \notin {"failed", "unreadable", "run-end"}
        BY <1>3, <2>1 DEF Receive, AwaitEnd, Leave
  <2>3. \/ said[seen + 1].type # "stt-end" /\ transcript' = transcript
        \/ said[seen + 1] = [type |-> "stt-end", value |-> transcript']
        BY <1>3, <2>1 DEF Receive, AwaitEnd, Leave, Messages
  <2>4. PICK start \in 3 .. seen : Running(start)
        BY <1>3 DEF RunSoFar
  <2>5. /\ FirstAfter(start, "run-start", 2)'
        /\ \A k \in start + 1 .. seen' : said'[k].type # "run-end"
        /\ \A k \in 3 .. seen' : said'[k].type \notin {"failed", "unreadable"}
        BY <1>1, <2>1, <2>2, <2>4 DEF Running, FirstAfter
  <2>6. CASE said[seen + 1] = [type |-> "stt-end", value |-> transcript']
        BY <1>1, <2>1, <2>4, <2>5, <2>6 DEF Running, RunSoFar
  <2>7. CASE said[seen + 1].type # "stt-end" /\ transcript' = transcript
    <3>1. transcript' # None =>
            \E last \in start .. seen' :
              /\ said'[last] = [type |-> "stt-end", value |-> transcript']
              /\ \A k \in last + 1 .. seen' : said'[k].type # "stt-end"
          BY <1>1, <2>1, <2>4, <2>7 DEF Running
    <3> QED BY <1>1, <2>1, <2>5, <3>1 DEF Running, RunSoFar
  <2> QED BY <2>3, <2>6, <2>7
<1>4. CASE main' \notin {"sending", "awaiting"}
      BY <1>4 DEF RunSoFar
<1>5. CASE main \in {"sending", "awaiting"} /\ UNCHANGED <<seen, transcript>>
  <2>1. PICK start \in 3 .. seen : Running(start)
        BY <1>5 DEF RunSoFar
  <2>2. Running(start)'
        BY <1>1, <1>5, <2>1 DEF Running, FirstAfter
  <2> QED BY <1>5, <2>2 DEF RunSoFar
<1>6. CASE ReceiveMessage
      BY <1>2, <1>3, <1>4, <1>6 DEF ReceiveMessage, Receive, Hello, Auth, Expect, Leave
<1>7. CASE ~ReceiveMessage
      BY <1>4, <1>5, <1>7 DEF Next, Call, Connect, ConnectionLost, Close, SendChunk, SendEnd,
             Leave, Deadline, Cancel, Interrupt, LinkBreaks, Say, dialogue, Talking, Receiving
<1> QED BY <1>6, <1>7

\* A text is returned only at the end of the run, and no other step makes or
\* keeps a text that is not earned.
LEMMA HonestKept ==
    ASSUME IInv, Next
    PROVE  OutcomeIsHonest'
PROOF
<1> USE ClientAssumption DEF IInv
<1>1. /\ seen \in Nat /\ seen' \in {seen, seen + 1}
      /\ \A k \in 1 .. seen : said'[k] = said[k]
      BY SeenMoves, SaidStays DEF TypeOK
<1>2. cancelled' => outcome' = "cancelled"
      BY PhasesKept DEF Phases
<1> SUFFICES ASSUME outcome' \in Texts PROVE OutcomeIsHonest'
    BY <1>2 DEF OutcomeIsHonest
<1>3. outcome' \notin {None, "error", "cancelled"}
      OBVIOUS
<1>4. CASE main = "awaiting" /\ Receive(AwaitEnd)
  <2>1. main' = "closing"
        BY <1>3, <1>4 DEF Receive, AwaitEnd, Leave, Phases
  <2>2. /\ said[seen + 1].type = "run-end" /\ said' = said /\ seen' = seen + 1
        /\ outcome' = transcript /\ transcript # None /\ UNCHANGED heard
        BY <1>3, <1>4, <2>1 DEF Receive, AwaitEnd, Leave, remote
  <2>3. PICK start \in 3 .. seen : Running(start)
        BY <1>4 DEF RunSoFar
  <2>4. PICK last \in start .. seen :
          /\ said[last] = [type |-> "stt-end", value |-> transcript]
          /\ \A k \in last + 1 .. seen : said[k].type # "stt-end"
        BY <2>2, <2>3 DEF Running
  <2>5. PICK end \in Nat : end = seen + 1
        BY <1>1
  <2>6. /\ FirstAfter(start, "run-start", 2)'
        /\ FirstAfter(end, "run-end", start)'
        BY <1>1, <2>2, <2>3, <2>5 DEF Running, FirstAfter
  <2>7. /\ \A k \in last + 1 .. end : said'[k].type # "stt-end"
        /\ \A k \in 3 .. end : said'[k].type \notin {"failed", "unreadable"}
        BY <1>1, <2>2, <2>3, <2>4, <2>5 DEF Running
  <2>8. heard' # <<>> /\ heard'[Len(heard')].from = audio'
        BY <1>4, <2>2 DEF Frames, Receive
  <2>9. /\ start \in 3 .. seen' /\ last \in 3 .. seen' /\ end \in 3 .. seen'
        /\ last \in start .. end
        /\ said'[last] = [type |-> "stt-end", value |-> outcome']
        BY <1>1, <2>2, <2>3, <2>4, <2>5
  <2> QED BY <1>2, <2>6, <2>7, <2>8, <2>9 DEF OutcomeIsHonest
<1>5. CASE UNCHANGED <<outcome, seen, said, heard, audio>>
      BY <1>2, <1>5 DEF OutcomeIsHonest, FirstAfter
<1>6. CASE Say
      BY <1>3, <1>6 DEF Say, Phases, Talking, Receiving
<1>7. CASE ReceiveMessage
      BY <1>3, <1>4, <1>7 DEF ReceiveMessage, Receive, Hello, Auth, Expect, AwaitStart, Leave, Phases
<1>8. CASE ~ReceiveMessage /\ ~Say
      BY <1>3, <1>5, <1>8 DEF Next, Call, Connect, ConnectionLost, Close, SendChunk, SendEnd,
             Leave, Deadline, Cancel, Interrupt, LinkBreaks, remote, Phases
<1> QED BY <1>6, <1>7, <1>8

-----------------------------------------------------------------------------
(* Theorems                                                                *)

\* The invariant holds in every state the call reaches.
THEOREM Invariance == Spec => []IInv
PROOF
<1>1. ASSUME IInv, [Next]_vars PROVE IInv'
  <2>1. CASE Next
        BY <1>1, <2>1, TypesKept, PhasesKept, AnnouncedKept, FramesKept, RunKept, HonestKept DEF IInv
  <2>2. CASE UNCHANGED vars
    <3> USE <1>1, <2>2 DEF vars, dialogue, clocks, remote, IInv
    <3>1. TypeOK' /\ Phases' /\ Announced'
          BY DEF TypeOK, Phases, Greeted, Announced, FirstAfter
    <3>2. Frames' /\ RunSoFar'
          BY DEF Frames, RunSoFar, Running, FirstAfter
    <3>3. OutcomeIsHonest'
          BY DEF OutcomeIsHonest, FirstAfter
    <3> QED BY <3>1, <3>2, <3>3
  <2> QED BY <1>1, <2>1, <2>2
<1> QED BY <1>1, Initially, PTL DEF Spec

\* Every variable of the call has its type, for audio of every length.
THEOREM TypeCorrect == Spec => []TypeOK
PROOF
<1>1. IInv => TypeOK
      BY DEF IInv
<1> QED BY <1>1, Invariance, PTL

\* Home Assistant hears the audio in order, whole and for the announced
\* handler, before the frame that ends the stream.
THEOREM AudioOrdered == Spec => []AudioInOrder
PROOF
<1>1. ASSUME IInv PROVE AudioInOrder
  <2> USE DEF IInv
  <2>1. ASSUME heard # <<>>
        PROVE  /\ Greeted
               /\ \E i \in 3 .. seen :
                    /\ FirstAfter(i, "run-start", 2)
                    /\ \A n \in 1 .. Len(heard) : heard[n].handler = said[i].value
        BY <1>1, <2>1 DEF Frames, Announced
  <2> QED BY <1>1, <2>1 DEF Frames, Greeted, AudioInOrder
<1> QED BY <1>1, Invariance, PTL

\* A text is returned only for the whole audio and a run that ended without a
\* failure, and it is what that run said last.
THEOREM Honest == Spec => []OutcomeIsHonest
PROOF
<1>1. IInv => OutcomeIsHonest
      BY DEF IInv
<1> QED BY <1>1, Invariance, PTL
=============================================================================
