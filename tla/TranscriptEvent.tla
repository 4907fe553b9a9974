-------------------------- MODULE TranscriptEvent --------------------------
(***************************************************************************)
(* encode_transcript_event (transcript.py): one JSON event of bounded      *)
(* size, whose text is cut if need be.  An event is its text and its flag; *)
(* JSON and UTF-8 count only by the bytes they make of a character.        *)
(***************************************************************************)
EXTENDS Texts

CONSTANTS
    Bytes,           \* of each character in the encoded event
    MAX_EVENT_BYTES

\* The letters of "true" and "false".
FlagBytes(truncated) == IF truncated THEN 4 ELSE 5

TextBytes(text) ==
    LET bytes[n \in 0 .. Len(text)] ==
            IF n = 0 THEN 0 ELSE bytes[n - 1] + Bytes[text[n]]
    IN  bytes[Len(text)]

\* len(_encode(payload).encode("utf-8")); the metadata is all the rest.
EventBytes(event, metadata) == metadata + FlagBytes(event.truncated) + TextBytes(event.transcript)

Event(text, truncated) == [transcript |-> text, truncated |-> truncated]

Fits(event, metadata) == EventBytes(event, metadata) <= MAX_EVENT_BYTES

Marked(text, length) == Event(SubSeq(text, 1, length), TRUE)

\* Slip for LongestFit: while low + 1 < high.
LongestFitButOne(text, metadata) ==
    LET search[span \in (0 .. Len(text)) \X (0 .. Len(text))] ==
            LET low == span[1]
                high == span[2]
                middle == (low + high + 1) \div 2
            IN  IF low + 1 >= high THEN low
                ELSE IF Fits(Marked(text, middle), metadata)
                     THEN search[<<middle, high>>]
                     ELSE search[<<low, middle - 1>>]
    IN  search[<<0, Len(text)>>]

\* The binary search for the length of the longest text that fits when marked.
LongestFit(text, metadata) ==
    LET search[span \in (0 .. Len(text)) \X (0 .. Len(text))] ==
            LET low == span[1]
                high == span[2]
                middle == (low + high + 1) \div 2
            IN  IF low >= high THEN low
                ELSE IF Fits(Marked(text, middle), metadata)
                     THEN search[<<middle, high>>]
                     ELSE search[<<low, middle - 1>>]
    IN  search[<<0, Len(text)>>]

NoEvent == Event(<<>>, FALSE)   \* None: the STT output was empty
SizeError == Event(<<>>, TRUE)  \* ValueError: not even one character fits

Encode(transcript, metadata) ==
    LET text == Strip(transcript)
        marked == Marked(text, LongestFit(text, metadata))
    IN  CASE text = <<>> -> NoEvent
          [] text # <<>> /\ Fits(Event(text, FALSE), metadata) -> Event(text, FALSE)
          [] OTHER -> IF marked.transcript = <<>> \/ ~Fits(marked, metadata)
                      THEN SizeError
                      ELSE marked
=============================================================================
