--------------------------- MODULE TranscriptText --------------------------
(***************************************************************************)
(* What TranscriptEvent and WakeMatcher make of a transcript, checked for  *)
(* every text over an alphabet: the text grows by a character per step.    *)
(***************************************************************************)
EXTENDS TranscriptEvent, WakeMatcher

CONSTANTS
    Chars,
    MaxText,    \* bound of the model: characters of a transcript
    Metadata,   \* sizes of the rest of an event
    WordLists   \* wake words as they are configured

ASSUME TextAssumption ==
    /\ Bytes \in [Chars -> Nat]
    /\ MAX_EVENT_BYTES \in Nat
    /\ Metadata \subseteq Nat

\* What the matcher relies on of the Unicode tables.  A case fold keeps separators
\* and makes none, no pair has to do with one, and no mark is a base too.  A mark
\* may change what the base folds to from its first character on; if it does not,
\* then the marks are folded by themselves, after the base.
ASSUME MatchAssumption ==
    /\ Spaces \subseteq Separators
    /\ MIN_NORMALIZED_ALIAS_LENGTH \in Nat \ {0}
    /\ \A words \in WordLists : \A at \in Aliases(words) :
         Alias(words, at) \in Seq(Chars)
    /\ Folded \in [Chars -> Seq(Chars)]
    /\ \A c \in Chars :
         /\ Folded[c] # <<>>
         /\ \A i \in DOMAIN Folded[c] : Folded[c][i] \in Separators <=> c \in Separators
    /\ DOMAIN Composed \subseteq Chars \X Chars
    /\ \A p \in DOMAIN Composed :
         /\ Composed[p] \in Chars
         /\ {p[1], p[2], Composed[p]} \cap Separators = {}
         /\ \A q \in DOMAIN Composed : p[2] # q[1]
         /\ Decomposed[Composed[p]] = Append(Decomposed[p[1]], p[2])
    /\ Decomposed \in [Chars -> Seq(Chars)]
    /\ \A b, c \in Chars :
         IsPrefix(Decomposed[b], Decomposed[c]) /\ Folded[b][1] = Folded[c][1] =>
             LET marks == SubSeq(Decomposed[c], Len(Decomposed[b]) + 1, Len(Decomposed[c]))
             IN  Folded[c] = Folded[b] \o WithoutSeparators(Fold(marks))

VARIABLE transcript

TextInit == transcript = <<>>

Grow ==
    /\ Len(transcript) < MaxText
    /\ \E c \in Chars : transcript' = Append(transcript, c)

TextSpec == TextInit /\ [][Grow]_transcript

-----------------------------------------------------------------------------
(* Properties                                                              *)

\* CONDUCTOR.md 272-273 and README.md 157-159: an event fits into its bytes; it
\* is the whole text unless it is marked; a marked one is the longest beginning
\* of a text that was too long, and is whole only if the shorter flag alone made
\* it fit; it fails only if not even the first character fits.
EncodedIsLongest ==
    \A metadata \in Metadata :
        LET text == Strip(transcript)
            event == Encode(transcript, metadata)
            tooLong == ~Fits(Event(text, FALSE), metadata)
            fitting == {n \in DOMAIN text : Fits(Marked(text, n), metadata)}
        IN  /\ text = <<>> <=> event = NoEvent
            /\ event = SizeError <=> text # <<>> /\ tooLong /\ fitting = {}
            /\ event \notin {NoEvent, SizeError} =>
                 /\ Fits(event, metadata)
                 /\ event.truncated <=> tooLong
                 /\ ~tooLong => event.transcript = text
                 /\ tooLong => event.transcript = SubSeq(text, 1, Max(fitting))
                 /\ tooLong /\ event.transcript = text =>
                      EventBytes(Event(text, FALSE), metadata) = MAX_EVENT_BYTES + 1

Accepted == {words \in WordLists : AcceptedWords(words)}

\* CONDUCTOR.md 77: the transcript is the word, then the command: nothing of what
\* is compared is lost between them and no composed character is taken apart.
\* The word is the longest alias, and the rest of what its last character folds to.
CommandIsRest ==
    \A words \in Accepted :
        LET match == match_wake_word_prefix(transcript, words)
            compared == normalize_for_match(transcript)
            command == normalize_for_match(match.command)
            word == SubSeq(compared, 1, Len(compared) - Len(command))
            alias(at) == normalize_for_match(Alias(words, at))
        IN  match # NoMatch =>
              /\ command # <<>>
              /\ IsSuffix(command, compared)
              /\ match.command[1] \notin Separators
              /\ Last(match.command) \notin Separators
              /\ \E at \in Aliases(words) :
                   /\ words[at[1]].id = match.wake_word_id
                   /\ IsPrefix(alias(at), word)
                   /\ \E c \in DOMAIN Folded : Len(word) < Len(alias(at)) + Len(Folded[c])
                   /\ \A other \in Aliases(words) :
                        IsPrefix(alias(other), compared) =>
                            Len(alias(other)) < Len(alias(at)) \/ other = at

\* CONDUCTOR.md 84 and 188: the wake word alone is no command, whichever of its
\* spellings is recognised and whatever separates or follows it.
WakeWordAloneIsNoCommand ==
    \A words \in Accepted : \A at \in Aliases(words) :
        normalize_for_match(transcript) = normalize_for_match(Alias(words, at)) =>
            /\ match_wake_word_prefix(transcript, words) = NoMatch
            /\ command_from_transcript(transcript, words[at[1]]) = <<>>
=============================================================================
