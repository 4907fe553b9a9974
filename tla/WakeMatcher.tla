---------------------------- MODULE WakeMatcher ----------------------------
(***************************************************************************)
(* match_wake_word_prefix (matcher.py), the wake words that config.py lets *)
(* it work with, and command_from_transcript (microwake_worker.py).        *)
(*                                                                         *)
(* A text is a sequence of characters.  Normalisation composes characters  *)
(* (NFKC), folds case, which may make two of one, and drops separators, so *)
(* that the lengths of a text and of its normal form say nothing of each   *)
(* other.                                                                  *)
(***************************************************************************)
EXTENDS Texts

CONSTANTS
    Composed,    \* the character that a pair <<base, mark>> is composed to
    Folded,      \* what casefold makes of a character: a sequence
    Decomposed,  \* the base and the marks that a character is composed of
    MIN_NORMALIZED_ALIAS_LENGTH

\* A character follows what is composed so far: a mark joins the last one.
Added(done, c) ==
    IF done # <<>> /\ <<Last(done), c>> \in DOMAIN Composed
    THEN Append(Front(done), Composed[<<Last(done), c>>])
    ELSE Append(done, c)

\* unicodedata.normalize("NFKC", text)
Compose(text) ==
    LET composed[n \in 0 .. Len(text)] ==
            IF n = 0 THEN <<>> ELSE Added(composed[n - 1], text[n])
    IN  composed[Len(text)]

\* str.casefold
Fold(text) ==
    LET folded[n \in 0 .. Len(text)] ==
            IF n = 0 THEN <<>> ELSE folded[n - 1] \o Folded[text[n]]
    IN  folded[Len(text)]

WithoutSeparators(text) ==
    LET kept[n \in 0 .. Len(text)] ==
            IF n = 0 THEN <<>>
            ELSE IF text[n] \in Separators THEN kept[n - 1]
            ELSE Append(kept[n - 1], text[n])
    IN  kept[Len(text)]

normalize_for_match(text) == WithoutSeparators(Fold(Compose(text)))

-----------------------------------------------------------------------------
(* The accepted wake words: a sequence of [id, aliases]                    *)

\* Where there is an alias: the word and the place in its list.
Aliases(words) ==
    UNION {{<<w, i>> : i \in 1 .. Len(words[w].aliases)} : w \in DOMAIN words}

Alias(words, at) == words[at[1]].aliases[at[2]]

\* Slip for Collide: aliases are compared as they are written.
CollideAsWritten(alias, other) == alias = other

\* Two aliases that a transcript cannot tell apart.
Collide(alias, other) == normalize_for_match(alias) = normalize_for_match(other)

AcceptedWords(words) ==
    /\ \A v, w \in DOMAIN words : words[v].id = words[w].id => v = w
    /\ \A at \in Aliases(words) :
         Len(normalize_for_match(Alias(words, at))) >= MIN_NORMALIZED_ALIAS_LENGTH
    /\ \A at, other \in Aliases(words) :
         Collide(Alias(words, at), Alias(words, other)) => at = other

-----------------------------------------------------------------------------
(* Matching                                                                *)

NoMatch == [wake_word_id |-> "none", command |-> <<>>]

\* Slip for WordEnd: as many characters as the normal form has.
WordEndAsNormalized(transcript, alias) ==
    IF Len(alias) < Len(transcript) THEN Len(alias) ELSE Len(transcript)

\* original_end: the shortest prefix whose normal form begins with the alias.
WordEnd(transcript, alias) ==
    LET ends == {n \in DOMAIN transcript :
                    IsPrefix(alias, normalize_for_match(SubSeq(transcript, 1, n)))}
    IN  IF ends = {} THEN Len(transcript) ELSE Min(ends)

\* The first of the longest aliases the transcript begins with.
Candidates(compared, words) ==
    {at \in Aliases(words) : IsPrefix(normalize_for_match(Alias(words, at)), compared)}

Longest(candidates, words) ==
    LET length(at) == Len(normalize_for_match(Alias(words, at)))
        earlier(at, other) == at[1] < other[1] \/ (at[1] = other[1] /\ at[2] <= other[2])
    IN  CHOOSE at \in candidates :
            \A other \in candidates :
                \/ length(at) > length(other)
                \/ length(at) = length(other) /\ earlier(at, other)

match_wake_word_prefix(transcript, words) ==
    LET candidates == Candidates(normalize_for_match(transcript), words)
        chosen == Longest(candidates, words)
        end == WordEnd(transcript, normalize_for_match(Alias(words, chosen)))
        command == _strip_separators(SubSeq(transcript, end + 1, Len(transcript)))
    IN  IF candidates = {} THEN NoMatch
        ELSE IF command = <<>> THEN NoMatch
        ELSE [wake_word_id |-> words[chosen[1]].id, command |-> command]

\* Slip for command_from_transcript: what does not match is the command.
CommandOrAll(transcript, word) ==
    LET clean == Strip(transcript)
        match == match_wake_word_prefix(clean, <<word>>)
    IN  IF match # NoMatch THEN match.command ELSE clean

\* The wake word was heard by microWakeWord: a transcript without it is a command
\* too, but the wake word alone is not.
command_from_transcript(transcript, word) ==
    LET clean == Strip(transcript)
        match == match_wake_word_prefix(clean, <<word>>)
    IN  CASE match # NoMatch -> match.command
          [] match = NoMatch
             /\ \E n \in 1 .. Len(word.aliases) : Collide(clean, word.aliases[n]) -> <<>>
          [] OTHER -> clean
=============================================================================
