-------------------------------- MODULE Texts ------------------------------
(***************************************************************************)
(* Transcripts as sequences of characters.                                 *)
(***************************************************************************)
EXTENDS Integers, SequencesExt

CONSTANTS
    Spaces,      \* characters str.strip removes
    Separators   \* spaces and punctuation: _is_separator

\* text without its first and last characters that are in `set'.
Trim(text, set) ==
    LET kept == {n \in DOMAIN text : text[n] \notin set}
    IN  IF kept = {} THEN <<>> ELSE SubSeq(text, Min(kept), Max(kept))

Strip(text) == Trim(text, Spaces)
_strip_separators(text) == Trim(text, Separators)
=============================================================================
