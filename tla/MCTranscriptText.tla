------------------------- MODULE MCTranscriptText --------------------------
(***************************************************************************)
(* An alphabet with a case pair, a letter that folds to two, a letter that *)
(* a mark composes to another, one whose mark stays when its case is       *)
(* folded, a space and a quotation mark, which JSON escapes.  The event's  *)
(* sizes leave room for none to five bytes of text.                        *)
(***************************************************************************)
EXTENDS TranscriptText

MCChars == {"s", "S", "eszett", "e", "mark", "e-mark", "S-mark", "space", "quote"}

MCBytes == [c \in MCChars |-> IF c \in {"s", "S", "e", "space"} THEN 1 ELSE 2]

MCComposed == (<<"e", "mark">> :> "e-mark") @@ (<<"S", "mark">> :> "S-mark")

MCDecomposed == [c \in MCChars |-> CASE c = "e-mark" -> <<"e", "mark">>
                                     [] c = "S-mark" -> <<"S", "mark">>
                                     [] OTHER -> <<c>>]

MCFolded == [c \in MCChars |-> CASE c = "S" -> <<"s">>
                                 [] c = "eszett" -> <<"s", "s">>
                                 [] c = "S-mark" -> <<"s", "mark">>
                                 [] OTHER -> <<c>>]

Word(id, aliases) == [id |-> id, aliases |-> aliases]

\* The last two lists are refused: aliases collide, one is too short.
MCWordLists ==
    {<<Word("w1", <<<<"e", "s">>, <<"e-mark", "s">>>>)>>,
     <<Word("w1", <<<<"s", "s">>>>), Word("w2", <<<<"s", "s", "e">>, <<"e", "e">>>>)>>,
     <<Word("w1", <<<<"S", "e", "mark", "s">>>>), Word("w2", <<<<"s", "space", "e-mark">>>>)>>,
     <<Word("w1", <<<<"s", "s">>>>), Word("w2", <<<<"eszett">>>>)>>,
     <<Word("w1", <<<<"s", "space">>>>)>>}
=============================================================================
