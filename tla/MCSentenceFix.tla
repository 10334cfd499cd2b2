----------------------------- MODULE MCSentenceFix -----------------------------
(***************************************************************************)
(* Two-sentence paragraphs with a link and a footnote; every single range  *)
(* of a sentence with every short suggestion, with and without offsets,    *)
(* and every two ranges of a sentence with a few.                          *)
(***************************************************************************)
EXTENDS SentenceFix

MCCharacters == {" ", "\n", ".", "a", "b", "f"}

CONSTANTS Letters, SingleLength, PairSuggestions

MCParagraphs ==
    {<<Element("text", <<"a">>), Element("hyperlink", <<" ", "b">>), Element("footnote", <<"f">>),
       Element("text", <<".", " ", "b", "a", " ", "a", ".">>)>>,
     <<Element("text", <<" ", "a", " ", "a">>), Element("hyperlink", <<"a", "\n", "b">>),
       Element("text", <<" ", " ", "b">>)>>}

Suggestions ==
    UNION {[1 .. n -> Letters] : n \in 0 .. SingleLength}
    \union {<<"b", " ", "a">>, <<"a", " ", "a">>, <<" ", "a", " ">>, <<"a", " ", "b", " ", "a">>}
MCPairSuggestions == {<<>>, <<"b">>, <<"a", " ", "b">>}

Card(t, from, to, new, placed) ==
    [old |-> Slice(t, from, to), new |-> new,
     start |-> IF placed THEN from ELSE Unplaced, end |-> IF placed THEN to ELSE Unplaced]

Ranges(s) == {r \in (s.start .. s.end) \X (s.start .. s.end) : r[1] < r[2]}

MCInputs(t) ==
    UNION {LET s == SplitIntoSentences(t)[segment] IN
        {[segment |-> segment, cards |-> <<Card(t, r[1], r[2], new, placed)>>] :
            r \in Ranges(s), new \in Suggestions, placed \in BOOLEAN}
        \union {[segment |-> segment, cards |-> <<Card(t, s.start, s.start, <<"a">>, FALSE)>>]}
        \union
        {[segment |-> segment,
          cards |-> <<Card(t, p[1][1], p[1][2], p[3], TRUE), Card(t, p[2][1], p[2][2], p[4], FALSE)>>] :
            p \in {q \in Ranges(s) \X Ranges(s) \X PairSuggestions \X PairSuggestions :
                      q[1][1] <= q[2][1]}}
        : segment \in DOMAIN SplitIntoSentences(t)}
    \union {[segment |-> Len(SplitIntoSentences(t)) + 1, cards |-> <<Card(t, 0, 1, <<"b">>, FALSE)>>]}
================================================================================
