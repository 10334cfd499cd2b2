------------------------- MODULE MCWordReplacement --------------------------
(***************************************************************************)
(* Instances of WordReplacement: a paragraph of three words and commands   *)
(* that delete, insert and replace, so that offsets move in both           *)
(* directions.                                                             *)
(***************************************************************************)
EXTENDS WordReplacement, TLC

CONSTANTS c1, c2

MCBase == <<"a", "b", "c">>
Hunk(from, to, old, new) == [start |-> from, end |-> to, old |-> old, new |-> new]

\* Two commands for one paragraph.  One turns a word into two and removes
\* another, the second replaces the word between them.
TwoCommands == (c1 :> {Hunk(0, 1, <<"a">>, <<"x", "y">>), Hunk(2, 3, <<"c">>, <<>>)})
            @@ (c2 :> {Hunk(1, 2, <<"b">>, <<"w">>)})

=============================================================================
