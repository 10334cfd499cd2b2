-------------------------- MODULE MCTranslationMemory --------------------------
(***************************************************************************)
(* A paragraph of two sentences that have the same translation, and        *)
(* entries with exact, fuzzy and equal sources.  For the undoing of three  *)
(* sentences, a paragraph whose first sentence is the longest.             *)
(***************************************************************************)
EXTENDS TranslationMemory

Entry(id, source, target) == [id |-> id, source |-> source, target |-> target]

MCOriginal == [p |-> <<"a", "a", "b", ".", " ", "c", ".">>]
MCImported == <<Entry("1", <<"a", "A", "b", ".">>, <<"x", ".">>), Entry("2", <<"c", ".">>, <<"x", ".">>),
                Entry("3", <<"a", "a", "b", "b", ".">>, <<"y", ".">>),
                Entry("4", <<"a", "a", "c", "b", ".">>, <<"z">>)>>
MCFiles == {<<Entry("6", <<"c", ".">>, <<"z", ".">>)>>}
MCKeywords == {<<"B">>}
MCEdits(t) == {t \o <<"z">>}
MCOwnTargets == {<<"y", ".", " ", "x", ".">>}

ThreeOriginal == [p |-> <<"a", "a", "a", "a", ".", " ", "b", ".", " ", "c", ".">>]
ThreeImported == <<Entry("1", <<"a", "a", "a", "a", ".">>, <<"t", ".">>),
                   Entry("2", <<"b", ".">>, <<"t", ".">>), Entry("3", <<"c", ".">>, <<"t", ".">>)>>
Nothing == {}
================================================================================
