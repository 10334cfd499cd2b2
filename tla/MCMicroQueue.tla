---------------------------- MODULE MCMicroQueue ----------------------------
(* Model-checking instance of MicroQueue: the paragraphs are interchangeable. *)
EXTENDS MicroQueue, TLC

ParagraphSymmetry == Permutations(Paragraphs)
=============================================================================
