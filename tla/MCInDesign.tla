---------------------------- MODULE MCInDesign ----------------------------
EXTENDS InDesign

\* Three contents: two differ only in spaces, and each proposal is another content, so
\* that a paragraph can become equal to its neighbour.
MCTexts == {"plain", "spaced", "other"}
MCNormal == [plain |-> "plain", spaced |-> "plain", other |-> "other"]
MCSuggested == [plain |-> "other", spaced |-> "other", other |-> "plain"]

\* The reply is read by no action, only by the properties of a step.
MCView == <<story, inset, locked, cursor, net, events>>
=============================================================================
