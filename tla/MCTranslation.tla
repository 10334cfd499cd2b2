--------------------------- MODULE MCTranslation ---------------------------
EXTENDS Translation

\* The memory knows one of the texts.
MCMemory == [s \in {"a"} |-> "x"]

\* Two texts, two translations.
MCSources == {"a", "b"}
MCDrafts == {"x", "y"}
=============================================================================
