---------------------------- MODULE MCWordAddin ----------------------------
EXTENDS WordAddin

MCTexts == {"a", "b"}
MCHash == [t \in MCTexts |-> t]

\* The answer is read by no action, only by a property of a step.
MCView == <<net, listener, posting, doc, request, events>>
=============================================================================
