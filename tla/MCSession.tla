----------------------------- MODULE MCSession ------------------------------
(***************************************************************************)
(* Instances of Session: Word over WebSocket, and REST handshakes of Word  *)
(* (the add-in's fallback) and InDesign.                                   *)
(***************************************************************************)
EXTENDS Session, TLC

CONSTANTS s1, s2, h1, h2, word, indesign, r1, r2

MCEditorOf == [c \in Sockets \cup RestCalls |-> IF c = h2 THEN indesign ELSE word]
MCPolicies == {{}, {word}, {indesign}}
OneCall == r1 :> "rpc"
GenerationAndCommand == (r1 :> "generation") @@ (r2 :> "command")
=============================================================================
