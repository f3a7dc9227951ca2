----------------------------- MODULE MCChatTurn -----------------------------
(* ChatTurn for TLC. *)
EXTENDS ChatTurn

MCKind == KindOfText
\* create_safety_incident is to the loop a tool like any other that is keyed
MCAsked == Tool \ {"create_safety_incident"}
MCEmergency == {"sos"}
MCNoFaults == {}
MCAllFaults == {"tool", "turn"}
=============================================================================
