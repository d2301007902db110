---------------------------- MODULE MCAssistantEdits ----------------------------
(* The values TLC gives the constants of AssistantEdits.                      *)
EXTENDS AssistantEdits

=============================================================================
