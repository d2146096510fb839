---------------------------- MODULE MCStepQueue ----------------------------
(* Two request slots, pages of two tokens, two draft tokens a round.        *)
EXTENDS StepQueue

MCPrompt == [s \in Slot |-> s]
=============================================================================
