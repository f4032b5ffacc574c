---------------------------- MODULE MCSessionState ----------------------------
(* Two tool calls, three queued prompts for two places, three delegated    *)
(* turns: every kind of session under any accepted records.                *)
EXTENDS SessionState, TLC

Symmetry == Permutations(Calls) \cup Permutations(QueueIds)
===============================================================================
