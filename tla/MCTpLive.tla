------------------------------ MODULE MCTpLive ------------------------------
(* Two slots over a few two-token pages and a channel of one command.      *)
EXTENDS TpLive

Kind(prompt, new) == [prompt |-> prompt, new_tokens |-> new]

KindsMC == {Kind(<<"a", "a", "b">>, 3), Kind(<<"a", "a">>, 1)}
=============================================================================
