---------------------------- MODULE MCTpRuntime ----------------------------
(* Two slots over three two-token pages: requests that share a first page, *)
(* one too long for the context, and two requests that together want more  *)
(* pages than there are.                                                   *)
EXTENDS TpRuntime

Admission(prompt, new, arrival) ==
    [prompt_tokens |-> prompt, max_new_tokens |-> new, cached_prefix_tokens |-> 0,
     arrival_tick |-> arrival]

AdmissionsMC == {Admission(<<"a", "a", "b">>, 2, 0), Admission(<<"b", "b", "a">>, 1, 1),
                 Admission(<<"a", "a", "b">>, 4, 0)}
=============================================================================
