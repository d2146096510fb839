--------------------------- MODULE MCTpLiveExpiry ---------------------------
(* A client that submits five requests in a fixed order, at any time, to a *)
(* session whose cache entries live for two ticks; the ranks never fail.   *)
(* One token fills a page.                                                 *)
EXTENDS TpLive

Kind(prompt, new) == [prompt |-> prompt, new_tokens |-> new]

Script == <<Kind(<<"a", "b", "c">>, 1),
            Kind(<<"a", "b", "c", "d">>, 4),
            Kind(<<"a", "b", "c", "d">>, 9),
            Kind(<<"a", "b">>, 1),
            Kind(<<"g", "g", "g", "g", "g", "g", "g">>, 3)>>

KindsMC == {Script[k] : k \in DOMAIN Script}

\* The command the client sends next.
NextSubmit == LET k == last_request_id + Len(channel) + 1 IN Submit(k, Script[k])

ScriptNext ==
    \/ /\ ReaderReads
       /\ last_request_id + Len(channel) < Len(Script) /\ held' = NextSubmit
    \/ ReaderSends
    \/ SessionNext

ScriptSpec == LiveInit /\ [][ScriptNext]_liveVars
=============================================================================
