-------------------------- MODULE ChallengeRegistry --------------------------
(***************************************************************************)
(* What the durable ledger promises: a challenge is burned at most once,   *)
(* and only then may it be granted, to one caller, once.  A burned record  *)
(* may stay ungranted for ever.                                            *)
(***************************************************************************)
CONSTANTS Candidate, Disjoint(_, _)

VARIABLES burned, admitted

registryVars == <<burned, admitted>>

RegistryInit == burned = {} /\ admitted = {}

Burn(c) ==
    /\ \A d \in burned : Disjoint(d, c)
    /\ burned' = burned \cup {c}
    /\ UNCHANGED admitted

Grant(c) ==
    /\ c \in burned \ admitted
    /\ admitted' = admitted \cup {c}
    /\ UNCHANGED burned

RegistryNext == \E c \in Candidate : Burn(c) \/ Grant(c)

RegistrySpec == RegistryInit /\ [][RegistryNext]_registryVars
=============================================================================
