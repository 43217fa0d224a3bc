----------------------------- MODULE MCKeycloak -----------------------------
EXTENDS KeycloakActivation, TLC

MCStarts == AllStarts
\* Every pair of kinds; an application is moved with nothing else going wrong.
MCMixes == {m \in SUBSET (Kinds \ {"moved"}) : \E a, b \in Kinds : m = {a, b}} \cup {{"moved"}}
Symmetry == Permutations(Requests) \cup Permutations(Urls)
=============================================================================
