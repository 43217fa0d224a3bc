-------------------------- MODULE MCKeycloakDeploy --------------------------
(* Small instances of KeycloakDeploy: one instance by three target files (a sound one, one  *)
(* whose route leads nowhere, one with another issuer), a second one on its own cluster.   *)
EXTENDS KeycloakDeploy, TLC

CONSTANTS k1, k2, u1, u2, c1, c2

Target(k, u, c, sound) == [key |-> k, url |-> u, cluster |-> c, sound |-> sound]
MCTargets == {Target(k1, u1, c1, TRUE), Target(k1, u1, c1, FALSE), Target(k1, u2, c1, FALSE),
              Target(k2, u2, c2, FALSE)}
Symmetry == Permutations(Operators)
=============================================================================
