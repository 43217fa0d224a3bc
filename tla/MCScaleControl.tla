--------------------------- MODULE MCScaleControl ---------------------------
EXTENDS ScaleControl

\* Monday noon and Monday 22:00: one instant on each side of the window.
MCInstants == {[weekday |-> 0, hour |-> 12], [weekday |-> 0, hour |-> 22]}

MCAnyEnvs == {{"dev"}, {"dev", "prod"}}
MCDevOnly == {{"dev"}}

MCAllKinds   == AllKinds
MCScaleKinds == {"stop", "resume"}
=============================================================================
