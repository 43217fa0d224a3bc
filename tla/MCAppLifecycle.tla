--------------------------- MODULE MCAppLifecycle ---------------------------
EXTENDS AppLifecycle, TLC

MCStarts == AllStarts
MCScaffoldOnly == {"scaffolded"}
MCMixes == {{k} : k \in Kinds} \cup {{"fail", "reuse"}, {"reuse", "pulled"}}
MCReuse == {{"reuse", "pulled"}}
MCSymmetry == Permutations(Requests)

=============================================================================
