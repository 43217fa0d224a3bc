--------------------------- MODULE MCConsoleAccess ---------------------------
EXTENDS ConsoleAccess, TLC

\* Below and at the level of the console.
MCLevels == {30, 40}
\* A Maintainer of both, one of the group who never logged in, a Developer of
\* the project, an administrator.
MCProfiles == {[group |-> 40, project |-> 40, admin |-> FALSE, gl |-> TRUE],
               [group |-> 40, project |-> 0, admin |-> FALSE, gl |-> FALSE],
               [group |-> 0, project |-> 30, admin |-> FALSE, gl |-> TRUE],
               [group |-> 0, project |-> 0, admin |-> TRUE, gl |-> TRUE]}
=============================================================================
