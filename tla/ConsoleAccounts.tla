--------------------------- MODULE ConsoleAccounts ---------------------------
(***************************************************************************)
(* What the platform promises about the console accounts of a realm: an    *)
(* account is made and completed, one step at a time, only on behalf of a  *)
(* grant, and a grant is opened only for somebody who may have one at that *)
(* moment.  Accounts may be removed, and grants end, at any time.          *)
(***************************************************************************)
EXTENDS Naturals

CONSTANTS Users, Envs, Complete

VARIABLES
    may,      \* the users who may have an account
    open,     \* <<user, environment>> pairs with a grant under way
    account   \* Users -> Envs -> 0 (none) .. Complete (usable)

avars == <<may, open, account>>

AInit == /\ may \in SUBSET Users
         /\ open = {}
         /\ account \in [Users -> [Envs -> {0, Complete}]]
         /\ \A u \in Users : (\E e \in Envs : account[u][e] # 0) => u \in may

\* Who may have one changes with users and memberships; grants may end with it.
Decide == /\ may' \in SUBSET Users
          /\ open' \in SUBSET open
          /\ UNCHANGED account

Open(u, e) == /\ u \in may
              /\ open' = open \cup {<<u, e>>}
              /\ UNCHANGED <<may, account>>

Advance(u, e) == /\ <<u, e>> \in open
                 /\ account[u][e] < Complete
                 /\ account' = [account EXCEPT ![u][e] = @ + 1]
                 /\ open' \in {open, open \ {<<u, e>>}}
                 /\ UNCHANGED may

Remove(u, e) == /\ account' = [account EXCEPT ![u][e] = 0]
                /\ UNCHANGED <<may, open>>

ANext == \/ Decide
         \/ \E u \in Users, e \in Envs : Open(u, e) \/ Advance(u, e) \/ Remove(u, e)

ASpec == AInit /\ [][ANext]_avars
=============================================================================
