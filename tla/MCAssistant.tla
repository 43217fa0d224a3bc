----------------------------- MODULE MCAssistant -----------------------------
(* Small instances of Assistant: two applications in two groups, one slug part of the other. *)
EXTENDS Assistant, TLC

CONSTANTS a1, a2, g1, g2

MCOwner == (a1 :> g1) @@ (a2 :> g2)
MCAlike == {<<a1, a2>>}
MCEnv == [from_db |-> FALSE, enabled |-> TRUE, kb |-> TRUE, access |-> FALSE, allowed |-> {},
          provider |-> "deepseek"]
MCPages == {[group |-> None, app |-> None], [group |-> g1, app |-> a1]}
Member(l1, p2) == [admin |-> FALSE, group |-> (g1 :> l1) @@ (g2 :> 0),
                   project |-> (a1 :> 0) @@ (a2 :> p2)]
MCWorlds == {Member(40, 20), [Member(0, 30) EXCEPT !.admin = TRUE]}
Listed == [DefaultRow EXCEPT !.kb = TRUE, !.access = TRUE, !.allowed = {a1}]
MCFirsts == {w \in MCWorlds \X {NoRow, Listed} : w[1].admin <=> w[2] = NoRow}
MCPayloads == {[enabled |-> "off"],
               [allowed |-> {a2}, access |-> TRUE, kb |-> TRUE, provider |-> "mistral"]}
MCAppPayloads == {[chat |-> FALSE, summary |-> FALSE]}
=============================================================================
