---------------------------- MODULE MCAgentCalls ----------------------------
(***************************************************************************)
(* AgentCalls on two workers: one request of each route that matters and   *)
(* three agents, two served by the hub (one of them public) and one not.   *)
(***************************************************************************)
EXTENDS AgentCalls, TLC

CONSTANTS m1, c1, c2, e1, h1, pub, priv, ext

MCRoute == [r \in Request |->
  CASE r = m1 -> "message" [] r \in {c1, c2} -> "chris"
    [] r = e1 -> "embed" [] OTHER -> "chat"]
MCWanted == [r \in Request |-> IF r = e1 THEN priv ELSE pub]
\* c2 comes from a guest.
MCAdmitted == [r \in Request |-> IF r = c2 THEN {pub} ELSE Agent]
\* All installed, or one agent inactive and another one deleted.
MCTables == {[a \in Agent |-> "active"],
             [a \in Agent |-> CASE a = pub -> "inactive" [] a = priv -> "gone"
                                [] OTHER -> "active"]}
=============================================================================
