---------------------------- MODULE MCHubBackend ----------------------------
(***************************************************************************)
(* HubBackend with two chats: two deletes and two posts race on one; the    *)
(* other is made with an agent that registers meanwhile.                   *)
(***************************************************************************)
EXTENDS HubBackend, TLC

CONSTANTS shared, other, d1, d2, m1, m2, byUrl, builtIn

MCAgentOf == shared :> builtIn @@ other :> byUrl
MCChatOf == [k \in Delete \cup Send |-> shared]
=============================================================================
