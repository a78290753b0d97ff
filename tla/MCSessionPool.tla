--------------------------- MODULE MCSessionPool ----------------------------
(***************************************************************************)
(* SessionPool with a user who has two sessions, on two processes where    *)
(* the pools are in Redis: both connect and disconnect, one joins and one  *)
(* asks for the list of users.                                             *)
(***************************************************************************)
EXTENDS SessionPool, TLC

CONSTANTS p1, p2, anne, a1, a2

MCCall == {"connect", "disconnect"} \X Sid \cup {<<"user-join", a1>>, <<"user-list", a2>>}
MCKind == [c \in MCCall |-> c[1]]
MCSessionOf == [c \in MCCall |-> c[2]]
MCUserOf == [s \in Sid |-> anne]
MCProcessOf == a1 :> p1 @@ a2 :> p2
=============================================================================
