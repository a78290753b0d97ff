--------------------------- MODULE MCTrustPairing ---------------------------
(***************************************************************************)
(* TrustPairing on a small instance: runs of chris.py for the same agent,  *)
(* a server that holds the badge, one that holds an old badge, one without *)
(* a badge and one that serves another agent, and registry files in which  *)
(* the agent is at each of them, demoted or gone.                          *)
(***************************************************************************)
EXTENDS TrustPairing, TLC

CONSTANTS cyrano, roxane, holder, stale, bare, other, b1, b2, cred, wrongcred

MCTarget == [s \in Session |-> cyrano]
MCHeld   == [s \in Session |-> cred]
MCRunsAs == [w \in Server |-> IF w = other THEN roxane ELSE cyrano]
MCBadgeOf == (holder :> b1) @@ (stale :> b2) @@ (bare :> None) @@ (other :> b1)

At(w, st) == [endpoint |-> w, status |-> st, badge |-> b1]
File(r, c) == [agents |-> [a \in Agent |-> IF a = cyrano THEN r ELSE At(other, "approved")],
               clients |-> {c}]
MCAgentsFile ==
  {File(At(holder, "approved"), cred), File(At(stale, "provisional"), cred),
   File(At(bare, "approved"), cred), File(At(other, "approved"), cred),
   File(At(holder, "unapproved"), cred), File(None, cred),
   File(At(holder, "approved"), wrongcred)}
\* Fewer, for the run with two sessions.
MCFewFiles ==
  {File(At(holder, "approved"), cred), File(At(stale, "provisional"), cred),
   File(At(holder, "unapproved"), cred)}
MCSkew == -1
Sessions == Permutations(Session)
=============================================================================
