----------------------------- MODULE Mediation -----------------------------
(***************************************************************************)
(* What the pairing protocol promises, without its messages.  A mediator   *)
(* hands out single-use tokens, vouches at most once for each while it is  *)
(* fresh, and a client is paired only while the vouching is still valid.   *)
(***************************************************************************)
EXTENDS Integers

CONSTANTS Session, None, Lifetime, Validity

VARIABLES now, token, bornAt, vouchedAt, outcome

mediationVars == <<now, token, bornAt, vouchedAt, outcome>>

Init ==
  /\ now = 0
  /\ token = [s \in Session |-> "unborn"]
  /\ bornAt = [s \in Session |-> None]
  /\ vouchedAt = [s \in Session |-> None]
  /\ outcome = [s \in Session |-> "open"]

\* Tokens that die unused: rejected, expired, or forgotten with the mediator.
Lost(D) == [s \in Session |-> IF s \in D /\ token[s] = "live" THEN "dead" ELSE token[s]]

Issue(s) ==
  /\ token[s] = "unborn"
  /\ \E D \in SUBSET Session : token' = [Lost(D) EXCEPT ![s] = "live"]
  /\ bornAt' = [bornAt EXCEPT ![s] = now]
  /\ UNCHANGED <<now, vouchedAt, outcome>>

Vouch(s) ==
  /\ token[s] = "live"
  /\ now <= bornAt[s] + Lifetime
  /\ token' = [token EXCEPT ![s] = "vouched"]
  /\ vouchedAt' = [vouchedAt EXCEPT ![s] = now]
  /\ UNCHANGED <<now, bornAt, outcome>>

Lose ==
  /\ \E D \in SUBSET Session : token' = Lost(D)
  /\ UNCHANGED <<now, bornAt, vouchedAt, outcome>>

Pair(s) ==
  /\ outcome[s] = "open"
  /\ token[s] = "vouched"
  /\ now <= vouchedAt[s] + Validity
  /\ outcome' = [outcome EXCEPT ![s] = "paired"]
  /\ UNCHANGED <<now, token, bornAt, vouchedAt>>

GiveUp(s) ==
  /\ outcome[s] = "open"
  /\ outcome' = [outcome EXCEPT ![s] = "refused"]
  /\ UNCHANGED <<now, token, bornAt, vouchedAt>>

Pass ==
  /\ now' = now + 1
  /\ UNCHANGED <<token, bornAt, vouchedAt, outcome>>

Next ==
  \/ \E s \in Session : Issue(s) \/ Vouch(s) \/ Pair(s) \/ GiveUp(s)
  \/ Lose
  \/ Pass

Spec == Init /\ [][Next]_mediationVars
=============================================================================
