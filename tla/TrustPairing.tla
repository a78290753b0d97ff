---------------------------- MODULE TrustPairing ----------------------------
(***************************************************************************)
(* The mediated pairing of agents/Cyrano-de-Bergerac-A2A-Secure.  A chat   *)
(* client (Chris) may talk to an agent (Cyrano) only when the Agent        *)
(* Registry vouches for it.  Four requests make up one pairing:            *)
(*                                                                         *)
(*   Chris    -> Registry : agent-lookup                                   *)
(*   Chris    -> Registry : pairing-challenge   (a token is stored)        *)
(*   Chris    -> server   : POST /pairing/respond                          *)
(*   server   -> Registry : pairing-verify      (the token is popped)      *)
(*                                                                         *)
(* A session is one run of chris.py.  It asks for one challenge, so the    *)
(* random token is named by its session.  A registry handler has no await, *)
(* so each is one step; everything between two handlers interleaves: other *)
(* sessions, the clock, a registry restart, a new signing key, a client    *)
(* that has already timed out.                                             *)
(***************************************************************************)
EXTENDS Integers

CONSTANTS
  Session,       \* runs of chris.py
  Agent,         \* agent identifiers
  Server,        \* processes that mount /pairing/respond
  Badge,         \* Trust Badges (equal hashes are equal badges)
  Credential,    \* client credentials
  None,          \* no such record, badge, credential or message
  AgentsFile,    \* the contents agents.json may have when it is read
  Target,        \* the agent a session was started for
  Held,          \* the credential in a session's environment, or None
  RunsAs,        \* the agent id a server is configured with
  BadgeOf,       \* the badge a server is configured with, or None
  CHALLENGE_TTL, ASSERTION_TTL,
  Skew,          \* Chris's clock minus the Registry's
  MaxTime, MaxRestarts, MaxKey   \* bounds of the model

Status == {"approved", "provisional", "unapproved"}
Record == [endpoint : Server, status : Status, badge : Badge]

ASSUME ConstantsAssumption ==
  /\ AgentsFile \subseteq [agents : [Agent -> Record \cup {None}],
                           clients : SUBSET Credential]
  /\ AgentsFile # {}
  /\ Target \in [Session -> Agent]
  /\ Held \in [Session -> Credential \cup {None}]
  /\ RunsAs \in [Server -> Agent]
  /\ BadgeOf \in [Server -> Badge \cup {None}]

ASSUME NoneAssumption ==
  /\ None \notin Record
  /\ None \notin Badge
  /\ None \notin Credential
  /\ None \notin [endpoint : Server, status : Status]
  /\ None \notin [agent_id : Agent, expires_at : Int]
  /\ None \notin [agent_id : Agent, expires_at : Int, key : Nat]
  /\ None \notin [agent : Agent, server : Server, at : Nat, file : AgentsFile]
  /\ None \notin Int

ASSUME TimeAssumption ==
  /\ CHALLENGE_TTL \in Nat
  /\ ASSERTION_TTL \in Nat
  /\ Skew \in Int
  /\ MaxTime \in Nat
  /\ MaxRestarts \in Nat
  /\ MaxKey \in Nat

VARIABLES
  now,          \* the Registry's clock
  keyFile,      \* certs/registry_signing.key, as a generation number
  signingKey,   \* the key the Registry process loaded
  registry,     \* the agents.json the Registry process loaded
  restarts,     \* restarts of the Registry so far
  challenges,   \* _challenges: token -> [agent_id, expires_at], or None
  chris,        \* where each session is
  verifyKey,    \* the key a session loaded
  call,         \* the exchange a session has open
  found,        \* agent record the lookup returned
  proof,        \* the pairing-verify exchange of the server
  assertion,    \* the signed assertion, once there is one
  issuedAt,     \* history: when the session's token was stored
  vouch,        \* history: what the Registry knew when it signed
  presented,    \* history: tokens pairing-verify has been called with
  acceptedAt,   \* history: when Chris accepted
  barredAt      \* history: since when an agent may not pair

registryVars == <<keyFile, signingKey, registry, restarts, barredAt>>
historyVars  == <<issuedAt, vouch, presented, acceptedAt>>
vars == <<now, registryVars, challenges, chris, verifyKey, call, found, proof,
          assertion, historyVars>>

Waiting  == {"lookup", "challenge", "respond"}
Terminal == {"paired", "failed", "crashed"}
Requests == {"lookup?", "challenge?", "respond?"}
Calls    == Requests \cup {"none", "responding", "record", "token", "error",
                           "assertion", "http error", "http text"}
Proofs   == {"none", "request", "assertion", "error"}

-----------------------------------------------------------------------------
(* What the registry checks.                                               *)

Trusted(status) == status \in {"approved", "provisional"}

KnownIn(file, a) == file.agents[a] # None

\* An agent that pairing-verify would sign for, its badge aside.
InGoodStanding(file, a) ==
  KnownIn(file, a) /\ Trusted(file.agents[a].status)

\* _authenticate_chris: some client record holds the presented credential.
Authenticated(s) == Held[s] # None /\ Held[s] \in registry.clients

Expired(challenge) == now > challenge.expires_at

\* Mutants of VerifyOK: a check left out.
VerifyWithoutBadge(c, w) ==
  /\ c # None
  /\ ~Expired(c)
  /\ c.agent_id = RunsAs[w]
  /\ KnownIn(registry, RunsAs[w])
  /\ Trusted(registry.agents[RunsAs[w]].status)

VerifyWithoutStatus(c, w) ==
  /\ c # None
  /\ ~Expired(c)
  /\ c.agent_id = RunsAs[w]
  /\ KnownIn(registry, RunsAs[w])
  /\ registry.agents[RunsAs[w]].badge = BadgeOf[w]

VerifyWithoutExpiry(c, w) ==
  /\ c # None
  /\ c.agent_id = RunsAs[w]
  /\ KnownIn(registry, RunsAs[w])
  /\ registry.agents[RunsAs[w]].badge = BadgeOf[w]
  /\ Trusted(registry.agents[RunsAs[w]].status)

\* The checks of _handle_pairing_verify, in the source's order: the popped
\* challenge c, the requesting server w.
VerifyOK(c, w) ==
  /\ c # None
  /\ ~Expired(c)
  /\ c.agent_id = RunsAs[w]
  /\ KnownIn(registry, RunsAs[w])
  /\ registry.agents[RunsAs[w]].badge = BadgeOf[w]
  /\ Trusted(registry.agents[RunsAs[w]].status)

\* Mutant of VerifyAssertion: an assertion never goes stale.
VerifyAssertionWithoutExpiry(s) ==
  /\ assertion[s].key = verifyKey[s]
  /\ assertion[s].agent_id = Target[s]

\* verify_assertion: signature, agent, expiration on Chris's own clock.
VerifyAssertion(s) ==
  /\ assertion[s].key = verifyKey[s]
  /\ assertion[s].agent_id = Target[s]
  /\ now + Skew <= assertion[s].expires_at

-----------------------------------------------------------------------------
Init ==
  /\ now = 0
  /\ keyFile = 0
  /\ signingKey = 0
  /\ registry \in AgentsFile
  /\ restarts = 0
  /\ challenges = [s \in Session |-> None]
  /\ chris = [s \in Session |-> "start"]
  /\ verifyKey = [s \in Session |-> 0]
  /\ call = [s \in Session |-> "none"]
  /\ found = [s \in Session |-> None]
  /\ proof = [s \in Session |-> "none"]
  /\ assertion = [s \in Session |-> None]
  /\ issuedAt = [s \in Session |-> None]
  /\ vouch = [s \in Session |-> None]
  /\ presented = {}
  /\ acceptedAt = [s \in Session |-> None]
  /\ barredAt = [a \in Agent |-> IF InGoodStanding(registry, a) THEN None ELSE 0]

(* Chris ------------------------------------------------------------------*)

\* run_chat loads the key and initiate_pairing sends the lookup.
Start(s) ==
  /\ chris[s] = "start"
  /\ chris' = [chris EXCEPT ![s] = "lookup"]
  /\ verifyKey' = [verifyKey EXCEPT ![s] = keyFile]
  /\ call' = [call EXCEPT ![s] = "lookup?"]
  /\ UNCHANGED <<now, registryVars, challenges, found, proof, assertion, historyVars>>

\* A session that gives up with a PairingError: message printed, exit(1).
PairingError(s) ==
  /\ chris' = [chris EXCEPT ![s] = "failed"]
  /\ call' = [call EXCEPT ![s] = "none"]
  /\ UNCHANGED <<now, registryVars, challenges, verifyKey, found, proof, assertion,
                 historyVars>>

GetRecord(s) ==
  /\ chris[s] = "lookup" /\ call[s] = "record"
  /\ Trusted(found[s].status)
  /\ chris' = [chris EXCEPT ![s] = "challenge"]
  /\ call' = [call EXCEPT ![s] = "challenge?"]
  /\ UNCHANGED <<now, registryVars, challenges, verifyKey, found, proof, assertion,
                 historyVars>>

GetUntrustedRecord(s) ==
  /\ chris[s] = "lookup" /\ call[s] = "record"
  /\ ~Trusted(found[s].status)
  /\ PairingError(s)

GetToken(s) ==
  /\ chris[s] = "challenge" /\ call[s] = "token"
  /\ chris' = [chris EXCEPT ![s] = "respond"]
  /\ call' = [call EXCEPT ![s] = "respond?"]
  /\ UNCHANGED <<now, registryVars, challenges, verifyKey, found, proof, assertion,
                 historyVars>>

\* The registry answered with an error, or the server with an HTTP status
\* and a JSON detail.
GetError(s) ==
  /\ chris[s] \in Waiting /\ call[s] \in {"error", "http error"}
  /\ PairingError(s)

GetAssertion(s) ==
  /\ chris[s] = "respond" /\ call[s] = "assertion"
  /\ VerifyAssertion(s)
  /\ chris' = [chris EXCEPT ![s] = "paired"]
  /\ call' = [call EXCEPT ![s] = "none"]
  /\ acceptedAt' = [acceptedAt EXCEPT ![s] = now]
  /\ UNCHANGED <<now, registryVars, challenges, verifyKey, found, proof, assertion,
                 issuedAt, vouch, presented>>

GetBadAssertion(s) ==
  /\ chris[s] = "respond" /\ call[s] = "assertion"
  /\ ~VerifyAssertion(s)
  /\ PairingError(s)

\* A request that finds nobody listening: httpx.ConnectError, which every
\* step turns into a PairingError.
ConnectError(s) ==
  /\ chris[s] \in Waiting /\ call[s] \in Requests
  /\ PairingError(s)

\* Mutant of Timeout: no deadline on the server's answer.
TimeoutOfRegistryOnly(s) ==
  /\ chris[s] \in {"lookup", "challenge"}
  /\ chris' = [chris EXCEPT ![s] = "crashed"]
  /\ UNCHANGED <<now, registryVars, challenges, verifyKey, call, found, proof,
                 assertion, historyVars>>

\* Any other transport failure (the 15 s read timeout, a reset connection)
\* escapes initiate_pairing.  What was sent is still being served.
Timeout(s) ==
  /\ chris[s] \in Waiting
  /\ chris' = [chris EXCEPT ![s] = "crashed"]
  /\ UNCHANGED <<now, registryVars, challenges, verifyKey, call, found, proof,
                 assertion, historyVars>>

\* A 500 with a plain-text body: resp.json() raises, outside every except.
GetHttpText(s) ==
  /\ chris[s] = "respond" /\ call[s] = "http text"
  /\ chris' = [chris EXCEPT ![s] = "crashed"]
  /\ call' = [call EXCEPT ![s] = "none"]
  /\ UNCHANGED <<now, registryVars, challenges, verifyKey, found, proof, assertion,
                 historyVars>>

(* The Registry -----------------------------------------------------------*)

\* Mutant of PublicRecord: the stored record as it is.
WholeRecord(r) == r

\* The part of a record that leaves the registry: not the badge hash.
PublicRecord(r) == [endpoint |-> r.endpoint, status |-> r.status]

HandleAgentLookup(s) ==
  /\ call[s] = "lookup?"
  /\ IF Authenticated(s) /\ KnownIn(registry, Target[s])
     THEN /\ call' = [call EXCEPT ![s] = "record"]
          /\ found' = [found EXCEPT ![s] = PublicRecord(registry.agents[Target[s]])]
     ELSE /\ call' = [call EXCEPT ![s] = "error"]
          /\ UNCHANGED found
  /\ UNCHANGED <<now, registryVars, challenges, chris, verifyKey, proof, assertion,
                 historyVars>>

\* The token is stored, then every expired token is purged.
HandlePairingChallenge(s) ==
  /\ call[s] = "challenge?"
  /\ IF Authenticated(s) /\ KnownIn(registry, Target[s])
     THEN LET stored == [challenges EXCEPT ![s] =
                           [agent_id   |-> Target[s],
                            expires_at |-> now + CHALLENGE_TTL]]
          IN  /\ challenges' = [t \in Session |->
                                  IF stored[t] # None /\ Expired(stored[t])
                                  THEN None ELSE stored[t]]
              /\ call' = [call EXCEPT ![s] = "token"]
              /\ issuedAt' = [issuedAt EXCEPT ![s] = now]
     ELSE /\ call' = [call EXCEPT ![s] = "error"]
          /\ UNCHANGED <<challenges, issuedAt>>
  /\ UNCHANGED <<now, registryVars, chris, verifyKey, found, proof, assertion,
                 vouch, presented, acceptedAt>>

\* Mutant of Popped: the token is consumed by a successful verification only.
PoppedOnSuccess(s) ==
  IF VerifyOK(challenges[s], found[s].endpoint)
  THEN [challenges EXCEPT ![s] = None] ELSE challenges

\* _challenges.pop(token, None)
Popped(s) == [challenges EXCEPT ![s] = None]

\* The token is popped before it is looked at; an assertion is signed only
\* when every check passes.
HandlePairingVerify(s) ==
  LET c == challenges[s]
      w == found[s].endpoint
  IN  /\ proof[s] = "request"
      /\ challenges' = Popped(s)
      /\ presented' = presented \cup {s}
      /\ IF VerifyOK(c, w)
         THEN /\ proof' = [proof EXCEPT ![s] = "assertion"]
              /\ assertion' = [assertion EXCEPT ![s] =
                                 [agent_id   |-> RunsAs[w],
                                  expires_at |-> now + ASSERTION_TTL,
                                  key        |-> signingKey]]
              /\ vouch' = [vouch EXCEPT ![s] =
                             [agent |-> RunsAs[w], server |-> w,
                              at |-> now, file |-> registry]]
         ELSE /\ proof' = [proof EXCEPT ![s] = "error"]
              /\ UNCHANGED <<assertion, vouch>>
      /\ UNCHANGED <<now, registryVars, chris, verifyKey, call, found, issuedAt,
                     acceptedAt>>

\* _challenges starts empty in every process.
ChallengesAtStart == [s \in Session |-> None]

\* The process comes back with whatever the files now hold, and with an empty
\* challenge store.
RestartRegistry ==
  /\ restarts < MaxRestarts
  /\ restarts' = restarts + 1
  /\ \E file \in AgentsFile :
       /\ registry' = file
       /\ barredAt' = [a \in Agent |->
                         IF InGoodStanding(file, a) THEN None
                         ELSE IF barredAt[a] = None THEN now ELSE barredAt[a]]
  /\ signingKey' = keyFile
  /\ challenges' = ChallengesAtStart
  /\ UNCHANGED <<now, keyFile, chris, verifyKey, call, found, proof, assertion,
                 historyVars>>

\* scripts/mock_ca.py writes a fresh signing key.
WriteSigningKey ==
  /\ keyFile < MaxKey
  /\ keyFile' = keyFile + 1
  /\ UNCHANGED <<now, signingKey, registry, restarts, barredAt, challenges, chris,
                 verifyKey, call, found, proof, assertion, historyVars>>

(* The server at the endpoint ---------------------------------------------*)

PairingRespond(s) ==
  /\ call[s] = "respond?"
  /\ IF BadgeOf[found[s].endpoint] = None
     THEN /\ call' = [call EXCEPT ![s] = "http error"]
          /\ UNCHANGED proof
     ELSE /\ call' = [call EXCEPT ![s] = "responding"]
          /\ proof' = [proof EXCEPT ![s] = "request"]
  /\ UNCHANGED <<now, registryVars, challenges, chris, verifyKey, found, assertion,
                 historyVars>>

\* The server relays what the registry said; a rejection is a 403.
Relay(s) ==
  /\ call[s] = "responding" /\ proof[s] \in {"assertion", "error"}
  /\ call' = [call EXCEPT ![s] = IF proof[s] = "assertion" THEN "assertion"
                                                           ELSE "http error"]
  /\ proof' = [proof EXCEPT ![s] = "none"]
  /\ UNCHANGED <<now, registryVars, challenges, chris, verifyKey, found, assertion,
                 historyVars>>

\* ConnectError towards the registry is a 502 with a detail.
RegistryUnreachable(s) ==
  /\ call[s] = "responding" /\ proof[s] = "request"
  /\ call' = [call EXCEPT ![s] = "http error"]
  /\ proof' = [proof EXCEPT ![s] = "none"]
  /\ UNCHANGED <<now, registryVars, challenges, chris, verifyKey, found, assertion,
                 historyVars>>

\* The server's 10 s timeout is not caught: FastAPI answers 500 in plain text.
\* The registry may still be working on the request.
VerifyTimeout(s) ==
  /\ call[s] = "responding"
  /\ call' = [call EXCEPT ![s] = "http text"]
  /\ UNCHANGED <<now, registryVars, challenges, chris, verifyKey, found, proof,
                 assertion, historyVars>>

-----------------------------------------------------------------------------
Tick ==
  /\ now < MaxTime
  /\ now' = now + 1
  /\ UNCHANGED <<registryVars, challenges, chris, verifyKey, call, found, proof,
                 assertion, historyVars>>

\* What asyncio and httpx are sure to do in a waiting session.
Resume(s) ==
  \/ GetRecord(s) \/ GetUntrustedRecord(s) \/ GetToken(s) \/ GetError(s)
  \/ GetAssertion(s) \/ GetBadAssertion(s) \/ GetHttpText(s) \/ Timeout(s)

Chris(s) == Start(s) \/ Resume(s) \/ ConnectError(s)

Registry(s) ==
  HandleAgentLookup(s) \/ HandlePairingChallenge(s) \/ HandlePairingVerify(s)

AgentServer(s) ==
  PairingRespond(s) \/ Relay(s) \/ RegistryUnreachable(s) \/ VerifyTimeout(s)

Next ==
  \/ \E s \in Session : Chris(s) \/ Registry(s) \/ AgentServer(s)
  \/ RestartRegistry
  \/ WriteSigningKey
  \/ Tick

Spec == Init /\ [][Next]_vars

\* asyncio runs a reply that arrived, and httpx gives up on a silent peer.
\* Nothing is assumed of the registry, the server or the network.
FairSpec == Spec /\ \A s \in Session : WF_vars(Resume(s))

-----------------------------------------------------------------------------
(* Properties.                                                             *)

\* The types of the variables.
TypeOK ==
  /\ now \in Nat
  /\ keyFile \in Nat /\ signingKey \in Nat /\ restarts \in Nat
  /\ registry \in AgentsFile
  /\ challenges \in [Session -> [agent_id : Agent, expires_at : Int] \cup {None}]
  /\ chris \in [Session -> {"start"} \cup Waiting \cup Terminal]
  /\ verifyKey \in [Session -> Nat]
  /\ call \in [Session -> Calls]
  /\ found \in [Session -> [endpoint : Server, status : Status] \cup {None}]
  /\ proof \in [Session -> Proofs]
  /\ assertion \in [Session ->
       [agent_id : Agent, expires_at : Int, key : Nat] \cup {None}]
  /\ issuedAt \in [Session -> Nat \cup {None}]
  /\ vouch \in [Session ->
       [agent : Agent, server : Server, at : Nat, file : AgentsFile] \cup {None}]
  /\ presented \subseteq Session
  /\ acceptedAt \in [Session -> Nat \cup {None}]
  /\ barredAt \in [Agent -> Nat \cup {None}]

\* A client is paired only on the strength of a signature the registry made on
\* this client's own token, for the agent it asked for, presented by the
\* server it is about to talk to, with that agent's badge in the table of that
\* moment and the agent in good standing there.
PairedIsVouched ==
  \A s \in Session : chris[s] = "paired" =>
    /\ vouch[s] # None
    /\ vouch[s].agent = Target[s]
    /\ vouch[s].server = found[s].endpoint
    /\ InGoodStanding(vouch[s].file, Target[s])
    /\ vouch[s].file.agents[Target[s]].badge = BadgeOf[found[s].endpoint]

\* A pairing is recent: the challenge was answered within its lifetime and the
\* answer accepted within its own, clock difference included.
FreshPairing ==
  \A s \in Session : chris[s] = "paired" =>
    /\ issuedAt[s] # None /\ vouch[s] # None
    /\ issuedAt[s] <= vouch[s].at
    /\ vouch[s].at <= issuedAt[s] + CHALLENGE_TTL
    /\ acceptedAt[s] <= vouch[s].at + ASSERTION_TTL - Skew

\* A revocation takes hold: once a restarted registry bars an agent, no client
\* accepts it later than one assertion lifetime after that.
RevocationBound ==
  \A s \in Session :
    (chris[s] = "paired" /\ barredAt[Target[s]] # None)
      => acceptedAt[s] <= barredAt[Target[s]] + ASSERTION_TTL - Skew

\* A token that pairing-verify has seen is gone for good, whether the checks
\* passed or not (the comment above _handle_pairing_verify).
NoSpentToken == \A s \in presented : challenges[s] = None

\* A stored token always names an agent of the loaded table, so that
\* pairing-verify never dereferences a record that is not there.
ChallengedAgentIsKnown ==
  \A s \in Session : challenges[s] # None
    => KnownIn(registry, challenges[s].agent_id)

\* Whatever is presented, purged and restarted, a token that is stored can be
\* answered, once.
TokensHold == NoSpentToken /\ ChallengedAgentIsKnown

\* A started pairing ends, whatever the registry and the server do.
PairingTerminates ==
  \A s \in Session : chris[s] = "lookup" ~> chris[s] \in Terminal

\* The protocol implements Mediation: a token is live while it is stored and
\* vouched for once an assertion was signed on it.
TokenState(s) ==
  IF vouch[s] # None THEN "vouched"
  ELSE IF challenges[s] # None THEN "live"
  ELSE IF issuedAt[s] # None THEN "dead"
  ELSE "unborn"

Outcome(s) ==
  CASE chris[s] = "paired" -> "paired"
    [] chris[s] \in {"failed", "crashed"} -> "refused"
    [] OTHER -> "open"

M == INSTANCE Mediation WITH
       Lifetime  <- CHALLENGE_TTL,
       Validity  <- ASSERTION_TTL - Skew,
       token     <- [s \in Session |-> TokenState(s)],
       bornAt    <- issuedAt,
       vouchedAt <- [s \in Session |-> IF vouch[s] = None THEN None ELSE vouch[s].at],
       outcome   <- [s \in Session |-> Outcome(s)]

\* Every behaviour of the four handlers and their failures is one of the
\* single-use mediator.
ImplementsMediation == M!Spec
=============================================================================
