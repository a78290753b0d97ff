------------------------- MODULE TrustPairingProofs -------------------------
(***************************************************************************)
(* Proofs about TrustPairing, for any sets of sessions, agents, servers    *)
(* and registry files, any lifetimes and any clock difference.             *)
(***************************************************************************)
EXTENDS TrustPairing, TLAPS

-----------------------------------------------------------------------------
(* The inductive invariant.  Each conjunct says what is known of a session *)
(* at a stage of its exchange; together they carry what the registry knew  *)
(* when it signed to the moment Chris accepts.                             *)

\* Nothing has been issued for the session yet.
Untouched(s) ==
  /\ issuedAt[s] = None /\ vouch[s] = None /\ challenges[s] = None
  /\ s \notin presented /\ proof[s] = "none" /\ assertion[s] = None

\* A token was issued and has not been presented.
Unpresented(s) ==
  /\ issuedAt[s] # None /\ vouch[s] = None /\ s \notin presented
  /\ found[s] # None

BeforeToken(s) ==
  /\ chris[s] = "start" => call[s] = "none"
  /\ (chris[s] = "start" \/ call[s] \in {"lookup?", "record", "challenge?"})
       => Untouched(s)
  /\ call[s] \in {"record", "challenge?", "token", "respond?", "responding"}
       => found[s] # None

AfterToken(s) ==
  /\ call[s] \in {"token", "respond?"} => Unpresented(s) /\ proof[s] = "none"
  /\ proof[s] = "request" => Unpresented(s)
  /\ issuedAt[s] # None => issuedAt[s] <= now

StoredToken(s) ==
  challenges[s] # None =>
    /\ issuedAt[s] # None /\ s \notin presented
    /\ vouch[s] = None
    /\ challenges[s].expires_at = issuedAt[s] + CHALLENGE_TTL
    /\ challenges[s].agent_id = Target[s]
    /\ KnownIn(registry, Target[s])

Vouched(s) ==
  vouch[s] # None =>
    /\ issuedAt[s] # None /\ assertion[s] # None /\ found[s] # None
    /\ s \in presented
    /\ vouch[s].agent = Target[s]
    /\ vouch[s].server = found[s].endpoint
    /\ InGoodStanding(vouch[s].file, Target[s])
    /\ vouch[s].file.agents[Target[s]].badge = BadgeOf[found[s].endpoint]
    /\ issuedAt[s] <= vouch[s].at
    /\ vouch[s].at <= issuedAt[s] + CHALLENGE_TTL
    /\ vouch[s].at <= now
    /\ assertion[s].expires_at = vouch[s].at + ASSERTION_TTL
    /\ barredAt[Target[s]] # None => vouch[s].at <= barredAt[Target[s]]

Answered(s) ==
  /\ call[s] = "assertion" \/ proof[s] = "assertion" => vouch[s] # None
  /\ chris[s] = "paired" =>
       /\ vouch[s] # None
       /\ acceptedAt[s] # None
       /\ acceptedAt[s] <= vouch[s].at + ASSERTION_TTL - Skew

Barred(a) ==
  /\ barredAt[a] = None <=> InGoodStanding(registry, a)
  /\ barredAt[a] # None => barredAt[a] <= now

SessionInv(s) ==
  BeforeToken(s) /\ AfterToken(s) /\ StoredToken(s) /\ Vouched(s) /\ Answered(s)

IInv ==
  /\ TypeOK
  /\ \A s \in Session : SessionInv(s)
  /\ \A a \in Agent : Barred(a)

-----------------------------------------------------------------------------
\* A step of another session may at most purge this one's token.
LEMMA OtherSession ==
  ASSUME NEW t \in Session, SessionInv(t), UNCHANGED <<now, registry, barredAt>>,
         chris'[t] = chris[t], call'[t] = call[t], found'[t] = found[t],
         proof'[t] = proof[t], assertion'[t] = assertion[t], issuedAt'[t] = issuedAt[t],
         vouch'[t] = vouch[t], acceptedAt'[t] = acceptedAt[t],
         t \in presented' <=> t \in presented, challenges'[t] \in {None, challenges[t]}
  PROVE  SessionInv(t)'
BY DEF SessionInv, BeforeToken, AfterToken, StoredToken, Vouched, Answered, Untouched,
       Unpresented, InGoodStanding, KnownIn

\* The initial states satisfy the invariant.
LEMMA InitIInv == Init => IInv
<1> SUFFICES ASSUME Init PROVE IInv
  OBVIOUS
<1> USE ConstantsAssumption, NoneAssumption, TimeAssumption
<1>1. TypeOK
  BY DEF Init, TypeOK, Calls, Proofs
<1>2. ASSUME NEW s \in Session PROVE SessionInv(s)
  BY DEF Init, SessionInv, BeforeToken, AfterToken, StoredToken, Vouched, Answered, Untouched
<1>3. ASSUME NEW a \in Agent PROVE Barred(a)
  BY DEF Init, Barred
<1> QED
  BY <1>1, <1>2, <1>3 DEF IInv

\* A client that starts sends a lookup; nothing is issued for it yet.
LEMMA StartIInv == ASSUME IInv, NEW s \in Session, Start(s) PROVE IInv'
<1> USE ConstantsAssumption, NoneAssumption, TimeAssumption DEF IInv, registryVars, historyVars
<1>1. TypeOK'
  BY DEF TypeOK, Start, Calls, Proofs, Requests, Waiting, Terminal
<1>2. ASSUME NEW t \in Session PROVE SessionInv(t)'
  BY DEF TypeOK, Start, Calls, Proofs, Requests, Waiting, Terminal, SessionInv, BeforeToken,
      AfterToken, StoredToken, Vouched, Answered, Untouched, Unpresented, InGoodStanding, KnownIn
<1>3. ASSUME NEW a \in Agent PROVE Barred(a)'
  BY DEF Barred, Start, InGoodStanding, KnownIn
<1> QED
  BY <1>1, <1>2, <1>3

\* A trusted record makes the client ask for a challenge.
LEMMA GetRecordIInv == ASSUME IInv, NEW s \in Session, GetRecord(s) PROVE IInv'
<1> USE ConstantsAssumption, NoneAssumption, TimeAssumption DEF IInv, registryVars, historyVars
<1>1. TypeOK'
  BY DEF TypeOK, GetRecord, Calls, Proofs, Requests, Waiting, Terminal
<1>2. ASSUME NEW t \in Session PROVE SessionInv(t)'
  BY DEF TypeOK, GetRecord, Calls, Proofs, Requests, Waiting, Terminal, SessionInv, BeforeToken,
      AfterToken, StoredToken, Vouched, Answered, Untouched, Unpresented, InGoodStanding, KnownIn
<1>3. ASSUME NEW a \in Agent PROVE Barred(a)'
  BY DEF Barred, GetRecord, InGoodStanding, KnownIn
<1> QED
  BY <1>1, <1>2, <1>3

\* A record that is not trusted ends the session.
LEMMA GetUntrustedRecordIInv == ASSUME IInv, NEW s \in Session, GetUntrustedRecord(s) PROVE IInv'
<1> USE ConstantsAssumption, NoneAssumption, TimeAssumption DEF IInv, registryVars, historyVars
<1>1. TypeOK'
  BY DEF TypeOK, GetUntrustedRecord, PairingError, Calls, Proofs, Requests, Waiting, Terminal
<1>2. ASSUME NEW t \in Session PROVE SessionInv(t)'
  BY DEF TypeOK, GetUntrustedRecord, PairingError, Calls, Proofs, Requests, Waiting, Terminal,
      SessionInv, BeforeToken, AfterToken, StoredToken, Vouched, Answered, Untouched,
      Unpresented, InGoodStanding, KnownIn
<1>3. ASSUME NEW a \in Agent PROVE Barred(a)'
  BY DEF Barred, GetUntrustedRecord, PairingError, InGoodStanding, KnownIn
<1> QED
  BY <1>1, <1>2, <1>3

\* A token is forwarded to the server.
LEMMA GetTokenIInv == ASSUME IInv, NEW s \in Session, GetToken(s) PROVE IInv'
<1> USE ConstantsAssumption, NoneAssumption, TimeAssumption DEF IInv, registryVars, historyVars
<1>1. TypeOK'
  BY DEF TypeOK, GetToken, Calls, Proofs, Requests, Waiting, Terminal
<1>2. ASSUME NEW t \in Session PROVE SessionInv(t)'
  BY DEF TypeOK, GetToken, Calls, Proofs, Requests, Waiting, Terminal, SessionInv, BeforeToken,
      AfterToken, StoredToken, Vouched, Answered, Untouched, Unpresented, InGoodStanding, KnownIn
<1>3. ASSUME NEW a \in Agent PROVE Barred(a)'
  BY DEF Barred, GetToken, InGoodStanding, KnownIn
<1> QED
  BY <1>1, <1>2, <1>3

\* An error reply ends the session.
LEMMA GetErrorIInv == ASSUME IInv, NEW s \in Session, GetError(s) PROVE IInv'
<1> USE ConstantsAssumption, NoneAssumption, TimeAssumption DEF IInv, registryVars, historyVars
<1>1. TypeOK'
  BY DEF TypeOK, GetError, PairingError, Calls, Proofs, Requests, Waiting, Terminal
<1>2. ASSUME NEW t \in Session PROVE SessionInv(t)'
  BY DEF TypeOK, GetError, PairingError, Calls, Proofs, Requests, Waiting, Terminal, SessionInv,
      BeforeToken, AfterToken, StoredToken, Vouched, Answered, Untouched, Unpresented,
      InGoodStanding, KnownIn
<1>3. ASSUME NEW a \in Agent PROVE Barred(a)'
  BY DEF Barred, GetError, PairingError, InGoodStanding, KnownIn
<1> QED
  BY <1>1, <1>2, <1>3

\* An assertion that does not verify ends the session.
LEMMA GetBadAssertionIInv == ASSUME IInv, NEW s \in Session, GetBadAssertion(s) PROVE IInv'
<1> USE ConstantsAssumption, NoneAssumption, TimeAssumption DEF IInv, registryVars, historyVars
<1>1. TypeOK'
  BY DEF TypeOK, GetBadAssertion, PairingError, Calls, Proofs, Requests, Waiting, Terminal
<1>2. ASSUME NEW t \in Session PROVE SessionInv(t)'
  BY DEF TypeOK, GetBadAssertion, PairingError, Calls, Proofs, Requests, Waiting, Terminal,
      SessionInv, BeforeToken, AfterToken, StoredToken, Vouched, Answered, Untouched,
      Unpresented, InGoodStanding, KnownIn
<1>3. ASSUME NEW a \in Agent PROVE Barred(a)'
  BY DEF Barred, GetBadAssertion, PairingError, InGoodStanding, KnownIn
<1> QED
  BY <1>1, <1>2, <1>3

\* A refused connection ends the session.
LEMMA ConnectErrorIInv == ASSUME IInv, NEW s \in Session, ConnectError(s) PROVE IInv'
<1> USE ConstantsAssumption, NoneAssumption, TimeAssumption DEF IInv, registryVars, historyVars
<1>1. TypeOK'
  BY DEF TypeOK, ConnectError, PairingError, Requests, Calls, Proofs, Requests, Waiting, Terminal
<1>2. ASSUME NEW t \in Session PROVE SessionInv(t)'
  BY DEF TypeOK, ConnectError, PairingError, Requests, Calls, Proofs, Requests, Waiting,
      Terminal, SessionInv, BeforeToken, AfterToken, StoredToken, Vouched, Answered, Untouched,
      Unpresented, InGoodStanding, KnownIn
<1>3. ASSUME NEW a \in Agent PROVE Barred(a)'
  BY DEF Barred, ConnectError, PairingError, Requests, InGoodStanding, KnownIn
<1> QED
  BY <1>1, <1>2, <1>3

\* A client that times out leaves its exchange behind as it is.
LEMMA TimeoutIInv == ASSUME IInv, NEW s \in Session, Timeout(s) PROVE IInv'
<1> USE ConstantsAssumption, NoneAssumption, TimeAssumption DEF IInv, registryVars, historyVars
<1>1. TypeOK'
  BY DEF TypeOK, Timeout, Calls, Proofs, Requests, Waiting, Terminal
<1>2. ASSUME NEW t \in Session PROVE SessionInv(t)'
  BY DEF TypeOK, Timeout, Calls, Proofs, Requests, Waiting, Terminal, SessionInv, BeforeToken,
      AfterToken, StoredToken, Vouched, Answered, Untouched, Unpresented, InGoodStanding, KnownIn
<1>3. ASSUME NEW a \in Agent PROVE Barred(a)'
  BY DEF Barred, Timeout, InGoodStanding, KnownIn
<1> QED
  BY <1>1, <1>2, <1>3

\* A body that is not JSON ends the session.
LEMMA GetHttpTextIInv == ASSUME IInv, NEW s \in Session, GetHttpText(s) PROVE IInv'
<1> USE ConstantsAssumption, NoneAssumption, TimeAssumption DEF IInv, registryVars, historyVars
<1>1. TypeOK'
  BY DEF TypeOK, GetHttpText, Calls, Proofs, Requests, Waiting, Terminal
<1>2. ASSUME NEW t \in Session PROVE SessionInv(t)'
  BY DEF TypeOK, GetHttpText, Calls, Proofs, Requests, Waiting, Terminal, SessionInv,
      BeforeToken, AfterToken, StoredToken, Vouched, Answered, Untouched, Unpresented,
      InGoodStanding, KnownIn
<1>3. ASSUME NEW a \in Agent PROVE Barred(a)'
  BY DEF Barred, GetHttpText, InGoodStanding, KnownIn
<1> QED
  BY <1>1, <1>2, <1>3

\* The server relays an assertion only when the registry signed one.
LEMMA RelayIInv == ASSUME IInv, NEW s \in Session, Relay(s) PROVE IInv'
<1> USE ConstantsAssumption, NoneAssumption, TimeAssumption DEF IInv, registryVars, historyVars
<1>1. TypeOK'
  BY DEF TypeOK, Relay, Calls, Proofs, Requests, Waiting, Terminal
<1>2. ASSUME NEW t \in Session PROVE SessionInv(t)'
  BY DEF TypeOK, Relay, Calls, Proofs, Requests, Waiting, Terminal, SessionInv, BeforeToken,
      AfterToken, StoredToken, Vouched, Answered, Untouched, Unpresented, InGoodStanding, KnownIn
<1>3. ASSUME NEW a \in Agent PROVE Barred(a)'
  BY DEF Barred, Relay, InGoodStanding, KnownIn
<1> QED
  BY <1>1, <1>2, <1>3

\* The server gives up on the registry.
LEMMA RegistryUnreachableIInv == ASSUME IInv, NEW s \in Session, RegistryUnreachable(s)
    PROVE IInv'
<1> USE ConstantsAssumption, NoneAssumption, TimeAssumption DEF IInv, registryVars, historyVars
<1>1. TypeOK'
  BY DEF TypeOK, RegistryUnreachable, Calls, Proofs, Requests, Waiting, Terminal
<1>2. ASSUME NEW t \in Session PROVE SessionInv(t)'
  BY DEF TypeOK, RegistryUnreachable, Calls, Proofs, Requests, Waiting, Terminal, SessionInv,
      BeforeToken, AfterToken, StoredToken, Vouched, Answered, Untouched, Unpresented,
      InGoodStanding, KnownIn
<1>3. ASSUME NEW a \in Agent PROVE Barred(a)'
  BY DEF Barred, RegistryUnreachable, InGoodStanding, KnownIn
<1> QED
  BY <1>1, <1>2, <1>3

\* The server times out; the registry may still handle its request.
LEMMA VerifyTimeoutIInv == ASSUME IInv, NEW s \in Session, VerifyTimeout(s) PROVE IInv'
<1> USE ConstantsAssumption, NoneAssumption, TimeAssumption DEF IInv, registryVars, historyVars
<1>1. TypeOK'
  BY DEF TypeOK, VerifyTimeout, Calls, Proofs, Requests, Waiting, Terminal
<1>2. ASSUME NEW t \in Session PROVE SessionInv(t)'
  BY DEF TypeOK, VerifyTimeout, Calls, Proofs, Requests, Waiting, Terminal, SessionInv,
      BeforeToken, AfterToken, StoredToken, Vouched, Answered, Untouched, Unpresented,
      InGoodStanding, KnownIn
<1>3. ASSUME NEW a \in Agent PROVE Barred(a)'
  BY DEF Barred, VerifyTimeout, InGoodStanding, KnownIn
<1> QED
  BY <1>1, <1>2, <1>3

\* Chris accepts: the assertion is the one the registry signed at vouch[s].at,
\* and its expiration bounds the time of acceptance.
LEMMA GetAssertionIInv == ASSUME IInv, NEW s \in Session, GetAssertion(s) PROVE IInv'
<1> USE ConstantsAssumption, NoneAssumption, TimeAssumption DEF IInv, registryVars, historyVars
<1>1. TypeOK'
  BY DEF TypeOK, GetAssertion, Calls, Proofs, Requests, Waiting, Terminal
<1>2. ASSUME NEW t \in Session PROVE SessionInv(t)'
  <2>1. CASE t = s
    <3>1. vouch[s] # None /\ Vouched(s)
      BY DEF SessionInv, Answered, GetAssertion
    <3>2. /\ vouch[s].at \in Nat /\ now \in Nat
          /\ assertion[s].expires_at = vouch[s].at + ASSERTION_TTL
      BY <3>1 DEF Vouched, TypeOK
    <3>3. now <= vouch[s].at + ASSERTION_TTL - Skew
      BY <3>2 DEF GetAssertion, VerifyAssertion
    <3>4. Answered(s)'
      BY <3>1, <3>3 DEF Answered, GetAssertion, TypeOK
    <3>5. (BeforeToken(s) /\ AfterToken(s) /\ StoredToken(s) /\ Vouched(s))'
      BY DEF TypeOK, GetAssertion, Calls, Proofs, Requests, Waiting, Terminal, SessionInv,
          BeforeToken, AfterToken, StoredToken, Vouched, Untouched, Unpresented, InGoodStanding,
          KnownIn
    <3> QED
      BY <2>1, <3>4, <3>5 DEF SessionInv
  <2>2. CASE t # s
    BY <2>2 DEF TypeOK, GetAssertion, SessionInv, BeforeToken, AfterToken, StoredToken, Vouched,
        Answered, Untouched, Unpresented, InGoodStanding, KnownIn
  <2> QED
    BY <2>1, <2>2
<1>3. ASSUME NEW a \in Agent PROVE Barred(a)'
  BY DEF Barred, GetAssertion, InGoodStanding, KnownIn
<1> QED
  BY <1>1, <1>2, <1>3

\* A lookup reports the record; the session has nothing issued yet, so no vouching
\* speaks of another endpoint.
LEMMA HandleAgentLookupIInv == ASSUME IInv, NEW s \in Session, HandleAgentLookup(s) PROVE IInv'
<1> USE ConstantsAssumption, NoneAssumption, TimeAssumption DEF IInv, registryVars, historyVars
<1>1. ASSUME NEW a \in Agent PROVE Barred(a)'
  BY DEF Barred, HandleAgentLookup, InGoodStanding, KnownIn
<1>2. CASE Authenticated(s) /\ KnownIn(registry, Target[s])
  <2> DEFINE r == registry.agents[Target[s]]
  <2>1. r \in Record
    BY <1>2 DEF KnownIn, TypeOK
  <2>2. found' = [found EXCEPT ![s] = PublicRecord(r)] /\ call' = [call EXCEPT ![s] = "record"]
    BY <1>2 DEF HandleAgentLookup
  <2>3. PublicRecord(r) \in [endpoint : Server, status : Status] /\ PublicRecord(r) # None
    BY <2>1 DEF PublicRecord, Record
  <2> HIDE DEF r
  <2>4. TypeOK'
    BY <2>2, <2>3 DEF TypeOK, HandleAgentLookup, Calls, Proofs, Requests, Waiting, Terminal
  <2>5. call[s] = "lookup?" /\ UNCHANGED <<now, registryVars, challenges, chris, proof,
                                          assertion, historyVars>>
    BY DEF HandleAgentLookup
  <2>6. ASSUME NEW t \in Session, t # s PROVE SessionInv(t)'
    <3>1. found'[t] = found[t] /\ call'[t] = call[t]
      BY <2>2, <2>6 DEF TypeOK
    <3> QED
      BY <2>5, <3>1, OtherSession
  <2>7. SessionInv(s)'
    <3>1. Untouched(s) /\ chris[s] # "start" /\ chris[s] # "paired"
      BY <2>5 DEF SessionInv, BeforeToken, Answered, Untouched
    <3>2. found'[s] # None /\ call'[s] = "record"
      BY <2>2, <2>3 DEF TypeOK
    <3> QED
      BY <2>5, <3>1, <3>2 DEF SessionInv, BeforeToken, AfterToken, StoredToken, Vouched,
         Answered, Untouched
  <2> QED
    BY <1>1, <2>4, <2>6, <2>7
<1>3. CASE ~(Authenticated(s) /\ KnownIn(registry, Target[s]))
  <2>1. call' = [call EXCEPT ![s] = "error"] /\ found' = found
    BY <1>3 DEF HandleAgentLookup
  <2>2. TypeOK'
    BY <2>1 DEF TypeOK, HandleAgentLookup, Calls, Proofs, Requests, Waiting, Terminal
  <2>3. ASSUME NEW t \in Session PROVE SessionInv(t)'
    BY <2>1 DEF TypeOK, HandleAgentLookup, Calls, Proofs, Requests, Waiting, Terminal,
        SessionInv, BeforeToken, AfterToken, StoredToken, Vouched, Answered, Untouched,
        Unpresented, InGoodStanding, KnownIn
  <2> QED
    BY <1>1, <2>2, <2>3
<1> QED
  BY <1>2, <1>3

\* The server presents a token it was sent, unless it has no badge.
LEMMA PairingRespondIInv == ASSUME IInv, NEW s \in Session, PairingRespond(s) PROVE IInv'
<1> USE ConstantsAssumption, NoneAssumption, TimeAssumption DEF IInv, registryVars, historyVars
<1>1. ASSUME NEW a \in Agent PROVE Barred(a)'
  BY DEF Barred, PairingRespond, InGoodStanding, KnownIn
<1>2. \/ call' = [call EXCEPT ![s] = "http error"] /\ proof' = proof
      \/ call' = [call EXCEPT ![s] = "responding"] /\ proof' = [proof EXCEPT ![s] = "request"]
  BY DEF PairingRespond
<1>3. call[s] = "respond?" /\ UNCHANGED <<now, registryVars, challenges, chris, verifyKey, found,
    assertion, historyVars>>
  BY DEF PairingRespond
<1>4. TypeOK'
  BY <1>2, <1>3 DEF TypeOK, Calls, Proofs, Requests, Waiting, Terminal
<1>5. ASSUME NEW t \in Session, t # s PROVE SessionInv(t)'
  <2>1. call'[t] = call[t] /\ proof'[t] = proof[t]
    BY <1>2, <1>5 DEF TypeOK
  <2> QED
    BY <1>3, <2>1, OtherSession
<1>6. SessionInv(s)'
  <2>1. Unpresented(s) /\ proof[s] = "none" /\ chris[s] # "start" /\ found[s] # None
    BY <1>3 DEF SessionInv, BeforeToken, AfterToken
  <2>2. call'[s] \in {"http error", "responding"} /\ proof'[s] \in {"none", "request"}
    BY <1>2, <2>1 DEF TypeOK
  <2> QED
    BY <1>3, <2>1, <2>2 DEF TypeOK, SessionInv, BeforeToken, AfterToken, StoredToken, Vouched,
        Answered, Untouched, Unpresented, InGoodStanding, KnownIn
<1> QED
  BY <1>1, <1>4, <1>5, <1>6

\* A stored token carries its deadline and names the session's agent.  Tokens
\* purged on the way are only forgotten.
LEMMA HandlePairingChallengeIInv ==
  ASSUME IInv, NEW s \in Session, HandlePairingChallenge(s) PROVE IInv'
<1> USE ConstantsAssumption, NoneAssumption, TimeAssumption DEF IInv, registryVars, historyVars
<1>1. ASSUME NEW a \in Agent PROVE Barred(a)'
  BY DEF Barred, HandlePairingChallenge, InGoodStanding, KnownIn
<1>2. CASE Authenticated(s) /\ KnownIn(registry, Target[s])
  <2> DEFINE c == [agent_id |-> Target[s], expires_at |-> now + CHALLENGE_TTL]
             stored == [challenges EXCEPT ![s] = c]
  <2>1. /\ challenges' = [t \in Session |-> IF stored[t] # None /\ Expired(stored[t])
                                          THEN None ELSE stored[t]]
        /\ call' = [call EXCEPT ![s] = "token"]
        /\ issuedAt' = [issuedAt EXCEPT ![s] = now]
    BY <1>2 DEF HandlePairingChallenge
  <2>2. c \in [agent_id : Agent, expires_at : Int] /\ c # None
    BY DEF TypeOK
  <2>3. challenges'[s] = c
    BY <2>1, <2>2 DEF TypeOK, Expired
  <2>4. ASSUME NEW t \in Session, t # s PROVE challenges'[t] \in {None, challenges[t]}
    BY <2>1, <2>4 DEF TypeOK
  <2>5. challenges' \in [Session -> [agent_id : Agent, expires_at : Int] \cup {None}]
    BY <2>1, <2>2, <2>3, <2>4 DEF TypeOK
  <2>6. call[s] = "challenge?" /\ UNCHANGED <<now, registryVars, chris, verifyKey, found, proof,
                                            assertion, vouch, presented, acceptedAt>>
    BY DEF HandlePairingChallenge
  <2> HIDE DEF stored
  <2>7. TypeOK'
    BY <2>1, <2>5, <2>6 DEF TypeOK, Calls, Proofs, Requests, Waiting, Terminal
  <2>8. SessionInv(s)'
    <3>1. Untouched(s) /\ chris[s] # "start" /\ found[s] # None
      BY <2>6 DEF SessionInv, BeforeToken
    <3>2. call'[s] = "token" /\ issuedAt'[s] = now /\ now \in Nat /\ issuedAt'[s] # None
      BY <2>1 DEF TypeOK
    <3>3. StoredToken(s)'
      BY <1>2, <2>2, <2>3, <2>6, <3>1, <3>2 DEF StoredToken, Untouched, KnownIn
    <3>4. (BeforeToken(s) /\ AfterToken(s) /\ Vouched(s) /\ Answered(s))'
      BY <2>6, <3>1, <3>2 DEF SessionInv, BeforeToken, AfterToken, StoredToken, Vouched,
          Answered, Untouched, Unpresented, TypeOK
    <3> QED
      BY <3>3, <3>4 DEF SessionInv
  <2>9. ASSUME NEW t \in Session, t # s PROVE SessionInv(t)'
    <3>1. call'[t] = call[t] /\ issuedAt'[t] = issuedAt[t]
      BY <2>1, <2>9 DEF TypeOK
    <3> QED
      BY <2>4, <2>6, <2>9, <3>1, OtherSession
  <2> QED
    BY <1>1, <2>7, <2>8, <2>9
<1>3. CASE ~(Authenticated(s) /\ KnownIn(registry, Target[s]))
  <2>1. call' = [call EXCEPT ![s] = "error"] /\ challenges' = challenges /\ issuedAt' = issuedAt
    BY <1>3 DEF HandlePairingChallenge
  <2>2. TypeOK'
    BY <2>1 DEF TypeOK, HandlePairingChallenge, Calls, Proofs, Requests, Waiting, Terminal
  <2>3. ASSUME NEW t \in Session PROVE SessionInv(t)'
    BY <2>1 DEF TypeOK, HandlePairingChallenge, Calls, Proofs, Requests, Waiting, Terminal,
        SessionInv, BeforeToken, AfterToken, StoredToken, Vouched, Answered, Untouched,
        Unpresented, InGoodStanding, KnownIn
  <2> QED
    BY <1>1, <2>2, <2>3
<1> QED
  BY <1>2, <1>3

\* The only step that vouches: what VerifyOK checked is what Vouched records,
\* and the popped token is never stored again.
LEMMA HandlePairingVerifyIInv ==
  ASSUME IInv, NEW s \in Session, HandlePairingVerify(s) PROVE IInv'
<1> USE ConstantsAssumption, NoneAssumption, TimeAssumption DEF IInv, registryVars, historyVars
<1> DEFINE c == challenges[s]
           w == found[s].endpoint
<1>1. ASSUME NEW a \in Agent PROVE Barred(a)'
  BY DEF Barred, HandlePairingVerify, InGoodStanding, KnownIn
<1>2. /\ proof[s] = "request"
      /\ challenges' = [challenges EXCEPT ![s] = None]
      /\ presented' = presented \cup {s}
      /\ UNCHANGED <<now, registryVars, chris, verifyKey, call, found, issuedAt, acceptedAt>>
  BY DEF HandlePairingVerify, Popped
<1>3. Unpresented(s) /\ w \in Server
  BY <1>2 DEF SessionInv, AfterToken, Unpresented, TypeOK
<1>4. CASE VerifyOK(c, w)
  <2> DEFINE v == [agent |-> RunsAs[w], server |-> w, at |-> now, file |-> registry]
             p == [agent_id |-> RunsAs[w], expires_at |-> now + ASSERTION_TTL, key |-> signingKey]
  <2>1. /\ proof' = [proof EXCEPT ![s] = "assertion"]
        /\ assertion' = [assertion EXCEPT ![s] = p]
        /\ vouch' = [vouch EXCEPT ![s] = v]
    BY <1>4 DEF HandlePairingVerify
  <2>2. /\ c # None /\ now <= c.expires_at /\ c.agent_id = RunsAs[w]
        /\ KnownIn(registry, RunsAs[w])
        /\ registry.agents[RunsAs[w]].badge = BadgeOf[w]
        /\ Trusted(registry.agents[RunsAs[w]].status)
    BY <1>4 DEF VerifyOK, Expired, TypeOK
  <2>3. /\ c.expires_at = issuedAt[s] + CHALLENGE_TTL /\ RunsAs[w] = Target[s]
        /\ issuedAt[s] # None /\ issuedAt[s] <= now
    BY <2>2 DEF SessionInv, StoredToken, AfterToken
  <2>4. /\ v \in [agent : Agent, server : Server, at : Nat, file : AgentsFile] /\ v # None
        /\ p \in [agent_id : Agent, expires_at : Int, key : Nat] /\ p # None
    BY <1>3 DEF TypeOK
  <2>5. InGoodStanding(registry, Target[s]) /\ barredAt[Target[s]] = None
    BY <2>2, <2>3 DEF InGoodStanding, Barred
  <2>6. TypeOK'
    BY <1>2, <2>1, <2>4 DEF TypeOK, Calls, Proofs, Requests, Waiting, Terminal
  <2>7. SessionInv(s)'
    <3>1. v.agent = Target[s] /\ v.server = w /\ v.at = now /\ v.file = registry
          /\ p.expires_at = now + ASSERTION_TTL
      BY <2>3
    <3>2. vouch'[s] = v /\ assertion'[s] = p /\ challenges'[s] = None
      BY <1>2, <2>1 DEF TypeOK
    <3> HIDE DEF v, p
    <3>3. Vouched(s)'
      BY <1>2, <1>3, <2>2, <2>3, <2>4, <2>5, <3>1, <3>2 DEF Vouched, Unpresented, TypeOK
    <3>4. (BeforeToken(s) /\ AfterToken(s) /\ StoredToken(s) /\ Answered(s))'
      <4>1. proof'[s] = "assertion" /\ chris[s] # "start" /\ chris' = chris /\ call' = call
        BY <1>2, <1>3, <2>1 DEF TypeOK, SessionInv, BeforeToken, Untouched
      <4>2. call[s] \notin {"lookup?", "record", "challenge?", "token", "respond?"}
        BY <1>2 DEF SessionInv, BeforeToken, AfterToken, Untouched
      <4>3. chris[s] # "paired"
        BY <1>3 DEF SessionInv, Answered, Unpresented
      <4> QED
        BY <1>2, <1>3, <2>3, <2>4, <3>2, <4>1, <4>2, <4>3
           DEF BeforeToken, AfterToken, StoredToken, Answered, Unpresented, TypeOK
    <3> QED
      BY <3>3, <3>4 DEF SessionInv
  <2>8. ASSUME NEW t \in Session, t # s PROVE SessionInv(t)'
    <3>1. /\ challenges'[t] = challenges[t] /\ (t \in presented' <=> t \in presented)
          /\ proof'[t] = proof[t] /\ assertion'[t] = assertion[t] /\ vouch'[t] = vouch[t]
      BY <1>2, <2>1, <2>8 DEF TypeOK
    <3>2. chris'[t] = chris[t] /\ call'[t] = call[t] /\ found'[t] = found[t]
          /\ issuedAt'[t] = issuedAt[t] /\ acceptedAt'[t] = acceptedAt[t]
      BY <1>2
    <3> QED
      BY <1>2, <3>1, <3>2, OtherSession
  <2> QED
    BY <1>1, <2>6, <2>7, <2>8
<1>5. CASE ~VerifyOK(c, w)
  <2>1. /\ proof' = [proof EXCEPT ![s] = "error"]
        /\ UNCHANGED <<assertion, vouch>>
    BY <1>5 DEF HandlePairingVerify
  <2>2. TypeOK'
    BY <1>2, <2>1 DEF TypeOK, Calls, Proofs, Requests, Waiting, Terminal
  <2>3. ASSUME NEW t \in Session, t # s PROVE SessionInv(t)'
    <3>1. /\ challenges'[t] = challenges[t] /\ (t \in presented' <=> t \in presented)
          /\ proof'[t] = proof[t]
      BY <1>2, <2>1, <2>3 DEF TypeOK
    <3>2. chris'[t] = chris[t] /\ call'[t] = call[t] /\ found'[t] = found[t]
          /\ issuedAt'[t] = issuedAt[t] /\ acceptedAt'[t] = acceptedAt[t]
          /\ assertion'[t] = assertion[t] /\ vouch'[t] = vouch[t]
      BY <1>2, <2>1
    <3> QED
      BY <1>2, <3>1, <3>2, OtherSession
  <2>4. SessionInv(s)'
    <3>1. challenges'[s] = None /\ proof'[s] = "error"
      BY <1>2, <2>1 DEF TypeOK
    <3>2. call[s] \notin {"lookup?", "record", "challenge?", "token", "respond?"}
      BY <1>2 DEF SessionInv, BeforeToken, AfterToken, Untouched
    <3> QED
      BY <1>2, <1>3, <2>1, <3>1, <3>2 DEF SessionInv, BeforeToken, AfterToken, StoredToken,
         Vouched, Answered, Untouched, Unpresented
  <2> QED
    BY <1>1, <2>2, <2>3, <2>4
<1> QED
  BY <1>4, <1>5

\* A restart forgets every token; an agent it bars was in good standing until
\* now, so every vouching for it is older.
LEMMA RestartRegistryIInv == ASSUME IInv, RestartRegistry PROVE IInv'
<1> USE ConstantsAssumption, NoneAssumption, TimeAssumption DEF IInv, historyVars
<1>1. PICK file \in AgentsFile :
        /\ registry' = file
        /\ barredAt' = [a \in Agent |->
                          IF InGoodStanding(file, a) THEN None
                          ELSE IF barredAt[a] = None THEN now ELSE barredAt[a]]
  BY DEF RestartRegistry
<1>2. TypeOK'
  BY <1>1 DEF TypeOK, RestartRegistry, ChallengesAtStart
<1>3. ASSUME NEW a \in Agent PROVE Barred(a)'
  BY <1>1 DEF Barred, RestartRegistry, TypeOK, InGoodStanding, KnownIn
<1>4. ASSUME NEW t \in Session PROVE SessionInv(t)'
  <2>1. Vouched(t)'
    BY <1>1 DEF TypeOK, RestartRegistry, SessionInv, Vouched, InGoodStanding, KnownIn
  <2>2. (BeforeToken(t) /\ AfterToken(t) /\ StoredToken(t) /\ Answered(t))'
    BY DEF TypeOK, RestartRegistry, ChallengesAtStart, SessionInv, BeforeToken, AfterToken,
        StoredToken, Vouched, Answered, Untouched, Unpresented
  <2> QED
    BY <2>1, <2>2 DEF SessionInv
<1> QED
  BY <1>2, <1>3, <1>4

\* A new key file, or the passing of time, changes nothing that was recorded.
LEMMA EnvironmentIInv == ASSUME IInv, WriteSigningKey \/ Tick PROVE IInv'
<1> USE ConstantsAssumption, NoneAssumption, TimeAssumption DEF IInv, registryVars, historyVars
<1>1. /\ UNCHANGED <<signingKey, registry, restarts, barredAt, challenges, chris, verifyKey, call,
                      found, proof, assertion, historyVars>>
      /\ keyFile' \in Nat /\ now' \in Nat /\ now <= now'
  BY DEF WriteSigningKey, Tick, TypeOK
<1>2. TypeOK'
  BY <1>1 DEF TypeOK
<1>3. ASSUME NEW a \in Agent PROVE Barred(a)'
  BY <1>1 DEF Barred, TypeOK, InGoodStanding, KnownIn
<1>4. ASSUME NEW t \in Session PROVE SessionInv(t)'
  BY <1>1 DEF TypeOK, SessionInv, BeforeToken, AfterToken, StoredToken, Vouched, Answered,
      Untouched, Unpresented, InGoodStanding, KnownIn
<1> QED
  BY <1>2, <1>3, <1>4

-----------------------------------------------------------------------------
\* Every step keeps the invariant: one case per action.
LEMMA NextIInv == IInv /\ [Next]_vars => IInv'
<1> SUFFICES ASSUME IInv, [Next]_vars PROVE IInv'
  OBVIOUS
<1>1. CASE Next
  <2>1. ASSUME NEW s \in Session, Chris(s) PROVE IInv'
    BY <2>1, StartIInv, GetRecordIInv, GetUntrustedRecordIInv, GetTokenIInv, GetErrorIInv,
       GetAssertionIInv, GetBadAssertionIInv, GetHttpTextIInv, TimeoutIInv, ConnectErrorIInv
       DEF Chris, Resume
  <2>2. ASSUME NEW s \in Session, Registry(s) PROVE IInv'
    BY <2>2, HandleAgentLookupIInv, HandlePairingChallengeIInv, HandlePairingVerifyIInv
       DEF Registry
  <2>3. ASSUME NEW s \in Session, AgentServer(s) PROVE IInv'
    BY <2>3, PairingRespondIInv, RelayIInv, RegistryUnreachableIInv, VerifyTimeoutIInv
       DEF AgentServer
  <2> QED
    BY <1>1, <2>1, <2>2, <2>3, RestartRegistryIInv, EnvironmentIInv DEF Next
<1>2. CASE UNCHANGED vars
  BY <1>2 DEF vars, registryVars, historyVars, IInv, TypeOK, SessionInv, BeforeToken, AfterToken,
     StoredToken, Vouched, Answered, Untouched, Unpresented, Barred, InGoodStanding, KnownIn
<1> QED
  BY <1>1, <1>2

\* The invariant holds in every reachable state.
LEMMA SpecIInv == Spec => []IInv
  BY InitIInv, NextIInv, PTL DEF Spec

-----------------------------------------------------------------------------
\* Type correctness of the whole protocol state.
THEOREM TypeCorrect == Spec => []TypeOK
<1>1. IInv => TypeOK
  BY DEF IInv
<1> QED
  BY <1>1, SpecIInv, PTL

\* Chris talks only to the server the registry vouched for, for the agent he
\* asked for, in good standing and with its own badge at that moment.
THEOREM Mediated == Spec => []PairedIsVouched
<1>1. IInv => PairedIsVouched
  BY DEF IInv, SessionInv, Vouched, Answered, PairedIsVouched
<1> QED
  BY <1>1, SpecIInv, PTL

\* Acceptance lies within one challenge lifetime and one assertion lifetime of
\* the challenge, whatever the two lifetimes and the clock difference are.
THEOREM Fresh == Spec => []FreshPairing
<1>1. IInv => FreshPairing
  BY DEF IInv, SessionInv, Vouched, Answered, FreshPairing
<1> QED
  BY <1>1, SpecIInv, PTL

\* A revoked agent is accepted by nobody later than one assertion lifetime
\* after the registry learned of the revocation.
THEOREM RevocationHolds == Spec => []RevocationBound
<1>1. IInv => RevocationBound
  <2> SUFFICES ASSUME IInv, NEW s \in Session, chris[s] = "paired", barredAt[Target[s]] # None
               PROVE acceptedAt[s] <= barredAt[Target[s]] + ASSERTION_TTL - Skew
    BY DEF RevocationBound
  <2>1. vouch[s] # None /\ acceptedAt[s] # None
        /\ acceptedAt[s] <= vouch[s].at + ASSERTION_TTL - Skew
    BY DEF IInv, SessionInv, Answered
  <2>2. vouch[s].at <= barredAt[Target[s]]
    BY <2>1 DEF IInv, SessionInv, Vouched
  <2>3. vouch[s].at \in Nat /\ barredAt[Target[s]] \in Nat /\ acceptedAt[s] \in Nat
    BY <2>1, ConstantsAssumption DEF IInv, TypeOK
  <2> QED
    BY <2>1, <2>2, <2>3, TimeAssumption
<1> QED
  BY <1>1, SpecIInv, PTL

\* Presented tokens stay consumed, and a stored one names a known agent.
THEOREM TokensAreSingleUse == Spec => []TokensHold
<1>1. IInv => NoSpentToken /\ ChallengedAgentIsKnown
  BY DEF IInv, TypeOK, SessionInv, StoredToken, NoSpentToken, ChallengedAgentIsKnown
<1>2. IInv => TokensHold
  BY <1>1 DEF TokensHold
<1> QED
  BY <1>2, SpecIInv, PTL

-----------------------------------------------------------------------------
(* Refinement of Mediation.                                                *)

tokens   == [s \in Session |-> TokenState(s)]
vouchedAt == [s \in Session |-> IF vouch[s] = None THEN None ELSE vouch[s].at]
outcomes == [s \in Session |-> Outcome(s)]

\* The initial states map to the mediator's.
LEMMA InitMediation == Init => M!Init
  BY DEF Init, M!Init, TokenState, Outcome

\* A step that issues, vouches and loses nothing and lets no time pass maps to a
\* decision of one session or to nothing.
LEMMA DecisionStep ==
  ASSUME IInv, NEW s \in Session, UNCHANGED <<now, challenges, vouch, issuedAt>>,
         \A t \in Session : t # s => chris'[t] = chris[t],
         \/ Outcome(s)' = Outcome(s)
         \/ Outcome(s) = "open" /\ Outcome(s)' = "refused"
         \/ /\ Outcome(s) = "open" /\ Outcome(s)' = "paired"
            /\ vouch[s] # None /\ now <= vouch[s].at + (ASSERTION_TTL - Skew)
  PROVE  M!Next \/ UNCHANGED M!mediationVars
<1>1. /\ now' = now /\ issuedAt' = issuedAt /\ vouchedAt' = vouchedAt
      /\ tokens' = tokens
  BY DEF TokenState, tokens, vouchedAt
<1>2. \A t \in Session : t # s => Outcome(t)' = Outcome(t)
  BY DEF Outcome
<1>3. outcomes' = [outcomes EXCEPT ![s] = Outcome(s)']
  BY <1>2 DEF outcomes
<1>4. CASE Outcome(s)' = Outcome(s)
  <2>1. outcomes' = outcomes
    BY <1>3, <1>4 DEF outcomes
  <2> QED
    BY <1>1, <2>1 DEF M!mediationVars, tokens, vouchedAt, outcomes
<1>5. CASE Outcome(s) = "open" /\ Outcome(s)' = "refused"
  <2>1. M!GiveUp(s)
    BY <1>1, <1>3, <1>5 DEF M!GiveUp, tokens, vouchedAt, outcomes
  <2> QED
    BY <2>1 DEF M!Next
<1>6. CASE /\ Outcome(s) = "open" /\ Outcome(s)' = "paired"
           /\ vouch[s] # None /\ now <= vouch[s].at + (ASSERTION_TTL - Skew)
  <2>1. tokens[s] = "vouched" /\ vouchedAt[s] = vouch[s].at
    BY <1>6 DEF tokens, TokenState, vouchedAt
  <2>2. M!Pair(s)
    BY <1>1, <1>3, <1>6, <2>1 DEF M!Pair, tokens, vouchedAt, outcomes
  <2> QED
    BY <2>2 DEF M!Next
<1> QED
  BY <1>4, <1>5, <1>6

\* The steps of Chris.
LEMMA ChrisMediation ==
  ASSUME IInv, NEW s \in Session, Chris(s) PROVE M!Next \/ UNCHANGED M!mediationVars
<1> USE DEF registryVars, historyVars
<1>1. CASE Start(s) \/ GetRecord(s) \/ GetToken(s)
  <2>1. Outcome(s)' = Outcome(s)
    BY <1>1 DEF Start, GetRecord, GetToken, Outcome, IInv, TypeOK
  <2> QED
    BY <1>1, <2>1, DecisionStep DEF Start, GetRecord, GetToken, IInv, TypeOK
<1>2. CASE \/ GetUntrustedRecord(s) \/ GetError(s) \/ GetBadAssertion(s)
           \/ ConnectError(s) \/ Timeout(s) \/ GetHttpText(s)
  <2>1. Outcome(s) = "open" /\ Outcome(s)' = "refused"
    BY <1>2 DEF GetUntrustedRecord, GetError, GetBadAssertion, ConnectError, Timeout,
       GetHttpText, PairingError, Waiting, Outcome, IInv, TypeOK
  <2> QED
    BY <1>2, <2>1, DecisionStep DEF GetUntrustedRecord, GetError, GetBadAssertion, ConnectError,
       Timeout, GetHttpText, PairingError, IInv, TypeOK
<1>3. CASE GetAssertion(s)
  <2>1. Outcome(s) = "open" /\ Outcome(s)' = "paired"
    BY <1>3 DEF GetAssertion, Outcome, IInv, TypeOK
  <2>2. vouch[s] # None /\ assertion[s].expires_at = vouch[s].at + ASSERTION_TTL
        /\ vouch[s].at \in Nat /\ now \in Nat
    BY <1>3 DEF GetAssertion, IInv, SessionInv, Answered, Vouched, TypeOK
  <2>3. now <= vouch[s].at + (ASSERTION_TTL - Skew)
    BY <1>3, <2>2, TimeAssumption DEF GetAssertion, VerifyAssertion
  <2> QED
    BY <1>3, <2>1, <2>2, <2>3, DecisionStep DEF GetAssertion, IInv, TypeOK
<1> QED
  BY <1>1, <1>2, <1>3 DEF Chris, Resume

\* The steps of the server at the endpoint, and a lookup, decide nothing.
LEMMA ServerMediation ==
  ASSUME IInv, NEW s \in Session, AgentServer(s) \/ HandleAgentLookup(s)
  PROVE  UNCHANGED M!mediationVars
  BY DEF AgentServer, PairingRespond, Relay, RegistryUnreachable, VerifyTimeout,
     HandleAgentLookup, registryVars, historyVars, M!mediationVars, TokenState, Outcome

\* Storing a token issues it; the expired tokens it purges are lost.
LEMMA ChallengeMediation ==
  ASSUME IInv, NEW s \in Session, HandlePairingChallenge(s)
  PROVE  M!Next \/ UNCHANGED M!mediationVars
<1> USE ConstantsAssumption, NoneAssumption, TimeAssumption DEF registryVars, historyVars
<1>1. UNCHANGED <<now, vouch, chris>> /\ call[s] = "challenge?"
  BY DEF HandlePairingChallenge
<1>2. outcomes' = outcomes /\ vouchedAt' = vouchedAt
  BY <1>1 DEF outcomes, vouchedAt, Outcome
<1>3. CASE Authenticated(s) /\ KnownIn(registry, Target[s])
  <2> DEFINE c == [agent_id |-> Target[s], expires_at |-> now + CHALLENGE_TTL]
             stored == [challenges EXCEPT ![s] = c]
             D == {t \in Session : stored[t] # None /\ Expired(stored[t])}
  <2>1. /\ challenges' = [t \in Session |-> IF stored[t] # None /\ Expired(stored[t])
                                            THEN None ELSE stored[t]]
        /\ issuedAt' = [issuedAt EXCEPT ![s] = now]
    BY <1>3 DEF HandlePairingChallenge
  <2>2. c # None /\ ~Expired(c) /\ now \in Nat
    BY DEF IInv, TypeOK, Expired
  <2>3. Untouched(s)
    BY <1>1 DEF IInv, SessionInv, BeforeToken
  <2>4. challenges'[s] = c /\ issuedAt'[s] = now
    BY <2>1, <2>2 DEF IInv, TypeOK
  <2>5. tokens[s] = "unborn" /\ tokens'[s] = "live"
    BY <1>1, <2>2, <2>3, <2>4 DEF tokens, TokenState, Untouched
  <2>6. ASSUME NEW t \in Session, t # s
        PROVE  tokens'[t] = IF t \in D /\ tokens[t] = "live" THEN "dead" ELSE tokens[t]
    <3>1. stored[t] = challenges[t] /\ issuedAt'[t] = issuedAt[t] /\ vouch'[t] = vouch[t]
      BY <1>1, <2>1, <2>6 DEF IInv, TypeOK
    <3>2. challenges'[t] = IF t \in D THEN None ELSE challenges[t]
      BY <2>1, <3>1
    <3>3. challenges[t] # None => issuedAt[t] # None
      BY DEF IInv, SessionInv, StoredToken
    <3>4. t \in D => challenges[t] # None
      BY <3>1
    <3> HIDE DEF D, stored
    <3> QED
      BY <3>1, <3>2, <3>3, <3>4 DEF tokens, TokenState
  <2> HIDE DEF D
  <2>7. tokens' = [[t \in Session |-> IF t \in D /\ tokens[t] = "live" THEN "dead" ELSE tokens[t]]
                     EXCEPT ![s] = "live"]
    BY <2>5, <2>6 DEF tokens
  <2>8. D \in SUBSET Session
    BY DEF D
  <2>9. M!Issue(s)
    BY <1>1, <1>2, <2>1, <2>5, <2>7, <2>8 DEF M!Issue, M!Lost, tokens, vouchedAt, outcomes
  <2> QED
    BY <2>9 DEF M!Next
<1>4. CASE ~(Authenticated(s) /\ KnownIn(registry, Target[s]))
  BY <1>1, <1>4 DEF HandlePairingChallenge, M!mediationVars, TokenState, Outcome
<1> QED
  BY <1>3, <1>4

\* A verification vouches for a live and fresh token, or loses it.
LEMMA VerifyMediation ==
  ASSUME IInv, NEW s \in Session, HandlePairingVerify(s) PROVE M!Next
<1> USE ConstantsAssumption, NoneAssumption, TimeAssumption DEF registryVars, historyVars
<1> DEFINE c == challenges[s]
           w == found[s].endpoint
<1>1. /\ UNCHANGED <<now, chris, issuedAt>> /\ proof[s] = "request"
      /\ challenges' = [challenges EXCEPT ![s] = None]
  BY DEF HandlePairingVerify, Popped
<1>2. Unpresented(s)
  BY <1>1 DEF IInv, SessionInv, AfterToken
<1>3. outcomes' = outcomes /\ \A t \in Session : t # s => challenges'[t] = challenges[t]
  BY <1>1 DEF outcomes, Outcome, IInv, TypeOK
<1>4. CASE VerifyOK(c, w)
  <2> DEFINE v == [agent |-> RunsAs[w], server |-> w, at |-> now, file |-> registry]
  <2>1. vouch' = [vouch EXCEPT ![s] = v]
    BY <1>4 DEF HandlePairingVerify
  <2>2. c # None /\ now <= issuedAt[s] + CHALLENGE_TTL
    BY <1>4 DEF VerifyOK, Expired, IInv, TypeOK, SessionInv, StoredToken
  <2>3. v # None /\ v.at = now
    BY <1>2 DEF IInv, TypeOK, Unpresented
  <2>4. tokens[s] = "live"
    BY <1>2, <2>2 DEF tokens, TokenState, Unpresented
  <2> HIDE DEF v
  <2>5. tokens' = [tokens EXCEPT ![s] = "vouched"]
    BY <1>1, <1>3, <2>1, <2>3 DEF tokens, TokenState, IInv, TypeOK
  <2>6. vouchedAt' = [vouchedAt EXCEPT ![s] = now]
    BY <2>1, <2>3 DEF vouchedAt, IInv, TypeOK
  <2>7. M!Vouch(s)
    BY <1>1, <1>3, <2>2, <2>4, <2>5, <2>6 DEF M!Vouch, tokens, vouchedAt, outcomes
  <2> QED
    BY <2>7 DEF M!Next
<1>5. CASE ~VerifyOK(c, w)
  <2>1. vouch' = vouch
    BY <1>5 DEF HandlePairingVerify
  <2>2. tokens' = [t \in Session |-> IF t \in {s} /\ tokens[t] = "live" THEN "dead" ELSE tokens[t]]
    BY <1>1, <1>2, <1>3, <2>1 DEF tokens, TokenState, Unpresented, IInv, TypeOK
  <2>3. tokens' = M!Lost({s})
    BY <2>2 DEF M!Lost, tokens
  <2>4. {s} \in SUBSET Session
    OBVIOUS
  <2>5. M!Lose
    BY <1>1, <1>3, <2>1, <2>3, <2>4 DEF M!Lose, tokens, outcomes
  <2> QED
    BY <2>5 DEF M!Next
<1> QED
  BY <1>4, <1>5

\* A restart loses every live token.
LEMMA RestartMediation == ASSUME IInv, RestartRegistry PROVE M!Next
<1>1. UNCHANGED <<now, chris, issuedAt, vouch>> /\ challenges' = [s \in Session |-> None]
  BY DEF RestartRegistry, historyVars, ChallengesAtStart
<1>2. \A s \in Session : challenges[s] # None => issuedAt[s] # None
  BY DEF IInv, SessionInv, StoredToken
<1>3. tokens' = [t \in Session |-> IF t \in Session /\ tokens[t] = "live" THEN "dead" ELSE tokens[t]]
  BY <1>1, <1>2 DEF tokens, TokenState
<1>4. M!Lose
  BY <1>1, <1>3 DEF M!Lose, M!Lost, tokens, Outcome
<1> QED
  BY <1>4 DEF M!Next

\* The key file is not part of the promise, and time passes.
LEMMA EnvironmentMediation ==
  ASSUME IInv, WriteSigningKey \/ Tick PROVE M!Next \/ UNCHANGED M!mediationVars
<1>1. UNCHANGED <<chris, issuedAt, vouch, challenges>> /\ (now' = now \/ now' = now + 1)
  BY DEF WriteSigningKey, Tick, historyVars
<1> QED
  BY <1>1 DEF M!mediationVars, M!Next, M!Pass, TokenState, Outcome

\* The protocol, with its messages, failures and restarts, implements the
\* single-use mediator.
THEOREM Refinement == Spec => ImplementsMediation
<1>1. IInv /\ [Next]_vars => [M!Next]_(M!mediationVars)
  <2> SUFFICES ASSUME IInv, [Next]_vars PROVE M!Next \/ UNCHANGED M!mediationVars
    OBVIOUS
  <2>1. CASE UNCHANGED vars
    BY <2>1 DEF vars, historyVars, registryVars, M!mediationVars, TokenState, Outcome
  <2>2. CASE Next
    BY <2>2, ChrisMediation, ServerMediation, ChallengeMediation, VerifyMediation,
       RestartMediation, EnvironmentMediation DEF Next, Registry
  <2> QED
    BY <2>1, <2>2
<1> QED
  BY <1>1, InitMediation, SpecIInv, PTL DEF Spec, ImplementsMediation, M!Spec

-----------------------------------------------------------------------------
\* A client whose clock is ahead of the Registry's by more than an assertion
\* lives is never paired, with whatever agent: verify_assertion finds every
\* assertion expired.
NobodyPairs == \A s \in Session : chris[s] # "paired"

THEOREM ClockAheadNeverPairs ==
  ASSUME Skew > ASSERTION_TTL
  PROVE  Spec => []NobodyPairs
<1>1. Init => NobodyPairs
  BY DEF Init, NobodyPairs
<1>2. IInv /\ NobodyPairs /\ [Next]_vars => NobodyPairs'
  <2> SUFFICES ASSUME IInv, NobodyPairs, [Next]_vars PROVE NobodyPairs'
    OBVIOUS
  <2>1. ASSUME NEW s \in Session PROVE ~GetAssertion(s)
    <3> SUFFICES ASSUME GetAssertion(s) PROVE FALSE
      OBVIOUS
    <3>1. vouch[s] # None /\ now + Skew <= assertion[s].expires_at
      BY DEF GetAssertion, VerifyAssertion, IInv, SessionInv, Answered
    <3>2. assertion[s].expires_at = vouch[s].at + ASSERTION_TTL /\ vouch[s].at <= now
      BY <3>1 DEF IInv, SessionInv, Vouched
    <3>3. now \in Nat /\ vouch[s].at \in Nat
      BY <3>1 DEF IInv, TypeOK
    <3> QED BY <3>1, <3>2, <3>3, TimeAssumption
  <2>2. \A s \in Session : chris'[s] = "paired" => chris[s] = "paired"
    BY <2>1 DEF IInv, TypeOK, Next, Chris, Start, Resume, GetRecord, GetUntrustedRecord,
       GetToken, GetError, GetBadAssertion, GetHttpText, Timeout, ConnectError, PairingError,
       Registry, HandleAgentLookup, HandlePairingChallenge, HandlePairingVerify, AgentServer,
       PairingRespond, Relay, RegistryUnreachable, VerifyTimeout, RestartRegistry,
       WriteSigningKey, Tick, vars
  <2> QED BY <2>2 DEF NobodyPairs
<1> QED BY <1>1, <1>2, SpecIInv, PTL DEF Spec
=============================================================================
