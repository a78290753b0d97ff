----------------------------- MODULE AgentCalls -----------------------------
(***************************************************************************)
(* How the hub carries a message to an agent.  The hub is a set of uvicorn *)
(* workers, each one asyncio loop.  A handler that calls requests.post, or *)
(* a provider SDK without await, holds its loop until the call returns; one *)
(* that awaits Gemini does not.  Four routes lead to an agent:             *)
(*                                                                         *)
(*   message : POST /agents/{id}/message       (routers/agents.py)         *)
(*   chris   : POST /chris/message, and a chat with Chris (chris.py)       *)
(*   embed   : POST /embed/chat/completions    (embed.py)                  *)
(*   chat    : a chat with model agent:{id}    (utils/chat.py)             *)
(*                                                                         *)
(* An internal agent's endpoint is a URL of the hub itself, so a post to   *)
(* it waits for a worker whose loop is free.                               *)
(***************************************************************************)
EXTENDS Naturals

CONSTANTS
  Worker, Request, Agent,
  Internal,    \* agents with deployment_mode "internal"
  Public,      \* agents an anonymous caller may run
  Route,       \* the route of each request
  Wanted,      \* the agent named by a request (chris chooses its own)
  Admitted,    \* the agents whose tier a request's caller reaches
  Stream,      \* requests that ask for a streamed reply
  Tables,      \* the agent tables the hub may start with
  MaxChanges,  \* bound of the model: changes of the table
  Idle, None

Routes  == {"message", "chris", "embed", "chat"}
Steps   == {"new", "routing", "delegating", "turn", "direct", "ended"}
Answers == {"agent", "direct", "envelope", "empty", "braces", "nothing",
            "refused", "error"}
Rpcs    == {"none", "queued", "running", "text", "envelope", "dropped"}
Rows    == {"active", "inactive", "gone"}
Jobs    == Request \X {"call", "turn"}

ASSUME CallsAssumption ==
  /\ Internal \subseteq Agent
  /\ Public \subseteq Agent
  /\ Stream \subseteq Request
  /\ Route \in [Request -> Routes]
  /\ Wanted \in [Request -> Agent]
  /\ Admitted \in [Request -> SUBSET Agent]
  /\ Tables \subseteq [Agent -> Rows]
  /\ MaxChanges \in Nat
  /\ Idle \notin Jobs
  /\ None \notin Worker /\ None \notin Agent /\ None \notin Answers

VARIABLES
  row,        \* the agent table
  changes,    \* changes made to it so far
  loop,       \* the job that holds a worker's loop, or Idle
  step,       \* where a request is
  worker,     \* the worker that accepted it
  candidates, \* the installed agents Chris read before it awaits Gemini
  target,     \* the agent it is sent to
  answer,     \* what its caller was answered
  rpc,        \* the internal-a2a request it posted to the hub
  server,     \* the worker that runs the turn of that request
  turns       \* provider turns made for it

tableVars == <<row, changes>>
vars == <<tableVars, loop, step, worker, candidates, target, answer, rpc, server, turns>>

Listed == {a \in Agent : row[a] = "active"}
Known(a) == row[a] # "gone"

-----------------------------------------------------------------------------
Init ==
  /\ row \in Tables
  /\ changes = 0
  /\ loop = [w \in Worker |-> Idle]
  /\ step = [r \in Request |-> "new"]
  /\ worker = [r \in Request |-> None]
  /\ candidates = [r \in Request |-> {}]
  /\ target = [r \in Request |-> None]
  /\ answer = [r \in Request |-> None]
  /\ rpc = [r \in Request |-> "none"]
  /\ server = [r \in Request |-> None]
  /\ turns = [r \in Request |-> 0]

\* Mutant of Blocks: an HTTP client that is awaited.
Yields(w, r) == UNCHANGED loop

\* A synchronous call made on the loop of w for r.
Blocks(w, r) == loop' = [loop EXCEPT ![w] = <<r, "call">>]

\* requests.post to the endpoint of a; an internal one queues at the hub.
Post(w, r, a) ==
  /\ step' = [step EXCEPT ![r] = "delegating"]
  /\ target' = [target EXCEPT ![r] = a]
  /\ rpc' = [rpc EXCEPT ![r] = IF a \in Internal THEN "queued" ELSE "none"]
  /\ Blocks(w, r)
  /\ UNCHANGED <<answer, turns>>

\* The handler ends without having held its loop.
End(r, what) ==
  /\ step' = [step EXCEPT ![r] = "ended"]
  /\ answer' = [answer EXCEPT ![r] = what]
  /\ UNCHANGED <<loop, target, rpc, turns>>

\* run_agent_turn from the chat route: a synchronous provider call.
InProcess(w, r, a) ==
  /\ step' = [step EXCEPT ![r] = "turn"]
  /\ target' = [target EXCEPT ![r] = a]
  /\ turns' = [turns EXCEPT ![r] = @ + 1]
  /\ Blocks(w, r)
  /\ UNCHANGED <<answer, rpc>>

\* A worker accepts the request of a route that names its agent.
Accept(w, r) ==
  LET a == Wanted[r]
      shortCut == Route[r] = "chat" /\ a \in Internal
      admitted == Route[r] = "embed" \/ shortCut \/ a \in Admitted[r]
  IN  /\ step[r] = "new" /\ Route[r] # "chris"
      /\ loop[w] = Idle
      /\ worker' = [worker EXCEPT ![r] = w]
      /\ \/ ~(Known(a) /\ admitted) /\ End(r, "refused")
         \/ Known(a) /\ admitted /\ shortCut /\ InProcess(w, r, a)
         \/ Known(a) /\ admitted /\ ~shortCut /\ Post(w, r, a)
      /\ UNCHANGED <<tableVars, candidates, server>>

\* Chris reads the installed agents, then awaits Gemini: to choose one, or to
\* answer when there is none.
AcceptChris(w, r) ==
  /\ step[r] = "new" /\ Route[r] = "chris"
  /\ loop[w] = Idle
  /\ worker' = [worker EXCEPT ![r] = w]
  /\ candidates' = [candidates EXCEPT ![r] = Listed]
  /\ step' = [step EXCEPT ![r] = IF Listed = {} THEN "direct" ELSE "routing"]
  /\ UNCHANGED <<tableVars, loop, target, answer, rpc, server, turns>>

\* Gemini names an agent of the list that was read before the call, or names
\* none, names a stranger, or fails.
RoutingEnds(r) ==
  /\ step[r] = "routing"
  /\ loop[worker[r]] = Idle
  /\ \/ \E a \in candidates[r] :
          IF a \in Admitted[r] THEN Post(worker[r], r, a) ELSE End(r, "refused")
     \/ /\ step' = [step EXCEPT ![r] = "direct"]
        /\ UNCHANGED <<loop, target, answer, rpc, turns>>
  /\ candidates' = [candidates EXCEPT ![r] = {}]
  /\ UNCHANGED <<tableVars, worker, server>>

\* Gemini's own answer, or the 503 when it fails.
DirectEnds(r) ==
  /\ step[r] = "direct"
  /\ loop[worker[r]] = Idle
  /\ \E what \in {"direct", "error"} : End(r, what)
  /\ UNCHANGED <<tableVars, worker, candidates, server>>

(* The internal-a2a handler ------------------------------------------------*)

\* Mutant of Runnable: the row is not looked up again.
RunnableIfListed(a) == a \in Public

\* An anonymous post may run an agent that is still there and is public.
Runnable(a) == Known(a) /\ a \in Public

\* A worker accepts the posted request and starts the turn, or answers an error
\* envelope.  If the poster has gone, it may find the connection closed.
Serve(w, r) ==
  /\ rpc[r] = "queued"
  /\ loop[w] = Idle
  /\ \/ /\ Runnable(target[r])
        /\ rpc' = [rpc EXCEPT ![r] = "running"]
        /\ server' = [server EXCEPT ![r] = w]
        /\ loop' = [loop EXCEPT ![w] = <<r, "turn">>]
        /\ turns' = [turns EXCEPT ![r] = @ + 1]
     \/ /\ ~Runnable(target[r])
        /\ rpc' = [rpc EXCEPT ![r] = "envelope"]
        /\ UNCHANGED <<server, loop, turns>>
     \/ /\ step[r] # "delegating"
        /\ rpc' = [rpc EXCEPT ![r] = "dropped"]
        /\ UNCHANGED <<server, loop, turns>>
  /\ UNCHANGED <<tableVars, step, worker, candidates, target, answer>>

\* The provider answers, or fails.
TurnEnds(r) ==
  /\ rpc[r] = "running"
  /\ \E what \in {"text", "envelope"} : rpc' = [rpc EXCEPT ![r] = what]
  /\ loop' = [loop EXCEPT ![server[r]] = Idle]
  /\ UNCHANGED <<tableVars, step, worker, candidates, target, answer, server, turns>>

(* The poster --------------------------------------------------------------*)

\* Mutant of OfEnvelope: the body as it came.
RawEnvelope(route) == "body"

\* What a route makes of a JSON-RPC error envelope with status 200.
OfEnvelope(route) ==
  CASE route = "message" -> "envelope"   \* handed on as it is
    [] route = "chris" -> "empty"        \* no text extracted
    [] OTHER -> "braces"                 \* str({})

\* The bodies a post may come back with now.
Received(r) ==
  IF target[r] \in Internal THEN {rpc[r]} \cap {"text", "envelope"}
                            ELSE {"text", "envelope"}

PostReturns(r) ==
  /\ step[r] = "delegating"
  /\ \E body \in Received(r) :
       answer' = [answer EXCEPT ![r] =
                    IF body = "text" THEN "agent" ELSE OfEnvelope(Route[r])]
  /\ step' = [step EXCEPT ![r] = "ended"]
  /\ loop' = [loop EXCEPT ![worker[r]] = Idle]
  /\ UNCHANGED <<tableVars, worker, candidates, target, rpc, server, turns>>

\* Mutant of GivesUp: no timeout argument.
NeverGivesUp(r) == target[r] \notin Internal

\* The timeout of requests.post, a refused connection, an HTTP error status.
GivesUp(r) == TRUE

\* Chris falls back to Gemini, the others answer with an error.  What was
\* posted to the hub stays there.
PostFails(r) ==
  /\ step[r] = "delegating"
  /\ GivesUp(r)
  /\ IF Route[r] = "chris"
     THEN /\ step' = [step EXCEPT ![r] = "direct"]
          /\ UNCHANGED answer
     ELSE /\ step' = [step EXCEPT ![r] = "ended"]
          /\ answer' = [answer EXCEPT ![r] = "error"]
  /\ loop' = [loop EXCEPT ![worker[r]] = Idle]
  /\ UNCHANGED <<tableVars, worker, candidates, target, rpc, server, turns>>

\* generate_internal_agent_chat_completion: only a streamed reply is returned.
InProcessEnds(r) ==
  /\ step[r] = "turn"
  /\ \E what \in {IF r \in Stream THEN "agent" ELSE "nothing", "error"} :
       answer' = [answer EXCEPT ![r] = what]
  /\ step' = [step EXCEPT ![r] = "ended"]
  /\ loop' = [loop EXCEPT ![worker[r]] = Idle]
  /\ UNCHANGED <<tableVars, worker, candidates, target, rpc, server, turns>>

\* An administrator deletes an agent, or (de)activates it.
ChangeRow(a) ==
  /\ Known(a)
  /\ changes < MaxChanges
  /\ changes' = changes + 1
  /\ \E st \in Rows \ {row[a]} : row' = [row EXCEPT ![a] = st]
  /\ UNCHANGED <<loop, step, worker, candidates, target, answer, rpc, server, turns>>

-----------------------------------------------------------------------------
Handle(r) ==
  \/ \E w \in Worker : Accept(w, r) \/ AcceptChris(w, r)
  \/ RoutingEnds(r) \/ DirectEnds(r) \/ InProcessEnds(r)
  \/ PostReturns(r) \/ PostFails(r)

A2A(r) == (\E w \in Worker : Serve(w, r)) \/ TurnEnds(r)

Next ==
  \/ \E r \in Request : Handle(r) \/ A2A(r)
  \/ \E a \in Agent : ChangeRow(a)

Spec == Init /\ [][Next]_vars

\* Every call has a deadline (requests' timeout, the provider SDK's own), and an
\* idle loop runs what is ready.  An administrator owes nothing.
FairSpec == Spec /\ \A r \in Request : WF_vars(Handle(r)) /\ WF_vars(A2A(r))

-----------------------------------------------------------------------------
TypeOK ==
  /\ row \in [Agent -> Rows]
  /\ changes \in Nat
  /\ loop \in [Worker -> Jobs \cup {Idle}]
  /\ step \in [Request -> Steps]
  /\ worker \in [Request -> Worker \cup {None}]
  /\ candidates \in [Request -> SUBSET Agent]
  /\ target \in [Request -> Agent \cup {None}]
  /\ answer \in [Request -> Answers \cup {None}]
  /\ rpc \in [Request -> Rpcs]
  /\ server \in [Request -> Worker \cup {None}]
  /\ turns \in [Request -> Nat]

\* A loop is held exactly by the call that is open on it, so two blocking calls
\* never share a worker and a finished one never keeps it.
LoopHeldByItsCall ==
  \A w \in Worker, r \in Request :
    /\ loop[w] = <<r, "call">> <=> step[r] \in {"delegating", "turn"} /\ worker[r] = w
    /\ loop[w] = <<r, "turn">> <=> rpc[r] = "running" /\ server[r] = w

\* An agent's text reaches a caller through a post to the hub only if another
\* worker than the caller's ran the turn.
SelfCallNeedsAnotherWorker ==
  \A r \in Request :
    (answer[r] = "agent" /\ rpc[r] # "none")
      => server[r] \in Worker /\ server[r] # worker[r]

\* A message is given to a provider at most once, whatever times out, and a
\* turn that a post asks for starts only while the agent's row is there.
TurnsAreAllowed ==
  [][\A r \in Request : turns'[r] # turns[r] =>
       turns'[r] = 1 /\ target'[r] \in Agent /\ Known(target'[r])]_vars

\* The agents a request may be given to: the chat route runs the hub's own
\* without a check of the tier, the embed route checks none, and a post to the
\* hub itself is anonymous.
Reachable == [r \in Request |->
  LET byPost == (Agent \ Internal) \cup Public
  IN  CASE Route[r] = "chat" -> Internal \cup Admitted[r]
        [] Route[r] = "embed" -> byPost
        [] OTHER -> Admitted[r] \cap byPost]

\* The agent that has been given the message: a post to another service hands
\* it over at once, the hub's own agents have it when their turn starts.
Given(r) ==
  IF turns[r] > 0 \/ target[r] \in Agent \ Internal THEN target[r] ELSE None

D == INSTANCE Delivery WITH
       Local     <- Internal,
       installed <- {a \in Agent : Known(a)},
       seen      <- candidates,
       given     <- [r \in Request |-> Given(r)]

\* Whatever times out, falls back or is served late, the four routes deliver a
\* message at most once, to an installed agent its sender may reach, and answer
\* for the agent only when it was given the message.
ImplementsDelivery == D!Spec

\* Every request is answered, also when every worker waits for another one.
EveryRequestEnds == \A r \in Request : step[r] = "new" ~> step[r] = "ended"

\* "On failure or if no agent fits, fall back to a direct Gemini answer."
ChrisFallsBack == \A r \in Request : answer[r] # "empty"

\* "Response is the OpenAI envelope and contains the reply text."
ChatIsAnswered == \A r \in Request : answer[r] # "nothing"
=============================================================================
