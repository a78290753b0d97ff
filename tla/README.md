# OpenBeavs / GENESIS AI Hub: TLA+ models, checks and proofs

This directory holds a verification development for the repository: TLA+
modules that model the parts of the system whose behaviour depends on the order
of events, TLC configurations that check them on small instances, and theorems
that the TLA+ proof system (TLAPS) checks for every value of the constants.
Paths below are relative to `src/`; `S/` abbreviates
`agents/Cyrano-de-Bergerac-A2A-Secure/` and `OW/` abbreviates
`front/backend/open_webui/`.

## 1. The system

The repository is a chat hub for A2A agents.

* `front/` is a fork of Open WebUI: a FastAPI backend (`OW/`) and a SvelteKit
  client. Added to the fork: an agent catalog and a public registry
  (`OW/routers/agents.py`, `registry.py`), the Chris assistant that routes a
  question to an agent (`OW/routers/chris.py`), one-shot embedding of an agent
  (`embed.py`), bug-report tickets (`tickets.py`), deployment of agents to Cloud
  Run (`OW/utils/cloud_run.py`) and the provider turn an internal agent makes
  (`OW/utils/a2a_runtime.py`).
* `back/` is a stand-alone prototype of the hub with in-memory stores.
* `agents/` holds sample agents. One, `S/`, implements *mediated trust pairing*:
  an agent registry vouches for an agent before a client talks to it.
* `database/`, `docs/`, deployment scripts: no behaviour of their own.

### Components

What each part keeps, what changes it, and what must be right about it. "Modelled"
names the module; the rest is planned (section 2) or left out (section 8). `FE/`
abbreviates `front/src/lib/components/`.

| Component | State | Operations | What makes it correct | Module |
|---|---|---|---|---|
| Trust pairing: registry, Chris's client, agent server (`S/registry`, `S/a2a_trust_pairing`) | `agents.json` and signing key as loaded, `_challenges`; an open exchange per client | agent-lookup, pairing-challenge, `/pairing/respond`, pairing-verify, restart, key rewrite | a client pairs only on a fresh, single-use signature for this agent at this server; revocation takes hold; a pairing ends | TrustPairing, Mediation |
| Agent calls (`OW/routers/agents.py`, `chris.py`, `embed.py`, `OW/utils/chat.py`, `a2a_runtime.py`) | the event loop of each worker, the agent table, the request a route waits for | the four routes that send a message to an agent, internal-a2a, changes of the table | blocking calls exclude each other; no message runs twice or at an agent that is gone; every request ends | AgentCalls, Delivery |
| Prototype hub (`back/main.py`) | `agents_db`, `chats_db`, `messages_db`, the thread pool | register, create and delete a chat, post a message | one delete wins; no orphaned messages; posts that race with each other succeed; messages are paired with replies | HubBackend |
| Usage pool (`OW/socket/main.py`, `utils.py`) | `USAGE_POOL`, `usage_cleanup_lock`, the cleaner of each process | usage event, cleanup pass, lock commands | one cleaner; no use in progress is dropped; what has timed out is removed | UsagePool |
| Session pool (`OW/socket/main.py`) | `SESSION_POOL`, `USER_POOL`, what clients were told | connect, user-join, user-list, disconnect | the pools agree; handlers do not fail; clients learn who is online | SessionPool |
| The history of the open chat (`FE/chat/Chat.svelte`, `Messages.svelte`, `Messages/`) | `history`: messages with links both ways, `currentId`; the request and task of each answer | submit, edit, regenerate, continue, copy, delete, show, stop; answers that end, fail, are stopped; handlers that save what they read before a wait | the history stays one tree, of prompts and answers in turn as long as every prompt is answered; the screen shows a branch to its end; what was said before a message does not change; answers end | ChatTree |
| The page of Chris (`FE/chat/ChrisChat.svelte`, `front/src/lib/apis/chris/index.ts`) | messages, the message on its way, the targeted agent, installed agents as the hub and as the page know them | send, target, confirm, install, read the list | turns alternate and Chris is told them as they were; the list settles; the input opens again; a refusal brings up the sign-in | ChrisChat |
| The voice call (`FE/chat/MessageInput/CallOverlay.svelte`) | the queue of sentences of each answer, the speech that is there, one monitor per answer, the audio element, the recorder | the events of the chat, fetching and playing speech, hearing, transcribing, tapping, closing | sentences are spoken once and in order, one answer at a time; the microphone does not hear the assistant; what the user says is sent; the assistant stops | CallOverlay |
| Agent catalog and registry (`OW/routers/agents.py`, `registry.py`, `OW/utils/cloud_run.py`) | agent and registry tables, Cloud Run services | register, register by URL, update, delete, deploy, publish | one row per URL; no service without a row; a published agent can be run | planned: AgentCatalog |
| Tier gate (`OW/routers/agents.py`: `_enforce_tier`) | the cache of consumed elevations of each worker | a step-up, a call to an agent, pruning | an elevation opens at most one call and none after it has expired | planned: TierGate |
| Chat store (`OW/models/chats.py`) | a chat as one JSON document, its shared copy | client save, upsert of a message, share | no write of one actor is lost to another | planned: ChatStore |
| Chat tasks (`OW/tasks.py`, `OW/utils/middleware.py`) | `tasks`, `chat_tasks`, the task of a streamed response | create, stop, end, cleanup | registries name running tasks only; a stopped response is saved as far as it came | planned: ChatTasks |
| Tickets (`OW/routers/tickets.py`, `OW/models/tickets.py`) | `rate_limit_store`, ticket rows | submit, change status | at most five per window and address; `resolved_at` says when | planned: Tickets |
| Conversation context (`S/services/llm_voice_context/context.py`) | three tiers per session | add a message, compact | no message is lost or kept twice; the budgets hold, also when a model fails | planned: Compaction |
| Accounts, groups, channels, knowledge, files, prompts, functions, retrieval, media, proxies, configuration | database rows | upstream Open WebUI's CRUD and I/O | single transactions on independent rows | not modelled |
| Rest of the web client, sample agents, scripts | none shared | user interface; a provider call | | environment of the models |

### How they interact

* A client reaches the hub over HTTP and one socket. The socket's `connect`,
  `user-join`, `usage` and `disconnect` drive SessionPool and UsagePool. They share
  the event loop of a worker with every HTTP handler, so what AgentCalls says of
  a held loop delays them too; their own models assume only that a loop runs again.
* A chat completion for a model `agent:{id}` leaves the pipeline in
  `OW/utils/chat.py` and becomes a call of AgentCalls. Chris's route chooses the
  agent itself. The agent table those calls read is what the catalog changes:
  AgentCalls lets any row change at any time (`ChangeRow`).
* `_enforce_tier` stands in front of each call; AgentCalls takes its verdict
  as the constant `Admitted`.
* In the web client the chat (ChatTree) dispatches an event when an answer starts,
  when a sentence of it is complete and when it is done; the voice call listens to
  those events and submits what it transcribes as prompts. CallOverlay keeps
  of the chat what those events need: the phase of each answer and how much of its
  text has arrived. ChrisChat's requests go to the chris route of AgentCalls:
  what it may be answered is what that route may answer.
* The pairing protocol is between processes of its own and shares nothing with
  the hub but the A2A message format.

### What is hard

*Held event loops.* Handlers declared `async` call `requests.post` and provider
SDKs synchronously. An internal agent's endpoint is a URL of the hub itself, so a
worker may wait for itself, or two for each other, until a timeout.
*Read, wait, write.* The socket handlers, the usage cleaner, the prototype hub and
the chat store read a structure, wait (for Redis, another thread, an agent), and
write back what they read.
The client's handlers do the same with every `await`: an answer that fails, or a
rating that is saved, puts back a message as it was when the handler began.
*Events in another order.* Speech of a later sentence is there before that of an
earlier one; an older list of agents comes back after a newer one; the user
interrupts, deletes or switches while an answer streams.
*Expiry.* Challenges, assertions, locks, usage entries and elevations all expire
against some process's clock.
*Failures half way.* A registry restarts between two messages of a pairing; a
process dies with its sessions in Redis; a deployment succeeds and the insert after
it does not.
`PROJECT.json` lists the hazards one by one, at their lines, with the properties
that would catch each going wrong, or the module planned for it.

## 2. Modules, and the order of the plan

| Module | Stands for | Extends / uses |
|---|---|---|
| `Mediation` | abstract specification: a mediator that hands out single-use tokens and vouches | |
| `TrustPairing` | the pairing protocol | implements `Mediation` (`M == INSTANCE Mediation WITH ...`) |
| `Delivery` | abstract specification: each message is given at most once, to an agent its sender may reach, and answered at most once | |
| `AgentCalls` | the hub's calls to agents | implements `Delivery` (`D == INSTANCE Delivery WITH ...`) |
| `HubBackend` | the prototype hub | |
| `UsagePool`, `SessionPool` | the socket server's pools | |
| `ChatTree` | the history of the open chat in the client | |
| `ChrisChat` | the page of Chris in the client | |
| `CallOverlay` | the voice call in the client | |
| `*Proofs` | theorems about one module each | the module and `TLAPS` |
| `MC*` | instances for TLC | the module |

Done in the order in which the behaviour matters: pairing first (it decides
whom a client talks to), then the hub's calls, then the shared structures of the
servers, then the three parts of the client whose handlers interleave.
What is left, in order, each with what it should say:

1. **AgentCatalog**: the catalog's handlers one database transaction at a time,
   with a deployment that fails after any step and two registrations of one URL.
   Abstract specification: a set of agents, each with at most one service and
   one publication. Composition: the table replaces `row`/`ChangeRow` of AgentCalls.
2. **TierGate**: `_enforce_tier` with its cache, pruning and clock, in several
   workers. Abstract specification: a set of unused elevations.
3. **ChatStore**, then **ChatTasks** composed with it: the JSON document written by
   the client, the event emitter and the response task, stopped or not. Abstract
   specification: a chat as a map from message ids to messages, which ChatTree's
   history refines between two saves.
4. **Tickets** and **Compaction**: pure algorithms (the sliding window, the split into
   tiers) as functions, checked against a reference definition over bounded inputs,
   and small machines around them. No `RECURSIVE` operators, so that what can be
   proved stays provable.

## 3. How the modules correspond to the code

`PROJECT.json` maps every definition to its lines. This section says what a step
is in each module, and what was abstracted.

### TrustPairing

A session is one run of `S/chris/chris.py`. The protocol has four requests
(lookup, challenge, respond, verify) between three processes: Chris, the server
at the agent's endpoint, and the registry. A registry handler has no await, so
each is one action (`HandleAgentLookup`, `HandlePairingChallenge` with its purge,
`HandlePairingVerify` with its pop). `call[s]` is the exchange Chris has open and
`proof[s]` the one the server has open for it; between two handlers the
clock, other sessions, `RestartRegistry` (new table, new key, empty
`_challenges`) and `WriteSigningKey` interleave. A random token is named by
the one session that asks for it; signatures are the number of the key that made
them; a badge is a value, since equal hashes are equal badges. Transport
failures are `ConnectError` (caught by the code), `Timeout` and `GetHttpText`
(not caught: `chris[s] = "crashed"`), `RegistryUnreachable` and `VerifyTimeout`
on the server's side. An exception that the A2A SDK wraps is not told apart
from a timeout. `Skew` is Chris's clock minus the registry's.
`issuedAt`, `vouch`, `presented`, `acceptedAt` and `barredAt` are history
variables: no action reads them.

`Mediation` is what the protocol promises, without its messages: tokens are
issued once, vouched for at most once while fresh, may be lost, and a session
pairs only while its vouching is valid. `TrustPairing` implements it under the
mapping at its end (a token is *live* while it is stored, *vouched* once
something was signed on it, *dead* otherwise).

### AgentCalls

The hub is a set of uvicorn workers, each one event loop (`loop[w]`). `Blocks` is
a synchronous call inside an async handler: the worker does nothing else until
`PostReturns`, `PostFails` or `InProcessEnds` gives the loop back. Chris's two
Gemini calls are awaited, so `AcceptChris`, `RoutingEnds` and `DirectEnds` are
separate steps and the agents Chris has read (`candidates`) may be stale when it
delegates. A post to an internal agent is a second request to the hub (`rpc`):
it queues until some worker is idle (`Serve`) and stays queued when the poster has
given up. What a route makes of a JSON-RPC error envelope with status 200 is
`OfEnvelope`. The tier a caller reaches is the constant `Admitted`; texts,
conversation history and the provider's prompt are left out; an agent
without an endpoint is refused before any of this and is not modelled.

`Delivery` is what all four routes promise together, without workers, loops, posts
or timeouts: `Install` changes the table, `Look` reads it, `Give` hands a message to
an agent, once, and `Answer` ends the request, once. `AgentCalls` implements
it under the mapping at its end. A message is *given* when the post to another
service is sent, or, for an agent the hub runs itself, when its turn starts; a post
that still waits in the queue has given nothing, and giving may follow the answer, when
the poster has given up and its post is served late. `seen` is what Chris
has read (`candidates`): only an agent of another service may be given a message
after its row is gone, and only when its sender saw it there. `Reachable` is what the
routes allow: a post reaches an internal agent only if anonymous callers may run it
(`Public`), whichever route makes it; all routes but embed ask for the tier; and a chat
runs the hub's own agents in its own process, with neither check.

### HubBackend

FastAPI runs the handlers of `back/main.py`, plain functions, on a thread pool:
one action per dictionary operation, at most `Threads` handlers running. A chat's
id is the call that creates it, since ids are fresh UUIDs. A statement that
reads a missing key ends the call with `"key error"` (`Keyed`). `ByListing` is
the set of chats whose id a client may take from `GET /chats` before `POST /chats`
has answered: between lines 319 and 320 of `main.py` such a chat is listed and
has no list of messages yet, and one deleted at that moment keeps its messages
for ever. The properties name that exception, and the theorems hold for every
`ByListing`. The JSON-RPC methods of the same file are left out: the route gives
`dispatch` a parsed object where it takes a string and awaits its result, so none of
them is reached.
`get_chats` iterates over a dictionary that other threads change; the
`RuntimeError` this may raise has no effect on the state and is left out.

### UsagePool

One action per Redis command. The Redis client is synchronous, so inside a
process a handler or a pass of the cleaner runs alone (`HandlerFree`,
`CleanerFree`), and between processes every two commands interleave. Time is the
age of an entry: `"fresh"` becomes `"old"` when `TIMEOUT_DURATION` has passed; the
copies a process has read age on their own, since they may be of other events.
The lifespan of the application creates the cleaner's task before it serves a
request, so a process handles events once it has started, and `FreshStays` speaks of
the time until a second process does.
The lock carries the process it names; `Stalls` says whether a
process may be suspended for longer than the lock lives. `renew_lock` sets the
lock whoever holds it, so with `Stalls` a process that was overtaken takes the lock
back: `OneCleanerInTime` therefore has `Stalls` as an alternative. Broadcasts of
the models in use are left out.

### SessionPool

The same discipline for `SESSION_POOL` and `USER_POOL`. `redis` is chosen in
`Init`: without it there is one process and one loop (`SameLoop`), with it each
command of a handler is a step of its own. The list of sessions of a user is a bag
(`[Sid -> Nat]`), because `connect` followed by `user-join` lists a session twice and
order plays no role. A session belongs to one user. `raced` remembers the users
whose list two handlers changed at a time from two processes: there an update is
lost or a key is gone, and the properties say that nothing goes wrong anywhere
else. With Redis broadcasts of two processes may overtake each other and
`shown` may stay stale; `ShownIsOnline` is stated without Redis. The rooms of channels
matter only in that entering one awaits and fails for a client that has left.

### ChatTree

The history of the one chat that is open. A handler of Svelte runs to its next
`await`, so each action is the stretch between two waits: `SubmitPrompt` adds the
prompt and its answers and posts them, `PostArrives`, `PostAnswered`, `PostFails` and
`PostRefused` (an answer of the server that holds an error) are what becomes of the
POST on the server and in the client, `DoneArrives` the last
event of the socket. A prompt for `w` models gets as many answers as `sendPrompt` finds
models (`Asked`): one model named with @ instead of them, or none at all, since only
`submitPrompt` looks for missing models beforehand. The screen then stays on the
prompt, and `createMessagePair` puts another prompt below it; `stacked` records that this
was done. `FallsSilent` is an answer of which nothing more comes: the model does
not answer (`AIOHTTP_CLIENT_TIMEOUT` is unset by default, `OW/env.py:460`), its reply has no
choices, the response task ends with an exception, or its events are lost while the
socket is down. `request[r]` is what the waiting handler holds of its answer:
the prompt it belongs to when it will put back a copy (`sendPrompt` copies the answer
before it posts it), or `Live` when it holds the object itself (`continueResponse`).
`held[m]` is a message that `feedbackHandler` or `generateImage` has read and will
save. Both may write over what has changed since; `disturbed` records that one did
so with effect (the message was gone or its links were others), and the properties
about links, roles and the screen speak of the time before that; the one about
roles also of the time before `stacked`. Ids are numbers
in the order in which they are drawn. Siblings form a set, so which child a walk
to the end of a branch takes is open. Texts, files, merged responses and the
switch to another chat are left out, and so is the creation of the chat's document,
which happens between the creation of the answers and the POST and changes no link.

### ChrisChat

`send` is four steps: the message and the POST (`Send`), the answer of the hub
(`Routed`, `Direct`, `Refused`, `Unavailable` through `Catch`), the suggestions that are
fetched after a direct answer (`Suggested`), and `Finally`. `Busy` is the check at the
top of `send`; the button is disabled by the same variable but Enter is not. Each
read of the list of agents is an entry of `fetches`, in the order in which they
were begun, with the moment the hub answers it (`HubLists`) apart from the moment the
page gets it (`Listed`). An install goes on at the hub when the page has stopped waiting
for it (`at |-> "alone"`: the POST failed at the page, `register_agent_by_url` inserts the
agent later), and other pages change the hub's list at any time (`ChangeElsewhere`).
Two history variables say what the page may show: `since`, the lists the hub had since the last
read began, and `missed`, that the last read failed or an older one came after it. The
badge of an answer is left out; it shows the tier of the agent that is targeted when the
answer comes. `Code` is where the page looks for the reason of a refusal.

### CallOverlay

`ChatEvent`, `ChatStart` and `Finished` are the listeners of the chat's events; they run
inside `Streams`, `Start` and `Finishes`, since an event is dispatched synchronously.
`Streams(a, n)` is a piece of an answer that reaches into its n-th sentence: of the
sentences it completes only the last is dispatched, as in the code, so a call may
never hear some of them. A monitor is one call of `monitorAndPlayAudio`: its loop
looks at the queue (`Plays`, `Retries`, `Rests`, `Leaves`), and `Played` is the
audio element coming to the end. Whether a monitor is aborted follows from the
code's one controller: `Aborted(n)` holds of all but the newest, and of that one when
the call is closed. The speech of a sentence is cached by its text (`Key`).
`sent`, `spoken`, `hushed` and `overlapped` are history variables. That a monitor
whose sentence is paused waits for ever is in the model: `Played` needs `sounding`.

## 4. Runs

Every cfg sets `CHECK_DEADLOCK FALSE`: sessions, requests, calls and usage events are
finite in number, so the model stops when all have ended. That nothing stops
earlier is what the liveness properties say.

| Run | Instance | Question | Result |
|---|---|---|---|
| `trust_pairing` | 2 sessions, 3 registry files, one restart, time 0..3 with lifetimes 1, Chris's clock one behind | are pairings fresh, revocations effective, tokens single-use and always about an agent that is known; is it a mediator? | holds |
| `trust_pairing_live` | 1 session, all 7 files, a new signing key | what does a pairing prove; does every pairing end? | holds |
| `agent_calls` | 2 workers, a request of Chris, embed and chat, 2 internal agents and 1 external, one change of a row | who can answer a self-call; do the routes implement `Delivery`: once, to an agent that is there and that the sender may reach; does every request end, also when the workers wait for each other? | holds |
| `chris_fallback` | 4 requests | Chris falls back to its own answer on failure | violated |
| `chat_answered` | 4 requests | a chat that is not streamed contains the reply | violated |
| `hub_backend` | 2 deletes and 2 posts race on a chat, another is made with an agent that registers meanwhile, 4 threads | who wins a race, what is left behind, does every handler end? | holds |
| `usage_pool` | 2 processes that start at any time, 2 sessions, 2 events, 2 faults (deaths or failed commands) | is there one cleaner; is a session in use removed while one process runs; is what timed out removed? | holds |
| `session_pool` | 1 user, 2 sessions on 2 processes (or one), join, list and disconnect, a death | do the pools agree; what can fail; who is shown online? | holds |
| `chat_tree` | 5 messages, one less once an answer is asked for or held, 1 or 2 models that may be gone | does the history stay a tree, does the screen end a branch, do conversations change by deletion only, do answers end? | holds |
| `chris_chat` | 2 messages, an own and an outside agent, 2 installs, 3 reads of the list, one change between two | are turns told as they went; does the list settle; does the input open again? | holds |
| `tier_prompt` | the same | a refusal for the tier brings up the prompt to sign in | violated |
| `call_overlay` | 2 answers of 2 and 1 sentences that share one, 2 starts, 1 utterance on its way | are sentences spoken in order and one answer at a time; does the microphone hear the assistant; are utterances sent; does the assistant stop? | holds |

Each property of a passing run has a mutant of the code that breaks it in
`PROJECT.json` (a dropped check, a missing timeout, a wrong comparison).

### Why the bounds are enough

* Two sessions show every interference in the pairing: a session meets others only in
  `_challenges`, through the purge of a later challenge. Time runs to 3 with lifetimes of
  1, so a challenge and the assertion made on it can both expire and be
  revoked in between. One restart separates "before" and "after"; a second one adds
  nothing to a session that has at most one challenge and one assertion. The theorems
  remove all these bounds.
* Two workers and two posts to the hub are the smallest circular wait; four requests,
  one per route, meet in all orders.
* Two deletes and two posts on one chat give each pair of operations in each order;
  a third of a kind adds no new pair. `HubBackendProofs` covers any number.
* Two processes are enough for a lost update and for two cleaners; a process cleans
  once, so that two faults are one in the pass and one in the release of the lock,
  and they lose the lock at each of its steps. In
  `session_pool` two sessions of one user are what a list can disagree about; users do
  not share a key.

* In `chat_tree` five messages are two turns and a branch, or a turn with two models and
  a second prompt: every link a deletion has to move occurs, with the deleted
  message at the root, in the middle and at the end, and so does a
  prompt directly below a prompt that got no answer. The constraint `Bounded`
  stops after the step in which a late handler has written over a change: the properties
  but `NoCycle` except what follows, and the proofs follow it. It also takes one id off once an
  answer is asked for, or while one is held, which keeps the run within minutes: four messages are a
  turn with a second answer, or two turns. The one answer
  that is followed (`MaxBusy`), with its POSTs, task and stops, meets every change the user makes
  meanwhile; the others are added and never posted, or copied, and two late
  handlers at a time are left to the proofs.
* In `chris_chat` three reads are the smallest number in which one that saw an install is
  overtaken by one that did not and a third settles it; two installs are under way at
  a time, of the same or of two agents, and the page gives up either. `MaxLists` lets the hub's list
  change once from one read to the next; with two messages one is sent while what
  became of the other is still on its way. The theorems have none of these bounds.
* In `call_overlay` two starts are an answer that is replaced by another while it
  speaks, or that goes on after its end; the shared sentence lets speech fetched for
  one serve the other. A third monitor and a second utterance on its way meet only
  in the proofs. `voiceInterruption` is off, which is the default and the stronger
  case for `TakesTurns`; the theorems hold for both.

### Fairness

* TrustPairing: weak fairness of what Chris does with a reply that has come or a
  deadline that has passed (`Resume`); httpx has a timeout on every
  request. Nothing is assumed of the registry, the server or the network.
* AgentCalls: weak fairness per request and per internal turn: every blocking call has
  a timeout (`requests`, the provider SDK) and an idle loop runs what is ready.
  Since weak fairness does not choose a worker, a post may be passed over by others for
  a while; requests are finite, so it is served or its poster gives up. Changes of the
  table are not fair.
* HubBackend: weak fairness of each handler, its 30 s timeout included, and none of
  `AgentReplies`. A call that never started owes nothing (it may name a chat nobody
  has created).
* ChatTree: of an answer that was asked for the next thing comes, or nothing more does
  (`FallsSilent`), and only this alternative is fair. Neither the server, the socket nor the user owes
  anything, so `AnswersEnd` says that an answer that stays open does so for a reason
  it names: its task was stopped, or went silent.
* ChrisChat: the hub answers or the request fails; the page's continuations run.
* CallOverlay: timers fire, audio that plays ends, a fetch of speech returns, with
  the speech or without, and an answer that started ends or breaks off. Users owe nothing.
* UsagePool, SessionPool: a loop of a live process keeps running and Redis
  expires keys. Clients owe no event, and processes may die.

## 5. Findings

Shown by a run that is violated:

* An error envelope of an agent makes Chris return an empty routed reply
  instead of its own answer (`chris_fallback`).
* A chat with an internal agent that is not streamed returns nothing
  (`chat_answered`); theorem `ChatIsSilent`.
* A message that is refused for the tier of its agent never brings up the prompt to
  sign in: the page looks for the code at the top of the error body, and it
  is under `detail` (`tier_prompt`; theorem `NeverPrompted`).

Seen while modelling, and named in the properties as exceptions or left without one:

* `initiate_pairing` documents a `PairingError` on any failure; a read timeout and a
  plain-text 500 escape as other exceptions (`Timeout`, `GetHttpText`).
* The operations guide says internal agents no longer need an HTTPS call of the hub to
  itself; three routes still make one, and with the default of one worker it
  cannot be answered (theorem `SingleWorkerStarves`).
* `OW/utils/chat.py:932` speaks of guests' chats that live for 24 hours; nothing sets
  `expires_at`, so the purge never finds one.
* A rating or a generated image that is saved late takes branches added under the
  message meanwhile out of its links, or brings back a message that was deleted; a POST that
  fails late moves the screen (`disturbed` in ChatTree). Stopping from another
  branch leaves the answer open (`"cancelled"` in `AnswersEnd`).
* An edited or regenerated prompt whose model is gone gets a toast and no answer; the screen
  stays on the prompt, which `submitPrompt` refuses to go on from, and `createMessagePair` does
  not: it puts a prompt under the prompt. Deleting the upper one then leaves an answer
  under an answer, or at the root (`stacked` in `Alternate`).
* An answer whose task ends with an exception, or whose reply has no choices, stays open for
  ever: no event says that it is done (`"silent"` in `AnswersEnd`).
* After a failed POST to install an agent the page does not read the list, though the hub may
  install it all the same, and two reads that overlap are not told apart
  (`since` and `missed` in `ListIsCurrent`).
* In a voice call `interrupted` is set and never read: a monitor that is between two
  sentences goes on after the user has cut in (`hushed` in `TakesTurns`). An answer
  that breaks off, has no sentence, or whose speech cannot be fetched keeps the
  microphone muted until the user taps (`Stuck`). An utterance that ends while an
  earlier one is still transcribed is thrown away (`overlapped`).

## 6. Proofs

All for every value of the constants, from the assumptions each module states on them
(types of the constants, `None` not among the values it stands beside). Each
theorem is a property of a run, proved by a stronger invariant that is inductive,
or says something no finite instance can: that a finding holds always and not just in one
counterexample, or that a handler ends after a bounded number of its own steps.

* **TrustPairingProofs.** `IInv` says what is known of a session at every stage:
  before a token is issued nothing exists; a stored token is unpresented and names the
  session's agent, which the loaded table knows; once the registry has signed, the
  ghost of that moment (`vouch`) agrees with the assertion that is under way. The
  properties speak only of sessions that have paired, so without the chain
  *token, vouch, assertion* they are not inductive. From it: `TypeCorrect`, `Mediated`,
  `Fresh`, `RevocationHolds`, `TokensAreSingleUse`, and `Refinement`: every
  step is a step of `Mediation` or a stutter. `ClockAheadNeverPairs`: a client whose clock is
  ahead by more than an assertion lives never pairs at all.
* **AgentCallsProofs.** `Delegation`: while a post to the hub is open its own loop is
  held by the post, so the turn that answers it was started on another loop. The
  exclusion of loops (`LoopHeldByItsCall`) is what makes it inductive. `TurnsHold`
  (one turn per message) needs that a queued post has had no turn. `SingleWorkerStarves`
  follows: with one worker no self-call is ever answered with the agent's text.
  `Refinement`: every step is one of `Delivery` or a stutter. The proof adds `ByTarget` to
  the invariant (who holds a target or candidates at which step, and that a post that may
  run was admitted), shows once for any step of one request that the others keep their
  state in `Delivery` (`OthersKeep`, `RequestStep`), and then takes one lemma per
  group of handlers. `ChatIsSilent`: a chat with an internal agent that is not streamed
  never contains the reply. `RoutesAnswerTheirOwn`: which answers a route may give.
* **HubBackendProofs.** `IInv` places a chat by the steps of its handlers: `ChatState`
  (what its creation has done), `DeleteState` (at most one delete is past
  `del chats_db[chat_id]`, and that one finds the list), `PostState` (what a post knows
  of its chat) and `LogState` (no entry, one, or two in order, by the step of the
  post). From it also two action properties: `HistoryGrows` (a list of messages is
  added to at its end and changed in no other way, which needs that `OpenLog`
  finds it empty) and `CallsAdvance`.
* **UsagePoolProofs.** `Holds`: a live process that cleans or is about to release
  holds the lock. Including the two steps of `release_lock` is what makes it inductive:
  otherwise a delayed `DEL` could remove another's lock. `Covers`: what a
  handler or a pass is going to write back still contains every fresh entry. It holds
  as long as one process has started (`AllCovered`), which needs that the
  others have nothing to do yet (`Quiet`). `NobodyTakesOver`: once the last cleaner is gone
  nothing is removed until another process starts, but by an event that is written over it.
* **SessionPoolProofs.** `OneRuns` (one handler per loop), `Present` (a handler that adds
  a session finds it registered, one that removes it does not), and for each user
  without a race `ListOf`: at most one handler writes the list, and at each of its
  steps the pools agree up to that handler's session (`Relies`). `Told`, without Redis:
  what was last shown is who is online, or some handler still owes a broadcast. `OrphansStayOnline`: with Redis, the user of a
  session whose process died is shown online from then on.

* **ChatTreeProofs.** `Order` (links lead from newer to older ids and back, also in what
  late handlers hold, so putting it back closes no cycle) and `Copies` (only ids that were
  drawn are in use, and what handlers hold are answers) hold throughout; until `disturbed`
  the links agree (`Linked`) and the screen ends a branch (`AtLeaf`); until a prompt was put
  under a prompt roles alternate (`Alternating`). What is added is shown once to fit
  (`Grafts`, `Fits`, `Adding`), with any number of answers, none included. From it
  `TypeCorrect`, `NeverACycle`, `AlwaysATree`, `AlwaysEndsBranch`.
  Three more are about what a recursive function or a closure computes over a history of any
  depth. `Conversation` is defined by recursion, so that it equals
  one step of its own unfolding (`ConversationUnrolls`, `ConversationIs`) holds only if
  some function does: `Recursion` gives one, the messages in every set that contains
  the message and is closed under going up. Where a paper
  proof would use induction over the data, these take the smallest message that is wrong
  (`Smallest`: ids are numbers, and `Order` makes a parent smaller), and find a smaller
  one. So `ConversationsAreWhole` (a conversation goes up to a message with none
  above it, without a gap), `BranchesEnd` (a walk over the children ends, at a
  message that is there and the last of its branch) and the action property `ConversationsAreKept`: in every step a
  parent is kept or climbs over the two generations a deletion takes out (`Climbs`), and
  each conversation stays what it was but for them.
* **ChrisChatProofs.** `TalkInv`: `send` waits for at most one thing, and the message on
  its way is the last on the screen. `ListInv`: what the last read has seen is one of the lists
  the hub had since it began, and unless `missed` it is shown from when it is back; installs by this
  page and changes by others only add to those lists. `BodyHasNoCode`: every failure is answered with an error.
  From them `TypeCorrect`, `AlwaysTold`, `ListSettles`, `PageNeverStuck`, and
  `NeverPrompted`: the prompt to sign in never appears.
* **CallOverlayProofs.** `Voices`: the newest monitor is that of the current answer,
  and while it goes on the microphone is muted or the user has cut in; the audio
  element plays for a monitor that waits for it. `Places`: nothing is dispatched ahead of
  the text. `Listening`: a recorder that stops without an earlier utterance on
  its way is confirmed. With the queue algebra (`Queued`, `Shifted`, `PutBack`): what
  was spoken followed by what waits is what was queued. From it `TypeCorrect`,
  `SpokenInOrder`, and the action properties `AlwaysTakesTurns` and `UtterancesSent`.

## 7. Checked and not proved

* Liveness: `PairingTerminates`, `EveryRequestEnds`, `EveryCallEnds`, `OldIsCleared`,
  `GoneIsOffline`, `AnswersEnd`, `SendEnds`, `SpeakingEnds`. Fairness and `ENABLED` are
  out of the prover's reach. What they rest on apart from fairness is proved for
  three of them. `EveryRequestEnds`: a loop is only ever held by a call that ends by itself
  (`WorkersNeverDeadlock`) and a request takes at most four steps (`RequestsAdvance`).
  `EveryCallEnds`: a handler takes at most seven steps and repeats none
  (`CallsAdvance`). `SendEnds`: the input is closed only while something is on its way
  (`PageNeverStuck`). That an enabled step is taken is left to TLC.
* The three violated statements are counterexamples, which need no proof; for two of
  them a theorem says that it is never otherwise (`ChatIsSilent`, `NeverPrompted`). The third
  is not always so: Chris does fall back when a post fails, and not when the agent
  answers with an error envelope.
* The induction theorems of the library cannot be used, nor `RECURSIVE` operators.
  `Conversation` is therefore a recursive function, and `Under`, which the walks to the
  end of a branch use, is defined by closure; the arguments over all depths are by
  the smallest counterexample.

## 8. What is not modelled, and why

* The components marked "planned" in section 1; their hazards are in `PROJECT.json`.
* Upstream Open WebUI's CRUD routes (channels, knowledge, files, prompts, functions,
  models, groups, feedback): single transactions on independent rows.
* Retrieval, vector stores, web search, audio, images, code execution, model proxies:
  I/O to other services with no state here beyond configuration.
* The rest of the web client: settings, lists, editors and admin pages are forms over
  routes, each with one request at a time. Of the chat, switching to another one while
  answers are under way and merging responses; of the voice call, the camera,
  the browser's own speech synthesis, audio that the browser refuses to play and a
  call that is opened again. The socket authenticates with
  the token stored when the page was made, which a sign-in does not replace until the
  page is loaded again; that is listed as a hazard.
* Processes that die leave their sessions in Redis for ever (theorem `OrphansStayOnline`); `GoneIsOffline` excludes
  deaths for that reason, and `OldIsCleared` excludes deaths and failed commands, since
  no process takes over the cleanup once it has found the lock taken (theorem
  `NobodyTakesOver`).
