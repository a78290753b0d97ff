----------------------------- MODULE HubBackend -----------------------------
(***************************************************************************)
(* The prototype hub (back/main.py): chats and their messages in           *)
(* dictionaries of one process.  FastAPI runs each handler on a thread of  *)
(* its pool, so handlers interleave between any two dictionary operations; *)
(* one operation is atomic.  A call is a request; the id of a chat is the  *)
(* call that creates it and the id of a registered agent the call that     *)
(* registers it (uuid4).                                                   *)
(***************************************************************************)
EXTENDS Naturals, Sequences, FiniteSets

CONSTANTS
  Create,     \* POST /chats
  Delete,     \* DELETE /chats/{id}
  Send,       \* POST /chats/{id}/messages
  Register,   \* POST /agents/register and /agents/register-by-url
  Default,    \* the agents of startup_event
  AgentOf,    \* the agent a chat is created with
  ChatOf,     \* the chat a delete or a message names
  Threads,    \* threads of the pool
  ByListing   \* chats that clients find in GET /chats, maybe before they are made

Call == Create \cup Delete \cup Send \cup Register
Steps == {"new", "fetching", "found", "listed", "unlisted", "emptying",
          "posted", "asking", "replied", "answered", "ended"}
\* "ok" is 200, "missing" 404, "rejected" 400; a KeyError and a Message that
\* does not validate are both 500.
Outcomes == {"none", "ok", "missing", "rejected", "key error", "invalid"}

ASSUME HubAssumption ==
  /\ \A c \in Create : c \notin Delete \cup Send \cup Register
  /\ \A d \in Delete : d \notin Send \cup Register
  /\ \A r \in Send : r \notin Register
  /\ ChatOf \in [Delete \cup Send -> Create]
  /\ Threads \in Nat

VARIABLES
  agents,    \* ids in agents_db
  chats,     \* keys of chats_db
  kept,      \* keys of messages_db
  log,       \* the lists of messages_db
  step,      \* where the handler of a call is
  reply,     \* what generate_agent_response returned: a string or not
  outcome    \* what the call was answered

vars == <<agents, chats, kept, log, step, reply, outcome>>

\* Mutant of User: a role the model of a message does not have.
Human(r) == [post |-> r, role |-> "human"]

User(r) == [post |-> r, role |-> "user"]
Assistant(r) == [post |-> r, role |-> "assistant"]
Message == [post : Send, role : {"user", "assistant"}]
In(c) == {log[c][i] : i \in DOMAIN log[c]}

Running == {k \in Call : step[k] \notin {"new", "ended"}}

-----------------------------------------------------------------------------
Init ==
  /\ agents = Default
  /\ chats = {} /\ kept = {}
  /\ log = [c \in Create |-> <<>>]
  /\ step = [k \in Call |-> "new"]
  /\ reply = [r \in Send |-> "none"]
  /\ outcome = [k \in Call |-> "none"]

\* A thread of the pool takes the call, or continues it.
At(k, s) == step[k] = s /\ (s = "new" => Cardinality(Running) < Threads)

Goes(k, s) == step' = [step EXCEPT ![k] = s] /\ UNCHANGED outcome
Ends(k, what) ==
  /\ step' = [step EXCEPT ![k] = "ended"]
  /\ outcome' = [outcome EXCEPT ![k] = what]
\* The statement of k reads a key: it goes on to s, or raises KeyError.
Keyed(k, present, s) == IF present THEN Goes(k, s) ELSE Ends(k, "key error")

\* Whether a client has the id of c to name it in a request.
Known(c) == c \in ByListing \/ step[c] = "ended"

-----------------------------------------------------------------------------
(* Agents                                                                  *)

RegisterAgent(r) ==
  /\ At(r, "new")
  /\ agents' = agents \cup {r} /\ Ends(r, "ok")
  /\ UNCHANGED <<chats, kept, log, reply>>

FetchWellKnown(r) ==
  /\ At(r, "new")
  /\ Goes(r, "fetching")
  /\ UNCHANGED <<agents, chats, kept, log, reply>>

\* The agent card arrived, or the request for it failed or timed out.
CardFetched(r) ==
  /\ At(r, "fetching")
  /\ \/ agents' = agents \cup {r} /\ Ends(r, "ok")
     \/ \E what \in {"rejected", "invalid"} : UNCHANGED agents /\ Ends(r, what)
  /\ UNCHANGED <<chats, kept, log, reply>>

-----------------------------------------------------------------------------
(* Chats                                                                   *)

AgentExists(c) == AgentOf[c] \in agents

CheckAgent(c) ==
  /\ At(c, "new")
  /\ IF AgentExists(c) THEN Goes(c, "found") ELSE Ends(c, "missing")
  /\ UNCHANGED <<agents, chats, kept, log, reply>>

ListChat(c) ==
  /\ At(c, "found")
  /\ chats' = chats \cup {c} /\ Goes(c, "listed")
  /\ UNCHANGED <<agents, kept, log, reply>>

\* Mutants of MakesList and of Empties: messages_db is left alone.
NoList(c) == kept
Keeps(c) == kept

MakesList(c) == kept \cup {c}

OpenLog(c) ==
  /\ At(c, "listed")
  /\ kept' = MakesList(c) /\ log' = [log EXCEPT ![c] = <<>>] /\ Ends(c, "ok")
  /\ UNCHANGED <<agents, chats, reply>>

CheckDelete(d) ==
  /\ At(d, "new") /\ Known(ChatOf[d])
  /\ IF ChatOf[d] \in chats THEN Goes(d, "found") ELSE Ends(d, "missing")
  /\ UNCHANGED <<agents, chats, kept, log, reply>>

StillListed(c) == c \in chats

Unlist(d) ==
  /\ At(d, "found")
  /\ chats' = chats \ {ChatOf[d]} /\ Keyed(d, StillListed(ChatOf[d]), "unlisted")
  /\ UNCHANGED <<agents, kept, log, reply>>

CheckLog(d) ==
  /\ At(d, "unlisted")
  /\ IF ChatOf[d] \in kept THEN Goes(d, "emptying") ELSE Ends(d, "ok")
  /\ UNCHANGED <<agents, chats, kept, log, reply>>

Empties(c) == kept \ {c}

DropLog(d) ==
  /\ At(d, "emptying")
  /\ kept' = Empties(ChatOf[d])
  /\ Ends(d, IF ChatOf[d] \in kept THEN "ok" ELSE "key error")
  /\ UNCHANGED <<agents, chats, log, reply>>

-----------------------------------------------------------------------------
(* Messages                                                                *)

CheckChat(r) ==
  /\ At(r, "new") /\ Known(ChatOf[r])
  /\ IF ChatOf[r] \in chats THEN Goes(r, "found") ELSE Ends(r, "missing")
  /\ UNCHANGED <<agents, chats, kept, log, reply>>

\* Mutant of Stores: messages_db.get(chat_id, [])[:].append(...).
Forgets(r, entry) == UNCHANGED log

\* messages_db[chat_id].append(...).
Stores(r, entry) ==
  log' = IF ChatOf[r] \in kept
           THEN [log EXCEPT ![ChatOf[r]] = Append(@, entry)] ELSE log

StoreMessage(r) ==
  /\ At(r, "found")
  /\ Stores(r, User(r)) /\ Keyed(r, ChatOf[r] \in kept, "posted")
  /\ UNCHANGED <<agents, chats, kept, reply>>

FindAgent(r) ==
  /\ At(r, "posted")
  /\ IF ChatOf[r] \in chats /\ AgentOf[ChatOf[r]] \notin agents
       THEN Ends(r, "missing")
       ELSE Keyed(r, ChatOf[r] \in chats, "asking")
  /\ UNCHANGED <<agents, chats, kept, log, reply>>

\* generate_agent_response returns; an agent's JSON need not hold a string.
AgentReplies(r) ==
  /\ At(r, "asking")
  /\ \E what \in {"text", "object"} : reply' = [reply EXCEPT ![r] = what]
  /\ Goes(r, "replied")
  /\ UNCHANGED <<agents, chats, kept, log>>

\* Mutant of GivesUp: requests.post without timeout=30.
NeverGivesUp(r) == FALSE

GivesUp(r) == At(r, "asking")

AgentTimesOut(r) ==
  /\ GivesUp(r)
  /\ reply' = [reply EXCEPT ![r] = "text"] /\ Goes(r, "replied")
  /\ UNCHANGED <<agents, chats, kept, log>>

\* Message(content=...) does not validate.
RefuseReply(r) ==
  /\ At(r, "replied") /\ reply[r] = "object"
  /\ Ends(r, "invalid")
  /\ UNCHANGED <<agents, chats, kept, log, reply>>

StoreReply(r) ==
  /\ At(r, "replied") /\ reply[r] = "text"
  /\ Stores(r, Assistant(r)) /\ Keyed(r, ChatOf[r] \in kept, "answered")
  /\ UNCHANGED <<agents, chats, kept, reply>>

\* chats_db[chat_id]["updated_at"] = ...
TouchChat(r) ==
  /\ At(r, "answered")
  /\ Ends(r, IF ChatOf[r] \in chats THEN "ok" ELSE "key error")
  /\ UNCHANGED <<agents, chats, kept, log, reply>>

-----------------------------------------------------------------------------
CreateStep(c) == CheckAgent(c) \/ ListChat(c) \/ OpenLog(c)
DeleteStep(d) == CheckDelete(d) \/ Unlist(d) \/ CheckLog(d) \/ DropLog(d)
SendStep(r) ==
  \/ CheckChat(r) \/ StoreMessage(r) \/ FindAgent(r) \/ AgentTimesOut(r)
  \/ RefuseReply(r) \/ StoreReply(r) \/ TouchChat(r)
RegisterStep(r) == RegisterAgent(r) \/ FetchWellKnown(r) \/ CardFetched(r)

Next ==
  \/ \E c \in Create : CreateStep(c)
  \/ \E d \in Delete : DeleteStep(d)
  \/ \E r \in Send : SendStep(r) \/ AgentReplies(r)
  \/ \E r \in Register : RegisterStep(r)

Spec == Init /\ [][Next]_vars

\* A thread of the pool keeps running; an agent owes no reply.
Fairness ==
  /\ \A c \in Create : WF_vars(CreateStep(c))
  /\ \A d \in Delete : WF_vars(DeleteStep(d))
  /\ \A r \in Send : WF_vars(SendStep(r))
  /\ \A r \in Register : WF_vars(RegisterStep(r))

FairSpec == Spec /\ Fairness

-----------------------------------------------------------------------------
(* Properties                                                              *)

\* The types of the variables.
TypeOK ==
  /\ agents \subseteq Default \cup Register
  /\ chats \subseteq Create /\ kept \subseteq Create
  /\ log \in [Create -> Seq(Message)]
  /\ step \in [Call -> Steps]
  /\ reply \in [Send -> {"none", "text", "object"}]
  /\ outcome \in [Call -> Outcomes]

\* Someone got past `del chats_db[chat_id]`.
Deleted(c) ==
  \E d \in Delete : /\ ChatOf[d] = c
                    /\ \/ step[d] \in {"unlisted", "emptying"}
                       \/ outcome[d] = "ok"

\* Deletes of one chat that all passed the check at the top of delete_chat:
\* one of them deletes it, the others fail, and none fails on the messages
\* after it has removed the chat.
OneDelete ==
  \A d, e \in Delete :
    /\ ChatOf[d] = ChatOf[e] /\ d # e => ~(outcome[d] = "ok" /\ outcome[e] = "ok")
    /\ step[d] = "emptying" => ChatOf[d] \in kept

\* A chat that was deleted is not listed again, and its messages are gone,
\* unless it was found in GET /chats and deleted while it was being created.
DeletedIsGone ==
  \A d \in Delete :
    outcome[d] = "ok" => /\ ChatOf[d] \notin chats
                         /\ ChatOf[d] \in kept => ChatOf[d] \in ByListing

\* However deletes race with each other and with what else is done to their
\* chat, one of them succeeds, and for good.
DeletesHold == OneDelete /\ DeletedIsGone

\* Posts to one chat at the same time all succeed: one that raises KeyError
\* raced with a delete of its chat, or with its creation; one whose message
\* is stored never finds the agent missing.
PostsSucceed ==
  \A r \in Send :
    LET c == ChatOf[r]
    IN  /\ outcome[r] = "key error" => Deleted(c) \/ c \in ByListing
        /\ outcome[r] = "missing" => User(r) \notin In(c)

\* In a chat that is still there every message has its reply after it, unless
\* its post still runs or the agent replied with something else than text;
\* and a post that was answered has left both.
Paired ==
  \A r \in Send :
    LET c == ChatOf[r]
        at(m) == {i \in DOMAIN log[c] : log[c][i] = m}
    IN  c \in kept /\ c \in chats =>
          /\ User(r) \in In(c) /\ Assistant(r) \notin In(c) =>
               step[r] \in {"posted", "asking", "replied"} \/ outcome[r] = "invalid"
          /\ outcome[r] = "ok" =>
               \E i \in at(User(r)), j \in at(Assistant(r)) : i < j
          /\ \A i, j \in at(User(r)) : i = j

\* Every request for a chat or an agent that exists is answered.
EveryCallEnds ==
  \A k \in Call : (step[k] # "new") ~> (step[k] = "ended")
=============================================================================
