----------------------------- MODULE ChrisChat -----------------------------
(***************************************************************************)
(* The chat with Chris, the page the web client opens with:                *)
(*   src/front/src/lib/components/chat/ChrisChat.svelte                    *)
(*   src/front/src/lib/apis/chris/index.ts                                 *)
(*                                                                         *)
(* The user writes, picks the agent a message is meant for, and installs   *)
(* the agents Chris suggests, at any time; a handler that waits for the    *)
(* hub goes on with what these have left it.  What the hub answers to a    *)
(* message is what the chris route of AgentCalls may answer; what it has   *)
(* installed, other pages change as well.                                  *)
(*                                                                         *)
(* A text is left out: a message keeps its role and the agent that is      *)
(* named as its author.  So is the badge of a routed answer, which shows   *)
(* the tier of the agent that is targeted when the answer comes.           *)
(***************************************************************************)
EXTENDS Naturals, Sequences, FiniteSets

CONSTANTS None,       \* null
          Agent,      \* agents that may be installed; a changed one is another
          Unverified, \* agents outside the hub that are not privileged
          MaxTurns,   \* bound: messages the user sends
          MaxInstalls, \* bound: agents the user installs
          MaxFetches, \* bound: reads of the list of installed agents
          MaxLists    \* bound: lists the hub has from one read to the next

TierCodes == {"tier_required", "step_up_required"}

Message == [role : {"user", "assistant"}, agent : Agent \cup {None}]
\* An install: the hub works for a page that waits, it has installed the agent
\* or refused, it works although the page has given up, both are through.
Install == [agent : Agent,
            at : {"asked", "installed", "refused", "alone", "over"}]
Question == [agent : Agent \cup {None}, history : Seq(Message)]

ASSUME UnverifiedAssumption == Unverified \subseteq Agent
ASSUME NoneAssumption == None \notin Agent \cup Question \cup TierCodes
ASSUME BoundsAssumption ==
  {MaxTurns, MaxInstalls, MaxFetches, MaxLists} \subseteq Nat

VARIABLES messages,      \* the messages on the screen
          loading,       \* send is at work
          asked,         \* the POST send waits for, or None
          suggesting,    \* send waits for suggestions
          suggestions,   \* the agents that are suggested
          targetedAgent, \* the agent the next message is meant for
          pendingAgent,  \* the agent the warning on the screen is about
          loginRequired, \* the prompt to sign in is on the screen
          installed,     \* the agents the hub has installed
          installedAgents, \* what the page knows of them
          agentsLoading, \* the list is hidden
          installs,      \* the installs the page has asked for
          installingId,  \* the one whose button is disabled
          fetches,       \* the reads of that list, in their order
          missed,        \* the last read failed, or an older one came later
          since          \* the lists the hub had since the last read began

talk == <<messages, loading, asked, suggesting>>
choice == <<targetedAgent, pendingAgent>>
install == <<installed, installs, installingId>>
list == <<installedAgents, agentsLoading, fetches, missed, since>>
vars == <<talk, suggestions, choice, loginRequired, install, list>>

Said == [role |-> "user", agent |-> None]
Heard(a) == [role |-> "assistant", agent |-> a]

\* A read of the list: it is out, the hub has answered or it is lost, the page
\* has heard of it.
Read == [at : {"out", "answered", "back"}, saw : SUBSET Agent]
FirstRead == [at |-> "out", saw |-> {}]

Init ==
  /\ messages = <<>>
  /\ loading = FALSE
  /\ asked = None
  /\ suggesting = FALSE
  /\ suggestions = {}
  /\ targetedAgent = None
  /\ pendingAgent = None
  /\ loginRequired = FALSE
  /\ installed \in SUBSET Agent
  /\ installedAgents = {}
  /\ agentsLoading = TRUE
  /\ installs = <<>>
  /\ installingId = None
  /\ fetches = <<FirstRead>>
  /\ missed = FALSE
  /\ since = {installed}

-----------------------------------------------------------------------------
(* send *)

\* Mutant of Busy: Enter sends although a message is on its way; only the
\* button is disabled.
NeverBusy == FALSE
Busy == loading

Past(ms) == SubSeq(ms, 1, Len(ms) - 1)

Turns == Len(SelectSeq(messages, LAMBDA m : m.role = "user"))

Send ==
  /\ ~Busy
  /\ Turns < MaxTurns
  /\ suggestions' = {}
  /\ messages' = Append(messages, Said)
  /\ loading' = TRUE
  /\ asked' = [agent |-> targetedAgent, history |-> Past(messages')]
  /\ UNCHANGED <<suggesting, choice, loginRequired, install, list>>

\* The finally clause.
\* Mutant of Finally: loading is not reset.
Forgets == UNCHANGED loading /\ targetedAgent' = None
Finally ==
  /\ loading' = FALSE
  /\ targetedAgent' = None

\* A routed answer: it names the agent Chris has chosen, which may be gone.
Routed(a) ==
  /\ asked # None
  /\ messages' = Append(messages, Heard(a))
  /\ asked' = None
  /\ Finally
  /\ UNCHANGED <<suggesting, suggestions, pendingAgent, loginRequired, install,
                 list>>

\* Chris answers himself; then send waits for suggestions.
Direct ==
  /\ asked # None
  /\ messages' = Append(messages, Heard(None))
  /\ asked' = None
  /\ suggesting' = TRUE
  /\ UNCHANGED <<loading, suggestions, choice, loginRequired, install, list>>

\* getChrisSuggestions returns the agents that were not installed when the
\* hub looked, which is earlier; none when it cannot be reached or refuses.
Suggested ==
  /\ suggesting
  /\ suggesting' = FALSE
  /\ suggestions' \in SUBSET Agent
  /\ Finally
  /\ UNCHANGED <<messages, asked, pendingAgent, loginRequired, install, list>>

\* What a failed send does: the body of the response is thrown, and it has
\* its code one level down, under detail.
Code(body) == IF "code" \in DOMAIN body THEN body.code ELSE None

Catch(body) ==
  /\ asked # None
  /\ IF Code(body) \in TierCodes
     THEN /\ loginRequired' = TRUE
          /\ messages' = Past(messages)
     ELSE /\ messages' = Append(messages, Heard(None))
          /\ UNCHANGED loginRequired
  /\ asked' = None
  /\ Finally
  /\ UNCHANGED <<suggesting, suggestions, pendingAgent, install, list>>

\* _enforce_tier refuses the agent Chris has chosen for its tier.
Refused == \E c \in TierCodes : Catch([detail |-> [code |-> c]])

\* Chris is unavailable, the hub cannot be reached, or the role is wrong.
Unavailable == Catch([detail |-> "Chris is temporarily unavailable."])

-----------------------------------------------------------------------------
(* The agent a message is meant for *)

\* Mutant of NeedsWarning: every agent with an endpoint is warned about.
WarnsOfAll(a) == TRUE
NeedsWarning(a) == a \in Unverified

ToggleTarget(a) ==
  /\ a \in installedAgents /\ ~agentsLoading
  /\ IF targetedAgent = a
     THEN targetedAgent' = None /\ UNCHANGED pendingAgent
     ELSE IF NeedsWarning(a)
          THEN pendingAgent' = a /\ UNCHANGED targetedAgent
          ELSE targetedAgent' = a /\ UNCHANGED pendingAgent
  /\ UNCHANGED <<talk, suggestions, loginRequired, install, list>>

ConfirmProvisional ==
  /\ pendingAgent # None
  /\ targetedAgent' = pendingAgent
  /\ pendingAgent' = None
  /\ UNCHANGED <<talk, suggestions, loginRequired, install, list>>

CancelProvisional ==
  /\ pendingAgent # None
  /\ pendingAgent' = None
  /\ UNCHANGED <<talk, suggestions, targetedAgent, loginRequired, install, list>>

\* The banner is closed, or the prompt to sign in dismissed.
Untarget ==
  /\ targetedAgent # None \/ loginRequired
  /\ targetedAgent' = None
  /\ loginRequired' \in {FALSE, loginRequired}
  /\ UNCHANGED <<talk, suggestions, pendingAgent, install, list>>

-----------------------------------------------------------------------------
(* Installing what is suggested *)

\* Only the button of the last one is disabled.
InstallSuggestion(a) ==
  /\ a \in suggestions /\ ~loading
  /\ installingId # a
  /\ Len(installs) < MaxInstalls
  /\ installs' = Append(installs, [agent |-> a, at |-> "asked"])
  /\ installingId' = a
  /\ UNCHANGED <<talk, suggestions, choice, loginRequired, installed, list>>

\* What the hub has installed is a list that the page may be shown from now on.
Becomes(agents) ==
  /\ installed' = agents
  /\ since' = since \cup {agents}
  /\ Cardinality(since') <= MaxLists

\* register_agent_by_url installs it at the hub or refuses, whether the page
\* still waits for the answer or not.
HubInstalls(i) ==
  /\ installs[i].at \in {"asked", "alone"}
  /\ \E end \in {"installed", "refused"} :
       /\ installs' = [installs EXCEPT ![i].at = IF @ = "alone" THEN "over" ELSE end]
       /\ IF end = "installed" THEN Becomes(installed \cup {installs[i].agent})
                              ELSE UNCHANGED <<installed, since>>
  /\ UNCHANGED <<talk, suggestions, choice, loginRequired, installingId,
                 installedAgents, agentsLoading, fetches, missed>>

\* Other pages register, update and delete agents.
ChangeElsewhere ==
  /\ \E agents \in SUBSET Agent : Becomes(agents)
  /\ UNCHANGED <<talk, suggestions, choice, loginRequired, installs,
                 installingId, installedAgents, agentsLoading, fetches, missed>>

\* Mutant of Reads: the list is not read after an install.
ReadsNothing == fetches
Reads == Append(fetches, FirstRead)

\* The page hears that it is installed; the list is read again.
Installed(i) ==
  /\ installs[i].at = "installed"
  /\ Len(fetches) < MaxFetches
  /\ installs' = [installs EXCEPT ![i].at = "over"]
  /\ suggestions' = suggestions \ {installs[i].agent}
  /\ fetches' = Reads
  /\ since' = {installed}
  /\ agentsLoading' = TRUE
  /\ UNCHANGED <<talk, choice, loginRequired, installed, installingId,
                 installedAgents, missed>>

\* The hub refuses, or the page loses its answer; the hub goes on.
InstallFails(i) ==
  /\ installs[i].at \in {"asked", "installed", "refused"}
  /\ installs' = [installs EXCEPT ![i].at = IF @ = "asked" THEN "alone" ELSE "over"]
  /\ installingId' = None
  /\ UNCHANGED <<talk, suggestions, choice, loginRequired, installed, list>>

\* fetchInstalledAgents, at the hub and back at the page.
HubLists(i) ==
  /\ fetches[i].at = "out"
  /\ fetches' = [fetches EXCEPT ![i] = [at |-> "answered", saw |-> installed]]
  /\ UNCHANGED <<talk, suggestions, choice, loginRequired, install,
                 installedAgents, agentsLoading, missed, since>>

Overtaken(i) == \E j \in DOMAIN fetches : i < j /\ fetches[j].at = "back"

\* The end of the last install enables every button.  A read that fails
\* leaves the list as it is.
Listed(i) ==
  /\ fetches[i].at = "answered"
  /\ fetches' = [fetches EXCEPT ![i] = [at |-> "back", saw |-> {}]]
  /\ agentsLoading' = FALSE
  /\ installingId' = IF i = 1 THEN installingId ELSE None
  /\ \/ installedAgents' = fetches[i].saw /\ missed' = Overtaken(i)
     \/ UNCHANGED installedAgents /\ missed' = (missed \/ ~Overtaken(i))
  /\ UNCHANGED <<talk, suggestions, choice, loginRequired, installed, installs,
                 since>>

-----------------------------------------------------------------------------
Answered == Direct \/ Refused \/ Unavailable \/ \E a \in Agent : Routed(a)
Choose == ConfirmProvisional \/ CancelProvisional \/ Untarget
          \/ \E a \in Agent : ToggleTarget(a)
Extend(i) == HubInstalls(i) \/ Installed(i) \/ InstallFails(i)

Next ==
  \/ Send
  \/ Answered
  \/ Suggested
  \/ Choose
  \/ \E a \in Agent : InstallSuggestion(a)
  \/ \E i \in DOMAIN installs : Extend(i)
  \/ ChangeElsewhere
  \/ \E i \in DOMAIN fetches : HubLists(i) \/ Listed(i)

Spec == Init /\ [][Next]_vars

\* The hub answers every request in the end (EveryRequestEnds of AgentCalls)
\* or the connection breaks.
Fairness == WF_vars(Answered) /\ WF_vars(Suggested)
FairSpec == Spec /\ Fairness

-----------------------------------------------------------------------------
TypeOK ==
  /\ messages \in Seq(Message)
  /\ loading \in BOOLEAN
  /\ asked \in Question \cup {None}
  /\ suggesting \in BOOLEAN
  /\ suggestions \subseteq Agent
  /\ targetedAgent \in Agent \cup {None}
  /\ pendingAgent \in Unverified \cup {None}
  /\ loginRequired \in BOOLEAN
  /\ installed \subseteq Agent
  /\ installedAgents \subseteq Agent
  /\ agentsLoading \in BOOLEAN
  /\ installs \in Seq(Install)
  /\ installingId \in Agent \cup {None}
  /\ fetches \in Seq(Read)
  /\ missed \in BOOLEAN
  /\ since \subseteq SUBSET Agent

\* Prompts and answers alternate, and every prompt but the one that is on
\* its way has one answer, whatever the hub did and however fast the user
\* types: Chris is told the conversation as it went.
TurnsAlternate ==
  /\ \A i \in DOMAIN messages :
       messages[i].role = IF i % 2 = 1 THEN "user" ELSE "assistant"
  /\ Len(messages) % 2 = IF asked # None THEN 1 ELSE 0

\* While a message is on its way nothing is said: what Chris was told as the
\* history is what is above it on the screen when he answers.
HistoryIsWhole ==
  asked # None => messages = Append(asked.history, Said)

\* Chris is told the conversation as it went, and answers the one on the
\* screen.
ConversationIsTold == TurnsAlternate /\ HistoryIsWhole

\* When every read of the list is over, the page offers a list the hub had
\* since it was asked last, which is after the last install the page has heard
\* of: what other pages and late installs change does not bring back what was
\* shown before.  Unless the last read failed or an older one came after it.
ListIsCurrent ==
  (~missed /\ \A i \in DOMAIN fetches : fetches[i].at = "back")
    => installedAgents \in since

\* The page is not stuck: a message that was sent is answered, and the input
\* is open again, whatever fails.
SendEnds == loading ~> ~loading

\* A message that was refused for the tier of its agent is not answered with
\* an error but with the prompt to sign in.
TierIsPrompted == [][Refused => loginRequired']_vars
=============================================================================
