------------------------------ MODULE ChatTree ------------------------------
(***************************************************************************)
(* The history of the chat that is open in the web client, and the         *)
(* handlers that change it while requests are in flight:                   *)
(*   src/front/src/lib/components/chat/Chat.svelte                         *)
(*   src/front/src/lib/components/chat/Messages.svelte                     *)
(*   src/front/src/lib/components/chat/Messages/*.svelte                   *)
(*                                                                         *)
(* A history is a tree of messages held as an object per id, with the      *)
(* links of both directions, and the id of the message at the end of the   *)
(* conversation on the screen.  Handlers run to their next await; whatever *)
(* they read before it may have changed when they go on.                   *)
(*                                                                         *)
(* Ids are numbers in the order the code draws them (uuidv4), so a smaller *)
(* id is an older message.  childrenIds is a set: in which order siblings  *)
(* are shown, and so which child a walk to the end of a branch follows, is *)
(* left open.  What a message says is left out but for whether it is done; *)
(* that submitPrompt also refuses after an error without a word is, too.   *)
(***************************************************************************)
EXTENDS Naturals, FiniteSets

CONSTANTS None,         \* null and undefined
          Live,         \* a handler holds the object itself, not a copy
          Widths,       \* numbers of models that may be selected
          MaxMessages,  \* bound: ids drawn in a run
          MaxBusy       \* bound: answers that are followed: asked for, or held

Id == 1..MaxMessages

ASSUME WidthsAssumption == Widths \subseteq Nat
ASSUME MaxMessagesAssumption == MaxMessages \in Nat
ASSUME MaxBusyAssumption == MaxBusy \in Nat
ASSUME NoneAssumption == None \notin Nat
ASSUME LiveAssumption == Live # None

VARIABLES messages,   \* the object of each id, as it was last seen
          present,    \* the keys of history.messages
          currentId,  \* history.currentId
          drawn,      \* ids drawn so far
          request,    \* per answer: what its pending POST holds of it
          task,       \* per answer: its task on the server
          stopping,   \* stopResponse waits for the tasks it stops
          held,       \* messages read by handlers that save them later
          disturbed,  \* a late handler wrote over what had changed since
          stacked     \* a prompt was put under a prompt

tree == <<messages, present, currentId>>
flight == <<request, task, stopping>>
ghosts == <<disturbed, stacked>>
vars == <<tree, drawn, flight, held, ghosts>>

Message == [parentId    : Id \cup {None},
            childrenIds : SUBSET Id,
            role        : {"user", "assistant"},
            done        : BOOLEAN,
            models      : Nat]

Prompt(p, w) == [parentId |-> p, childrenIds |-> {}, role |-> "user",
                 done |-> FALSE, models |-> w]
Answer(p, d) == [parentId |-> p, childrenIds |-> {}, role |-> "assistant",
                 done |-> d, models |-> 0]
Blank(r) == [Answer(None, FALSE) EXCEPT !.role = r]

Init ==
  /\ messages = [m \in Id |-> Blank("assistant")]
  /\ present = {}
  /\ currentId = None
  /\ drawn = 0
  /\ request = [m \in Id |-> None]
  /\ task = [m \in Id |-> "none"]
  /\ stopping = FALSE
  /\ held = [m \in Id |-> None]
  /\ disturbed = FALSE
  /\ stacked = FALSE

-----------------------------------------------------------------------------
\* createMessagesList: the messages from a root to m.
Conversation[m \in Id \cup {None}] ==
  IF m = None \/ m \notin present THEN {}
  ELSE {m} \cup Conversation[messages[m].parentId]

\* What the screen shows: the conversation, and beside an answer those of
\* the other models that were asked.
Shown ==
  LET path == Conversation[currentId]
  IN {m \in present : \/ m \in path
                      \/ /\ messages[m].role = "assistant"
                         /\ messages[m].parentId \in path
                         /\ messages[messages[m].parentId].models > 1}

\* Where a walk over childrenIds from m may come by.
Under(msgs, here, m) ==
  LET linked == {m} \cup UNION {msgs[x].childrenIds : x \in here}
  IN {l \in linked : \A S \in SUBSET linked :
        (m \in S /\ \A x \in S \cap here : msgs[x].childrenIds \subseteq S)
          => l \in S}

\* The end of a branch, which is where a walk stops.
\* Mutant of Ends: the view stays where the walk begins.
Starts(msgs, here, m) == {m}
Ends(msgs, here, m) ==
  {l \in Under(msgs, here, m) : l \in here => msgs[l].childrenIds = {}}

\* The view goes to the end of a branch; a walk that meets an id without a
\* message throws and leaves it where it is.
View(msgs, here, start) ==
  \E l \in Ends(msgs, here, start) :
    currentId' = IF l \in here THEN l ELSE currentId

\* messages with new objects, linked from the message above them if any.
With(new, p) ==
  [m \in Id |->
    CASE m \in DOMAIN new -> new[m]
      [] m = p /\ p \in present ->
           [messages[m] EXCEPT
             !.childrenIds = @ \cup {n \in DOMAIN new : new[n].parentId = p}]
      [] OTHER -> messages[m]]

\* Mutant of Fresh: the last id is drawn once more.
Again(n) == drawn..(drawn + n - 1)
Fresh(n) == (drawn + 1)..(drawn + n)

Busy == {r \in Id : request[r] # None \/ task[r] # "none" \/ held[r] # None}

\* sendPrompt saves the chat and posts its answers, with copies of them as
\* they are now.  An answer that is not in sent stands for one whose POST
\* never ends, or that was not posted as the chat could not be saved.
Post(answers, u) ==
  \E sent \in SUBSET answers :
    /\ Cardinality(Busy \cup sent) <= MaxBusy
    /\ request' = [m \in Id |-> IF m \in sent THEN u ELSE request[m]]

\* With w models selected: a model that is not found any more gives no
\* answer, and one that is named with @ is asked instead of them.
\* sendPrompt gives as many answers as it finds models.
Asked(w) == 0..w \cup {1}

\* A prompt under p, for w models, with n answers.
Turn(p, w, n, d) ==
  LET u == drawn + 1
  IN [m \in Fresh(n + 1) |->
        IF m = u THEN [Prompt(p, w) EXCEPT !.childrenIds = Fresh(n + 1) \ {u}]
        ELSE Answer(u, d)]

\* A new prompt under p, and the view on the last of its n answers, or on
\* the prompt itself if it has none.
Put(p, w, n, d) ==
  /\ drawn + n + 1 <= MaxMessages
  /\ drawn' = drawn + n + 1
  /\ messages' = With(Turn(p, w, n, d), p)
  /\ present' = present \cup Fresh(n + 1)
  /\ currentId' = drawn + n + 1
  /\ stacked' = (stacked \/ (p \in present /\ messages[p].role = "user"))
  /\ UNCHANGED <<task, stopping, held, disturbed>>

\* The common end of submitPrompt, submitMessage and editMessage, and
\* sendPrompt with it.
Say(p, w) ==
  \E n \in Asked(w) :
    /\ Put(p, w, n, FALSE)
    /\ Post(Fresh(n + 1) \ {drawn + 1}, drawn + 1)

\* submitPrompt, under the message at the end of the conversation.
SubmitPrompt ==
  /\ currentId # None => currentId \in present /\ messages[currentId].done
  /\ \E w \in Widths : Say(currentId, w)

\* submitMessage: a question about a part of an answer on the screen.
SubmitMessage(m) ==
  /\ m \in Shown
  /\ messages[m].role = "assistant" /\ messages[m].done
  /\ \E w \in Widths : Say(m, w)

\* editMessage of a prompt: the edited prompt is put beside the old one.
EditPrompt(m) ==
  /\ m \in Shown
  /\ messages[m].role = "user"
  /\ messages[m].parentId \in present \cup {None}
  /\ \E w \in Widths : Say(messages[m].parentId, w)

PromptOf(m) == messages[m].parentId

\* regenerateResponse: more answers to the prompt of m, of the models that
\* are selected by now if it was put to a single model, of the one of m if
\* not; none of a model that is not found.
Regenerate(m) ==
  LET u == PromptOf(m) IN
  /\ m \in Shown
  /\ messages[m].role = "assistant" /\ messages[m].done
  /\ u \in present
  /\ \E n \in IF messages[u].models = 1 THEN UNION {Asked(w) : w \in Widths}
              ELSE {0, 1} :
       /\ drawn + n <= MaxMessages
       /\ drawn' = drawn + n
       /\ messages' = With([a \in Fresh(n) |-> Answer(u, FALSE)], u)
       /\ present' = present \cup Fresh(n)
       /\ currentId' = IF n = 0 THEN currentId ELSE drawn + n
       /\ Post(Fresh(n), u)
  /\ UNCHANGED <<task, stopping, held, ghosts>>

\* editMessage of an answer with submit: a copy of it beside it.
\* Mutant of Copied: { ...message } without childrenIds: [].
Spread(m) == messages[m]
Copied(m) == [messages[m] EXCEPT !.childrenIds = {}]
CopyAnswer(m) ==
  /\ m \in Shown
  /\ messages[m].role = "assistant" /\ messages[m].done
  /\ drawn + 1 <= MaxMessages
  /\ drawn' = drawn + 1
  /\ messages' = With([a \in Fresh(1) |-> Copied(m)], messages[m].parentId)
  /\ present' = present \cup Fresh(1)
  /\ currentId' = drawn + 1
  /\ UNCHANGED <<flight, held, ghosts>>

\* createMessagePair and addMessages: a prompt with its answer, not asked;
\* it names no models.
Pair(p) == Put(p, 0, 1, TRUE) /\ UNCHANGED request

CreateMessagePair == currentId \in present \cup {None} /\ Pair(currentId)

AddMessages(m) ==
  /\ m \in Shown
  /\ messages[m].role = "assistant" /\ messages[m].done
  /\ Pair(m)

\* gotoMessage, showPreviousMessage, showNextMessage, showMessage: the view
\* goes to the end of a branch.
ShowMessage(m) ==
  /\ m \in present
  /\ View(messages, present, m)
  /\ UNCHANGED <<messages, present, drawn, flight, held, ghosts>>

\* Mutants of Lifted: the parent of a grandchild is forgotten, or left as
\* it is.
Uprooted(x, p) == [messages[x] EXCEPT !.parentId = None]
LeftAsIs(x, p) == messages[x]
Lifted(x, p) == [messages[x] EXCEPT !.parentId = p]

\* deleteMessage: m goes with the messages right below it, and those below
\* them are put under the message above m.
Left(m) == present \ ({m} \cup messages[m].childrenIds)
Grandchildren(m) ==
  UNION {messages[c].childrenIds : c \in messages[m].childrenIds \cap present}
Without(m) ==
  LET p == messages[m].parentId IN
  [x \in Id |->
    CASE x \in present \ Left(m) /\ request[x] # Live -> Blank(messages[x].role)
      [] x = p /\ x \in Left(m) ->
           [messages[x] EXCEPT !.childrenIds = (@ \ {m}) \cup Grandchildren(m)]
      [] x \in Grandchildren(m) \cap Left(m) -> Lifted(x, p)
      [] OTHER -> messages[x]]

\* Then the view goes to the end of a branch there, or of one that is left
\* when m was a root.
Delete(m) ==
  LET p == messages[m].parentId
      roots == {r \in Left(m) : Without(m)[r].parentId = None}
  IN  /\ m \in Shown
      /\ IF messages[m].role = "user"
         THEN p # None \/ \E r \in present \ {m} : messages[r].parentId = None
         ELSE /\ messages[m].done
              /\ p \in present /\ Cardinality(messages[p].childrenIds) > 1
      /\ messages' = Without(m)
      /\ present' = Left(m)
      /\ IF p = None
         THEN IF roots = {} THEN currentId' = None
              ELSE \E r \in roots : View(Without(m), Left(m), r)
         ELSE View(Without(m), Left(m), p)
      /\ UNCHANGED <<drawn, flight, held, ghosts>>

-----------------------------------------------------------------------------
\* The requests of the answers.

\* continueResponse: the last answer is asked for more, if its model is
\* found; the POST holds the object itself.  Bounds: one POST and one task
\* per answer at a time.
AskForMore(r) ==
  /\ request[r] = None /\ task[r] # "running"
  /\ Cardinality(Busy \cup {r}) <= MaxBusy
  /\ request' = [request EXCEPT ![r] = Live]
  /\ task' = [task EXCEPT ![r] = "none"]
  /\ UNCHANGED stopping

ContinueResponse ==
  /\ currentId \in present
  /\ messages[currentId].role = "assistant"
  /\ messages[currentId].done
  /\ messages' = [messages EXCEPT ![currentId].done = FALSE]
  /\ AskForMore(currentId) \/ UNCHANGED flight
  /\ UNCHANGED <<present, currentId, drawn, held, ghosts>>

\* The server starts the task of an answer.
PostArrives(r) ==
  /\ request[r] # None /\ task[r] = "none"
  /\ task' = [task EXCEPT ![r] = "running"]
  /\ UNCHANGED <<tree, drawn, request, stopping, held, ghosts>>

\* sendPromptSocket goes on with the id of the task.
PostAnswered(r) ==
  /\ request[r] # None /\ task[r] # "none"
  /\ request' = [request EXCEPT ![r] = None]
  /\ UNCHANGED <<tree, drawn, task, stopping, held, ghosts>>

\* Put rec back as the object of m, whatever m has become since.
PutBack(m, rec) ==
  /\ messages' = [messages EXCEPT ![m] = rec]
  /\ present' = present \cup {m}
Overwrites(m, rec) ==
  \/ m \notin present
  \/ rec.parentId # messages[m].parentId
  \/ rec.childrenIds # messages[m].childrenIds

\* Mutant of Failed: done is not set.
NotDone(u) == Answer(u, FALSE)
Failed(u) == Answer(u, TRUE)

\* What the handler holds of the answer, with the error.
InError(r) == IF request[r] = Live THEN [messages[r] EXCEPT !.done = TRUE]
              ELSE Failed(request[r])

\* The POST fails, though its task may be running: the object the handler
\* holds is put back, and the view goes to it.
PostFails(r) ==
  /\ request[r] # None
  /\ PutBack(r, InError(r))
  /\ currentId' = r
  /\ disturbed' = (disturbed \/ Overwrites(r, InError(r))
                     \/ messages[r].childrenIds # {})
  /\ request' = [request EXCEPT ![r] = None]
  /\ UNCHANGED <<drawn, task, stopping, held, stacked>>

\* The POST is answered with an error: the object is put back as well, and
\* the view stays where it is.
PostRefused(r) ==
  /\ request[r] # None
  /\ PutBack(r, InError(r))
  /\ disturbed' = (disturbed \/ Overwrites(r, InError(r)))
  /\ request' = [request EXCEPT ![r] = None]
  /\ UNCHANGED <<currentId, drawn, task, stopping, held, stacked>>

\* An event of the stream of an answer says that it is done, and so does an
\* error of its model; an event for a message that is gone is dropped.
Done(r) ==
  messages' = IF r \in present THEN [messages EXCEPT ![r].done = TRUE]
              ELSE messages

ErrorArrives(r) ==
  /\ task[r] = "running"
  /\ Done(r)
  /\ UNCHANGED <<present, currentId, drawn, flight, held, ghosts>>

\* The last event of an answer.
DoneArrives(r) ==
  /\ task[r] = "running"
  /\ task' = [task EXCEPT ![r] = "over"]
  /\ Done(r)
  /\ UNCHANGED <<present, currentId, drawn, request, stopping, held, ghosts>>

\* Nothing more comes: the model never answers, for there is no timeout by
\* default, or answers without a choice, the task ends with an exception or
\* its events are lost while the socket is down.
FallsSilent(r) ==
  /\ \/ task[r] = "running"
     \/ task[r] = "none" /\ request[r] # None
  /\ task' = [task EXCEPT ![r] = "silent"]
  /\ UNCHANGED <<tree, drawn, request, stopping, held, ghosts>>

\* stopResponse: the tasks the client knows are stopped one by one, then the
\* answers beside the message on the screen are marked done.  Which tasks
\* it knows is left open.
StopResponse ==
  /\ ~stopping
  /\ \E r \in Id : request[r] = None /\ task[r] # "none"
  /\ stopping' = TRUE
  /\ UNCHANGED <<tree, drawn, request, task, held, ghosts>>

StopTask(r) ==
  /\ stopping /\ request[r] = None /\ task[r] = "running"
  /\ task' = [task EXCEPT ![r] = "cancelled"]
  /\ UNCHANGED <<tree, drawn, request, stopping, held, ghosts>>

Stopped ==
  LET u == messages[currentId].parentId IN
  /\ stopping
  /\ stopping' = FALSE
  /\ messages' =
       IF currentId \in present /\ u \in present
       THEN [m \in Id |->
               IF m \in messages[u].childrenIds \cap present
               THEN [messages[m] EXCEPT !.done = TRUE] ELSE messages[m]]
       ELSE messages
  /\ UNCHANGED <<present, currentId, drawn, request, task, held, ghosts>>

\* feedbackHandler and generateImage read a message, wait, and save what
\* they have read; feedbackHandler does so twice.
Hold(m) ==
  /\ m \in Shown
  /\ messages[m].role = "assistant" /\ messages[m].done
  /\ held[m] = None
  /\ Cardinality(Busy \cup {m}) <= MaxBusy
  /\ held' = [held EXCEPT ![m] = messages[m]]
  /\ UNCHANGED <<tree, drawn, flight, ghosts>>

SaveHeld(m) ==
  /\ held[m] # None
  /\ PutBack(m, held[m])
  /\ disturbed' = (disturbed \/ Overwrites(m, held[m]))
  /\ held' \in {held, [held EXCEPT ![m] = None]}
  /\ UNCHANGED <<currentId, drawn, flight, stacked>>

-----------------------------------------------------------------------------
Ask == \/ SubmitPrompt
       \/ \E m \in Id : SubmitMessage(m) \/ EditPrompt(m) \/ Regenerate(m)
       \/ ContinueResponse
Arrange == \/ CreateMessagePair
           \/ \E m \in Id : \/ CopyAnswer(m) \/ AddMessages(m)
                            \/ ShowMessage(m) \/ Delete(m)
Reply(r) == \/ PostArrives(r) \/ PostAnswered(r) \/ PostFails(r)
            \/ PostRefused(r) \/ ErrorArrives(r) \/ DoneArrives(r)
            \/ FallsSilent(r)
Stop == StopResponse \/ Stopped \/ \E r \in Id : StopTask(r)
Late == \E m \in Id : Hold(m) \/ SaveHeld(m)

Next == \/ Ask \/ Arrange \/ Stop \/ Late
        \/ \E r \in Id : Reply(r)

Spec == Init /\ [][Next]_vars

\* Of an answer that is asked for comes what is still to come, or nothing
\* more does: neither the server nor the user owes anything.
Fairness ==
  \A r \in Id : WF_vars(PostArrives(r) \/ DoneArrives(r) \/ FallsSilent(r))
FairSpec == Spec /\ Fairness

-----------------------------------------------------------------------------
TypeOK ==
  /\ messages \in [Id -> Message]
  /\ present \subseteq Id
  /\ currentId \in Id \cup {None}
  /\ drawn \in 0..MaxMessages
  /\ request \in [Id -> Id \cup {None, Live}]
  /\ task \in [Id -> {"none", "running", "over", "silent", "cancelled"}]
  /\ stopping \in BOOLEAN
  /\ held \in [Id -> Message \cup {None}]
  /\ disturbed \in BOOLEAN
  /\ stacked \in BOOLEAN

\* Links lead from newer to older messages and back, whatever is deleted or
\* put back late: the recursion of createMessagesList and the walks to the
\* end of a branch (Messages.svelte) always end.
NoCycle ==
  \A m \in present :
    /\ messages[m].parentId \in Id => messages[m].parentId < m
    /\ \A c \in messages[m].childrenIds : m < c

\* Prompts and answers alternate on every branch: deleteMessage takes out
\* two generations, so what it joins still fits.  They do until a prompt
\* that has no answer, as no model was found, gets a prompt below it.
Alternate ==
  ~disturbed /\ ~stacked =>
    \A m \in present :
      /\ messages[m].parentId \in Id =>
           messages[messages[m].parentId].role # messages[m].role
      /\ \A c \in messages[m].childrenIds :
           messages[c].role # messages[m].role

\* Both directions of the links agree and none leads to a message that is
\* gone, until a handler that waited puts back what it had read before.
WellFormed ==
  ~disturbed =>
    \A m \in present :
      /\ messages[m].parentId # None =>
           /\ messages[m].parentId \in present
           /\ m \in messages[messages[m].parentId].childrenIds
      /\ \A c \in messages[m].childrenIds :
           c \in present /\ messages[c].parentId = m

\* The history is one tree, of prompts and answers in turn.
AlternatingTree == WellFormed /\ Alternate

\* The conversation on the screen goes on to the end of a branch: whatever is
\* deleted, copied or shown, nothing hangs below the message that is shown
\* last, and the next prompt goes there.
ScreenEndsBranch ==
  ~disturbed =>
    \/ currentId = None /\ present = {}
    \/ currentId \in present /\ messages[currentId].childrenIds = {}

\* No step changes what was said before a message, but for what it deletes:
\* the conversation that leads to a message keeps its messages.
ConversationKept ==
  [][~disturbed' => \A m \in present \cap present' :
       Conversation'[m] = Conversation[m] \cap present']_vars

\* An answer that is asked for does not stay open: it is done, has failed
\* or is deleted, unless its task was stopped or nothing more comes of it.
\* (One that was stopped from another branch stays open: stopResponse marks
\* the branch on the screen.)
AnswersEnd ==
  \A r \in Id :
    (request[r] # None /\ task[r] = "none" /\ ~messages[r].done) ~>
      \/ r \notin present \/ messages[r].done
      \/ task[r] \in {"silent", "cancelled"} \/ disturbed
=============================================================================
