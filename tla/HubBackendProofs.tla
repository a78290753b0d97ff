-------------------------- MODULE HubBackendProofs --------------------------
(***************************************************************************)
(* The invariants of HubBackend for any number of chats, requests, agents  *)
(* and threads.  The invariant that is inductive (IInv) says where a chat  *)
(* is for every step its handlers can be at: in chats_db, in messages_db,  *)
(* past its deletion, and what a post has left in the chat's list.         *)
(***************************************************************************)
EXTENDS HubBackend, TLAPS

\* Past `del chats_db[chat_id]`.
Past(d) == step[d] \in {"unlisted", "emptying"} \/ outcome[d] = "ok"

\* A call has an outcome when it has ended, and each kind has its own steps.
Progress ==
  /\ \A k \in Call : step[k] = "ended" <=> outcome[k] # "none"
  /\ \A c \in Create : step[c] \in {"new", "found", "listed", "ended"}
  /\ \A d \in Delete : step[d] \in {"new", "found", "unlisted", "emptying", "ended"}
  /\ \A r \in Send : step[r] \in {"new", "found", "posted", "asking", "replied",
                                  "answered", "ended"}

\* What the step of its creation says of a chat.
ChatState ==
  \A c \in Create :
    /\ step[c] = "found" \/ c \in chats => AgentOf[c] \in agents
    /\ c \in chats => step[c] \in {"listed", "ended"}
    /\ c \in kept => step[c] = "ended"
    /\ c \in chats /\ step[c] = "ended" => c \in kept
    /\ step[c] # "ended" => log[c] = <<>>

\* What the deletes of a chat say of it.
DeleteState ==
  /\ \A d \in Delete :
       LET c == ChatOf[d]
       IN  /\ Past(d) => c \notin chats /\ step[c] \in {"listed", "ended"}
           /\ step[d] = "found" => step[c] \in {"listed", "ended"}
           /\ step[d] # "new" /\ c \notin ByListing => step[c] = "ended"
           /\ step[d] = "emptying" => c \in kept
           /\ outcome[d] = "ok" => c \in ByListing \/ c \notin kept
  /\ \A d, e \in Delete : ChatOf[d] = ChatOf[e] /\ Past(d) /\ Past(e) => d = e

\* What a post knows of its chat.
Knows(r) ==
  LET c == ChatOf[r]
  IN  /\ step[r] \notin {"new", "ended"} => c \in chats \/ Deleted(c)
      /\ step[r] \in {"posted", "asking", "replied", "answered"} => step[c] = "ended"
      /\ step[r] # "new" /\ c \notin ByListing => step[c] = "ended"
      /\ outcome[r] = "key error" => Deleted(c) \/ c \in ByListing

PostState == \A r \in Send : Knows(r)

\* What a post has left in the list of its chat.
NoEntry(l, r) == \A i \in DOMAIN l : l[i].post # r
OneEntry(l, r) ==
  \E i \in DOMAIN l : /\ l[i] = User(r)
                      /\ \A k \in DOMAIN l : l[k].post = r => k = i
TwoEntries(l, r) ==
  \E i, j \in DOMAIN l : /\ i < j /\ l[i] = User(r) /\ l[j] = Assistant(r)
                         /\ \A k \in DOMAIN l : l[k].post = r => k \in {i, j}

Left(r) ==
  LET l == log[ChatOf[r]]
  IN  /\ step[r] \in {"new", "found"} \/ outcome[r] = "missing" => NoEntry(l, r)
      /\ step[r] \in {"posted", "asking", "replied"} \/ outcome[r] = "invalid" =>
           OneEntry(l, r)
      /\ step[r] = "answered" \/ outcome[r] = "ok" => TwoEntries(l, r)
      /\ outcome[r] = "key error" =>
           \/ NoEntry(l, r)
           \/ (OneEntry(l, r) \/ TwoEntries(l, r)) /\ ChatOf[r] \notin chats
      /\ outcome[r] # "rejected"

LogState == \A r \in Send : Left(r)

IInv == TypeOK /\ Progress /\ ChatState /\ DeleteState /\ PostState /\ LogState

-----------------------------------------------------------------------------
(* What a step of one call leaves alone.                                   *)

LEMMA Kinds ==
  /\ \A c \in Create : c \in Call /\ c \notin Delete /\ c \notin Send /\ c \notin Register
  /\ \A d \in Delete : d \in Call /\ d \notin Create /\ d \notin Send /\ d \notin Register
  /\ \A r \in Send : r \in Call /\ r \notin Create /\ r \notin Delete /\ r \notin Register
  /\ \A r \in Register : r \in Call /\ r \notin Create /\ r \notin Delete /\ r \notin Send
  /\ \A k \in Delete \cup Send : ChatOf[k] \in Create
BY HubAssumption DEF Call

\* Only k moves.
Only(k) == \A j \in Call : j # k => step'[j] = step[j] /\ outcome'[j] = outcome[j]

LEMMA GoesFacts ==
  ASSUME TypeOK, NEW k \in Call, NEW s \in Steps, Goes(k, s)
  PROVE  /\ Only(k) /\ step'[k] = s /\ outcome'[k] = outcome[k]
         /\ step' \in [Call -> Steps] /\ outcome' \in [Call -> Outcomes]
BY DEF TypeOK, Goes, Only

LEMMA EndsFacts ==
  ASSUME TypeOK, NEW k \in Call, NEW what \in Outcomes, Ends(k, what)
  PROVE  /\ Only(k) /\ step'[k] = "ended" /\ outcome'[k] = what
         /\ step' \in [Call -> Steps] /\ outcome' \in [Call -> Outcomes]
BY DEF TypeOK, Ends, Only, Steps

\* A creation that is past a statement stays past it.
Advance ==
  \A c \in Create :
    /\ step[c] \in {"listed", "ended"} => step'[c] \in {"listed", "ended"}
    /\ step[c] = "ended" => step'[c] = "ended"

LEMMA ProgressHolds ==
  ASSUME IInv, NEW k \in Call, Only(k), step'[k] = "ended" <=> outcome'[k] # "none",
         k \in Create => step'[k] \in {"new", "found", "listed", "ended"},
         k \in Delete => step'[k] \in {"new", "found", "unlisted", "emptying", "ended"},
         k \in Send => step'[k] \in {"new", "found", "posted", "asking", "replied",
                                     "answered", "ended"}
  PROVE  Progress'
BY Kinds DEF IInv, Progress, Only

LEMMA ChatFrame ==
  ASSUME IInv, \A c \in Create : step'[c] = step[c],
         agents \subseteq agents', chats' \subseteq chats, kept' \subseteq kept,
         chats' \cap kept \subseteq kept',
         \A c \in Create : step[c] # "ended" => log'[c] = log[c]
  PROVE  ChatState'
BY DEF IInv, ChatState

LEMMA DeleteFrame ==
  ASSUME IInv, \A d \in Delete : step'[d] = step[d] /\ outcome'[d] = outcome[d],
         Advance, kept \subseteq kept',
         \A c \in chats' : c \in chats \/ step[c] = "found",
         \A c \in kept' : c \in kept \/ step[c] = "listed"
  PROVE  DeleteState'
<1>1. ASSUME NEW d \in Delete
      PROVE  LET c == ChatOf[d]
             IN  /\ Past(d)' => c \notin chats' /\ step'[c] \in {"listed", "ended"}
                 /\ step'[d] = "found" => step'[c] \in {"listed", "ended"}
                 /\ step'[d] # "new" /\ c \notin ByListing => step'[c] = "ended"
                 /\ step'[d] = "emptying" => c \in kept'
                 /\ outcome'[d] = "ok" => c \in ByListing \/ c \notin kept'
  <2> DEFINE c == ChatOf[d]
  <2>1. c \in Create /\ d \in Call
    BY Kinds
  <2>2. /\ Past(d) => c \notin chats /\ step[c] \in {"listed", "ended"}
        /\ step[d] = "found" => step[c] \in {"listed", "ended"}
        /\ step[d] # "new" /\ c \notin ByListing => step[c] = "ended"
        /\ step[d] = "emptying" => c \in kept
        /\ outcome[d] = "ok" => c \in ByListing \/ c \notin kept
        /\ outcome[d] = "ok" => step[d] = "ended"
    BY <2>1 DEF IInv, DeleteState, Progress
  <2> QED
    BY <2>1, <2>2 DEF Advance, Past
<1>2. \A d, e \in Delete : ChatOf[d] = ChatOf[e] /\ Past(d)' /\ Past(e)' => d = e
  BY DEF IInv, DeleteState, Past
<1> QED
  BY <1>1, <1>2 DEF DeleteState, Past

LEMMA PostFrame ==
  ASSUME IInv, \A r \in Send : step'[r] = step[r] /\ outcome'[r] = outcome[r],
         Advance, \A c \in Create : Deleted(c) => Deleted(c)',
         \A c \in chats : c \in chats' \/ Deleted(c)'
  PROVE  PostState'
<1> SUFFICES ASSUME NEW r \in Send PROVE Knows(r)'
  BY DEF PostState
<1>1. Knows(r) /\ ChatOf[r] \in Create
  BY Kinds DEF IInv, PostState
<1> QED
  BY <1>1 DEF Knows, Advance

LEMMA LogFrame ==
  ASSUME IInv, \A r \in Send : step'[r] = step[r] /\ outcome'[r] = outcome[r],
         log' = log, \A c \in chats' : c \in chats \/ log[c] = <<>>
  PROVE  LogState'
<1> SUFFICES ASSUME NEW r \in Send PROVE Left(r)'
  BY DEF LogState
<1>1. Left(r) /\ ChatOf[r] \in Create
  BY Kinds DEF IInv, LogState
<1>2. log[ChatOf[r]] = <<>> => NoEntry(log[ChatOf[r]], r)
  BY DEF NoEntry
<1> QED
  BY <1>1, <1>2 DEF Left

-----------------------------------------------------------------------------
(* Creating a chat.                                                        *)

\* What a step of a creation leaves alone.
LEMMA CreateFrame ==
  ASSUME IInv, NEW k \in Create, Only(k), Advance, log' = log, kept \subseteq kept',
         chats \subseteq chats', TypeOK',
         \A c \in chats' : c \in chats \/ step[c] = "found",
         \A c \in kept' : c \in kept \/ step[c] = "listed"
  PROVE  DeleteState' /\ PostState' /\ LogState'
<1>1. /\ \A d \in Delete : step'[d] = step[d] /\ outcome'[d] = outcome[d]
      /\ \A r \in Send : step'[r] = step[r] /\ outcome'[r] = outcome[r]
  BY Kinds DEF Only
<1>2. DeleteState'
  BY <1>1, DeleteFrame
<1>3. \A c \in Create : Deleted(c) => Deleted(c)'
  BY <1>1 DEF Deleted
<1>4. PostState'
  BY <1>1, <1>3, PostFrame
<1>5. \A c \in chats' : c \in chats \/ log[c] = <<>>
  BY DEF IInv, ChatState, TypeOK
<1> QED
  BY <1>1, <1>2, <1>4, <1>5, LogFrame

LEMMA CheckAgentKeeps ==
  ASSUME IInv, NEW k \in Create, CheckAgent(k)
  PROVE  IInv'
<1> USE Kinds
<1>1. /\ step[k] = "new" /\ UNCHANGED <<agents, chats, kept, log, reply>>
      /\ k \in Call /\ TypeOK
  BY DEF CheckAgent, At, IInv
<1>2. /\ Only(k) /\ step' \in [Call -> Steps] /\ outcome' \in [Call -> Outcomes]
      /\ \/ step'[k] = "found" /\ outcome'[k] = "none" /\ AgentOf[k] \in agents
         \/ step'[k] = "ended" /\ outcome'[k] = "missing"
  <2>1. outcome[k] = "none"
    BY <1>1 DEF IInv, Progress, TypeOK
  <2>2. CASE AgentExists(k)
    BY <1>1, <2>1, <2>2, GoesFacts DEF CheckAgent, AgentExists, Steps
  <2>3. CASE ~AgentExists(k)
    BY <1>1, <2>3, EndsFacts DEF CheckAgent, Outcomes
  <2> QED BY <2>2, <2>3
<1>3. TypeOK'
  BY <1>1, <1>2 DEF TypeOK
<1>4. Progress'
  BY <1>1, <1>2, ProgressHolds
<1>5. Advance
  BY <1>1, <1>2 DEF Advance, Only
<1>6. ChatState'
  BY <1>1, <1>2 DEF IInv, ChatState, Only
<1>7. DeleteState' /\ PostState' /\ LogState'
  BY <1>1, <1>2, <1>3, <1>5, CreateFrame
<1> QED BY <1>3, <1>4, <1>6, <1>7 DEF IInv

LEMMA ListChatKeeps ==
  ASSUME IInv, NEW k \in Create, ListChat(k)
  PROVE  IInv'
<1> USE Kinds
<1>1. /\ step[k] = "found" /\ chats' = chats \cup {k} /\ UNCHANGED <<agents, kept, log, reply>>
      /\ k \in Call /\ TypeOK
  BY DEF ListChat, At, IInv
<1>2. /\ Only(k) /\ step' \in [Call -> Steps] /\ outcome' \in [Call -> Outcomes]
      /\ step'[k] = "listed" /\ outcome'[k] = "none"
  <2>1. outcome[k] = "none"
    BY <1>1 DEF IInv, Progress, TypeOK
  <2> QED BY <1>1, <2>1, GoesFacts DEF ListChat, Steps
<1>3. TypeOK'
  BY <1>1, <1>2 DEF TypeOK
<1>4. Progress'
  BY <1>1, <1>2, ProgressHolds
<1>5. Advance
  BY <1>1, <1>2 DEF Advance, Only
<1>6. ChatState'
  BY <1>1, <1>2 DEF IInv, ChatState, Only
<1>7. DeleteState' /\ PostState' /\ LogState'
  BY <1>1, <1>2, <1>3, <1>5, CreateFrame
<1> QED BY <1>3, <1>4, <1>6, <1>7 DEF IInv

LEMMA OpenLogKeeps ==
  ASSUME IInv, NEW k \in Create, OpenLog(k)
  PROVE  IInv'
<1> USE Kinds
<1>1. /\ step[k] = "listed" /\ kept' = kept \cup {k} /\ UNCHANGED <<agents, chats, reply>>
      /\ k \in Call /\ TypeOK
  BY DEF OpenLog, At, IInv, MakesList
<1>2. /\ Only(k) /\ step' \in [Call -> Steps] /\ outcome' \in [Call -> Outcomes]
      /\ step'[k] = "ended" /\ outcome'[k] = "ok"
  BY <1>1, EndsFacts DEF OpenLog, Outcomes
<1>3. log' = log
  <2>1. log[k] = <<>> /\ log' = [log EXCEPT ![k] = <<>>]
    BY <1>1 DEF IInv, ChatState, OpenLog
  <2> QED BY <1>1, <2>1 DEF TypeOK
<1>4. TypeOK'
  BY <1>1, <1>2, <1>3 DEF TypeOK
<1>5. Progress'
  BY <1>1, <1>2, ProgressHolds
<1>6. Advance
  BY <1>1, <1>2 DEF Advance, Only
<1>7. ChatState'
  BY <1>1, <1>2, <1>3 DEF IInv, ChatState, Only
<1>8. DeleteState' /\ PostState' /\ LogState'
  BY <1>1, <1>2, <1>3, <1>4, <1>6, CreateFrame
<1> QED BY <1>4, <1>5, <1>7, <1>8 DEF IInv

-----------------------------------------------------------------------------
(* Deleting a chat.                                                        *)

\* What a step of a deletion leaves alone.
LEMMA RemovalFrame ==
  ASSUME IInv, NEW k \in Delete, Only(k), log' = log, UNCHANGED agents,
         kept' \subseteq kept, chats' \subseteq chats,
         chats' \cap kept \subseteq kept',
         \A c \in Create : Deleted(c) => Deleted(c)',
         \A c \in chats : c \in chats' \/ Deleted(c)'
  PROVE  ChatState' /\ PostState' /\ LogState'
<1>1. /\ \A c \in Create : step'[c] = step[c]
      /\ \A r \in Send : step'[r] = step[r] /\ outcome'[r] = outcome[r]
  BY Kinds DEF Only
<1>2. ChatState'
  BY <1>1, ChatFrame
<1>3. Advance
  BY <1>1 DEF Advance
<1>4. PostState'
  BY <1>1, <1>3, PostFrame
<1> QED
  BY <1>1, <1>2, <1>4, LogFrame

\* Deletes other than k, and pairs of deletes, after a step of k.
LEMMA OtherDeletes ==
  ASSUME IInv, NEW k \in Delete, Only(k), kept' \subseteq kept, chats' \subseteq chats,
         \A c \in kept : c \in kept' \/ c = ChatOf[k],
         \A d \in Delete : d # k /\ ChatOf[d] = ChatOf[k] /\ kept' # kept =>
           step[d] # "emptying",
         Past(k)' => Past(k) \/ \A d \in Delete : ChatOf[d] = ChatOf[k] => ~Past(d),
         LET c == ChatOf[k]
         IN  /\ Past(k)' => c \notin chats' /\ step[c] \in {"listed", "ended"}
             /\ step'[k] = "found" => step[c] \in {"listed", "ended"}
             /\ step'[k] # "new" /\ c \notin ByListing => step[c] = "ended"
             /\ step'[k] = "emptying" => c \in kept'
             /\ outcome'[k] = "ok" => c \in ByListing \/ c \notin kept'
  PROVE  DeleteState'
<1> USE Kinds
<1>1. /\ \A c \in Create : step'[c] = step[c]
      /\ \A d \in Delete : d # k => step'[d] = step[d] /\ outcome'[d] = outcome[d]
  BY DEF Only
<1>2. ASSUME NEW d \in Delete
      PROVE  LET c == ChatOf[d]
             IN  /\ Past(d)' => c \notin chats' /\ step'[c] \in {"listed", "ended"}
                 /\ step'[d] = "found" => step'[c] \in {"listed", "ended"}
                 /\ step'[d] # "new" /\ c \notin ByListing => step'[c] = "ended"
                 /\ step'[d] = "emptying" => c \in kept'
                 /\ outcome'[d] = "ok" => c \in ByListing \/ c \notin kept'
  <2>1. CASE d = k
    BY <1>1, <2>1
  <2>2. CASE d # k
    BY <1>1, <2>2 DEF IInv, DeleteState, Past
  <2> QED BY <2>1, <2>2
<1>3. ASSUME NEW d \in Delete, NEW e \in Delete, ChatOf[d] = ChatOf[e], Past(d)', Past(e)'
      PROVE  d = e
  BY <1>1, <1>3 DEF IInv, DeleteState, Past
<1> QED
  BY <1>2, <1>3 DEF DeleteState, Past

LEMMA CheckDeleteKeeps ==
  ASSUME IInv, NEW k \in Delete, CheckDelete(k)
  PROVE  IInv'
<1> USE Kinds
<1> DEFINE c == ChatOf[k]
<1>1. /\ step[k] = "new" /\ UNCHANGED <<agents, chats, kept, log, reply>>
      /\ k \in Call /\ c \in Create /\ TypeOK /\ outcome[k] = "none"
      /\ c \notin ByListing => step[c] = "ended"
  BY DEF CheckDelete, At, IInv, Progress, TypeOK, Known
<1>2. /\ Only(k) /\ step' \in [Call -> Steps] /\ outcome' \in [Call -> Outcomes]
      /\ \/ step'[k] = "found" /\ outcome'[k] = "none" /\ c \in chats
         \/ step'[k] = "ended" /\ outcome'[k] = "missing"
  <2>1. CASE c \in chats
    BY <1>1, <2>1, GoesFacts DEF CheckDelete, Steps
  <2>2. CASE c \notin chats
    BY <1>1, <2>2, EndsFacts DEF CheckDelete, Outcomes
  <2> QED BY <2>1, <2>2
<1>3. TypeOK'
  BY <1>1, <1>2 DEF TypeOK
<1>4. Progress'
  BY <1>1, <1>2, ProgressHolds
<1>5. \A b \in Create : Deleted(b) => Deleted(b)'
  BY <1>1, <1>2 DEF Deleted, Only
<1>6. ChatState' /\ PostState' /\ LogState'
  BY <1>1, <1>2, <1>5, RemovalFrame
<1>7. c \in chats => step[c] \in {"listed", "ended"}
  BY <1>1 DEF IInv, ChatState
<1>8. ~Past(k)'
  BY <1>2 DEF Past
<1>9. DeleteState'
  BY <1>1, <1>2, <1>7, <1>8, OtherDeletes
<1> QED BY <1>3, <1>4, <1>6, <1>9 DEF IInv

LEMMA UnlistKeeps ==
  ASSUME IInv, NEW k \in Delete, Unlist(k)
  PROVE  IInv'
<1> USE Kinds
<1> DEFINE c == ChatOf[k]
<1>1. /\ step[k] = "found" /\ UNCHANGED <<agents, kept, log, reply>>
      /\ chats' = chats \ {c}
      /\ k \in Call /\ c \in Create /\ TypeOK /\ outcome[k] = "none"
      /\ step[c] \in {"listed", "ended"}
      /\ c \notin ByListing => step[c] = "ended"
  BY DEF Unlist, At, IInv, Progress, TypeOK, DeleteState
<1>2. /\ Only(k) /\ step' \in [Call -> Steps] /\ outcome' \in [Call -> Outcomes]
      /\ \/ step'[k] = "unlisted" /\ outcome'[k] = "none" /\ c \in chats
         \/ step'[k] = "ended" /\ outcome'[k] = "key error" /\ c \notin chats
  <2>1. CASE c \in chats
    BY <1>1, <2>1, GoesFacts DEF Unlist, Keyed, StillListed, Steps
  <2>2. CASE c \notin chats
    BY <1>1, <2>2, EndsFacts DEF Unlist, Keyed, StillListed, Outcomes
  <2> QED BY <2>1, <2>2
<1>3. TypeOK'
  BY <1>1, <1>2 DEF TypeOK
<1>4. Progress'
  BY <1>1, <1>2, ProgressHolds
<1>5. \A b \in Create : Deleted(b) => Deleted(b)'
  BY <1>1, <1>2 DEF Deleted, Only
<1>6. \A b \in chats : b \in chats' \/ Deleted(b)'
  BY <1>1, <1>2 DEF Deleted
<1>7. ChatState' /\ PostState' /\ LogState'
  BY <1>1, <1>2, <1>5, <1>6, RemovalFrame
<1>8. Past(k)' => \A d \in Delete : ChatOf[d] = c => ~Past(d)
  BY <1>2 DEF IInv, DeleteState, Past
<1>9. DeleteState'
  BY <1>1, <1>2, <1>8, OtherDeletes
<1> QED BY <1>3, <1>4, <1>7, <1>9 DEF IInv

LEMMA CheckLogKeeps ==
  ASSUME IInv, NEW k \in Delete, CheckLog(k)
  PROVE  IInv'
<1> USE Kinds
<1> DEFINE c == ChatOf[k]
<1>1. /\ step[k] = "unlisted" /\ UNCHANGED <<agents, chats, kept, log, reply>>
      /\ k \in Call /\ c \in Create /\ TypeOK /\ outcome[k] = "none"
      /\ Past(k)
  BY DEF CheckLog, At, IInv, Progress, TypeOK, Past
<1>2. c \notin chats /\ step[c] \in {"listed", "ended"} /\ (c \notin ByListing => step[c] = "ended")
  BY <1>1 DEF IInv, DeleteState
<1>3. /\ Only(k) /\ step' \in [Call -> Steps] /\ outcome' \in [Call -> Outcomes]
      /\ \/ step'[k] = "emptying" /\ outcome'[k] = "none" /\ c \in kept
         \/ step'[k] = "ended" /\ outcome'[k] = "ok" /\ c \notin kept
  <2>1. CASE c \in kept
    BY <1>1, <2>1, GoesFacts DEF CheckLog, Steps
  <2>2. CASE c \notin kept
    BY <1>1, <2>2, EndsFacts DEF CheckLog, Outcomes
  <2> QED BY <2>1, <2>2
<1>4. TypeOK'
  BY <1>1, <1>3 DEF TypeOK
<1>5. Progress'
  BY <1>1, <1>3, ProgressHolds
<1>6. \A b \in Create : Deleted(b) => Deleted(b)'
  BY <1>1, <1>3 DEF Deleted, Only
<1>7. ChatState' /\ PostState' /\ LogState'
  BY <1>1, <1>3, <1>6, RemovalFrame
<1>8. DeleteState'
  BY <1>1, <1>2, <1>3, OtherDeletes
<1> QED BY <1>4, <1>5, <1>7, <1>8 DEF IInv

LEMMA DropLogKeeps ==
  ASSUME IInv, NEW k \in Delete, DropLog(k)
  PROVE  IInv'
<1> USE Kinds
<1> DEFINE c == ChatOf[k]
<1>1. /\ step[k] = "emptying" /\ UNCHANGED <<agents, chats, log, reply>>
      /\ kept' = kept \ {c}
      /\ k \in Call /\ c \in Create /\ TypeOK /\ Past(k)
  BY DEF DropLog, Empties, At, IInv, TypeOK, Past
<1>2. /\ c \notin chats /\ step[c] \in {"listed", "ended"} /\ c \in kept
      /\ c \notin ByListing => step[c] = "ended"
  BY <1>1 DEF IInv, DeleteState
<1>3. /\ Only(k) /\ step' \in [Call -> Steps] /\ outcome' \in [Call -> Outcomes]
      /\ step'[k] = "ended" /\ outcome'[k] = "ok"
  BY <1>1, <1>2, EndsFacts DEF DropLog, Outcomes
<1>4. TypeOK'
  BY <1>1, <1>3 DEF TypeOK
<1>5. Progress'
  BY <1>1, <1>3, ProgressHolds
<1>6. \A b \in Create : Deleted(b) => Deleted(b)'
  BY <1>1, <1>3 DEF Deleted, Only
<1>7. ChatState' /\ PostState' /\ LogState'
  BY <1>1, <1>2, <1>3, <1>6, RemovalFrame
<1>8. \A d \in Delete : d # k /\ ChatOf[d] = c => step[d] # "emptying"
  BY <1>1 DEF IInv, DeleteState, Past
<1>9. DeleteState'
  BY <1>1, <1>2, <1>3, <1>8, OtherDeletes
<1> QED BY <1>4, <1>5, <1>7, <1>9 DEF IInv

-----------------------------------------------------------------------------
(* Posting a message.                                                      *)

\* What the list of a chat holds of a post when another entry is appended.
LEMMA Appended ==
  ASSUME NEW l \in Seq(Message), NEW m \in Message, NEW r \in Send
  PROVE  LET t == Append(l, m)
         IN  /\ t \in Seq(Message)
             /\ m.post # r => /\ NoEntry(l, r) => NoEntry(t, r)
                              /\ OneEntry(l, r) => OneEntry(t, r)
                              /\ TwoEntries(l, r) => TwoEntries(t, r)
             /\ m = User(r) /\ NoEntry(l, r) => OneEntry(t, r)
             /\ m = Assistant(r) /\ OneEntry(l, r) => TwoEntries(t, r)
<1> DEFINE t == Append(l, m)
<1>1. /\ t \in Seq(Message) /\ DOMAIN t = DOMAIN l \cup {Len(l) + 1}
      /\ DOMAIN l = 1 .. Len(l) /\ Len(l) \in Nat
      /\ \A i \in DOMAIN l : t[i] = l[i]
      /\ t[Len(l) + 1] = m
  OBVIOUS
<1> HIDE DEF t
<1>2. ASSUME m.post # r
      PROVE  /\ NoEntry(l, r) => NoEntry(t, r)
             /\ OneEntry(l, r) => OneEntry(t, r)
             /\ TwoEntries(l, r) => TwoEntries(t, r)
  <2>1. NoEntry(l, r) => NoEntry(t, r)
    BY <1>1, <1>2 DEF NoEntry
  <2>2. OneEntry(l, r) => OneEntry(t, r)
    BY <1>1, <1>2 DEF OneEntry
  <2>3. TwoEntries(l, r) => TwoEntries(t, r)
    BY <1>1, <1>2 DEF TwoEntries
  <2> QED BY <2>1, <2>2, <2>3
<1>3. ASSUME m = User(r), NoEntry(l, r) PROVE OneEntry(t, r)
  BY <1>1, <1>3 DEF NoEntry, OneEntry
<1>4. ASSUME m = Assistant(r), OneEntry(l, r) PROVE TwoEntries(t, r)
  <2>1. PICK i \in DOMAIN l : l[i] = User(r) /\ \A k \in DOMAIN l : l[k].post = r => k = i
    BY <1>4 DEF OneEntry
  <2>2. i < Len(l) + 1
    BY <1>1
  <2> QED BY <1>1, <1>4, <2>1, <2>2 DEF TwoEntries
<1> QED
  BY <1>1, <1>2, <1>3, <1>4 DEF t

\* What a step of a post leaves alone.
LEMMA SendFrame ==
  ASSUME IInv, NEW k \in Send, Only(k), UNCHANGED <<agents, chats, kept>>,
         \A c \in Create : step[c] # "ended" => log'[c] = log[c]
  PROVE  ChatState' /\ DeleteState' /\ Advance
<1>1. /\ \A c \in Create : step'[c] = step[c]
      /\ \A d \in Delete : step'[d] = step[d] /\ outcome'[d] = outcome[d]
  BY Kinds DEF Only
<1>2. Advance
  BY <1>1 DEF Advance
<1> QED
  BY <1>1, <1>2, ChatFrame, DeleteFrame

\* The other posts, after a step of k that may append an entry of its own.
LEMMA OtherPosts ==
  ASSUME IInv, NEW k \in Send, Only(k), UNCHANGED <<agents, chats, kept>>,
         \/ log' = log
         \/ \E m \in Message : m.post = k /\ log' = [log EXCEPT ![ChatOf[k]] = Append(@, m)],
         Knows(k)', Left(k)'
  PROVE  PostState' /\ LogState'
<1> USE Kinds
<1>1. /\ \A c \in Create : step'[c] = step[c] /\ (Deleted(c)' <=> Deleted(c))
      /\ \A r \in Send : r # k => step'[r] = step[r] /\ outcome'[r] = outcome[r]
  BY DEF Only, Deleted
<1>2. ASSUME NEW r \in Send, r # k PROVE Knows(r)'
  BY <1>1, <1>2 DEF IInv, PostState, Knows
<1>3. ASSUME NEW r \in Send, r # k PROVE Left(r)'
  <2>1. /\ Left(r) /\ ChatOf[r] \in Create /\ ChatOf[k] \in Create
        /\ log[ChatOf[r]] \in Seq(Message) /\ log \in [Create -> Seq(Message)]
    BY DEF IInv, LogState, TypeOK
  <2>2. /\ NoEntry(log[ChatOf[r]], r) => NoEntry(log'[ChatOf[r]], r)
        /\ OneEntry(log[ChatOf[r]], r) => OneEntry(log'[ChatOf[r]], r)
        /\ TwoEntries(log[ChatOf[r]], r) => TwoEntries(log'[ChatOf[r]], r)
    <3>1. CASE log'[ChatOf[r]] = log[ChatOf[r]]
      BY <3>1
    <3>2. CASE log'[ChatOf[r]] # log[ChatOf[r]]
      <4>1. PICK m \in Message : m.post = k /\ log' = [log EXCEPT ![ChatOf[k]] = Append(@, m)]
        BY <3>2
      <4>2. log'[ChatOf[r]] = Append(log[ChatOf[r]], m)
        BY <2>1, <3>2, <4>1
      <4> QED BY <1>3, <2>1, <4>1, <4>2, Appended
    <3> QED BY <3>1, <3>2
  <2> QED BY <1>1, <1>3, <2>1, <2>2 DEF Left
<1> QED
  BY <1>2, <1>3 DEF PostState, LogState

\* What the invariant says of k, its chat and its list.
LEMMA PostFacts ==
  ASSUME IInv, NEW k \in Send
  PROVE  /\ TypeOK /\ k \in Call /\ ChatOf[k] \in Create /\ Knows(k) /\ Left(k)
         /\ log[ChatOf[k]] \in Seq(Message)
         /\ step[k] # "ended" => outcome[k] = "none"
BY Kinds DEF IInv, TypeOK, Progress, PostState, LogState

\* A step of k that stores nothing.
LEMMA QuietPost ==
  ASSUME IInv, NEW k \in Send, Only(k), UNCHANGED <<agents, chats, kept, log>>,
         step' \in [Call -> Steps], outcome' \in [Call -> Outcomes],
         reply' \in [Send -> {"none", "text", "object"}],
         step'[k] = "ended" <=> outcome'[k] # "none",
         step'[k] \in {"new", "found", "posted", "asking", "replied", "answered", "ended"},
         Deleted(ChatOf[k])' = Deleted(ChatOf[k]) /\ step'[ChatOf[k]] = step[ChatOf[k]] =>
           Knows(k)' /\ Left(k)'
  PROVE  IInv'
<1> USE Kinds
<1>1. TypeOK'
  BY DEF IInv, TypeOK
<1>2. Progress'
  BY ProgressHolds
<1>3. ChatState' /\ DeleteState'
  BY SendFrame
<1>4. Deleted(ChatOf[k])' = Deleted(ChatOf[k]) /\ step'[ChatOf[k]] = step[ChatOf[k]]
  BY DEF Only, Deleted
<1>5. PostState' /\ LogState'
  BY <1>4, OtherPosts
<1> QED BY <1>1, <1>2, <1>3, <1>5 DEF IInv

LEMMA CheckChatKeeps ==
  ASSUME IInv, NEW k \in Send, CheckChat(k)
  PROVE  IInv'
<1> DEFINE c == ChatOf[k]
<1>1. /\ step[k] = "new" /\ UNCHANGED <<agents, chats, kept, log, reply>>
      /\ c \notin ByListing => step[c] = "ended"
  BY DEF CheckChat, At, Known
<1>2. /\ Only(k) /\ step' \in [Call -> Steps] /\ outcome' \in [Call -> Outcomes]
      /\ \/ step'[k] = "found" /\ outcome'[k] = "none" /\ c \in chats
         \/ step'[k] = "ended" /\ outcome'[k] = "missing"
  <2>1. CASE c \in chats
    BY <1>1, <2>1, GoesFacts, PostFacts DEF CheckChat, Steps
  <2>2. CASE c \notin chats
    BY <1>1, <2>2, EndsFacts, PostFacts DEF CheckChat, Outcomes
  <2> QED BY <2>1, <2>2
<1> QED BY <1>1, <1>2, PostFacts, QuietPost DEF Knows, Left, TypeOK

LEMMA FindAgentKeeps ==
  ASSUME IInv, NEW k \in Send, FindAgent(k)
  PROVE  IInv'
<1> DEFINE c == ChatOf[k]
<1>1. /\ step[k] = "posted" /\ UNCHANGED <<agents, chats, kept, log, reply>>
      /\ c \in chats => AgentOf[c] \in agents
  BY PostFacts DEF FindAgent, At, IInv, ChatState
<1>2. /\ Only(k) /\ step' \in [Call -> Steps] /\ outcome' \in [Call -> Outcomes]
      /\ \/ step'[k] = "asking" /\ outcome'[k] = "none"
         \/ step'[k] = "ended" /\ outcome'[k] = "key error" /\ c \notin chats
  <2>1. CASE c \in chats
    BY <1>1, <2>1, GoesFacts, PostFacts DEF FindAgent, Keyed, Steps
  <2>2. CASE c \notin chats
    BY <1>1, <2>2, EndsFacts, PostFacts DEF FindAgent, Keyed, Outcomes
  <2> QED BY <2>1, <2>2
<1> QED BY <1>1, <1>2, PostFacts, QuietPost DEF Knows, Left, TypeOK

LEMMA AgentRepliesKeeps ==
  ASSUME IInv, NEW k \in Send, AgentReplies(k) \/ AgentTimesOut(k)
  PROVE  IInv'
<1>1. /\ step[k] = "asking" /\ UNCHANGED <<agents, chats, kept, log>> /\ Goes(k, "replied")
      /\ reply' \in [Send -> {"none", "text", "object"}]
  BY PostFacts DEF AgentReplies, AgentTimesOut, GivesUp, At, TypeOK
<1>2. /\ Only(k) /\ step' \in [Call -> Steps] /\ outcome' \in [Call -> Outcomes]
      /\ step'[k] = "replied" /\ outcome'[k] = "none"
  BY <1>1, GoesFacts, PostFacts DEF Steps
<1> QED BY <1>1, <1>2, PostFacts, QuietPost DEF Knows, Left

LEMMA RefuseReplyKeeps ==
  ASSUME IInv, NEW k \in Send, RefuseReply(k)
  PROVE  IInv'
<1>1. step[k] = "replied" /\ UNCHANGED <<agents, chats, kept, log, reply>>
  BY DEF RefuseReply, At
<1>2. /\ Only(k) /\ step' \in [Call -> Steps] /\ outcome' \in [Call -> Outcomes]
      /\ step'[k] = "ended" /\ outcome'[k] = "invalid"
  BY <1>1, EndsFacts, PostFacts DEF RefuseReply, Outcomes
<1> QED BY <1>1, <1>2, PostFacts, QuietPost DEF Knows, Left, TypeOK

LEMMA TouchChatKeeps ==
  ASSUME IInv, NEW k \in Send, TouchChat(k)
  PROVE  IInv'
<1> DEFINE c == ChatOf[k]
<1>1. step[k] = "answered" /\ UNCHANGED <<agents, chats, kept, log, reply>>
  BY DEF TouchChat, At
<1>2. /\ Only(k) /\ step' \in [Call -> Steps] /\ outcome' \in [Call -> Outcomes]
      /\ step'[k] = "ended"
      /\ \/ outcome'[k] = "ok"
         \/ outcome'[k] = "key error" /\ c \notin chats
  <2>1. CASE c \in chats
    BY <1>1, <2>1, EndsFacts, PostFacts DEF TouchChat, Outcomes
  <2>2. CASE c \notin chats
    BY <1>1, <2>2, EndsFacts, PostFacts DEF TouchChat, Outcomes
  <2> QED BY <2>1, <2>2
<1> QED BY <1>1, <1>2, PostFacts, QuietPost DEF Knows, Left, TypeOK

\* A function updated in its range.
LEMMA Update ==
  ASSUME NEW A, NEW S, NEW f \in [A -> S], NEW a \in A, NEW v \in S
  PROVE  [f EXCEPT ![a] = v] \in [A -> S]
OBVIOUS

\* A step of k that appends its own entry m, or raises KeyError and does not.
LEMMA StoringPost ==
  ASSUME IInv, NEW k \in Send, NEW m \in Message, m.post = k,
         Only(k), UNCHANGED <<agents, chats, kept, reply>>,
         step' \in [Call -> Steps], outcome' \in [Call -> Outcomes],
         step'[k] = "ended" <=> outcome'[k] # "none",
         step'[k] \in {"posted", "answered", "ended"},
         \/ ChatOf[k] \notin kept /\ log' = log
         \/ ChatOf[k] \in kept /\ log' = [log EXCEPT ![ChatOf[k]] = Append(@, m)],
         Deleted(ChatOf[k])' = Deleted(ChatOf[k]) /\ step'[ChatOf[k]] = step[ChatOf[k]] =>
           Knows(k)' /\ Left(k)'
  PROVE  IInv'
<1> USE Kinds
<1>1. TypeOK'
  <2>1. log[ChatOf[k]] \in Seq(Message) /\ ChatOf[k] \in Create /\ TypeOK
    BY PostFacts
  <2>2. Append(log[ChatOf[k]], m) \in Seq(Message)
    BY <2>1
  <2>3. log \in [Create -> Seq(Message)]
    BY <2>1 DEF TypeOK
  <2> DEFINE more == Append(log[ChatOf[k]], m)
  <2>4. [log EXCEPT ![ChatOf[k]] = more] \in [Create -> Seq(Message)]
    <3>1. more \in Seq(Message)
      BY <2>2
    <3> HIDE DEF more
    <3> QED BY <2>1, <2>3, <3>1, Update
  <2>5. log' \in [Create -> Seq(Message)]
    BY <2>3, <2>4
  <2> QED BY <2>1, <2>5 DEF TypeOK
<1>2. Progress'
  BY ProgressHolds, PostFacts
<1>3. \A c \in Create : step[c] # "ended" => log'[c] = log[c]
  BY PostFacts DEF IInv, ChatState, TypeOK
<1>4. ChatState' /\ DeleteState'
  BY <1>3, SendFrame
<1>5. Deleted(ChatOf[k])' = Deleted(ChatOf[k]) /\ step'[ChatOf[k]] = step[ChatOf[k]]
  BY DEF Only, Deleted
<1>6. PostState' /\ LogState'
  BY <1>5, OtherPosts
<1> QED BY <1>1, <1>2, <1>4, <1>6 DEF IInv

LEMMA StoreMessageKeeps ==
  ASSUME IInv, NEW k \in Send, StoreMessage(k)
  PROVE  IInv'
<1> DEFINE c == ChatOf[k]
<1>1. /\ step[k] = "found" /\ UNCHANGED <<agents, chats, kept, reply>>
      /\ User(k) \in Message /\ User(k).post = k
      /\ \/ c \notin kept /\ log' = log /\ Ends(k, "key error")
         \/ /\ c \in kept /\ Goes(k, "posted")
            /\ log' = [log EXCEPT ![c] = Append(@, User(k))]
  BY DEF StoreMessage, At, Stores, Keyed, User, Message
<1>2. c \in chats /\ step[c] = "ended" => c \in kept
  BY PostFacts DEF IInv, ChatState
<1>3. c \in kept => step[c] = "ended"
  BY PostFacts DEF IInv, ChatState
<1>4. /\ Only(k) /\ step' \in [Call -> Steps] /\ outcome' \in [Call -> Outcomes]
      /\ \/ c \notin kept /\ step'[k] = "ended" /\ outcome'[k] = "key error"
         \/ c \in kept /\ step'[k] = "posted" /\ outcome'[k] = "none"
  <2>1. CASE c \notin kept
    BY <1>1, <2>1, EndsFacts, PostFacts DEF Outcomes
  <2>2. CASE c \in kept
    BY <1>1, <2>2, GoesFacts, PostFacts DEF Steps
  <2> QED BY <2>1, <2>2
<1>5. NoEntry(log[c], k)
  BY <1>1, PostFacts DEF Left
<1>6. /\ c \notin kept => NoEntry(log'[c], k)
      /\ c \in kept => OneEntry(log'[c], k)
  <2>1. OneEntry(Append(log[c], User(k)), k)
    BY <1>1, <1>5, PostFacts, Appended
  <2> QED BY <1>1, <1>5, <2>1, PostFacts DEF TypeOK
<1>7. Deleted(c)' = Deleted(c) /\ step'[c] = step[c] => Knows(k)' /\ Left(k)'
  BY <1>1, <1>2, <1>3, <1>4, <1>6, PostFacts DEF Knows, Left
<1> QED
  BY <1>1, <1>4, <1>7, StoringPost

LEMMA StoreReplyKeeps ==
  ASSUME IInv, NEW k \in Send, StoreReply(k)
  PROVE  IInv'
<1> DEFINE c == ChatOf[k]
<1>1. /\ step[k] = "replied" /\ UNCHANGED <<agents, chats, kept, reply>>
      /\ Assistant(k) \in Message /\ Assistant(k).post = k
      /\ \/ c \notin kept /\ log' = log /\ Ends(k, "key error")
         \/ /\ c \in kept /\ Goes(k, "answered")
            /\ log' = [log EXCEPT ![c] = Append(@, Assistant(k))]
  BY DEF StoreReply, At, Stores, Keyed, Assistant, Message
<1>2. step[c] = "ended" /\ (c \in chats => c \in kept)
  BY <1>1, PostFacts DEF IInv, ChatState, Knows
<1>3. /\ Only(k) /\ step' \in [Call -> Steps] /\ outcome' \in [Call -> Outcomes]
      /\ \/ c \notin kept /\ step'[k] = "ended" /\ outcome'[k] = "key error"
         \/ c \in kept /\ step'[k] = "answered" /\ outcome'[k] = "none"
  <2>1. CASE c \notin kept
    BY <1>1, <2>1, EndsFacts, PostFacts DEF Outcomes
  <2>2. CASE c \in kept
    BY <1>1, <2>2, GoesFacts, PostFacts DEF Steps
  <2> QED BY <2>1, <2>2
<1>4. OneEntry(log[c], k)
  BY <1>1, PostFacts DEF Left
<1>5. /\ c \notin kept => OneEntry(log'[c], k)
      /\ c \in kept => TwoEntries(log'[c], k)
  <2>1. TwoEntries(Append(log[c], Assistant(k)), k)
    BY <1>1, <1>4, PostFacts, Appended
  <2> QED BY <1>1, <1>4, <2>1, PostFacts DEF TypeOK
<1>6. Deleted(c)' = Deleted(c) /\ step'[c] = step[c] => Knows(k)' /\ Left(k)'
  BY <1>1, <1>2, <1>3, <1>5, PostFacts DEF Knows, Left
<1> QED
  BY <1>1, <1>3, <1>6, StoringPost

-----------------------------------------------------------------------------
(* Registering an agent.                                                   *)

LEMMA RegisterKeeps ==
  ASSUME IInv, NEW k \in Register, RegisterStep(k)
  PROVE  IInv'
<1> USE Kinds
<1>1. /\ TypeOK /\ k \in Call /\ step[k] # "ended" /\ outcome[k] = "none"
      /\ agents \subseteq agents' /\ agents' \subseteq agents \cup {k}
      /\ UNCHANGED <<chats, kept, log, reply>>
  BY DEF RegisterStep, RegisterAgent, FetchWellKnown, CardFetched, At, IInv, Progress, TypeOK
<1>2. /\ Only(k) /\ step' \in [Call -> Steps] /\ outcome' \in [Call -> Outcomes]
      /\ step'[k] = "ended" <=> outcome'[k] # "none"
  <2>1. \/ Goes(k, "fetching")
        \/ \E what \in {"ok", "rejected", "invalid"} : Ends(k, what)
    BY DEF RegisterStep, RegisterAgent, FetchWellKnown, CardFetched
  <2>2. CASE Goes(k, "fetching")
    BY <1>1, <2>2, GoesFacts DEF Steps
  <2>3. CASE \E what \in {"ok", "rejected", "invalid"} : Ends(k, what)
    BY <1>1, <2>3, EndsFacts DEF Outcomes
  <2> QED BY <2>1, <2>2, <2>3
<1>3. TypeOK'
  BY <1>1, <1>2 DEF TypeOK
<1>4. Progress'
  BY <1>1, <1>2, ProgressHolds
<1>5. /\ \A c \in Create : step'[c] = step[c]
      /\ \A d \in Delete \cup Send : step'[d] = step[d] /\ outcome'[d] = outcome[d]
  BY <1>2 DEF Only
<1>6. Advance /\ \A c \in Create : Deleted(c)' = Deleted(c)
  BY <1>5 DEF Advance, Deleted
<1>7. ChatState'
  BY <1>1, <1>5, ChatFrame
<1>8. DeleteState'
  BY <1>1, <1>5, <1>6, DeleteFrame
<1>9. PostState'
  BY <1>1, <1>5, <1>6, PostFrame
<1>10. LogState'
  BY <1>1, <1>5, LogFrame
<1> QED BY <1>3, <1>4, <1>7, <1>8, <1>9, <1>10 DEF IInv

-----------------------------------------------------------------------------
(* The theorems.                                                           *)

LEMMA Initially == Init => IInv
<1> SUFFICES ASSUME Init PROVE IInv
  OBVIOUS
<1> USE Kinds DEF Init
<1>1. TypeOK
  BY DEF TypeOK, Steps, Outcomes
<1>2. Progress /\ ChatState /\ DeleteState /\ PostState
  BY DEF Progress, ChatState, DeleteState, Past, PostState, Knows
<1>3. LogState
  <2> SUFFICES ASSUME NEW r \in Send PROVE Left(r)
    BY DEF LogState
  <2>1. log[ChatOf[r]] = <<>> /\ step[r] = "new" /\ outcome[r] = "none"
    OBVIOUS
  <2>2. NoEntry(log[ChatOf[r]], r)
    BY <2>1 DEF NoEntry
  <2> QED BY <2>1, <2>2 DEF Left
<1> QED BY <1>1, <1>2, <1>3 DEF IInv

LEMMA StutterKeeps ==
  ASSUME IInv, UNCHANGED vars
  PROVE  IInv'
<1> USE DEF vars
<1>1. TypeOK' /\ Progress' /\ ChatState'
  BY DEF IInv, TypeOK, Progress, ChatState
<1>2. DeleteState' /\ PostState'
  BY DEF IInv, DeleteState, Past, PostState, Knows, Deleted
<1>3. LogState'
  BY DEF IInv, LogState, Left
<1> QED BY <1>1, <1>2, <1>3 DEF IInv

\* The invariant of the prototype hub: what every step of every handler says
\* of the dictionaries of back/main.py.
THEOREM Inductive == Spec => []IInv
<1>1. IInv /\ [Next]_vars => IInv'
  <2> SUFFICES ASSUME IInv, [Next]_vars PROVE IInv'
    OBVIOUS
  <2>1. ASSUME NEW c \in Create, CreateStep(c) PROVE IInv'
    BY <2>1, CheckAgentKeeps, ListChatKeeps, OpenLogKeeps DEF CreateStep
  <2>2. ASSUME NEW d \in Delete, DeleteStep(d) PROVE IInv'
    BY <2>2, CheckDeleteKeeps, UnlistKeeps, CheckLogKeeps, DropLogKeeps DEF DeleteStep
  <2>3. ASSUME NEW r \in Send, SendStep(r) \/ AgentReplies(r) PROVE IInv'
    BY <2>3, CheckChatKeeps, StoreMessageKeeps, FindAgentKeeps, AgentRepliesKeeps,
       RefuseReplyKeeps, StoreReplyKeeps, TouchChatKeeps DEF SendStep
  <2>4. ASSUME NEW r \in Register, RegisterStep(r) PROVE IInv'
    BY <2>4, RegisterKeeps
  <2> QED
    BY <2>1, <2>2, <2>3, <2>4, StutterKeeps DEF Next
<1> QED
  BY <1>1, Initially, PTL DEF Spec

\* The types of the dictionaries and of the handlers of back/main.py.
THEOREM TypeCorrect == Spec => []TypeOK
<1>1. IInv => TypeOK
  BY DEF IInv
<1> QED BY <1>1, Inductive, PTL

\* Of the deletes of a chat that race past the check in delete_chat one
\* succeeds, and it finds the messages it means to remove.
THEOREM DeletedOnce == Spec => []OneDelete
<1>1. IInv => OneDelete
  BY DEF IInv, DeleteState, Past, OneDelete
<1> QED BY <1>1, Inductive, PTL

\* After delete_chat returned the chat is never listed again, and its messages
\* are gone unless it was deleted while it was being created.
THEOREM DeletedStaysGone == Spec => []DeletedIsGone
<1>1. IInv => DeletedIsGone
  BY DEF IInv, DeleteState, Past, DeletedIsGone
<1> QED BY <1>1, Inductive, PTL

\* Both, for any number of deletes, creations and posts that race.
THEOREM DeletesAlwaysHold == Spec => []DeletesHold
<1>1. OneDelete /\ DeletedIsGone => DeletesHold
  BY DEF DeletesHold
<1> QED BY <1>1, DeletedOnce, DeletedStaysGone, PTL

\* send_message raises KeyError only for a chat that is being deleted, however
\* many posts run at a time, and never looks for an agent in vain.
THEOREM ConcurrentPostsSucceed == Spec => []PostsSucceed
<1>1. ASSUME IInv PROVE PostsSucceed
  <2> SUFFICES ASSUME NEW r \in Send
               PROVE  /\ outcome[r] = "key error" => Deleted(ChatOf[r]) \/ ChatOf[r] \in ByListing
                      /\ outcome[r] = "missing" => User(r) \notin In(ChatOf[r])
    BY DEF PostsSucceed
  <2>1. Knows(r) /\ Left(r)
    BY <1>1, PostFacts
  <2>2. NoEntry(log[ChatOf[r]], r) => User(r) \notin In(ChatOf[r])
    BY DEF NoEntry, In, User
  <2> QED BY <2>1, <2>2 DEF Knows, Left
<1> QED BY <1>1, Inductive, PTL

\* Every message of a chat that is still there is followed by its reply, once
\* send_message has ended with a text in hand.
THEOREM MessagesArePaired == Spec => []Paired
<1>1. ASSUME IInv PROVE Paired
  <2> DEFINE at(r, m) == {i \in DOMAIN log[ChatOf[r]] : log[ChatOf[r]][i] = m}
  <2> SUFFICES ASSUME NEW r \in Send, ChatOf[r] \in chats
               PROVE  /\ User(r) \in In(ChatOf[r]) /\ Assistant(r) \notin In(ChatOf[r]) =>
                           step[r] \in {"posted", "asking", "replied"} \/ outcome[r] = "invalid"
                      /\ outcome[r] = "ok" =>
                           \E i \in at(r, User(r)), j \in at(r, Assistant(r)) : i < j
                      /\ \A i, j \in at(r, User(r)) : i = j
    BY DEF Paired
  <2> DEFINE l == log[ChatOf[r]]
  <2>1. /\ Left(r) /\ step[r] \in {"new", "found", "posted", "asking", "replied",
                                   "answered", "ended"}
        /\ step[r] = "ended" <=> outcome[r] # "none"
        /\ outcome[r] \in Outcomes
    BY <1>1, PostFacts DEF IInv, Progress, TypeOK
  <2>2. NoEntry(l, r) => User(r) \notin In(ChatOf[r]) /\ at(r, User(r)) = {}
    BY DEF NoEntry, In, User
  <2>3. OneEntry(l, r) => \A i, j \in at(r, User(r)) : i = j
    BY DEF OneEntry, User
  <2>4. ASSUME TwoEntries(l, r)
        PROVE  /\ Assistant(r) \in In(ChatOf[r])
               /\ \E i \in at(r, User(r)), j \in at(r, Assistant(r)) : i < j
               /\ \A i, j \in at(r, User(r)) : i = j
    <3>1. PICK i \in DOMAIN l, j \in DOMAIN l :
            /\ i < j /\ l[i] = User(r) /\ l[j] = Assistant(r)
            /\ \A k \in DOMAIN l : l[k].post = r => k \in {i, j}
      BY <2>4 DEF TwoEntries
    <3>2. User(r) # Assistant(r) /\ User(r).post = r
      BY DEF User, Assistant
    <3>3. Assistant(r) \in In(ChatOf[r])
      BY <3>1 DEF In
    <3>4. i \in at(r, User(r)) /\ j \in at(r, Assistant(r)) /\ i < j
      BY <3>1
    <3>5. \A k \in at(r, User(r)) : k = i
      BY <3>1, <3>2
    <3> QED BY <3>3, <3>4, <3>5
  <2>5. NoEntry(l, r) \/ OneEntry(l, r) \/ TwoEntries(l, r)
    BY <2>1 DEF Left, Outcomes
  <2>6. User(r) \in In(ChatOf[r]) /\ Assistant(r) \notin In(ChatOf[r]) =>
          step[r] \in {"posted", "asking", "replied"} \/ outcome[r] = "invalid"
    BY <2>1, <2>2, <2>4 DEF Left, Outcomes
  <2>7. outcome[r] = "ok" => \E i \in at(r, User(r)), j \in at(r, Assistant(r)) : i < j
    BY <2>1, <2>4 DEF Left
  <2>8. \A i, j \in at(r, User(r)) : i = j
    BY <2>2, <2>3, <2>4, <2>5
  <2> QED BY <2>6, <2>7, <2>8
<1> QED BY <1>1, Inductive, PTL

\* What GET /chats/{id}/messages has once returned stays a prefix of it as long
\* as the chat is there: handlers add to the end of a list and do nothing else.
HistoryOnlyGrows ==
  [][\A c \in Create :
       \/ log'[c] = log[c]
       \/ \E m \in Message : log'[c] = Append(log[c], m)]_vars

THEOREM HistoryGrows == Spec => HistoryOnlyGrows
<1> DEFINE Grows == \A c \in Create :
       \/ log'[c] = log[c]
       \/ \E m \in Message : log'[c] = Append(log[c], m)
<1>1. IInv /\ [Next]_vars => [Grows]_vars
  <2> SUFFICES ASSUME IInv, Next PROVE Grows
    OBVIOUS
  <2>1. ASSUME NEW c \in Create, OpenLog(c) PROVE Grows
    <3>1. log[c] = <<>>
      BY <2>1 DEF OpenLog, At, IInv, ChatState
    <3> QED BY <2>1, <3>1 DEF OpenLog, IInv, TypeOK
  <2>2. ASSUME NEW r \in Send, NEW m \in Message, Stores(r, m) PROVE Grows
    BY <2>2, Kinds DEF Stores, IInv, TypeOK
  <2>3. ASSUME NEW r \in Send, StoreMessage(r) \/ StoreReply(r) PROVE Grows
    BY <2>2, <2>3 DEF StoreMessage, StoreReply, Message, User, Assistant
  <2>4. UNCHANGED log => Grows
    OBVIOUS
  <2> HIDE DEF Grows
  <2> QED
    BY <2>1, <2>3, <2>4
       DEF Next, CreateStep, DeleteStep, SendStep, RegisterStep, CheckAgent, ListChat,
           CheckDelete, Unlist, CheckLog, DropLog, CheckChat, FindAgent, AgentReplies,
           AgentTimesOut, RefuseReply, TouchChat, RegisterAgent, FetchWellKnown, CardFetched
<1> QED BY <1>1, Inductive, PTL DEF Spec, HistoryOnlyGrows

\* How far a handler has come.
Rank(s) ==
  CASE s = "new" -> 0
    [] s = "fetching" -> 1
    [] s = "found" -> 2
    [] s \in {"listed", "unlisted", "posted"} -> 3
    [] s \in {"emptying", "asking"} -> 4
    [] s = "replied" -> 5
    [] s = "answered" -> 6
    [] OTHER -> 7

\* No handler goes back or takes a step twice, whatever others do between its
\* steps, and what is answered stays answered: a call that is run ends after
\* seven steps at most.
CallsOnlyAdvance ==
  [][\A k \in Call :
       /\ step'[k] # step[k] => Rank(step[k]) < Rank(step'[k])
       /\ step[k] = "ended" => step'[k] = "ended" /\ outcome'[k] = outcome[k]]_vars

\* With fairness of each handler this is why EveryCallEnds.
THEOREM CallsAdvance == Spec => CallsOnlyAdvance
<1> DEFINE Forward == \A k \in Call :
       /\ step'[k] # step[k] => Rank(step[k]) < Rank(step'[k])
       /\ step[k] = "ended" => step'[k] = "ended" /\ outcome'[k] = outcome[k]
<1>1. ASSUME TypeOK, NEW k \in Call, NEW s,
             Goes(k, s), Rank(step[k]) < Rank(s), step[k] # "ended"
      PROVE  Forward
  BY <1>1 DEF Goes, TypeOK
<1>2. ASSUME TypeOK, NEW k \in Call, NEW what, Ends(k, what), step[k] # "ended"
      PROVE  Forward
  <2>1. Rank(step[k]) < Rank("ended")
    BY <1>2 DEF TypeOK, Steps, Rank
  <2> QED BY <1>2, <2>1 DEF Ends, TypeOK
<1>3. IInv /\ [Next]_vars => [Forward]_vars
  <2> SUFFICES ASSUME TypeOK, Next PROVE Forward
    BY DEF IInv
  <2> HIDE DEF Forward
  <2>1. ASSUME NEW c \in Create, CreateStep(c) PROVE Forward
    BY <2>1, <1>1, <1>2 DEF CreateStep, CheckAgent, ListChat, OpenLog, At, Rank, Call
  <2>2. ASSUME NEW d \in Delete, DeleteStep(d) PROVE Forward
    <3>1. d \in Call BY DEF Call
    <3>2. CASE CheckDelete(d)
      BY <3>1, <3>2, <1>1, <1>2 DEF CheckDelete, At, Rank
    <3>3. CASE Unlist(d)
      <4>1. step[d] = "found"
        BY <3>3 DEF Unlist, At
      <4>2. Goes(d, "unlisted") \/ Ends(d, "key error")
        BY <3>3 DEF Unlist, Keyed
      <4>3. CASE Goes(d, "unlisted")
        <5>1. Rank(step[d]) < Rank("unlisted") /\ step[d] # "ended"
          BY <4>1 DEF Rank
        <5> QED BY <3>1, <4>3, <5>1, <1>1
      <4>4. CASE Ends(d, "key error")
        BY <3>1, <4>1, <4>4, <1>2
      <4> QED BY <4>2, <4>3, <4>4
    <3>4. CASE CheckLog(d)
      BY <3>1, <3>4, <1>1, <1>2 DEF CheckLog, At, Rank
    <3>5. CASE DropLog(d)
      BY <3>1, <3>5, <1>2 DEF DropLog, At
    <3> QED BY <2>2, <3>2, <3>3, <3>4, <3>5 DEF DeleteStep
  <2>3. ASSUME NEW r \in Send, SendStep(r) \/ AgentReplies(r) PROVE Forward
    <3>1. r \in Call BY DEF Call
    <3>2. CASE CheckChat(r)
      BY <3>1, <3>2, <1>1, <1>2 DEF CheckChat, At, Rank
    <3>3. CASE StoreMessage(r)
      <4>1. step[r] = "found"
        BY <3>3 DEF StoreMessage, At
      <4>2. Goes(r, "posted") \/ Ends(r, "key error")
        BY <3>3 DEF StoreMessage, Keyed
      <4>3. CASE Goes(r, "posted")
        <5>1. Rank(step[r]) < Rank("posted") /\ step[r] # "ended"
          BY <4>1 DEF Rank
        <5> QED BY <3>1, <4>3, <5>1, <1>1
      <4>4. CASE Ends(r, "key error")
        BY <3>1, <4>1, <4>4, <1>2
      <4> QED BY <4>2, <4>3, <4>4
    <3>4. CASE FindAgent(r)
      <4>1. CASE ChatOf[r] \in chats /\ AgentOf[ChatOf[r]] \notin agents
        BY <3>1, <3>4, <4>1, <1>2 DEF FindAgent, At
      <4>2. CASE ~(ChatOf[r] \in chats /\ AgentOf[ChatOf[r]] \notin agents)
        <5>1. step[r] = "posted"
          BY <3>4 DEF FindAgent, At
        <5>2. Goes(r, "asking") \/ Ends(r, "key error")
          BY <3>4, <4>2 DEF FindAgent, Keyed
        <5>3. CASE Goes(r, "asking")
          <6>1. Rank(step[r]) < Rank("asking") /\ step[r] # "ended"
            BY <5>1 DEF Rank
          <6> QED BY <3>1, <5>3, <6>1, <1>1
        <5>4. CASE Ends(r, "key error")
          BY <3>1, <5>1, <5>4, <1>2
        <5> QED BY <5>2, <5>3, <5>4
      <4> QED BY <4>1, <4>2
    <3>5. CASE AgentTimesOut(r) \/ AgentReplies(r)
      BY <3>1, <3>5, <1>1 DEF AgentTimesOut, GivesUp, AgentReplies, At, Rank
    <3>6. CASE RefuseReply(r)
      BY <3>1, <3>6, <1>2 DEF RefuseReply, At
    <3>7. CASE StoreReply(r)
      <4>1. step[r] = "replied"
        BY <3>7 DEF StoreReply, At
      <4>2. Goes(r, "answered") \/ Ends(r, "key error")
        BY <3>7 DEF StoreReply, Keyed
      <4>3. CASE Goes(r, "answered")
        <5>1. Rank(step[r]) < Rank("answered") /\ step[r] # "ended"
          BY <4>1 DEF Rank
        <5> QED BY <3>1, <4>3, <5>1, <1>1
      <4>4. CASE Ends(r, "key error")
        BY <3>1, <4>1, <4>4, <1>2
      <4> QED BY <4>2, <4>3, <4>4
    <3>8. CASE TouchChat(r)
      BY <3>1, <3>8, <1>2 DEF TouchChat, At
    <3> QED BY <2>3, <3>2, <3>3, <3>4, <3>5, <3>6, <3>7, <3>8 DEF SendStep
  <2>4. ASSUME NEW r \in Register, RegisterStep(r) PROVE Forward
    BY <2>4, <1>1, <1>2
       DEF RegisterStep, RegisterAgent, FetchWellKnown, CardFetched, At, Rank, Call
  <2> QED BY <2>1, <2>2, <2>3, <2>4 DEF Next
<1> QED BY <1>3, Inductive, PTL DEF Spec, CallsOnlyAdvance
=============================================================================
