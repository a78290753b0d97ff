------------------------- MODULE SessionPoolProofs --------------------------
(***************************************************************************)
(* Proofs about SessionPool, for any number of processes, users, sessions  *)
(* and events.  Between its commands a handler leaves USER_POOL and        *)
(* SESSION_POOL in disagreement about its own session only, and what it    *)
(* read is what it writes back (ListOf); this holds of a user as long as   *)
(* no two processes change that user's list at a time, which in turn needs *)
(* that one handler at a time holds an event loop (OneRuns).               *)
(***************************************************************************)
EXTENDS SessionPool, TLAPS

\* Two handlers never hold the same event loop.
OneRuns ==
  \A c, d \in Call : Holding(c) /\ Holding(d) /\ SameLoop(c, d) => c = d

\* A handler that adds a session finds it in SESSION_POOL and its client
\* connected, one that removes it does not; and a join that awaits finds it as
\* long as the client is connected.
Adds == {"finding", "getting", "adding"}
Removes == {"reading", "filtering", "checking", "dropping"}
Present ==
  \A c \in Call :
    /\ step[c] \in Adds => SessionOf[c] \in sessions /\ conn[SessionOf[c]] # "closed"
    /\ step[c] \in Removes => SessionOf[c] \notin sessions
    /\ step[c] = "entering" /\ conn[SessionOf[c]] # "closed" => SessionOf[c] \in sessions
    /\ step[c] = "entering" => Kind[c] = "user-join"

Offline == \A u \in User : u \notin online => list[u] = Nobody

\* The pools agree about u but for the sessions in S.
Elements(u, S) ==
  \A t \in Sid \ S : list[u][t] > 0 <=> t \in sessions /\ UserOf[t] = u
Listed(u) == u \in online <=> \E t \in Sid : list[u][t] > 0

Quiet(u) == \A c \in Call : Writing(c) => Of(c) # u

\* What a handler that changes the list of u relies on at each step.
Relies(u, c) ==
  /\ step[c] \in Adds => Elements(u, {SessionOf[c]}) /\ Listed(u)
  /\ step[c] \in {"reading", "filtering"} => Elements(u, {SessionOf[c]})
  /\ step[c] \in {"checking", "dropping"} => Elements(u, {})
  /\ step[c] \in {"getting"} \cup Removes => u \in online
  /\ step[c] \in {"adding", "filtering"} => got[c] = list[u]
  /\ step[c] = "dropping" => list[u] = Nobody

ListOf(u) ==
  /\ \A c, d \in Call : Writing(c) /\ Writing(d) /\ Of(c) = u /\ Of(d) = u => c = d
  /\ Quiet(u) => Elements(u, {}) /\ Listed(u)
  /\ \A c \in Call : Of(c) = u => Relies(u, c)

ListsHold == \A u \in User : u \notin raced => ListOf(u)

Inv == TypeOK /\ OneRuns /\ Present /\ Offline /\ ListsHold /\ FailsInRaces

-----------------------------------------------------------------------------
(* The types                                                               *)

LEMMA TypeInit == Init => TypeOK
  BY SessionAssumption DEF Init, TypeOK, Nobody, Lists, Steps

LEMMA OfUser == \A c \in Call : Of(c) \in User /\ SessionOf[c] \in Sid
  BY SessionAssumption DEF Of

LEMMA TypeStep == TypeOK /\ [Next]_vars => TypeOK'
<1> SUFFICES ASSUME TypeOK, [Next]_vars PROVE TypeOK'
  OBVIOUS
<1> USE OfUser DEF TypeOK, Steps, WriteSteps, Goes, Keyed
<1>1. ASSUME NEW c \in Call, Connect(c) \/ UserJoin(c) PROVE TypeOK'
  BY <1>1 DEF Connect, UserJoin, Registers, Begins
<1>2. ASSUME NEW c \in Call, UserList(c) \/ CountUsers(c) \/ EmitUserList(c) PROVE TypeOK'
  BY <1>2 DEF UserList, CountUsers, Counts, UserIds, EmitUserList, poolVars
<1>3. ASSUME NEW c \in Call, Disconnect(c) PROVE TypeOK'
  BY <1>3 DEF Disconnect, Begins
<1>4. ASSUME NEW c \in Call, FindUser(c) PROVE TypeOK'
  BY <1>4 DEF FindUser, poolVars, Nobody, Lists
<1>10. ASSUME NEW c \in Call, GetList(c) \/ ReadList(c) PROVE TypeOK'
  BY <1>10 DEF GetList, ReadList, poolVars
<1>11. ASSUME NEW c \in Call, EnterFails(c) PROVE TypeOK'
  BY <1>11 DEF EnterFails, poolVars
<1>12. ASSUME NEW c \in Call, CheckList(c) PROVE TypeOK'
  BY <1>12 DEF CheckList, poolVars
<1>5. ASSUME NEW c \in Call, AddSession(c) PROVE TypeOK'
  BY <1>5 DEF AddSession, With, Nobody, Lists
<1>6. ASSUME NEW c \in Call, FilterList(c) PROVE TypeOK'
  BY <1>6 DEF FilterList, Without, Nobody, Lists
<1>7. ASSUME NEW c \in Call, DropUser(c) PROVE TypeOK'
  BY <1>7 DEF DropUser, Dropped, Nobody, Lists
<1>8. ASSUME NEW p \in Process, Die(p) PROVE TypeOK'
  BY <1>8, SessionAssumption DEF Die, poolVars
<1>9. CASE UNCHANGED vars
  BY <1>9 DEF vars, poolVars
<1> QED
  BY <1>1, <1>2, <1>3, <1>4, <1>5, <1>6, <1>7, <1>8, <1>9, <1>10, <1>11, <1>12
  DEF Next, Event, Handle

\* The types, for any number of processes, users, sessions and events.
THEOREM TypeCorrect == Spec => []TypeOK
  BY TypeInit, TypeStep, PTL DEF Spec
-----------------------------------------------------------------------------
(* What one step of a handler leaves alone                                 *)

LEMMA Local ==
  ASSUME TypeOK, NEW c \in Call, Event(c) \/ Handle(c)
  PROVE  /\ redis' = redis /\ raced \subseteq raced'
         /\ Holding(c) \/ Free(c)
         /\ \A d \in Call \ {c} :
              step'[d] = step[d] /\ got'[d] = got[d] /\ counted'[d] = counted[d]
         /\ \A u \in User \ {Of(c)} : list'[u] = list[u] /\ (u \in online' <=> u \in online)
         /\ \A t \in Sid \ {SessionOf[c]} :
              (t \in sessions' <=> t \in sessions) /\ conn'[t] = conn[t]
<1> DEFINE Kept == /\ redis' = redis /\ raced \subseteq raced'
                   /\ Holding(c) \/ Free(c)
                   /\ \A d \in Call \ {c} :
                        step'[d] = step[d] /\ got'[d] = got[d] /\ counted'[d] = counted[d]
                   /\ \A u \in User \ {Of(c)} :
                        list'[u] = list[u] /\ (u \in online' <=> u \in online)
                   /\ \A t \in Sid \ {SessionOf[c]} :
                        (t \in sessions' <=> t \in sessions) /\ conn'[t] = conn[t]
<1> USE DEF TypeOK, At, Goes, Keyed
<1>1. CASE Connect(c) \/ UserJoin(c)
  BY <1>1 DEF Connect, UserJoin, Registers, Begins
<1>2. CASE Disconnect(c)
  BY <1>2 DEF Disconnect, Begins
<1>3. CASE UserList(c) \/ CountUsers(c) \/ EmitUserList(c)
  BY <1>3 DEF UserList, CountUsers, Counts, EmitUserList, poolVars
<1>4. CASE FindUser(c) \/ GetList(c) \/ EnterFails(c)
  BY <1>4 DEF FindUser, GetList, EnterFails, poolVars
<1>5. CASE ReadList(c) \/ CheckList(c)
  BY <1>5 DEF ReadList, CheckList, poolVars
<1>6. CASE AddSession(c) \/ FilterList(c) \/ DropUser(c)
  BY <1>6 DEF AddSession, FilterList, DropUser, Dropped
<1> QED
  BY <1>1, <1>2, <1>3, <1>4, <1>5, <1>6 DEF Event, Handle

LEMMA OneRunsStep == TypeOK /\ OneRuns /\ [Next]_vars => OneRuns'
<1> SUFFICES ASSUME TypeOK, OneRuns, [Next]_vars PROVE OneRuns'
  OBVIOUS
<1>1. ASSUME NEW c \in Call, Event(c) \/ Handle(c) PROVE OneRuns'
  <2>1. \A d \in Call \ {c} : Holding(d)' <=> Holding(d)
    BY <1>1, Local DEF Holding
  <2>2. \A d, e \in Call : SameLoop(d, e)' <=> SameLoop(d, e)
    BY <1>1, Local DEF SameLoop, Here
  <2>3. \A d, e \in Call : SameLoop(d, e) => SameLoop(e, d)
    BY DEF SameLoop
  <2> QED
    BY <1>1, <2>1, <2>2, <2>3, Local DEF OneRuns, Free
<1>2. ASSUME NEW p \in Process, Die(p) PROVE OneRuns'
  BY <1>2 DEF Die, OneRuns, Holding, SameLoop, Here
<1>3. CASE UNCHANGED vars
  BY <1>3 DEF vars, OneRuns, Holding, SameLoop, Here
<1> QED
  BY <1>1, <1>2, <1>3 DEF Next

\* A handler that starts or resumes finds none between its commands here.
LEMMA Exclusive ==
  ASSUME TypeOK, OneRuns, NEW c \in Call, Event(c) \/ Handle(c),
         NEW d \in Call \ {c}, Here(d) = Here(c)
  PROVE  ~Holding(d)
  BY Local DEF OneRuns, Free, SameLoop

LEMMA PresentStep == TypeOK /\ OneRuns /\ Present /\ [Next]_vars => Present'
<1> SUFFICES ASSUME TypeOK, OneRuns, Present, [Next]_vars PROVE Present'
  OBVIOUS
<1>1. ASSUME NEW c \in Call, Event(c) \/ Handle(c) PROVE Present'
  <2> DEFINE P(d) == /\ step[d] \in Adds => /\ SessionOf[d] \in sessions
                                         /\ conn[SessionOf[d]] # "closed"
                     /\ step[d] \in Removes => SessionOf[d] \notin sessions
                     /\ step[d] = "entering" /\ conn[SessionOf[d]] # "closed"
                          => SessionOf[d] \in sessions
                     /\ step[d] = "entering" => Kind[d] = "user-join"
  <2>1. ASSUME NEW d \in Call \ {c}, SessionOf[d] # SessionOf[c] PROVE P(d)'
    BY <1>1, <2>1, Local, OfUser DEF Present
  <2>2. ASSUME NEW d \in Call \ {c}, SessionOf[d] = SessionOf[c] PROVE P(d)'
    <3>1. step[d] \notin Adds \cup Removes
      BY <1>1, <2>2, Exclusive DEF Here, Holding, Adds, Removes, WriteSteps
    <3>2. step'[d] = step[d]
      BY <1>1, Local
    <3>3. step[d] = "entering" /\ conn'[SessionOf[c]] # "closed" =>
            SessionOf[c] \in sessions'
      <4> USE DEF TypeOK
      <4>1. step[d] = "entering" /\ conn[SessionOf[c]] # "closed" => SessionOf[c] \in sessions
        BY <2>2 DEF Present
      <4>2. CASE Connect(c) \/ UserJoin(c)
        BY <4>1, <4>2, OfUser DEF Connect, UserJoin, Registers
      <4>3. CASE Disconnect(c)
        BY <4>1, <4>3, OfUser DEF Disconnect
      <4>4. CASE UserList(c) \/ Handle(c)
        BY <4>1, <4>4 DEF UserList, Handle, FindUser, GetList, AddSession, EnterFails, ReadList,
           FilterList, CheckList, DropUser, CountUsers, Counts, EmitUserList, poolVars
      <4> QED
        BY <1>1, <4>2, <4>3, <4>4 DEF Event
    <3> QED
      BY <2>2, <3>1, <3>2, <3>3 DEF Adds, Removes, Present
  <2>3. P(c)'
    <3> USE OfUser DEF TypeOK, Present, At, Goes, Keyed, Adds, Removes
    <3>1. CASE Connect(c) \/ UserJoin(c)
      BY <3>1 DEF Connect, UserJoin, Registers
    <3>2. CASE Disconnect(c)
      BY <3>2 DEF Disconnect
    <3>3. CASE UserList(c) \/ CountUsers(c) \/ EmitUserList(c)
      BY <3>3 DEF UserList, CountUsers, Counts, EmitUserList, poolVars
    <3>4. CASE FindUser(c) \/ GetList(c) \/ EnterFails(c)
      BY <3>4 DEF FindUser, GetList, EnterFails, poolVars
    <3>5. CASE ReadList(c) \/ CheckList(c)
      BY <3>5 DEF ReadList, CheckList, poolVars
    <3>6. CASE AddSession(c) \/ FilterList(c) \/ DropUser(c)
      BY <3>6 DEF AddSession, FilterList, DropUser, Dropped
    <3> QED
      BY <1>1, <3>1, <3>2, <3>3, <3>4, <3>5, <3>6 DEF Event, Handle
  <2> QED
    BY <2>1, <2>2, <2>3 DEF Present
<1>2. ASSUME NEW p \in Process, Die(p) PROVE Present'
  BY <1>2 DEF Die, Present, poolVars
<1>3. CASE UNCHANGED vars
  BY <1>3 DEF vars, poolVars, Present
<1> QED
  BY <1>1, <1>2, <1>3 DEF Next

LEMMA OfflineStep == TypeOK /\ Offline /\ [Next]_vars => Offline'
<1> SUFFICES ASSUME TypeOK, Offline, [Next]_vars PROVE Offline'
  OBVIOUS
<1> USE OfUser DEF TypeOK, Offline
<1>1. ASSUME NEW c \in Call, AddSession(c) \/ FilterList(c) PROVE Offline'
  BY <1>1 DEF AddSession, FilterList
<1>2. ASSUME NEW c \in Call, DropUser(c) PROVE Offline'
  BY <1>2 DEF DropUser
<1>3. ASSUME UNCHANGED <<online, list>> PROVE Offline'
  BY <1>3
<1>4. ASSUME NEW c \in Call, Event(c) PROVE UNCHANGED <<online, list>>
  BY <1>4 DEF Event, Connect, UserJoin, UserList, Counts, Disconnect, poolVars
<1>5. ASSUME NEW c \in Call, FindUser(c) \/ GetList(c) \/ EnterFails(c) \/ ReadList(c)
             \/ CheckList(c) \/ CountUsers(c) \/ EmitUserList(c)
      PROVE  UNCHANGED <<online, list>>
  BY <1>5 DEF FindUser, GetList, EnterFails, ReadList, CheckList, CountUsers, Counts,
     EmitUserList, poolVars
<1>6. ASSUME (\E p \in Process : Die(p)) \/ UNCHANGED vars PROVE UNCHANGED <<online, list>>
  BY <1>6 DEF Die, poolVars, vars
<1> QED
  BY <1>1, <1>2, <1>3, <1>4, <1>5, <1>6 DEF Next, Handle
-----------------------------------------------------------------------------
(* The list of one user                                                    *)

\* What happens to the lists of other users does not matter.
LEMMA Elsewhere ==
  ASSUME TypeOK, NEW c \in Call, Event(c) \/ Handle(c),
         NEW u \in User, Of(c) # u, ListOf(u)
  PROVE  ListOf(u)'
<1>1. /\ list'[u] = list[u] /\ (u \in online' <=> u \in online)
      /\ \A t \in Sid : t \in sessions' /\ UserOf[t] = u <=> t \in sessions /\ UserOf[t] = u
      /\ \A d \in Call \ {c} : step'[d] = step[d] /\ got'[d] = got[d]
  BY Local DEF Of
<1>2. \A S : Elements(u, S)' <=> Elements(u, S)
  BY <1>1 DEF Elements
<1>3. Listed(u)' <=> Listed(u)
  BY <1>1 DEF Listed
<1>4. \A d \in Call : Of(d) = u => /\ d # c /\ (Writing(d)' <=> Writing(d))
                                   /\ Relies(u, d)' <=> Relies(u, d)
  BY <1>1, <1>2, <1>3 DEF Relies, Writing
<1>5. Quiet(u)' <=> Quiet(u)
  BY <1>4 DEF Quiet, Of
<1> QED
  BY <1>2, <1>3, <1>4, <1>5 DEF ListOf, Of

\* It is enough to look at the handler that acts, when it is the only one that
\* changes the list of its user.
LEMMA Alone ==
  ASSUME TypeOK, NEW c \in Call, Event(c) \/ Handle(c),
         NEW u, u = Of(c), ListOf(u),
         \A d \in Call \ {c} : Of(d) = u => ~Writing(d),
         Relies(u, c)',
         ~Writing(c)' => (Elements(u, {}) /\ Listed(u))'
  PROVE  ListOf(u)'
<1>1. \A d \in Call \ {c} : Of(d) = u => ~Writing(d)'
  BY Local DEF Writing
<1>2. \A d \in Call \ {c} : Of(d) = u => Relies(u, d)'
  BY <1>1 DEF Relies, Writing, WriteSteps, Adds, Removes
<1>3. Quiet(u)' => ~Writing(c)'
  BY DEF Quiet, Of
<1> QED
  BY <1>1, <1>2, <1>3 DEF ListOf, Of

LEMMA OwnList ==
  ASSUME TypeOK, OneRuns, Present, Offline, NEW c \in Call, Event(c) \/ Handle(c),
         NEW u, u = Of(c), u \notin raced', ListOf(u)
  PROVE  ListOf(u)'
<1> DEFINE s == SessionOf[c]
<1>0. u \in User /\ s \in Sid /\ UserOf[s] = u
  BY OfUser DEF Of
<1>1. ASSUME Writing(c) PROVE \A d \in Call \ {c} : Of(d) = u => ~Writing(d)
  BY <1>1 DEF ListOf
<1>2. Of(c) = u => Relies(u, c)
  BY DEF ListOf
<1>3. CASE Connect(c) \/ UserJoin(c) \/ Disconnect(c)
  <2>1. CASE step'[c] = "ended"
    <3>1. /\ ~Writing(c) /\ ~Writing(c)' /\ UNCHANGED <<online, list>>
          /\ \A d \in Call \ {c} : step'[d] = step[d] /\ got'[d] = got[d]
      BY <1>3, <2>1, Local
      DEF Connect, UserJoin, Disconnect, Writing, WriteSteps, At
    <3>2. sessions' = sessions
      <4>1. CASE Connect(c) \/ UserJoin(c)
        BY <2>1, <4>1 DEF Connect, UserJoin, Registers, Goes, TypeOK
      <4>2. CASE Disconnect(c)
        <5>1. s \notin sessions
          BY <2>1, <4>2 DEF Disconnect, Goes, TypeOK
        <5> QED
          BY <4>2, <5>1 DEF Disconnect
      <4> QED
        BY <1>3, <4>1, <4>2
    <3>3. \A d \in Call : Writing(d)' <=> Writing(d)
      BY <3>1 DEF Writing
    <3>4. \A d \in Call : Of(d) = u => Relies(u, d)'
      BY <2>1, <3>1, <3>2 DEF ListOf, Relies, Elements, Listed, Adds, Removes
    <3>5. (Elements(u, {})' <=> Elements(u, {})) /\ (Listed(u)' <=> Listed(u))
      BY <3>1, <3>2 DEF Elements, Listed
    <3> QED
      BY <3>3, <3>4, <3>5 DEF ListOf, Quiet, Of
  <2>2. CASE step'[c] # "ended"
    <3>1. /\ Begins(c) /\ UNCHANGED <<online, list>> /\ ~Writing(c)
          /\ \/ step'[c] = "finding" /\ sessions' = sessions \cup {s}
             \/ step'[c] = "reading" /\ sessions' = sessions \ {s} /\ s \in sessions
      BY <1>3, <2>2 DEF Connect, UserJoin, Disconnect, Registers, Goes, At, TypeOK,
         Writing, WriteSteps
    <3>2. \A d \in Call \ {c} : Of(d) = u => ~Writing(d)
      BY <3>1 DEF Begins
    <3>3. Elements(u, {}) /\ Listed(u)
      BY <3>1, <3>2 DEF ListOf, Quiet
    <3>4. Elements(u, {s})' /\ Listed(u)'
      BY <3>1, <3>3 DEF Elements, Listed
    <3>5. s \in sessions => u \in online
      BY <1>0, <3>3 DEF Elements, Listed
    <3>6. Relies(u, c)' /\ Writing(c)'
      BY <3>1, <3>4, <3>5 DEF Relies, Adds, Removes, Writing, WriteSteps
    <3> QED
      BY <3>2, <3>6, Alone
  <2> QED
    BY <2>1, <2>2
<1>4. CASE UserList(c) \/ EnterFails(c) \/ CountUsers(c) \/ EmitUserList(c)
  <2>1. /\ ~Writing(c) /\ ~Writing(c)' /\ UNCHANGED <<online, list, sessions>>
        /\ \A d \in Call \ {c} : step'[d] = step[d] /\ got'[d] = got[d]
    BY <1>4, Local DEF UserList, EnterFails, CountUsers, Counts, EmitUserList, Goes, At, TypeOK,
       Writing, WriteSteps, poolVars
  <2>2. \A d \in Call : Writing(d)' <=> Writing(d)
    BY <2>1 DEF Writing
  <2>3. (\A S : Elements(u, S)' <=> Elements(u, S)) /\ (Listed(u)' <=> Listed(u))
    BY <2>1 DEF Elements, Listed
  <2>4. \A d \in Call : Of(d) = u => Relies(u, d)'
    BY <2>1, <2>3 DEF ListOf, Relies, Adds, Removes, Writing, WriteSteps
  <2> QED
    BY <2>2, <2>3, <2>4 DEF ListOf, Quiet, Of
<1>5. CASE FindUser(c) \/ GetList(c) \/ ReadList(c) \/ CheckList(c)
  <2>1. Writing(c) /\ UNCHANGED <<online, list, sessions>>
    BY <1>5 DEF FindUser, GetList, ReadList, CheckList, At, Writing, WriteSteps, poolVars
  <2>2. (\A S : Elements(u, S)' <=> Elements(u, S)) /\ (Listed(u)' <=> Listed(u))
    BY <2>1 DEF Elements, Listed
  <2>3. Relies(u, c)' /\ (~Writing(c)' => (Elements(u, {}) /\ Listed(u))')
    <3> USE DEF Relies, Writing, WriteSteps, Adds, Removes, At, Goes, Keyed, TypeOK
    <3>1. CASE FindUser(c)
      <4>1. /\ step[c] = "finding" /\ got'[c] = Nobody
            /\ step'[c] = IF u \in online THEN "getting" ELSE "adding"
        BY <3>1 DEF FindUser, Exists
      <4>2. u \notin online => list'[u] = Nobody
        BY <1>0, <2>1 DEF Offline
      <4> QED
        BY <1>2, <2>1, <2>2, <4>1, <4>2
    <3>2. CASE GetList(c)
      <4>1. step[c] = "getting" /\ u \in online
        BY <1>2, <3>2 DEF GetList
      <4>2. step'[c] = "adding" /\ got'[c] = list[u]
        BY <3>2, <4>1 DEF GetList
      <4> QED
        BY <1>2, <2>1, <2>2, <4>1, <4>2
    <3>3. CASE ReadList(c)
      <4>1. step[c] = "reading" /\ u \in online
        BY <1>2, <3>3 DEF ReadList
      <4>2. step'[c] = "filtering" /\ got'[c] = list[u]
        BY <3>3, <4>1 DEF ReadList
      <4> QED
        BY <1>2, <2>1, <2>2, <4>1, <4>2
    <3>4. CASE CheckList(c)
      <4>1. step[c] = "checking" /\ u \in online /\ Elements(u, {})
        BY <1>2, <3>4 DEF CheckList
      <4>2. step'[c] = IF list[u] = Nobody THEN "dropping" ELSE "counting"
        BY <3>4, <4>1 DEF CheckList, IsEmpty
      <4>3. ASSUME list[u] # Nobody PROVE Listed(u)
        <5>1. list[u] \in [Sid -> Nat]
          BY <1>0 DEF Lists
        <5>2. PICK t \in Sid : list[u][t] # 0
          BY <4>3, <5>1 DEF Nobody
        <5> QED
          BY <4>1, <5>1, <5>2 DEF Listed
      <4> QED
        BY <2>1, <2>2, <4>1, <4>2, <4>3
    <3> QED
      BY <1>5, <3>1, <3>2, <3>3, <3>4
  <2> QED
    BY <1>1, <2>1, <2>3, Alone
<1>6. CASE AddSession(c) \/ FilterList(c) \/ DropUser(c)
  <2>1. Writing(c) /\ sessions' = sessions
    BY <1>6 DEF AddSession, FilterList, DropUser, At, Writing, WriteSteps
  <2>2. list[u] \in [Sid -> Nat]
    BY <1>0 DEF TypeOK, Lists
  <2>3. Relies(u, c)' /\ (~Writing(c)' => (Elements(u, {}) /\ Listed(u))')
    <3>1. CASE AddSession(c)
      <4>1. step[c] = "adding" /\ Elements(u, {s}) /\ Listed(u) /\ got[c] = list[u]
        BY <1>2, <3>1 DEF AddSession, At, Relies, Adds
      <4>2. s \in sessions
        BY <4>1 DEF Present, Adds
      <4>3. /\ list'[u] = [list[u] EXCEPT ![s] = @ + 1] /\ u \in online'
            /\ step'[c] \in {"entering", "counting"}
        BY <1>0, <3>1, <4>1 DEF AddSession, With, Goes, TypeOK
      <4>4. list'[u][s] > 0 /\ \A t \in Sid \ {s} : list'[u][t] = list[u][t]
        BY <1>0, <2>2, <4>3
      <4>5. Elements(u, {})' /\ Listed(u)'
        BY <1>0, <2>1, <4>1, <4>2, <4>3, <4>4 DEF Elements, Listed
      <4> QED
        BY <4>3, <4>5 DEF Relies, Adds, Removes
    <3>2. CASE FilterList(c)
      <4>1. step[c] = "filtering" /\ Elements(u, {s}) /\ got[c] = list[u]
        BY <1>2, <3>2 DEF FilterList, At, Relies
      <4>2. s \notin sessions
        BY <4>1 DEF Present, Removes
      <4>3. /\ list'[u] = [list[u] EXCEPT ![s] = 0] /\ u \in online'
            /\ step'[c] = "checking"
        BY <1>0, <3>2, <4>1 DEF FilterList, Without, Goes, TypeOK
      <4>4. ~(list'[u][s] > 0) /\ \A t \in Sid \ {s} : list'[u][t] = list[u][t]
        BY <1>0, <2>2, <4>3
      <4>5. Elements(u, {})'
        BY <1>0, <2>1, <4>1, <4>2, <4>4 DEF Elements
      <4> QED
        BY <4>3, <4>5 DEF Relies, Adds, Removes, Writing, WriteSteps
    <3>3. CASE DropUser(c)
      <4>1. step[c] = "dropping" /\ Elements(u, {}) /\ list[u] = Nobody /\ u \in online
        BY <1>2, <3>3 DEF DropUser, At, Relies, Removes
      <4>2. list'[u] = Nobody /\ u \notin online' /\ step'[c] = "counting"
        BY <1>0, <3>3, <4>1 DEF DropUser, Dropped, Keyed, Goes, TypeOK
      <4>3. Elements(u, {})' /\ Listed(u)'
        BY <2>1, <4>1, <4>2 DEF Elements, Listed, Nobody
      <4> QED
        BY <4>2, <4>3 DEF Relies, Adds, Removes
    <3> QED
      BY <1>6, <3>1, <3>2, <3>3
  <2> QED
    BY <1>1, <2>1, <2>3, Alone
<1> QED
  BY <1>3, <1>4, <1>5, <1>6 DEF Event, Handle

LEMMA ListsStep ==
  TypeOK /\ OneRuns /\ Present /\ Offline /\ ListsHold /\ [Next]_vars => ListsHold'
<1> SUFFICES ASSUME TypeOK, OneRuns, Present, Offline, ListsHold, [Next]_vars
             PROVE  ListsHold'
  OBVIOUS
<1>1. ASSUME NEW c \in Call, Event(c) \/ Handle(c), NEW u \in User, u \notin raced'
      PROVE  ListOf(u)'
  <2>1. ListOf(u)
    BY <1>1, Local DEF ListsHold
  <2> QED
    BY <1>1, <2>1, Elsewhere, OwnList
<1>2. ASSUME NEW u \in User, UNCHANGED <<poolVars, step, got, raced>>, u \notin raced
      PROVE  ListOf(u)'
  BY <1>2 DEF ListsHold, ListOf, Relies, Elements, Listed, Quiet, Writing, Of, poolVars
<1>3. ASSUME (\E p \in Process : Die(p)) \/ UNCHANGED vars
      PROVE  UNCHANGED <<poolVars, step, got, raced>>
  BY <1>3 DEF Die, vars
<1> QED
  BY <1>1, <1>2, <1>3 DEF Next, ListsHold
-----------------------------------------------------------------------------
(* What the lists are good for                                             *)

LEMMA FailsStep ==
  TypeOK /\ Present /\ ListsHold /\ FailsInRaces /\ [Next]_vars => FailsInRaces'
<1> SUFFICES ASSUME TypeOK, Present, ListsHold, FailsInRaces, [Next]_vars PROVE FailsInRaces'
  OBVIOUS
<1>1. ASSUME NEW c \in Call, Event(c) \/ Handle(c) PROVE FailsInRaces'
  <2>1. \A t \in Sid : conn[t] = "closed" => conn'[t] = "closed"
    BY <1>1 DEF Event, Handle, Connect, UserJoin, UserList, Disconnect, FindUser, GetList,
       AddSession, EnterFails, ReadList, FilterList, CheckList, DropUser, CountUsers, Counts,
       EmitUserList, TypeOK
  <2>2. ASSUME NEW d \in Call \ {c}, step'[d] = "failed"
        PROVE  \/ Of(d) \in raced'
               \/ Kind[d] = "user-join" /\ conn'[SessionOf[d]] = "closed"
    BY <1>1, <2>1, <2>2, Local, OfUser DEF FailsInRaces
  <2>3. ASSUME step'[c] = "failed", Of(c) \notin raced'
        PROVE  Kind[c] = "user-join" /\ conn'[SessionOf[c]] = "closed"
    <3>1. Of(c) \in User /\ Of(c) \notin raced
      BY <1>1, <2>3, Local, OfUser
    <3>2. Relies(Of(c), c)
      BY <3>1 DEF ListsHold, ListOf
    <3>3. step[c] \in {"getting"} \cup Removes => Of(c) \in online
      BY <3>2 DEF Relies
    <3>4. CASE EnterFails(c)
      <4>1. step[c] = "entering" /\ conn'[SessionOf[c]] = "closed"
        BY <3>4 DEF EnterFails, At
      <4> QED
        BY <4>1 DEF Present
    <3>5. CASE GetList(c) \/ ReadList(c) \/ CheckList(c) \/ DropUser(c)
      <4>1. step[c] \in {"getting"} \cup Removes
        BY <3>5 DEF GetList, ReadList, CheckList, DropUser, At, Removes
      <4>2. step'[c] # "failed"
        BY <3>3, <3>5, <4>1
        DEF GetList, ReadList, CheckList, DropUser, Dropped, Keyed, Goes, TypeOK
      <4> QED
        BY <2>3, <4>2
    <3>6. CASE Event(c)
      BY <2>3, <3>6 DEF Event, Connect, UserJoin, Registers, UserList, Counts, Disconnect,
         Goes, TypeOK
    <3>7. CASE FindUser(c) \/ AddSession(c) \/ FilterList(c) \/ CountUsers(c) \/ EmitUserList(c)
      BY <2>3, <3>7 DEF FindUser, AddSession, FilterList, CountUsers, Counts, EmitUserList,
         Goes, TypeOK
    <3> QED
      BY <1>1, <3>4, <3>5, <3>6, <3>7 DEF Handle
  <2> QED
    BY <2>2, <2>3 DEF FailsInRaces, Of
<1>2. ASSUME UNCHANGED <<conn, step, raced>> PROVE FailsInRaces'
  BY <1>2 DEF FailsInRaces, Of
<1>3. ASSUME (\E p \in Process : Die(p)) \/ UNCHANGED vars
      PROVE  UNCHANGED <<conn, step, raced>>
  BY <1>3 DEF Die, vars
<1> QED
  BY <1>1, <1>2, <1>3 DEF Next

LEMMA InvInit == Init => Inv
<1> SUFFICES ASSUME Init PROVE Inv
  OBVIOUS
<1>1. TypeOK
  BY TypeInit
<1>2. OneRuns /\ Present /\ Offline /\ FailsInRaces
  BY OfUser DEF Init, OneRuns, Present, Offline, FailsInRaces, Holding, WriteSteps, Adds, Removes
<1>3. ASSUME NEW u \in User PROVE ListOf(u)
  BY OfUser DEF Init, ListOf, Relies, Elements, Listed, Writing, WriteSteps, Adds, Removes, Nobody
<1> QED
  BY <1>1, <1>2, <1>3 DEF Inv, ListsHold

LEMMA InvStep == Inv /\ [Next]_vars => Inv'
  BY TypeStep, OneRunsStep, PresentStep, OfflineStep, ListsStep, FailsStep DEF Inv

THEOREM Inductive == Spec => []Inv
  BY InvInit, InvStep, PTL DEF Spec

\* USER_POOL and SESSION_POOL agree about every user whose list two processes
\* never changed at a time, in particular for everybody without Redis.
THEOREM PoolsAlwaysAgree == Spec => []PoolsAgree
<1>1. Inv => PoolsAgree
  <2> SUFFICES ASSUME Inv, NEW u \in User, Settled(u)
               PROVE  /\ u \in online <=> Registered(u) # {}
                      /\ {s \in Sid : list[u][s] > 0} = Registered(u)
    BY DEF PoolsAgree
  <2>1. Elements(u, {}) /\ Listed(u)
    BY DEF Inv, ListsHold, ListOf, Settled, Quiet
  <2>2. \A t \in Sid : list[u][t] > 0 <=> t \in Registered(u)
    BY <2>1 DEF Elements, Registered
  <2>3. Registered(u) \subseteq Sid
    BY DEF Inv, TypeOK, Registered
  <2> QED
    BY <2>1, <2>2, <2>3 DEF Listed
<1> QED
  BY <1>1, Inductive, PTL

\* A handler raises KeyError only where two processes change a list at a time.
THEOREM OnlyRacesFail == Spec => []FailsInRaces
<1>1. Inv => FailsInRaces
  BY DEF Inv
<1> QED
  BY <1>1, Inductive, PTL
-----------------------------------------------------------------------------
(* What the clients are told without Redis                                 *)

\* The handler of c has yet to tell the clients who is online.
Owes(c) ==
  \/ step[c] \in Removes \cup {"counting", "emitting"}
  \/ step[c] = "entering" /\ conn[SessionOf[c]] # "closed"

Told ==
  ~redis => /\ raced = {}
            /\ \A c \in Call : step[c] = "emitting" => counted[c] = online
            /\ shown = online \/ \E c \in Call : Owes(c)

LEMMA ToldStep == Inv /\ Told /\ [Next]_vars => Told'
<1> SUFFICES ASSUME Inv, Told, [Next]_vars PROVE Told'
  OBVIOUS
<1> USE DEF Inv
<1>1. ASSUME NEW c \in Call, Event(c) \/ Handle(c), ~redis PROVE Told'
  <2> DEFINE s == SessionOf[c]
  <2>0. /\ s \in Sid /\ Of(c) \in User /\ raced = {}
        /\ step[c] = "emitting" => counted[c] = online
    BY <1>1, OfUser DEF Told
  <2>1. \A d \in Call \ {c} : ~Holding(d)
    BY <1>1, Local DEF OneRuns, Free, SameLoop
  <2>2. \A d \in Call \ {c} : step[d] \notin WriteSteps \cup {"counting", "emitting"}
    BY <1>1, <2>1 DEF Holding
  <2>3. \A d \in Call \ {c} : step'[d] = step[d]
    BY <1>1, Local
  <2>4. Relies(Of(c), c) /\ (step[c] \in {"getting"} \cup Removes => Of(c) \in online)
    <3>1. Relies(Of(c), c)
      BY <2>0 DEF ListsHold, ListOf
    <3> QED
      BY <3>1 DEF Relies
  <2>5. raced' = {}
    <3>1. Begins(c) => raced' = {}
      BY <2>0, <2>2 DEF Begins, Writing
    <3>2. Begins(c) \/ raced' = raced
      BY <1>1 DEF Event, Handle, Connect, UserJoin, Registers, UserList, Disconnect, FindUser,
         GetList, AddSession, EnterFails, ReadList, FilterList, CheckList, DropUser, CountUsers,
         Counts, EmitUserList
    <3> QED
      BY <2>0, <3>1, <3>2
  <2>6. \A d \in Call : step'[d] = "emitting" => counted'[d] = online'
    <3>1. ASSUME step'[c] = "emitting" PROVE counted'[c] = online'
      <4>1. CASE UserList(c) \/ CountUsers(c)
        BY <4>1 DEF UserList, CountUsers, Counts, UserIds, poolVars, TypeOK
      <4>2. CASE Connect(c) \/ UserJoin(c) \/ Disconnect(c)
        BY <3>1, <4>2 DEF Connect, UserJoin, Disconnect, Registers, Goes, TypeOK
      <4>3. CASE Handle(c) /\ ~CountUsers(c)
        BY <3>1, <4>3 DEF Handle, FindUser, GetList, AddSession, EnterFails, ReadList, FilterList,
           CheckList, DropUser, Dropped, EmitUserList, Keyed, Goes, TypeOK
      <4> QED
        BY <1>1, <4>1, <4>2, <4>3 DEF Event
    <3> QED
      BY <2>2, <2>3, <3>1
  <2>7. ASSUME Owes(c)' PROVE \E d \in Call : Owes(d)'
    BY <2>7
  <2>8. ASSUME UNCHANGED <<online, shown>>, ~Owes(c),
               \A d \in Call \ {c} : Owes(d) => Owes(d)'
        PROVE  shown' = online' \/ \E d \in Call : Owes(d)'
    BY <1>1, <2>8 DEF Told
  <2>9. shown' = online' \/ \E d \in Call : Owes(d)'
    <3> USE DEF Goes, At, TypeOK
    <3>1. CASE EmitUserList(c)
      BY <2>0, <3>1 DEF EmitUserList, poolVars
    <3>2. CASE UserList(c) \/ CountUsers(c)
      BY <2>7, <3>2 DEF UserList, CountUsers, Counts, Owes
    <3>3. CASE FilterList(c) \/ DropUser(c) \/ ReadList(c) \/ CheckList(c)
      <4>1. step[c] \in Removes /\ Of(c) \in online
        BY <2>4, <3>3 DEF FilterList, DropUser, ReadList, CheckList, Removes
      <4>2. step'[c] \in Removes \cup {"counting"}
        BY <3>3, <4>1 DEF FilterList, DropUser, Dropped, ReadList, CheckList, Keyed, Removes
      <4> QED
        BY <2>7, <4>2 DEF Owes
    <3>4. CASE AddSession(c)
      <4>1. step[c] = "adding" /\ conn'[s] # "closed"
        BY <3>4 DEF AddSession, Present, Adds
      <4>2. step'[c] \in {"entering", "counting"}
        BY <3>4 DEF AddSession
      <4> QED
        BY <2>7, <4>1, <4>2 DEF Owes
    <3>5. CASE FindUser(c) \/ GetList(c) \/ EnterFails(c)
      <4>1. UNCHANGED <<online, shown, conn>> /\ ~Owes(c)
        BY <3>5 DEF FindUser, GetList, EnterFails, Owes, Removes, poolVars
      <4> QED
        BY <2>3, <2>8, <4>1 DEF Owes
    <3>6. CASE Connect(c) \/ UserJoin(c)
      <4>1. UNCHANGED <<online, shown>> /\ ~Owes(c)
        BY <3>6 DEF Connect, UserJoin, Owes, Removes
      <4>2. \A t \in Sid : conn[t] # "closed" => conn'[t] # "closed"
        BY <3>6 DEF Connect, UserJoin
      <4> QED
        BY <2>3, <2>8, <4>1, <4>2, OfUser DEF Owes
    <3>7. CASE Disconnect(c)
      <4>1. UNCHANGED <<online, shown>> /\ ~Owes(c)
        BY <3>7 DEF Disconnect, Owes, Removes
      <4>2. CASE s \in sessions
        BY <2>7, <3>7, <4>2 DEF Disconnect, Owes, Removes
      <4>3. CASE s \notin sessions
        <5>1. \A d \in Call \ {c} : Owes(d) => SessionOf[d] # s
          BY <2>2, <4>3 DEF Owes, Present, Removes, WriteSteps
        <5>2. \A t \in Sid \ {s} : conn'[t] = conn[t]
          BY <1>1, Local
        <5> QED
          BY <2>3, <2>8, <4>1, <5>1, <5>2, OfUser DEF Owes
      <4> QED
        BY <4>2, <4>3
    <3> QED
      BY <1>1, <3>1, <3>2, <3>3, <3>4, <3>5, <3>6, <3>7 DEF Event, Handle
  <2> QED
    BY <2>5, <2>6, <2>9 DEF Told
<1>2. ASSUME NEW c \in Call, Event(c) \/ Handle(c), redis PROVE Told'
  BY <1>2, Local DEF Told
<1>3. ASSUME NEW p \in Process, Die(p) PROVE Told'
  BY <1>3 DEF Die, Told
<1>4. CASE UNCHANGED vars
  BY <1>4 DEF vars, poolVars, Told, Owes
<1> QED
  BY <1>1, <1>2, <1>3, <1>4 DEF Next

\* Without Redis the clients know who is online once the handlers have ended.
THEOREM ClientsKnow == Spec => []ShownIsOnline
<1>1. Init => Told
  BY DEF Init, Told
<1>2. Told => ShownIsOnline
  BY DEF Told, ShownIsOnline, Owes, Removes
<1> QED
  BY <1>1, <1>2, ToldStep, Inductive, PTL DEF Spec

-----------------------------------------------------------------------------
\* A session whose process has died is not removed by anybody.
Orphan(s) == redis /\ ProcessOf[s] \notin alive /\ s \in sessions

\* With Redis, the user of a session that was open when its process died is
\* shown online from then on, whatever they or the other processes do.
THEOREM OrphansStayOnline ==
  Spec => \A s \in Sid :
    [](Orphan(s) => [](Settled(UserOf[s]) => UserOf[s] \in online))
<1> SUFFICES ASSUME NEW s \in Sid
             PROVE  Spec => [](Orphan(s) => [](Settled(UserOf[s]) => UserOf[s] \in online))
  OBVIOUS
<1>1. Orphan(s) /\ [Next]_vars => Orphan(s)'
  <2> SUFFICES ASSUME Orphan(s), [Next]_vars PROVE Orphan(s)'
    OBVIOUS
  <2>1. redis' = redis /\ alive' \subseteq alive
    BY DEF Next, Event, Handle, Connect, UserJoin, UserList, Disconnect, FindUser, GetList,
           AddSession, EnterFails, ReadList, FilterList, CheckList, DropUser, CountUsers,
           Counts, EmitUserList, Die, vars
  <2>2. ASSUME NEW c \in Call, Disconnect(c) PROVE s \in sessions'
    <3>1. SessionOf[c] # s
      BY <2>2 DEF Disconnect, At, Here, Orphan
    <3> QED BY <2>2, <3>1 DEF Disconnect, Orphan
  <2>3. s \in sessions'
    BY <2>2 DEF Orphan, Next, Event, Handle, Connect, UserJoin, Registers, UserList, FindUser,
           GetList, AddSession, EnterFails, ReadList, FilterList, CheckList, DropUser,
           CountUsers, Counts, EmitUserList, Die, vars, poolVars
  <2> QED BY <2>1, <2>3 DEF Orphan
<1>2. PoolsAgree /\ Orphan(s) => (Settled(UserOf[s]) => UserOf[s] \in online)
  BY SessionAssumption DEF PoolsAgree, Orphan, Registered
<1> QED BY <1>1, <1>2, PoolsAlwaysAgree, PTL DEF Spec
=============================================================================
