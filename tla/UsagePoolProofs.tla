-------------------------- MODULE UsagePoolProofs ---------------------------
(***************************************************************************)
(* Theorems about UsagePool: where processes renew the cleanup lock in     *)
(* time there is one cleaner, a process that is alone never drops a fresh  *)
(* session, and nobody takes over from the last cleaner.                   *)
(***************************************************************************)
EXTENDS UsagePool, TLAPS

LEMMA NotKeys ==
  ASSUME NEW p \in [Model -> Connections], NEW m \in Model, m \notin Keys(p)
  PROVE  \A s \in Sid : p[m][s] = "none"
BY DEF Keys, Nobody

LEMMA TypeInitially == Init => TypeOK
BY DEF Init, TypeOK, Nobody, Connections, Ages, CleanerSteps, UseSteps

LEMMA TypeKept == TypeOK /\ [Next]_vars => TypeOK'
<1> SUFFICES ASSUME TypeOK, [Next]_vars PROVE TypeOK'
  OBVIOUS
<1> USE DEF TypeOK, CleanerSteps, UseSteps, Goes, cleanVars, useVars, faultVars
<1>1. ASSUME NEW p \in Process, Start(p) PROVE TypeOK'
  BY <1>1 DEF Start
<1>2. ASSUME NEW p \in Process, Acquire(p) \/ Renew(p) PROVE TypeOK'
  BY <1>2 DEF Acquire, Renew
<1>3. ASSUME NEW p \in Process, Read(p) PROVE TypeOK'
  <2>1. [m \in Model |-> {s \in Sid : Expired(pool[m][s])}] \in [Model -> SUBSET Sid]
    OBVIOUS
  <2>2. Keys(pool) \in SUBSET Model
    BY DEF Keys
  <2> QED BY <1>3, <2>1, <2>2 DEF Read
<1>4. ASSUME NEW p \in Process, WriteBack(p) PROVE TypeOK'
  <2>1. PICK m \in todo[p] :
          LET left == Without(seen[p][m], expired[p][m])
          IN  IF left = Nobody /\ m \notin Keys(pool)
                THEN Goes(p, "releasing") /\ UNCHANGED <<pool, todo>>
                ELSE /\ pool' = [pool EXCEPT ![m] = left]
                     /\ todo' = [todo EXCEPT ![p] = @ \ {m}]
                     /\ UNCHANGED cleaner
    BY <1>4 DEF WriteBack
  <2>2. m \in Model /\ Without(seen[p][m], expired[p][m]) \in Connections
    BY DEF Without, Connections, Ages
  <2>3. UNCHANGED <<lock, seen, expired, useVars, faultVars>>
    BY <1>4 DEF WriteBack
  <2>4. CASE Goes(p, "releasing") /\ UNCHANGED <<pool, todo>>
    BY <2>3, <2>4
  <2>5. CASE /\ pool' = [pool EXCEPT ![m] = Without(seen[p][m], expired[p][m])]
             /\ todo' = [todo EXCEPT ![p] = @ \ {m}]
             /\ UNCHANGED cleaner
    <3>1. pool' \in [Model -> Connections]
      BY <2>2, <2>5
    <3>2. todo' \in [Process -> SUBSET Model]
      BY <2>5
    <3> QED BY <2>3, <2>5, <3>1, <3>2
  <2> QED BY <2>1, <2>4, <2>5
<1>5. ASSUME NEW p \in Process, Sleep(p) \/ Wake(p) \/ CompareLock(p) \/ DeleteLock(p)
      PROVE TypeOK'
  BY <1>5 DEF Sleep, Wake, CompareLock, DeleteLock
<1>6. ASSUME NEW p \in Process, PassFails(p) \/ ReleaseFails(p) \/ Die(p) PROVE TypeOK'
  <2>1. CASE PassFails(p) \/ ReleaseFails(p)
    <3>1. /\ errors' = errors + 1 /\ (Goes(p, "releasing") \/ Goes(p, "off"))
          /\ UNCHANGED <<pool, lock, seen, expired, todo, useVars, alive, deaths>>
      BY <2>1 DEF PassFails, ReleaseFails
    <3>2. errors' \in Nat
      BY <3>1
    <3>3. cleaner' \in [Process -> CleanerSteps]
      BY <3>1
    <3> QED BY <3>1, <3>2, <3>3
  <2>2. CASE Die(p)
    <3>1. alive' \in [Process -> BOOLEAN]
      BY <2>2 DEF Die
    <3>2. deaths' \in Nat
      BY <2>2 DEF Die
    <3> QED BY <2>2, <3>1, <3>2 DEF Die
  <2> QED BY <1>6, <2>1, <2>2
<1>7. ASSUME NEW p \in Process, NEW m \in Model, NEW s \in Sid, Use(p, m, s) PROVE TypeOK'
  BY <1>7 DEF Use, Nobody, Connections, Ages
<1>8. ASSUME NEW p \in Process, GetConnections(p) PROVE TypeOK'
  <2>2. event[p] \in Model \X Sid /\ UNCHANGED <<pool, cleanVars, event, uses, faultVars>>
    BY <1>8 DEF GetConnections
  <2>3. got' \in [Process -> Connections]
    <3>1. PICK m \in Model, t \in Sid : event[p] = <<m, t>>
      BY <2>2
    <3>2. pool[m] \in Connections /\ event[p][1] = m
      BY <3>1
    <3> QED BY <1>8, <3>2 DEF GetConnections
  <2>4. /\ use' \in [Process -> {"idle", "getting", "putting"}]
        /\ \A q \in Process : use'[q] # "idle" => use[q] # "idle"
    BY <1>8 DEF GetConnections
  <2> QED BY <2>2, <2>3, <2>4
<1>9. ASSUME NEW p \in Process, PutConnections(p) PROVE TypeOK'
  <2>1. [got[p] EXCEPT ![event[p][2]] = "fresh"] \in Connections
    BY DEF Connections, Ages
  <2>2. Nobody \in Connections
    BY DEF Nobody, Connections, Ages
  <2>3. got' \in [Process -> Connections]
    BY <1>9, <2>2 DEF PutConnections
  <2>4. pool' \in [Model -> Connections]
    BY <1>9, <2>1 DEF PutConnections
  <2>5. /\ event' \in [Process -> (Model \X Sid) \cup {None}]
        /\ \A q \in Process : use'[q] # "idle" => event'[q] \in Model \X Sid
    BY <1>9 DEF PutConnections, UseSteps
  <2>6. use' \in [Process -> UseSteps]
    BY <1>9 DEF PutConnections, UseSteps
  <2> QED BY <1>9, <2>3, <2>4, <2>5, <2>6 DEF PutConnections
<1>10. ASSUME NEW m \in Model, NEW s \in Sid, Age(m, s) PROVE TypeOK'
  BY <1>10 DEF Age, Connections, Ages
<1>11. ASSUME NEW p \in Process, NEW m \in Model, NEW s \in Sid, AgeSeen(p, m, s)
       PROVE TypeOK'
  BY <1>11 DEF AgeSeen, Connections, Ages
<1>12. ASSUME NEW p \in Process, NEW s \in Sid, AgeGot(p, s) PROVE TypeOK'
  BY <1>12 DEF AgeGot, Connections, Ages
<1>13. CASE Expire
  BY <1>13 DEF Expire
<1>14. CASE UNCHANGED vars
  BY <1>14 DEF vars
<1> HIDE DEF TypeOK
<1> QED
  BY <1>1, <1>2, <1>3, <1>4, <1>5, <1>6, <1>7, <1>8, <1>9, <1>10, <1>11, <1>12, <1>13,
     <1>14 DEF Next, CleanerStep, HandlerStep

\* The types of the variables, for any number of processes and sessions.
THEOREM TypeCorrect == Spec => []TypeOK
BY TypeInitially, TypeKept, PTL DEF Spec

-----------------------------------------------------------------------------
(* One cleaner.                                                            *)

\* A live process that cleans up or gives the lock back has it.
Holds ==
  ~Stalls => \A p \in Process :
    alive[p] /\ (Cleaning(p) \/ cleaner[p] \in {"releasing", "deleting"}) => lock = p

LEMMA HoldsKept == TypeOK /\ Holds /\ [Next]_vars => Holds'
<1> SUFFICES ASSUME TypeOK, Holds, [Next]_vars, ~Stalls,
                    NEW q \in Process, alive'[q],
                    Cleaning(q)' \/ cleaner'[q] \in {"releasing", "deleting"}
             PROVE  lock' = q
  BY DEF Holds
<1> USE UsageAssumption DEF TypeOK, Holds, Cleaning, Goes, cleanVars, useVars, faultVars
<1>1. ASSUME NEW p \in Process, Start(p) PROVE lock' = q
  BY <1>1 DEF Start
<1>2. ASSUME NEW p \in Process, Acquire(p) PROVE lock' = q
  BY <1>2 DEF Acquire, Obtains, CleanerFree
<1>3. ASSUME NEW p \in Process, Renew(p) PROVE lock' = q
  BY <1>3 DEF Renew, CleanerFree
<1>4. ASSUME NEW p \in Process, Read(p) \/ Sleep(p) \/ Wake(p) \/ CompareLock(p)
      PROVE lock' = q
  BY <1>4 DEF Read, Sleep, Wake, CompareLock
<1>5. ASSUME NEW p \in Process, WriteBack(p) PROVE lock' = q
  BY <1>5 DEF WriteBack
<1>6. ASSUME NEW p \in Process, DeleteLock(p) PROVE lock' = q
  BY <1>6 DEF DeleteLock, CleanerFree
<1>7. ASSUME NEW p \in Process, PassFails(p) \/ ReleaseFails(p) PROVE lock' = q
  BY <1>7 DEF PassFails, ReleaseFails
<1>8. ASSUME NEW p \in Process, Die(p) PROVE lock' = q
  BY <1>8 DEF Die
<1>9. CASE Expire
  BY <1>9 DEF Expire
<1>10. CASE UNCHANGED <<cleanVars, alive>>
  BY <1>10
<1>11. ASSUME NEW p \in Process, NEW m \in Model, NEW s \in Sid, AgeSeen(p, m, s)
       PROVE lock' = q
  BY <1>11 DEF AgeSeen
<1>12. ASSUME NEW p \in Process, HandlerStep(p) PROVE UNCHANGED <<cleanVars, alive>>
  BY <1>12 DEF HandlerStep, GetConnections, PutConnections
<1>13. ASSUME NEW p \in Process, NEW m \in Model, NEW s \in Sid, Use(p, m, s)
       PROVE UNCHANGED <<cleanVars, alive>>
  BY <1>13 DEF Use
<1>14. ASSUME NEW m \in Model, NEW s \in Sid, Age(m, s) PROVE UNCHANGED <<cleanVars, alive>>
  BY <1>14 DEF Age
<1>17. ASSUME NEW p \in Process, NEW s \in Sid, AgeGot(p, s) PROVE UNCHANGED <<cleanVars, alive>>
  BY <1>17 DEF AgeGot
<1>15. CASE UNCHANGED vars
  BY <1>10, <1>15 DEF vars
<1>16. CASE Next
  <2> HIDE DEF TypeOK, Holds, Cleaning, Goes, cleanVars, useVars, faultVars
  <2> QED
    BY <1>1, <1>2, <1>3, <1>4, <1>5, <1>6, <1>7, <1>8, <1>9, <1>10, <1>11, <1>12, <1>13,
       <1>14, <1>16, <1>17 DEF Next, CleanerStep
<1> QED
  BY <1>15, <1>16

\* Where the lock outlives the pauses of its holder, two live processes never
\* clean up at a time: not after a death, nor after a failed command, nor
\* through the check-then-delete of release_lock.
THEOREM CleanerIsAlone == Spec => []OneCleanerInTime
<1>1. Init => Holds
  BY DEF Init, Holds, Cleaning
<1>2. TypeOK /\ Holds => OneCleanerInTime
  BY DEF Holds, OneCleanerInTime
<1> QED
  BY <1>1, <1>2, HoldsKept, TypeCorrect, PTL DEF Spec

-----------------------------------------------------------------------------
(* One process.                                                            *)

\* A process that has not started has nothing to do.
Quiet == \A p \in Process : ~Started(p) => use[p] = "idle" /\ todo[p] = {}

\* What a process has read still covers every fresh entry.
Covers(p) ==
  /\ use[p] # "idle" => cleaner[p] # "writing"
  /\ use[p] = "putting" =>
       \A s \in Sid : pool[event[p][1]][s] = "fresh" => got[p][s] # "none"
  /\ cleaner[p] = "writing" =>
       \A m \in todo[p], s \in Sid :
         pool[m][s] = "fresh" => seen[p][m][s] # "none" /\ s \notin expired[p][m]

OneStarted == \A p, q \in Process : Started(p) /\ Started(q) => p = q

AllCovered == OneStarted => \A p \in Process : Covers(p)

\* What process p, or the age of what it has read, may do.
StepOf(p) ==
  \/ Start(p) \/ CleanerStep(p) \/ PassFails(p) \/ ReleaseFails(p)
  \/ HandlerStep(p) \/ Die(p)
  \/ \E m \in Model, s \in Sid : Use(p, m, s) \/ AgeSeen(p, m, s)
  \/ \E s \in Sid : AgeGot(p, s)

Timely == (\E m \in Model, s \in Sid : Age(m, s)) \/ Expire

Kept == \A m \in Model, s \in Sid : pool[m][s] = "fresh" => pool'[m][s] # "none"

\* What a process has read stays right as long as only it and time move.
LEMMA AloneStep ==
  ASSUME NEW p \in Process, TypeOK, Covers(p), StepOf(p) \/ Timely \/ UNCHANGED vars
  PROVE  Covers(p)' /\ Kept
<1> USE DEF TypeOK, Covers, Kept, Goes, cleanVars, useVars, faultVars, Connections
<1>0. p \in Process
  OBVIOUS
<1>1. CASE Start(p)
  BY <1>0, <1>1 DEF Start, CleanerFree
<1>2. CASE Acquire(p) \/ Renew(p)
  BY <1>0, <1>2 DEF Acquire, Renew, CleanerFree
<1>3. CASE Read(p)
  <2>1. /\ seen'[p] = pool /\ UNCHANGED <<pool, use, event, got>>
        /\ use[p] = "idle" /\ todo'[p] = Keys(pool)
        /\ expired'[p] = [m \in Model |-> {s \in Sid : Expired(pool[m][s])}]
    BY <1>0, <1>3 DEF Read, CleanerFree
  <2>2. \A m \in Keys(pool), s \in Sid :
          pool[m][s] = "fresh" => s \notin expired'[p][m]
    BY <2>1 DEF Expired, Keys
  <2> QED BY <1>0, <2>1, <2>2
<1>4. CASE WriteBack(p)
  <2>1. PICK m \in todo[p] :
          LET left == Without(seen[p][m], expired[p][m])
          IN  IF left = Nobody /\ m \notin Keys(pool)
                THEN Goes(p, "releasing") /\ UNCHANGED <<pool, todo>>
                ELSE /\ pool' = [pool EXCEPT ![m] = left]
                     /\ todo' = [todo EXCEPT ![p] = @ \ {m}]
                     /\ UNCHANGED cleaner
    BY <1>4 DEF WriteBack
  <2>2. /\ m \in Model /\ use[p] = "idle" /\ cleaner[p] = "writing"
        /\ UNCHANGED <<seen, expired, use>>
    BY <1>0, <1>4, <2>1 DEF WriteBack, CleanerFree
  <2>3. CASE Goes(p, "releasing") /\ UNCHANGED <<pool, todo>>
    BY <1>0, <2>2, <2>3
  <2>4. CASE /\ pool' = [pool EXCEPT ![m] = Without(seen[p][m], expired[p][m])]
             /\ todo' = [todo EXCEPT ![p] = @ \ {m}]
             /\ UNCHANGED cleaner
    <3>1. \A s \in Sid : pool[m][s] = "fresh" =>
            Without(seen[p][m], expired[p][m])[s] # "none"
      BY <1>0, <2>2 DEF Without
    <3>2. Kept
      BY <2>2, <2>4, <3>1
    <3>3. m \notin todo'[p] /\ todo'[p] \subseteq todo[p]
      BY <1>0, <2>4
    <3>4. \A n \in todo'[p] : pool'[n] = pool[n]
      BY <1>0, <2>4, <3>3
    <3> QED BY <1>0, <2>2, <2>4, <3>2, <3>3, <3>4
  <2> QED BY <2>1, <2>3, <2>4
<1>5. CASE Sleep(p) \/ Wake(p) \/ CompareLock(p) \/ DeleteLock(p)
  BY <1>0, <1>5 DEF Sleep, Wake, CompareLock, DeleteLock, CleanerFree
<1>6. CASE PassFails(p) \/ ReleaseFails(p) \/ Die(p)
  BY <1>0, <1>6 DEF PassFails, ReleaseFails, Die, CleanerFree
<1>7. ASSUME NEW m \in Model, NEW s \in Sid, Use(p, m, s) PROVE Covers(p)' /\ Kept
  <2>1. m \notin Keys(pool) => \A t \in Sid : pool[m][t] = "none"
    BY NotKeys
  <2> QED BY <1>0, <1>7, <2>1 DEF Use, HandlerFree
<1>8. CASE GetConnections(p)
  BY <1>0, <1>8 DEF GetConnections
<1>9. CASE PutConnections(p)
  BY <1>0, <1>9 DEF PutConnections
<1>10. ASSUME NEW m \in Model, NEW s \in Sid, Age(m, s) PROVE Covers(p)' /\ Kept
  BY <1>0, <1>10 DEF Age
<1>11. ASSUME NEW m \in Model, NEW s \in Sid, AgeSeen(p, m, s) PROVE Covers(p)' /\ Kept
  BY <1>0, <1>11 DEF AgeSeen
<1>12. ASSUME NEW s \in Sid, AgeGot(p, s) PROVE Covers(p)' /\ Kept
  BY <1>0, <1>12 DEF AgeGot
<1>13. CASE Expire \/ UNCHANGED vars
  BY <1>0, <1>13 DEF Expire, vars
<1> HIDE DEF Covers, Kept
<1> QED
  BY <1>1, <1>2, <1>3, <1>4, <1>5, <1>6, <1>7, <1>8, <1>9, <1>10, <1>11, <1>12, <1>13
     DEF StepOf, Timely, CleanerStep, HandlerStep

\* The others stay where they are, and before its start a process can only
\* start or die.
LEMMA Local ==
  ASSUME TypeOK, NEW q \in Process, StepOf(q)
  PROVE  /\ \A p \in Process \ {q} :
              cleaner'[p] = cleaner[p] /\ use'[p] = use[p] /\ todo'[p] = todo[p]
         /\ Started(q) => cleaner'[q] # "new"
<1> USE DEF TypeOK, Goes, Started, cleanVars, useVars, faultVars
<1>1. CASE Start(q) \/ PassFails(q) \/ ReleaseFails(q) \/ Die(q)
  BY <1>1 DEF Start, PassFails, ReleaseFails, Die
<1>2. CASE CleanerStep(q)
  BY <1>2 DEF CleanerStep, Acquire, Renew, Read, WriteBack, Sleep, Wake, CompareLock,
              DeleteLock
<1>3. CASE HandlerStep(q)
  BY <1>3 DEF HandlerStep, GetConnections, PutConnections
<1>4. ASSUME NEW m \in Model, NEW s \in Sid, Use(q, m, s) \/ AgeSeen(q, m, s) \/ AgeGot(q, s)
      PROVE  UNCHANGED <<cleaner, todo>> /\ \A p \in Process \ {q} : use'[p] = use[p]
  BY <1>4 DEF Use, AgeSeen, AgeGot
<1>5. ASSUME NEW s \in Sid, AgeGot(q, s) PROVE UNCHANGED <<cleaner, todo, use>>
  BY <1>5 DEF AgeGot
<1> QED BY <1>1, <1>2, <1>3, <1>4, <1>5 DEF StepOf

LEMMA BeforeStart ==
  ASSUME TypeOK, Quiet, NEW q \in Process, StepOf(q), ~Started(q)
  PROVE  UNCHANGED <<pool, seen, expired, todo, use, event, got>>
<1>1. cleaner[q] = "new" /\ use[q] = "idle" /\ todo[q] = {}
  BY DEF Quiet, Started
<1>2. Start(q) \/ Die(q)
  BY <1>1 DEF StepOf, CleanerStep, HandlerStep, Acquire, Renew, Read, WriteBack, Sleep,
              Wake, CompareLock, DeleteLock, PassFails, ReleaseFails, GetConnections,
              PutConnections, Use, HandlerFree, AgeSeen, AgeGot
<1> QED BY <1>2 DEF Start, Die, cleanVars, useVars

LEMMA Steps == [Next]_vars => (\E q \in Process : StepOf(q)) \/ Timely \/ UNCHANGED vars
BY DEF Next, StepOf, Timely

LEMMA TimelySteps ==
  ASSUME Timely \/ UNCHANGED vars PROVE UNCHANGED <<cleaner, todo, use>>
BY DEF Timely, Age, Expire, vars, cleanVars, useVars

LEMMA QuietKept == TypeOK /\ Quiet /\ [Next]_vars => Quiet'
<1> SUFFICES ASSUME TypeOK, Quiet, [Next]_vars PROVE Quiet'
  OBVIOUS
<1>1. CASE Timely \/ UNCHANGED vars
  BY <1>1, TimelySteps DEF Quiet, Started
<1>2. ASSUME NEW q \in Process, StepOf(q) PROVE Quiet'
  <2>1. CASE Started(q)
    BY <1>2, <2>1, Local DEF Quiet, Started
  <2>2. CASE ~Started(q)
    BY <1>2, <2>2, Local, BeforeStart DEF Quiet, Started
  <2> QED BY <2>1, <2>2
<1> QED BY <1>1, <1>2, Steps

LEMMA CoveredKept ==
  TypeOK /\ Quiet /\ AllCovered /\ [Next]_vars => AllCovered' /\ (OneStarted => Kept)
<1> SUFFICES ASSUME TypeOK, Quiet, AllCovered, [Next]_vars
             PROVE  AllCovered' /\ (OneStarted => Kept)
  OBVIOUS
<1>1. CASE Timely \/ UNCHANGED vars
  <2>1. OneStarted' => OneStarted
    BY <1>1, TimelySteps DEF OneStarted, Started
  <2>2. OneStarted => \A p \in Process : Covers(p)' /\ Kept
    BY <1>1, AloneStep DEF AllCovered
  <2>3. Process = {} => Kept
    BY <1>1 DEF Timely, Age, Expire, Kept, TypeOK, vars, Connections
  <2> QED BY <2>1, <2>2, <2>3 DEF AllCovered
<1>2. ASSUME NEW q \in Process, StepOf(q) PROVE AllCovered' /\ (OneStarted => Kept)
  <2>1. OneStarted' => OneStarted
    BY <1>2, Local DEF OneStarted, Started
  <2>2. CASE Started(q)
    <3> SUFFICES ASSUME OneStarted
                 PROVE  Kept /\ \A p \in Process : Covers(p)'
      BY <2>1 DEF AllCovered
    <3>1. Kept /\ Covers(q)'
      BY <1>2, AloneStep DEF AllCovered
    <3>2. ASSUME NEW p \in Process, p # q PROVE Covers(p)'
      <4>1. cleaner'[p] = "new" /\ use'[p] = "idle"
        BY <1>2, <2>2, <3>2, Local DEF OneStarted, Quiet, Started
      <4> QED BY <4>1 DEF Covers
    <3> QED BY <3>1, <3>2
  <2>3. CASE ~Started(q)
    <3>1. UNCHANGED <<pool, seen, expired, todo, use, event, got>>
      BY <1>2, <2>3, BeforeStart
    <3>2. Kept
      BY <3>1 DEF Kept
    <3>3. OneStarted => \A p \in Process \ {q} : Covers(p)'
      BY <1>2, <3>1, Local DEF AllCovered, Covers
    <3>4. Covers(q)'
      <4>1. use'[q] = "idle" /\ todo'[q] = {}
        BY <2>3, <3>1 DEF Quiet
      <4> QED BY <4>1 DEF Covers
    <3> QED BY <2>1, <3>2, <3>3, <3>4 DEF AllCovered
  <2> QED BY <2>2, <2>3
<1> QED BY <1>1, <1>2, Steps

\* As long as one process has started no session is removed from a model it
\* uses before its entry has timed out, however its events and the passes of
\* its cleaner follow each other.
THEOREM OneProcessKeepsFresh == Spec => FreshStays
<1>1. Init => Quiet /\ AllCovered
  BY DEF Init, Quiet, AllCovered, Covers
<1>2. TypeOK /\ Quiet /\ AllCovered /\ [Next]_vars => [OneStarted => Kept]_vars
  BY CoveredKept
<1>3. Spec => [][OneStarted => Kept]_vars
  BY <1>1, <1>2, QuietKept, CoveredKept, TypeCorrect, PTL DEF Spec
<1> QED
  BY <1>3 DEF FreshStays, OneStarted, Kept

-----------------------------------------------------------------------------
\* No process cleans up: each has lost the lock, is dead or has not started.
Abandoned == \A p \in Process : cleaner[p] \in {"new", "off"} \/ ~alive[p]

\* A session leaves a model although no cleaner took it out.
Overwritten(m, s) ==
  pool[m][s] # "none" /\ pool'[m][s] = "none" =>
    \E p \in Process : PutConnections(p) /\ event[p][1] = m

\* A process that found the lock taken, or whose pass failed, never looks at it
\* again: once the last cleaner is gone, and until one more process starts,
\* nobody takes over and no session is removed from a model, however old, but
\* by an event that another process writes over it.
AbandonedStays ==
  [][Abandoned => /\ Abandoned' \/ \E p \in Process : Start(p)
                  /\ \A m \in Model, s \in Sid : Overwritten(m, s)]_vars

THEOREM NobodyTakesOver == Spec => AbandonedStays
<1> DEFINE Spared == \A m \in Model, s \in Sid : Overwritten(m, s)
           Left == Abandoned' \/ \E p \in Process : Start(p)
<1>1. TypeOK /\ [Next]_vars => [Abandoned => Left /\ Spared]_vars
  <2> SUFFICES ASSUME TypeOK, Abandoned, Next PROVE Left /\ Spared
    OBVIOUS
  <2>0. \A p \in Process : ~CleanerStep(p) /\ ~PassFails(p) /\ ~ReleaseFails(p)
    BY DEF Abandoned, CleanerStep, CleanerFree, Acquire, Renew, Read, WriteBack, Sleep,
           Wake, CompareLock, DeleteLock, PassFails, ReleaseFails
  <2>1. \/ \E p \in Process : Start(p)
        \/ cleaner' = cleaner /\ \A p \in Process : ~alive[p] => ~alive'[p]
    BY <2>0 DEF TypeOK, Next, HandlerStep, GetConnections, PutConnections, Die, Use, AgeSeen,
           AgeGot, Age, Expire, cleanVars, useVars, faultVars
  <2>2. Left
    BY <2>1 DEF Abandoned
  <2>3. ASSUME NEW p \in Process, PutConnections(p) PROVE Spared
    <3>1. pool' = [pool EXCEPT ![event[p][1]] = [got[p] EXCEPT ![event[p][2]] = "fresh"]]
      BY <2>3 DEF PutConnections
    <3> QED BY <2>3, <3>1 DEF TypeOK, Overwritten
  <2>4. ASSUME NEW m \in Model, NEW s \in Sid, Age(m, s) PROVE Spared
    BY <2>4 DEF Age, TypeOK, Connections, Overwritten
  <2>5. UNCHANGED pool => Spared
    BY DEF Overwritten
  <2> HIDE DEF Spared
  <2>6. Spared
    BY <2>0, <2>3, <2>4, <2>5
       DEF Next, Start, HandlerStep, GetConnections, Die, Use, AgeSeen, AgeGot, Expire
  <2> QED BY <2>2, <2>6
<1> QED BY <1>1, TypeCorrect, PTL DEF Spec, AbandonedStays
=============================================================================
