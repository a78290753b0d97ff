----------------------------- MODULE UsagePool ------------------------------
(***************************************************************************)
(* Which models are in use (socket/main.py, socket/utils.py).  With        *)
(* WEBSOCKET_MANAGER = "redis" the worker processes of the hub share the   *)
(* hash USAGE_POOL; a usage event of a client writes to it and one process, *)
(* the holder of a Redis lock that expires, removes what has timed out.    *)
(* The Redis client is synchronous: inside a process a handler or a pass   *)
(* of the cleaner runs alone, between processes every command interleaves. *)
(***************************************************************************)
EXTENDS Naturals

CONSTANTS
  Process,    \* worker processes; one that restarts is another one
  Model, Sid, \* agents or models, and the sessions of clients that use them
  Stalls,     \* a process may be suspended for longer than its lock lives
  MaxUses,    \* bounds of the model: usage events,
  MaxFaults,  \* processes killed and Redis commands of the cleaner that fail
  None

Ages == {"none", "fresh", "old"}
Connections == [Sid -> Ages]
Nobody == [s \in Sid |-> "none"]

CleanerSteps == {"new", "waiting", "renewing", "reading", "writing", "sleeping",
                 "releasing", "deleting", "off"}
UseSteps == {"idle", "getting", "putting"}

ASSUME UsageAssumption ==
  /\ None \notin Process /\ None \notin Model \X Sid
  /\ Stalls \in BOOLEAN
  /\ MaxUses \in Nat /\ MaxFaults \in Nat

VARIABLES
  lock,      \* the value of usage_cleanup_lock: the process it names
  pool,      \* USAGE_POOL: for each model the sids and how old their entry is
  cleaner,   \* where periodic_usage_pool_cleanup is in a process
  seen,      \* the items it read in this pass,
  expired,   \* and the sids of each that had timed out by then
  todo,      \* the models it has yet to write back
  use,       \* where the usage handler of a process is
  event,     \* the <<model, sid>> it records
  got,       \* the connections it read
  alive,
  uses, deaths, errors

cleanVars == <<lock, cleaner, seen, expired, todo>>
useVars == <<use, event, got, uses>>
faultVars == <<alive, deaths, errors>>
vars == <<pool, cleanVars, useVars, faultVars>>

\* A model is a key of the hash as long as it has connections.
Keys(p) == {m \in Model : p[m] # Nobody}

\* Between acquiring the lock and giving it back.
Cleaning(p) == cleaner[p] \in {"renewing", "reading", "writing", "sleeping"}

\* p runs Python code that does not await.
CleanerFree(p) == alive[p] /\ use[p] = "idle"
HandlerFree(p) == alive[p] /\ cleaner[p] \in {"waiting", "sleeping", "off"}

-----------------------------------------------------------------------------
Init ==
  /\ lock = None
  /\ pool = [m \in Model |-> Nobody]
  /\ cleaner = [p \in Process |-> "new"]
  /\ seen = [p \in Process |-> [m \in Model |-> Nobody]]
  /\ expired = [p \in Process |-> [m \in Model |-> {}]]
  /\ todo = [p \in Process |-> {}]
  /\ use = [p \in Process |-> "idle"]
  /\ event = [p \in Process |-> None]
  /\ got = [p \in Process |-> Nobody]
  /\ alive = [p \in Process |-> TRUE]
  /\ uses = 0 /\ deaths = 0 /\ errors = 0

-----------------------------------------------------------------------------
(* The cleaner                                                             *)

Goes(p, s) == cleaner' = [cleaner EXCEPT ![p] = s]

\* The lifespan of the application creates the task, before any request.
Start(p) ==
  /\ CleanerFree(p) /\ cleaner[p] = "new"
  /\ Goes(p, "waiting")
  /\ UNCHANGED <<pool, lock, seen, expired, todo, useVars, faultVars>>

\* Mutant of Obtains: SET without nx.
Overwrites(p) == TRUE

Obtains(p) == lock = None

\* aquire_lock; the loser does not run the cleanup, now or later.
Acquire(p) ==
  /\ CleanerFree(p) /\ cleaner[p] = "waiting"
  /\ IF Obtains(p) THEN lock' = p /\ Goes(p, "renewing")
                   ELSE UNCHANGED lock /\ Goes(p, "off")
  /\ UNCHANGED <<pool, seen, expired, todo, useVars, faultVars>>

\* renew_lock: SET with xx, whoever holds the lock.
Renew(p) ==
  /\ CleanerFree(p) /\ cleaner[p] = "renewing"
  /\ IF lock # None THEN lock' = p /\ Goes(p, "reading")
                    ELSE UNCHANGED lock /\ Goes(p, "releasing")
  /\ UNCHANGED <<pool, seen, expired, todo, useVars, faultVars>>

\* Mutants of Expired: the comparison the other way around, and seconds for
\* milliseconds.
Unexpired(age) == age = "fresh"
NeverExpired(age) == FALSE

Expired(age) == age = "old"

\* The time is taken and list(USAGE_POOL.items()) read.
Read(p) ==
  /\ CleanerFree(p) /\ cleaner[p] = "reading"
  /\ seen' = [seen EXCEPT ![p] = pool]
  /\ expired' = [expired EXCEPT ![p] =
       [m \in Model |-> {s \in Sid : Expired(pool[m][s])}]]
  /\ todo' = [todo EXCEPT ![p] = Keys(pool)]
  /\ Goes(p, "writing")
  /\ UNCHANGED <<pool, lock, useVars, faultVars>>

\* Mutant of Without: sids are marked, not deleted.
Marked(connections, gone) ==
  [s \in Sid |-> IF s \in gone THEN "expired" ELSE connections[s]]

Without(connections, gone) ==
  [s \in Sid |-> IF s \in gone THEN "none" ELSE connections[s]]

\* One model of the pass: its expired sids are removed; a model without
\* connections is deleted, which raises KeyError if it is gone already.
WriteBack(p) ==
  /\ CleanerFree(p) /\ cleaner[p] = "writing"
  /\ \E m \in todo[p] :
       LET left == Without(seen[p][m], expired[p][m])
       IN  IF left = Nobody /\ m \notin Keys(pool)
             THEN Goes(p, "releasing") /\ UNCHANGED <<pool, todo>>
             ELSE /\ pool' = [pool EXCEPT ![m] = left]
                  /\ todo' = [todo EXCEPT ![p] = @ \ {m}]
                  /\ UNCHANGED cleaner
  /\ UNCHANGED <<lock, seen, expired, useVars, faultVars>>

\* asyncio.sleep, after which the loop starts again.
Sleep(p) ==
  /\ CleanerFree(p) /\ cleaner[p] = "writing" /\ todo[p] = {}
  /\ Goes(p, "sleeping")
  /\ UNCHANGED <<pool, lock, seen, expired, todo, useVars, faultVars>>

Wake(p) ==
  /\ CleanerFree(p) /\ cleaner[p] = "sleeping"
  /\ Goes(p, "renewing")
  /\ UNCHANGED <<pool, lock, seen, expired, todo, useVars, faultVars>>

\* A Redis command of the pass raises: finally releases the lock.
PassFails(p) ==
  /\ CleanerFree(p) /\ cleaner[p] \in {"renewing", "reading", "writing"}
  /\ deaths + errors < MaxFaults /\ errors' = errors + 1
  /\ Goes(p, "releasing")
  /\ UNCHANGED <<pool, lock, seen, expired, todo, useVars, alive, deaths>>

\* release_lock: GET, and DEL if the value is one's own.
CompareLock(p) ==
  /\ CleanerFree(p) /\ cleaner[p] = "releasing"
  /\ Goes(p, IF lock = p THEN "deleting" ELSE "off")
  /\ UNCHANGED <<pool, lock, seen, expired, todo, useVars, faultVars>>

DeleteLock(p) ==
  /\ CleanerFree(p) /\ cleaner[p] = "deleting"
  /\ lock' = None /\ Goes(p, "off")
  /\ UNCHANGED <<pool, seen, expired, todo, useVars, faultVars>>

\* One of them raises: the lock is left to expire.
ReleaseFails(p) ==
  /\ CleanerFree(p) /\ cleaner[p] \in {"releasing", "deleting"}
  /\ deaths + errors < MaxFaults /\ errors' = errors + 1
  /\ Goes(p, "off")
  /\ UNCHANGED <<pool, lock, seen, expired, todo, useVars, alive, deaths>>

-----------------------------------------------------------------------------
(* The usage handler                                                       *)

\* `model_id in USAGE_POOL`.
Use(p, m, s) ==
  /\ HandlerFree(p) /\ use[p] = "idle" /\ uses < MaxUses
  /\ uses' = uses + 1
  /\ event' = [event EXCEPT ![p] = <<m, s>>]
  /\ got' = [got EXCEPT ![p] = Nobody]
  /\ use' = [use EXCEPT ![p] = IF m \in Keys(pool) THEN "getting" ELSE "putting"]
  /\ UNCHANGED <<pool, cleanVars, faultVars>>

\* `USAGE_POOL[model_id]`, which raises KeyError if the cleaner was faster.
GetConnections(p) ==
  /\ alive[p] /\ use[p] = "getting"
  /\ IF event[p][1] \in Keys(pool)
       THEN /\ got' = [got EXCEPT ![p] = pool[event[p][1]]]
            /\ use' = [use EXCEPT ![p] = "putting"]
       ELSE use' = [use EXCEPT ![p] = "idle"] /\ UNCHANGED got
  /\ UNCHANGED <<pool, cleanVars, event, uses, faultVars>>

\* The handler ends, and what it has read with it.
PutConnections(p) ==
  /\ alive[p] /\ use[p] = "putting"
  /\ pool' = [pool EXCEPT ![event[p][1]] = [got[p] EXCEPT ![event[p][2]] = "fresh"]]
  /\ use' = [use EXCEPT ![p] = "idle"]
  /\ event' = [event EXCEPT ![p] = None]
  /\ got' = [got EXCEPT ![p] = Nobody]
  /\ UNCHANGED <<cleanVars, uses, faultVars>>

-----------------------------------------------------------------------------
(* Time and failures                                                       *)

\* TIMEOUT_DURATION passes after an event of a session.  The copies a process
\* has read may be of other events than the entry in the hash.
Age(m, s) ==
  /\ pool[m][s] = "fresh"
  /\ pool' = [pool EXCEPT ![m][s] = "old"]
  /\ UNCHANGED <<cleanVars, useVars, faultVars>>

AgeSeen(p, m, s) ==
  /\ m \in todo[p] /\ seen[p][m][s] = "fresh"
  /\ seen' = [seen EXCEPT ![p][m][s] = "old"]
  /\ UNCHANGED <<pool, lock, cleaner, expired, todo, useVars, faultVars>>

AgeGot(p, s) ==
  /\ use[p] = "putting" /\ got[p][s] = "fresh"
  /\ got' = [got EXCEPT ![p][s] = "old"]
  /\ UNCHANGED <<pool, cleanVars, use, event, uses, faultVars>>

\* Redis drops the lock of a process that is dead, has stopped cleaning or
\* does not get to renew it.
Expire ==
  /\ lock # None
  /\ Stalls \/ ~alive[lock] \/ cleaner[lock] = "off"
  /\ lock' = None
  /\ UNCHANGED <<pool, cleaner, seen, expired, todo, useVars, faultVars>>

Die(p) ==
  /\ alive[p] /\ deaths + errors < MaxFaults /\ deaths' = deaths + 1
  /\ alive' = [alive EXCEPT ![p] = FALSE]
  /\ UNCHANGED <<pool, cleanVars, useVars, errors>>

-----------------------------------------------------------------------------
CleanerStep(p) ==
  \/ Acquire(p) \/ Renew(p) \/ Read(p) \/ WriteBack(p)
  \/ Sleep(p) \/ Wake(p) \/ CompareLock(p) \/ DeleteLock(p)
HandlerStep(p) == GetConnections(p) \/ PutConnections(p)

Next ==
  \/ \E p \in Process : \/ Start(p) \/ CleanerStep(p) \/ PassFails(p)
                        \/ ReleaseFails(p) \/ HandlerStep(p) \/ Die(p)
                        \/ \E m \in Model, s \in Sid : Use(p, m, s) \/ AgeSeen(p, m, s)
                        \/ \E s \in Sid : AgeGot(p, s)
  \/ \E m \in Model, s \in Sid : Age(m, s)
  \/ Expire

Spec == Init /\ [][Next]_vars

\* Tasks of a live process run, and Redis expires keys.
Fairness ==
  /\ \A p \in Process : WF_vars(Start(p) \/ CleanerStep(p)) /\ WF_vars(HandlerStep(p))
  /\ WF_vars(Expire)

FairSpec == Spec /\ Fairness

-----------------------------------------------------------------------------
(* Properties                                                              *)

\* The types of the variables.
TypeOK ==
  /\ lock \in Process \cup {None}
  /\ pool \in [Model -> Connections]
  /\ cleaner \in [Process -> CleanerSteps]
  /\ seen \in [Process -> [Model -> Connections]]
  /\ expired \in [Process -> [Model -> SUBSET Sid]]
  /\ todo \in [Process -> SUBSET Model]
  /\ use \in [Process -> UseSteps]
  /\ event \in [Process -> (Model \X Sid) \cup {None}]
  /\ \A p \in Process : use[p] # "idle" => event[p] \in Model \X Sid
  /\ got \in [Process -> Connections]
  /\ alive \in [Process -> BOOLEAN]
  /\ uses \in Nat /\ deaths \in Nat /\ errors \in Nat

\* "Usage pool cleanup lock already exists. Not running it.": never two live
\* processes clean up at a time, over deaths, failed commands and the
\* check-then-delete of release_lock, where a process renews its lock in time.
OneCleanerInTime ==
  Stalls \/ \A p, q \in Process : Cleaning(p) /\ Cleaning(q) /\ alive[p] /\ alive[q] => p = q

\* A process whose lifespan has begun.
Started(p) == cleaner[p] # "new"

\* "Creating a list of sids to remove if they have timed out": a session that
\* uses a model is not removed from it before its entry has timed out, by the
\* pass or by an event written over it.  Between processes an event can be
\* lost; until a second one starts none is.
FreshStays ==
  [][(\A p, q \in Process : Started(p) /\ Started(q) => p = q) =>
       \A m \in Model, s \in Sid : pool[m][s] = "fresh" => pool'[m][s] # "none"]_vars

\* A session that stopped using a model is eventually removed from it, unless
\* a process died or a command failed: the others do not take over.
OldIsCleared ==
  \A m \in Model, s \in Sid :
    pool[m][s] = "old" ~> pool[m][s] # "old" \/ deaths + errors > 0
=============================================================================
