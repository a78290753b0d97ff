---------------------------- MODULE SessionPool -----------------------------
(***************************************************************************)
(* Who is connected (socket/main.py): SESSION_POOL names the user of each  *)
(* session, USER_POOL lists the sessions of each user, and after a change  *)
(* every client is sent the ids of the users online.  The pools are        *)
(* dictionaries of one process, or hashes in Redis that several processes  *)
(* share.  A handler runs alone in its process up to an await; between     *)
(* processes every Redis command interleaves.                              *)
(***************************************************************************)
EXTENDS Naturals

CONSTANTS
  Process,    \* worker processes
  User, Sid,  \* a session id is of one client, and a client of one user
  Call,       \* the events the clients send
  Kind,       \* the event of a call
  SessionOf,  \* the session that sends it
  UserOf,     \* the user whose token it brings
  ProcessOf,  \* the process a session is connected to, if there are several
  MaxDeaths   \* bound of the model: processes that are killed

Kinds == {"connect", "user-join", "user-list", "disconnect"}
\* Steps at which a handler is between the commands that change a list of
\* USER_POOL, and all steps.
WriteSteps == {"finding", "getting", "adding", "reading", "filtering", "checking",
               "dropping"}
Steps == WriteSteps \cup {"new", "entering", "counting", "emitting", "ended", "failed"}

ASSUME SessionAssumption ==
  /\ Kind \in [Call -> Kinds]
  /\ SessionOf \in [Call -> Sid]
  /\ UserOf \in [Sid -> User]
  /\ ProcessOf \in [Sid -> Process]
  /\ MaxDeaths \in Nat

\* A value of USER_POOL, a list, by how often it has each session.
Lists == [Sid -> Nat]
Nobody == [s \in Sid |-> 0]

VARIABLES
  redis,     \* WEBSOCKET_MANAGER = "redis"
  alive,     \* the processes that have not died
  sessions,  \* keys of SESSION_POOL
  online,    \* keys of USER_POOL
  list,      \* its values
  conn,      \* whether the client of a session is connected
  step,      \* where the handler of a call is
  got,       \* the list it read, until it writes it back
  counted,   \* the users it found online, until it has told the clients
  shown,     \* the users every client was last told are online
  raced,     \* history: users whose list two handlers changed at a time
  deaths

poolVars == <<sessions, online, list>>
vars == <<redis, alive, poolVars, conn, step, got, counted, shown, raced, deaths>>

Of(c) == UserOf[SessionOf[c]]
Here(c) == ProcessOf[SessionOf[c]]
SameLoop(c, d) == redis => Here(c) = Here(d)

\* The handler of c has not reached an await: with Redis an emit is one, in
\* the dictionaries' process the packets are queued before it.
Holding(c) ==
  step[c] \in WriteSteps \cup {"counting"} \cup (IF redis THEN {} ELSE {"emitting"})

Free(c) == \A d \in Call : SameLoop(c, d) => ~Holding(d)

\* The event loop runs the handler of c, which is at s: it goes on, or it
\* starts or resumes when no other handler holds the loop.
At(c, s) ==
  /\ step[c] = s /\ Here(c) \in alive
  /\ Holding(c) \/ Free(c)

Writing(c) == step[c] \in WriteSteps
Goes(c, s) == step' = [step EXCEPT ![c] = s]
\* The same for a step that reads or deletes a key and may raise KeyError.
Keyed(c, s) == Goes(c, IF Of(c) \in online THEN s ELSE "failed")

\* c starts to change the list of its user.
Begins(c) ==
  raced' = IF \E d \in Call \ {c} : Writing(d) /\ Of(d) = Of(c)
             THEN raced \cup {Of(c)} ELSE raced

-----------------------------------------------------------------------------
Init ==
  /\ redis \in BOOLEAN
  /\ alive = Process
  /\ sessions = {} /\ online = {}
  /\ list = [u \in User |-> Nobody]
  /\ conn = [s \in Sid |-> "away"]
  /\ step = [c \in Call |-> "new"]
  /\ got = [c \in Call |-> Nobody]
  /\ counted = [c \in Call |-> {}]
  /\ shown = {} /\ raced = {} /\ deaths = 0

-----------------------------------------------------------------------------
(* connect and user-join                                                   *)

\* SESSION_POOL[sid] = ...; a connect or a join without a valid token ends.
Registers(c) ==
  \/ /\ sessions' = sessions \cup {SessionOf[c]}
     /\ Begins(c) /\ Goes(c, "finding")
  \/ Goes(c, "ended") /\ UNCHANGED <<sessions, raced>>

Connect(c) ==
  /\ Kind[c] = "connect" /\ At(c, "new") /\ conn[SessionOf[c]] = "away"
  /\ conn' = [conn EXCEPT ![SessionOf[c]] = "open"]
  /\ Registers(c)
  /\ UNCHANGED <<redis, alive, online, list, got, counted, shown, deaths>>

UserJoin(c) ==
  /\ Kind[c] = "user-join" /\ At(c, "new") /\ conn[SessionOf[c]] = "open"
  /\ Registers(c)
  /\ UNCHANGED <<redis, alive, online, list, conn, got, counted, shown, deaths>>

\* Mutant of Exists: the test is left out.
Assumed(c) == TRUE

\* `user.id in USER_POOL`.
Exists(c) == Of(c) \in online

FindUser(c) ==
  /\ At(c, "finding")
  /\ Goes(c, IF Exists(c) THEN "getting" ELSE "adding")
  /\ got' = [got EXCEPT ![c] = Nobody]
  /\ UNCHANGED <<redis, alive, poolVars, conn, counted, shown, raced, deaths>>

GetList(c) ==
  /\ At(c, "getting")
  /\ Keyed(c, "adding")
  /\ got' = [got EXCEPT ![c] = list[Of(c)]]
  /\ UNCHANGED <<redis, alive, poolVars, conn, counted, shown, raced, deaths>>

With(sids, s) == [sids EXCEPT ![s] = @ + 1]

AddSession(c) ==
  /\ At(c, "adding")
  /\ list' = [list EXCEPT ![Of(c)] = With(got[c], SessionOf[c])]
  /\ online' = online \cup {Of(c)}
  /\ Goes(c, IF Kind[c] = "user-join" THEN "entering" ELSE "counting")
  /\ got' = [got EXCEPT ![c] = Nobody]
  /\ UNCHANGED <<redis, alive, sessions, conn, counted, shown, raced, deaths>>

\* enter_room raises for a session that was closed during an earlier await.
EnterFails(c) ==
  /\ At(c, "entering") /\ conn[SessionOf[c]] = "closed"
  /\ Goes(c, "failed")
  /\ UNCHANGED <<redis, alive, poolVars, conn, got, counted, shown, raced, deaths>>

-----------------------------------------------------------------------------
(* disconnect                                                              *)

\* `del SESSION_POOL[sid]`, if it is there.
Disconnect(c) ==
  /\ Kind[c] = "disconnect" /\ At(c, "new") /\ conn[SessionOf[c]] = "open"
  /\ conn' = [conn EXCEPT ![SessionOf[c]] = "closed"]
  /\ sessions' = sessions \ {SessionOf[c]}
  /\ IF SessionOf[c] \in sessions
       THEN Begins(c) /\ Goes(c, "reading")
       ELSE Goes(c, "ended") /\ UNCHANGED raced
  /\ UNCHANGED <<redis, alive, online, list, got, counted, shown, deaths>>

ReadList(c) ==
  /\ At(c, "reading")
  /\ Keyed(c, "filtering")
  /\ got' = [got EXCEPT ![c] = list[Of(c)]]
  /\ UNCHANGED <<redis, alive, poolVars, conn, counted, shown, raced, deaths>>

\* Mutant of Without: list.remove, which removes one occurrence.
WithoutOne(sids, s) == [sids EXCEPT ![s] = IF @ = 0 THEN 0 ELSE @ - 1]

Without(sids, s) == [sids EXCEPT ![s] = 0]

FilterList(c) ==
  /\ At(c, "filtering")
  /\ list' = [list EXCEPT ![Of(c)] = Without(got[c], SessionOf[c])]
  /\ online' = online \cup {Of(c)}
  /\ Goes(c, "checking")
  /\ got' = [got EXCEPT ![c] = Nobody]
  /\ UNCHANGED <<redis, alive, sessions, conn, counted, shown, raced, deaths>>

\* Mutant of IsEmpty: `len(...) == 0` never looked at again.
NeverEmpty(sids) == FALSE

IsEmpty(sids) == sids = Nobody

CheckList(c) ==
  /\ At(c, "checking")
  /\ Keyed(c, IF IsEmpty(list[Of(c)]) THEN "dropping" ELSE "counting")
  /\ UNCHANGED <<redis, alive, poolVars, conn, got, counted, shown, raced, deaths>>

\* Mutant of Dropped: a return after `del USER_POOL[user_id]`.
DroppedSilently(c) == Keyed(c, "ended")

Dropped(c) == Keyed(c, "counting")

DropUser(c) ==
  /\ At(c, "dropping")
  /\ Dropped(c)
  /\ online' = online \ {Of(c)}
  /\ list' = [list EXCEPT ![Of(c)] = Nobody]
  /\ UNCHANGED <<redis, alive, sessions, conn, got, counted, shown, raced, deaths>>

-----------------------------------------------------------------------------
(* Telling the clients                                                     *)

\* Mutant of UserIds: the keys of SESSION_POOL.
SessionIds == sessions

\* list(USER_POOL.keys()).
UserIds == online

Counts(c) ==
  /\ counted' = [counted EXCEPT ![c] = UserIds]
  /\ Goes(c, "emitting")
  /\ UNCHANGED <<redis, alive, poolVars, conn, got, shown, raced, deaths>>

CountUsers(c) == (At(c, "counting") \/ At(c, "entering")) /\ Counts(c)

UserList(c) ==
  /\ Kind[c] = "user-list" /\ At(c, "new") /\ conn[SessionOf[c]] = "open"
  /\ Counts(c)

\* sio.emit("user-list"); through Redis it reaches the clients of every process.
EmitUserList(c) ==
  /\ At(c, "emitting")
  /\ shown' = counted[c]
  /\ counted' = [counted EXCEPT ![c] = {}]
  /\ Goes(c, "ended")
  /\ UNCHANGED <<redis, alive, poolVars, conn, got, raced, deaths>>

-----------------------------------------------------------------------------
\* A process dies and leaves what it wrote to Redis; without Redis the pools
\* are gone with it and everything starts anew.
Die(p) ==
  /\ redis /\ p \in alive
  /\ deaths < MaxDeaths /\ deaths' = deaths + 1
  /\ alive' = alive \ {p}
  /\ UNCHANGED <<redis, poolVars, conn, step, got, counted, shown, raced>>

Event(c) == Connect(c) \/ UserJoin(c) \/ UserList(c) \/ Disconnect(c)
Handle(c) ==
  \/ FindUser(c) \/ GetList(c) \/ AddSession(c) \/ EnterFails(c)
  \/ ReadList(c) \/ FilterList(c) \/ CheckList(c) \/ DropUser(c)
  \/ CountUsers(c) \/ EmitUserList(c)

Next == (\E c \in Call : Event(c) \/ Handle(c)) \/ \E p \in Process : Die(p)

Spec == Init /\ [][Next]_vars

\* The event loop of a live process keeps running the handlers it has.
Fairness ==
  \A p \in Process : WF_vars(\E c \in Call : Here(c) = p /\ Handle(c))

FairSpec == Spec /\ Fairness

-----------------------------------------------------------------------------
(* Properties                                                              *)

\* The types of the variables.
TypeOK ==
  /\ redis \in BOOLEAN /\ alive \subseteq Process
  /\ sessions \subseteq Sid /\ online \subseteq User
  /\ list \in [User -> Lists]
  /\ conn \in [Sid -> {"away", "open", "closed"}]
  /\ step \in [Call -> Steps]
  /\ got \in [Call -> Lists]
  /\ counted \in [Call -> SUBSET User]
  /\ shown \subseteq User /\ raced \subseteq User
  /\ deaths \in Nat

Registered(u) == {s \in sessions : UserOf[s] = u}

\* Nothing is being changed for u, and no two handlers ever changed its list at
\* the same time from two processes.
Settled(u) == u \notin raced /\ \A c \in Call : Writing(c) => Of(c) # u

\* A user is in USER_POOL exactly as long as one of their sessions is in
\* SESSION_POOL, with those sessions: events go to every device and no other.
PoolsAgree ==
  \A u \in User : Settled(u) =>
    /\ u \in online <=> Registered(u) # {}
    /\ {s \in Sid : list[u][s] > 0} = Registered(u)

\* A handler of a user's session raises KeyError only where two processes
\* change the list of that user at a time.
FailsInRaces ==
  \A c \in Call : step[c] = "failed" =>
    \/ Of(c) \in raced
    \/ Kind[c] = "user-join" /\ conn[SessionOf[c]] = "closed"

\* Without Redis, whatever the handlers interleave with, what the clients were
\* last told is who is online once every handler has ended.
ShownIsOnline ==
  ~redis /\ (\A c \in Call : step[c] \in {"new", "ended", "failed"}) => shown = online

\* A user who has closed every session they had is offline in the end.
GoneIsOffline ==
  \A u \in User :
    LET mine(what) == {s \in Sid : UserOf[s] = u /\ conn[s] = what}
    IN  mine("open") = {} /\ mine("closed") # {}
          ~> u \notin online \/ u \in raced \/ mine("open") # {} \/ deaths > 0
=============================================================================
