------------------------------ MODULE Delivery ------------------------------
(***************************************************************************)
(* What the hub promises of a message, whatever route it takes and         *)
(* whichever worker carries it.  It is given at most once, to one agent    *)
(* that its sender may reach; an agent the hub runs itself is still        *)
(* installed at that moment, another one may have been deleted since the   *)
(* hub last looked.  Its sender is answered at most once, and with the     *)
(* agent's text only after the agent was given the message.                *)
(***************************************************************************)
CONSTANTS
  Request, Agent, Answers, None,
  Local,       \* agents the hub runs itself
  Reachable    \* the agents each request may be given to

VARIABLES
  installed,   \* the agents that have a row
  seen,        \* the agents a request has looked up and may still choose from
  given,       \* the agent a request was given to
  answer

deliveryVars == <<installed, seen, given, answer>>

Init ==
  /\ installed \in SUBSET Agent
  /\ seen = [r \in Request |-> {}]
  /\ given = [r \in Request |-> None]
  /\ answer = [r \in Request |-> None]

\* Administrators change the table at any time.
Install ==
  /\ installed' \in SUBSET Agent
  /\ UNCHANGED <<seen, given, answer>>

\* What was looked up before is forgotten.
Look(r) ==
  /\ \E found \in SUBSET installed : seen' = [seen EXCEPT ![r] = found]
  /\ UNCHANGED <<installed, given, answer>>

\* The sender may have given up by now.
Give(r, a) ==
  /\ given[r] = None
  /\ a \in Reachable[r]
  /\ a \in installed \/ (a \notin Local /\ a \in seen[r])
  /\ given' = [given EXCEPT ![r] = a]
  /\ seen' = [seen EXCEPT ![r] = {}]
  /\ UNCHANGED <<installed, answer>>

Answer(r, what) ==
  /\ answer[r] = None
  /\ what = "agent" => given[r] # None
  /\ answer' = [answer EXCEPT ![r] = what]
  /\ seen' = [seen EXCEPT ![r] = {}]
  /\ UNCHANGED <<installed, given>>

Next ==
  \/ Install
  \/ \E r \in Request :
       \/ Look(r)
       \/ \E a \in Agent : Give(r, a)
       \/ \E what \in Answers : Answer(r, what)

Spec == Init /\ [][Next]_deliveryVars
=============================================================================
