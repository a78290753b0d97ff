-------------------------- MODULE AgentCallsProofs --------------------------
(***************************************************************************)
(* Proofs about AgentCalls, for any number of workers, requests and agents.*)
(* The heart is Delegation: while a post to the hub is open its own loop   *)
(* is held, so the turn that answers it runs on another worker.            *)
(***************************************************************************)
EXTENDS AgentCalls, TLAPS

\* Facts about a request by the step it is in.
ByStep(r) ==
  /\ step[r] # "new" => worker[r] \in Worker
  /\ answer[r] # None => step[r] = "ended"
  /\ step[r] \in {"new", "routing"} => turns[r] = 0
  /\ step[r] \in {"new", "routing", "turn"} => rpc[r] = "none"
  /\ step[r] = "delegating" => target[r] \in Agent

\* Facts about the post a request has made to the hub.
ByRpc(r) ==
  /\ rpc[r] = "queued" => turns[r] = 0
  /\ rpc[r] # "none" => target[r] \in Internal
  /\ rpc[r] = "running" => server[r] \in Worker

\* While a post is open, whatever serves it is not the poster's worker.
Delegation(r) ==
  /\ (step[r] = "delegating" /\ rpc[r] \in {"running", "text"})
       => server[r] \in Worker /\ server[r] # worker[r]
  /\ (answer[r] = "agent" /\ rpc[r] # "none")
       => rpc[r] = "text" /\ server[r] \in Worker /\ server[r] # worker[r]
  /\ (step[r] = "delegating" /\ rpc[r] = "none") => target[r] \notin Internal

IInv ==
  /\ TypeOK
  /\ LoopHeldByItsCall
  /\ \A r \in Request : ByStep(r) /\ ByRpc(r) /\ Delegation(r)

LEMMA InitIInv == Init => IInv
  BY CallsAssumption
  DEF Init, IInv, TypeOK, LoopHeldByItsCall, ByStep, ByRpc, Delegation, Jobs, Steps, Rpcs

(* Who holds a loop. *)

LEMMA PairsDiffer ==
  \A r, q \in Request : \A j, k \in {"call", "turn"} :
    <<r, j>> = <<q, k>> => r = q /\ j = k
  OBVIOUS

\* An idle loop has no open call and no running turn.
LEMMA IdleLoop ==
  ASSUME TypeOK, LoopHeldByItsCall, NEW w \in Worker, loop[w] = Idle
  PROVE  \A q \in Request :
           /\ ~(step[q] \in {"delegating", "turn"} /\ worker[q] = w)
           /\ ~(rpc[q] = "running" /\ server[q] = w)
  <1>1. \A q \in Request : <<q, "call">> # Idle /\ <<q, "turn">> # Idle
    BY CallsAssumption DEF Jobs
  <1> QED BY <1>1 DEF LoopHeldByItsCall

\* A loop held by a call has no other call and no running turn.
LEMMA HeldByCall ==
  ASSUME TypeOK, LoopHeldByItsCall, NEW r \in Request,
         step[r] \in {"delegating", "turn"}, worker[r] \in Worker
  PROVE  \A q \in Request :
           /\ q # r => ~(step[q] \in {"delegating", "turn"} /\ worker[q] = worker[r])
           /\ ~(rpc[q] = "running" /\ server[q] = worker[r])
  <1>1. loop[worker[r]] = <<r, "call">>
    BY DEF LoopHeldByItsCall
  <1> QED BY <1>1, PairsDiffer DEF LoopHeldByItsCall

\* A loop held by a turn has no other turn and no open call.
LEMMA HeldByTurn ==
  ASSUME TypeOK, LoopHeldByItsCall, NEW r \in Request,
         rpc[r] = "running", server[r] \in Worker
  PROVE  \A q \in Request :
           /\ ~(step[q] \in {"delegating", "turn"} /\ worker[q] = server[r])
           /\ q # r => ~(rpc[q] = "running" /\ server[q] = server[r])
  <1>1. loop[server[r]] = <<r, "turn">>
    BY DEF LoopHeldByItsCall
  <1> QED BY <1>1, PairsDiffer DEF LoopHeldByItsCall

(* One lemma per way a handler may go on, then one per action. *)

LEMMA PostIInv ==
  ASSUME IInv, NEW w \in Worker, NEW r \in Request, NEW a \in Agent,
         loop[w] = Idle, step[r] \in {"new", "routing"}, Post(w, r, a),
         worker' = [worker EXCEPT ![r] = w], candidates' \in [Request -> SUBSET Agent],
         UNCHANGED <<tableVars, server>>
  PROVE  IInv'
<1> USE CallsAssumption DEF IInv
<1>1. TypeOK'
  <2>1. turns[r] = 0 /\ <<r, "call">> \in Jobs
    BY DEF ByStep, Jobs
  <2>2. turns' \in [Request -> Nat]
    BY <2>1 DEF TypeOK, Post, Blocks
  <2> QED BY <2>1, <2>2 DEF TypeOK, Post, Blocks, Steps, Rpcs, Answers, tableVars, ByStep
<1>2. LoopHeldByItsCall'
  <2> SUFFICES ASSUME NEW v \in Worker, NEW q \in Request
               PROVE  /\ (loop'[v] = <<q, "call">>)
                            <=> (step'[q] \in {"delegating", "turn"} /\ worker'[q] = v)
                      /\ (loop'[v] = <<q, "turn">>)
                            <=> (rpc'[q] = "running" /\ server'[q] = v)
    BY DEF LoopHeldByItsCall
  <2>1. \A x \in Worker : loop'[x] = IF x = w THEN <<r, "call">> ELSE loop[x]
    BY DEF Post, Blocks, TypeOK
  <2>2. /\ step' = [step EXCEPT ![r] = "delegating"] /\ worker' = [worker EXCEPT ![r] = w]
        /\ server' = server /\ rpc' \in [Request -> Rpcs]
        /\ \A x \in Request : rpc'[x] = "running" <=> rpc[x] = "running"
    BY DEF Post, Blocks, TypeOK, ByStep, Rpcs
  <2>3. CASE v # w
    <3>1. /\ loop[v] = <<q, "call">> <=> step[q] \in {"delegating", "turn"} /\ worker[q] = v
          /\ loop[v] = <<q, "turn">> <=> rpc[q] = "running" /\ server[q] = v
      BY DEF LoopHeldByItsCall
    <3>2. /\ q = r => step[q] \notin {"delegating", "turn"} /\ worker'[q] = w
          /\ q # r => step'[q] = step[q] /\ worker'[q] = worker[q]
      BY <2>2 DEF TypeOK
    <3> QED BY <2>1, <2>2, <2>3, <3>1, <3>2
  <2>4. CASE v = w
    <3>1. /\ ~(step[q] \in {"delegating", "turn"} /\ worker[q] = w)
          /\ ~(rpc[q] = "running" /\ server[q] = w)
      BY IdleLoop
    <3>2. CASE q = r
      BY <2>1, <2>2, <2>4, <3>1, <3>2, PairsDiffer DEF TypeOK
    <3>3. CASE q # r
      BY <2>1, <2>2, <2>4, <3>1, <3>3, PairsDiffer DEF TypeOK
    <3> QED BY <3>2, <3>3
  <2> QED BY <2>3, <2>4
<1>3. ASSUME NEW q \in Request PROVE (ByStep(q) /\ ByRpc(q) /\ Delegation(q))'
  <2>1. CASE q = r
    BY <2>1 DEF TypeOK, ByStep, ByRpc, Delegation, Post, Blocks, Answers, tableVars
  <2>2. CASE q # r
    BY <2>2 DEF TypeOK, ByStep, ByRpc, Delegation, Post, Blocks, tableVars
  <2> QED BY <2>1, <2>2
<1> QED BY <1>1, <1>2, <1>3

LEMMA EndIInv ==
  ASSUME IInv, NEW w \in Worker, NEW r \in Request, NEW what \in Answers,
         loop[w] = Idle, step[r] \in {"new", "routing"}, End(r, what),
         worker' = [worker EXCEPT ![r] = w], candidates' \in [Request -> SUBSET Agent],
         UNCHANGED <<tableVars, server>>
  PROVE  IInv'
<1> USE CallsAssumption DEF IInv
<1>1. TypeOK'
  <2>1. turns[r] = 0 /\ <<r, "call">> \in Jobs
    BY DEF ByStep, Jobs
  <2>2. turns' \in [Request -> Nat]
    BY <2>1 DEF TypeOK, End
  <2> QED BY <2>1, <2>2 DEF TypeOK, End, Steps, Rpcs, Answers, tableVars, ByStep
<1>2. LoopHeldByItsCall'
  <2> SUFFICES ASSUME NEW v \in Worker, NEW q \in Request
               PROVE  /\ (loop'[v] = <<q, "call">>)
                            <=> (step'[q] \in {"delegating", "turn"} /\ worker'[q] = v)
                      /\ (loop'[v] = <<q, "turn">>)
                            <=> (rpc'[q] = "running" /\ server'[q] = v)
    BY DEF LoopHeldByItsCall
  <2>1. \A x \in Worker : loop'[x] = IF x = w THEN Idle ELSE loop[x]
    BY DEF End, TypeOK
  <2>2. /\ step' = [step EXCEPT ![r] = "ended"] /\ worker' = [worker EXCEPT ![r] = w]
        /\ server' = server /\ rpc' \in [Request -> Rpcs]
        /\ \A x \in Request : rpc'[x] = "running" <=> rpc[x] = "running"
    BY DEF End, TypeOK, ByStep, Rpcs
  <2>3. CASE v # w
    <3>1. /\ loop[v] = <<q, "call">> <=> step[q] \in {"delegating", "turn"} /\ worker[q] = v
          /\ loop[v] = <<q, "turn">> <=> rpc[q] = "running" /\ server[q] = v
      BY DEF LoopHeldByItsCall
    <3>2. /\ q = r => step[q] \notin {"delegating", "turn"} /\ worker'[q] = w
          /\ q # r => step'[q] = step[q] /\ worker'[q] = worker[q]
      BY <2>2 DEF TypeOK
    <3> QED BY <2>1, <2>2, <2>3, <3>1, <3>2
  <2>4. CASE v = w
    <3>1. /\ ~(step[q] \in {"delegating", "turn"} /\ worker[q] = w)
          /\ ~(rpc[q] = "running" /\ server[q] = w)
      BY IdleLoop
    <3>2. loop'[v] # <<q, "call">> /\ loop'[v] # <<q, "turn">>
      <4>1. <<q, "call">> \in Jobs /\ <<q, "turn">> \in Jobs
        BY DEF Jobs
      <4> QED BY <2>1, <2>4, <4>1
    <3> QED BY <2>2, <2>4, <3>1, <3>2 DEF TypeOK
  <2> QED BY <2>3, <2>4
<1>3. ASSUME NEW q \in Request PROVE (ByStep(q) /\ ByRpc(q) /\ Delegation(q))'
  <2>1. CASE q = r
    BY <2>1 DEF TypeOK, ByStep, ByRpc, Delegation, End, Answers, tableVars
  <2>2. CASE q # r
    BY <2>2 DEF TypeOK, ByStep, ByRpc, Delegation, End, tableVars
  <2> QED BY <2>1, <2>2
<1> QED BY <1>1, <1>2, <1>3

LEMMA InProcessIInv ==
  ASSUME IInv, NEW w \in Worker, NEW r \in Request, NEW a \in Agent,
         loop[w] = Idle, step[r] \in {"new", "routing"}, InProcess(w, r, a),
         worker' = [worker EXCEPT ![r] = w], candidates' \in [Request -> SUBSET Agent],
         UNCHANGED <<tableVars, server>>
  PROVE  IInv'
<1> USE CallsAssumption DEF IInv
<1>1. TypeOK'
  <2>1. turns[r] = 0 /\ <<r, "call">> \in Jobs
    BY DEF ByStep, Jobs
  <2>2. turns' \in [Request -> Nat]
    BY <2>1 DEF TypeOK, InProcess, Blocks
  <2> QED BY <2>1, <2>2 DEF TypeOK, InProcess, Blocks, Steps, Rpcs, Answers, tableVars, ByStep
<1>2. LoopHeldByItsCall'
  <2> SUFFICES ASSUME NEW v \in Worker, NEW q \in Request
               PROVE  /\ (loop'[v] = <<q, "call">>)
                            <=> (step'[q] \in {"delegating", "turn"} /\ worker'[q] = v)
                      /\ (loop'[v] = <<q, "turn">>)
                            <=> (rpc'[q] = "running" /\ server'[q] = v)
    BY DEF LoopHeldByItsCall
  <2>1. \A x \in Worker : loop'[x] = IF x = w THEN <<r, "call">> ELSE loop[x]
    BY DEF InProcess, Blocks, TypeOK
  <2>2. /\ step' = [step EXCEPT ![r] = "turn"] /\ worker' = [worker EXCEPT ![r] = w]
        /\ server' = server /\ rpc' \in [Request -> Rpcs]
        /\ \A x \in Request : rpc'[x] = "running" <=> rpc[x] = "running"
    BY DEF InProcess, Blocks, TypeOK, ByStep, Rpcs
  <2>3. CASE v # w
    BY <2>1, <2>2, <2>3, IdleLoop DEF TypeOK, LoopHeldByItsCall
  <2>4. CASE v = w
    BY <2>1, <2>2, <2>4, IdleLoop, PairsDiffer DEF TypeOK, LoopHeldByItsCall
  <2> QED BY <2>3, <2>4
<1>3. ASSUME NEW q \in Request PROVE (ByStep(q) /\ ByRpc(q) /\ Delegation(q))'
  <2>1. CASE q = r
    BY <2>1 DEF TypeOK, ByStep, ByRpc, Delegation, InProcess, Blocks, Answers, tableVars
  <2>2. CASE q # r
    BY <2>2 DEF TypeOK, ByStep, ByRpc, Delegation, InProcess, Blocks, tableVars
  <2> QED BY <2>1, <2>2
<1> QED BY <1>1, <1>2, <1>3

LEMMA AcceptIInv ==
  ASSUME IInv, NEW w \in Worker, NEW r \in Request, Accept(w, r) PROVE IInv'
<1> USE CallsAssumption DEF Accept
<1>0. Wanted[r] \in Agent /\ "refused" \in Answers /\ candidates' \in [Request -> SUBSET Agent]
  BY DEF Answers, IInv, TypeOK
<1>1. CASE End(r, "refused")
  BY <1>0, <1>1, EndIInv
<1>2. CASE InProcess(w, r, Wanted[r])
  BY <1>0, <1>2, InProcessIInv
<1>3. CASE Post(w, r, Wanted[r])
  BY <1>0, <1>3, PostIInv
<1> QED BY <1>1, <1>2, <1>3

LEMMA AcceptChrisIInv ==
  ASSUME IInv, NEW w \in Worker, NEW r \in Request, AcceptChris(w, r) PROVE IInv'
<1> USE CallsAssumption DEF IInv
<1>1. TypeOK'
  BY DEF TypeOK, AcceptChris, Listed, tableVars, Jobs, Steps, Rpcs, Answers, Rows, ByStep, ByRpc,
      Delegation
<1>2. LoopHeldByItsCall'
  BY DEF TypeOK, LoopHeldByItsCall, AcceptChris, tableVars, Jobs, ByStep, ByRpc, Delegation
<1>3. ASSUME NEW q \in Request PROVE (ByStep(q) /\ ByRpc(q) /\ Delegation(q))'
  <2>1. CASE q = r
    BY <2>1 DEF TypeOK, LoopHeldByItsCall, ByStep, ByRpc, Delegation, AcceptChris, Listed,
        tableVars, Jobs, Answers
  <2>2. CASE q # r
    BY <2>2 DEF TypeOK, ByStep, ByRpc, Delegation, AcceptChris, Listed, tableVars
  <2> QED BY <2>1, <2>2
<1> QED BY <1>1, <1>2, <1>3

LEMMA RoutingEndsIInv ==
  ASSUME IInv, NEW r \in Request, RoutingEnds(r) PROVE IInv'
<1> USE CallsAssumption DEF RoutingEnds
<1>0. /\ "refused" \in Answers
      /\ candidates' \in [Request -> SUBSET Agent]
      /\ worker[r] \in Worker /\ worker' = [worker EXCEPT ![r] = worker[r]]
      /\ candidates[r] \subseteq Agent
  BY DEF Answers, IInv, TypeOK, ByStep
<1>1. CASE End(r, "refused")
  BY <1>0, <1>1, EndIInv
<1>2. ASSUME NEW a \in candidates[r], Post(worker[r], r, a) PROVE IInv'
  BY <1>0, <1>2, PostIInv
<1>3. CASE step' = [step EXCEPT ![r] = "direct"] /\ UNCHANGED <<loop, target, answer, rpc, turns>>
  <2> USE <1>0, <1>3 DEF IInv, tableVars
  <2>1. TypeOK'
    BY DEF TypeOK, Steps
  <2>2. LoopHeldByItsCall'
    BY DEF TypeOK, LoopHeldByItsCall
  <2>3. ASSUME NEW q \in Request PROVE (ByStep(q) /\ ByRpc(q) /\ Delegation(q))'
    BY DEF TypeOK, ByStep, ByRpc, Delegation
  <2> QED BY <2>1, <2>2, <2>3
<1> QED BY <1>1, <1>2, <1>3

LEMMA DirectEndsIInv ==
  ASSUME IInv, NEW r \in Request, DirectEnds(r) PROVE IInv'
<1> USE CallsAssumption DEF IInv
<1>1. TypeOK'
  BY DEF TypeOK, DirectEnds, End, tableVars, Jobs, Steps, Rpcs, Answers, Rows, ByStep, ByRpc,
      Delegation
<1>2. LoopHeldByItsCall'
  BY DEF TypeOK, LoopHeldByItsCall, DirectEnds, End, tableVars, Jobs, ByStep, ByRpc, Delegation
<1>3. ASSUME NEW q \in Request PROVE (ByStep(q) /\ ByRpc(q) /\ Delegation(q))'
  <2>1. CASE q = r
    BY <2>1 DEF TypeOK, LoopHeldByItsCall, ByStep, ByRpc, Delegation, DirectEnds, End, tableVars,
        Jobs, Answers
  <2>2. CASE q # r
    BY <2>2 DEF TypeOK, ByStep, ByRpc, Delegation, DirectEnds, End, tableVars
  <2> QED BY <2>1, <2>2
<1> QED BY <1>1, <1>2, <1>3

LEMMA ServeIInv ==
  ASSUME IInv, NEW w \in Worker, NEW r \in Request, Serve(w, r) PROVE IInv'
<1> USE CallsAssumption DEF IInv
<1>1. TypeOK'
  BY DEF TypeOK, Serve, tableVars, Jobs, Steps, Rpcs, Answers, Rows, ByStep, ByRpc, Delegation
<1>2. LoopHeldByItsCall'
  <2> SUFFICES ASSUME NEW v \in Worker, NEW q \in Request
               PROVE  /\ (loop'[v] = <<q, "call">>)
                            <=> (step'[q] \in {"delegating", "turn"} /\ worker'[q] = v)
                      /\ (loop'[v] = <<q, "turn">>)
                            <=> (rpc'[q] = "running" /\ server'[q] = v)
    BY DEF LoopHeldByItsCall
  <2>1. CASE UNCHANGED <<loop, server>> /\ rpc' \in [Request -> Rpcs] /\ rpc'[r] # "running"
    BY <2>1 DEF Serve, TypeOK, LoopHeldByItsCall
  <2>2. CASE /\ rpc' = [rpc EXCEPT ![r] = "running"]
             /\ server' = [server EXCEPT ![r] = w]
             /\ loop' = [loop EXCEPT ![w] = <<r, "turn">>]
    <3>1. \A x \in Request :
            /\ ~(step[x] \in {"delegating", "turn"} /\ worker[x] = w)
            /\ ~(rpc[x] = "running" /\ server[x] = w)
      BY IdleLoop DEF Serve
    <3>2. CASE v = w
      BY <2>2, <3>1, <3>2, PairsDiffer DEF Serve, TypeOK
    <3>3. CASE v # w
      BY <2>2, <3>3 DEF Serve, TypeOK, LoopHeldByItsCall
    <3> QED BY <3>2, <3>3
  <2> QED BY <2>1, <2>2 DEF Serve, TypeOK, Rpcs
<1>3. ASSUME NEW q \in Request PROVE (ByStep(q) /\ ByRpc(q) /\ Delegation(q))'
  <2>1. CASE q = r
    <3>1. /\ rpc[r] = "queued" /\ turns[r] = 0 /\ target[r] \in Internal
          /\ ~(step[r] \in {"delegating", "turn"} /\ worker[r] = w)
          /\ UNCHANGED <<step, worker, target, answer>>
      BY IdleLoop DEF ByRpc, Serve
    <3>2. rpc'[r] \in {"running", "envelope", "dropped"} /\ server'[r] \in {w, server[r]}
          /\ (rpc'[r] = "running" => server'[r] = w)
      BY DEF Serve, TypeOK
    <3>3. step[r] \in {"delegating", "direct", "ended"} /\ ~(answer[r] = "agent")
      BY <3>1 DEF TypeOK, Steps, ByStep, Delegation
    <3> QED BY <2>1, <3>1, <3>2, <3>3 DEF ByStep, ByRpc, Delegation
  <2>2. CASE q # r
    BY <2>2 DEF TypeOK, ByStep, ByRpc, Delegation, Serve, tableVars
  <2> QED BY <2>1, <2>2
<1> QED BY <1>1, <1>2, <1>3

LEMMA TurnEndsIInv ==
  ASSUME IInv, NEW r \in Request, TurnEnds(r) PROVE IInv'
<1> USE CallsAssumption DEF IInv
<1>1. TypeOK'
  BY DEF TypeOK, TurnEnds, tableVars, Jobs, Steps, Rpcs, Answers, Rows, ByStep, ByRpc, Delegation
<1>2. LoopHeldByItsCall'
  <2> SUFFICES ASSUME NEW v \in Worker, NEW q \in Request
               PROVE  /\ (loop'[v] = <<q, "call">>)
                            <=> (step'[q] \in {"delegating", "turn"} /\ worker'[q] = v)
                      /\ (loop'[v] = <<q, "turn">>)
                            <=> (rpc'[q] = "running" /\ server'[q] = v)
    BY DEF LoopHeldByItsCall
  <2>1. /\ server[r] \in Worker
        /\ loop' = [loop EXCEPT ![server[r]] = Idle]
        /\ worker' = worker /\ server' = server
    BY DEF TypeOK, TurnEnds, tableVars, ByStep, ByRpc
  <2>2. /\ \A x \in Request : step'[x] = step[x]
        /\ \A x \in Request : x # r => rpc'[x] = rpc[x]
        /\ rpc'[r] # "running" /\ rpc[r] = "running"
    BY DEF TypeOK, TurnEnds, tableVars
  <2>3. <<q, "call">> # Idle /\ <<q, "turn">> # Idle
    BY DEF Jobs
  <2>4. CASE v = server[r]
    <3>1. \A x \in Request : 
              /\ ~(step[x] \in {"delegating", "turn"} /\ worker[x] = server[r])
              /\ x # r => ~(rpc[x] = "running" /\ server[x] = server[r])
      BY <2>1, <2>2, HeldByTurn DEF IInv
    <3> QED BY <2>1, <2>2, <2>3, <2>4, <3>1 DEF TypeOK
  <2>5. CASE v # server[r]
    BY <2>1, <2>2, <2>5, HeldByTurn DEF TypeOK, LoopHeldByItsCall
  <2> QED BY <2>4, <2>5
<1>3. ASSUME NEW q \in Request PROVE (ByStep(q) /\ ByRpc(q) /\ Delegation(q))'
  <2>1. CASE q = r
    BY <2>1 DEF TypeOK, LoopHeldByItsCall, ByStep, ByRpc, Delegation, TurnEnds, tableVars, Jobs,
        Answers
  <2>2. CASE q # r
    BY <2>2 DEF TypeOK, ByStep, ByRpc, Delegation, TurnEnds, tableVars
  <2> QED BY <2>1, <2>2
<1> QED BY <1>1, <1>2, <1>3

LEMMA PostReturnsIInv ==
  ASSUME IInv, NEW r \in Request, PostReturns(r) PROVE IInv'
<1> USE CallsAssumption DEF IInv
<1>1. TypeOK'
  BY DEF TypeOK, PostReturns, Received, OfEnvelope, tableVars, Jobs, Steps, Rpcs, Answers, Rows,
      ByStep, ByRpc, Delegation
<1>2. LoopHeldByItsCall'
  <2> SUFFICES ASSUME NEW v \in Worker, NEW q \in Request
               PROVE  /\ (loop'[v] = <<q, "call">>)
                            <=> (step'[q] \in {"delegating", "turn"} /\ worker'[q] = v)
                      /\ (loop'[v] = <<q, "turn">>)
                            <=> (rpc'[q] = "running" /\ server'[q] = v)
    BY DEF LoopHeldByItsCall
  <2>1. /\ worker[r] \in Worker
        /\ loop' = [loop EXCEPT ![worker[r]] = Idle]
        /\ worker' = worker /\ server' = server
    BY DEF TypeOK, PostReturns, tableVars, ByStep, ByRpc
  <2>2. /\ \A x \in Request : rpc'[x] = rpc[x]
        /\ \A x \in Request : x # r => step'[x] = step[x]
        /\ step'[r] \notin {"delegating", "turn"}
        /\ step[r] \in {"delegating", "turn"}
    BY DEF TypeOK, PostReturns, tableVars
  <2>3. <<q, "call">> # Idle /\ <<q, "turn">> # Idle
    BY DEF Jobs
  <2>4. CASE v = worker[r]
    <3>1. \A x \in Request : 
              /\ x # r => ~(step[x] \in {"delegating", "turn"} /\ worker[x] = worker[r])
              /\ ~(rpc[x] = "running" /\ server[x] = worker[r])
      BY <2>1, <2>2, HeldByCall DEF IInv
    <3> QED BY <2>1, <2>2, <2>3, <2>4, <3>1 DEF TypeOK
  <2>5. CASE v # worker[r]
    BY <2>1, <2>2, <2>5, HeldByCall DEF TypeOK, LoopHeldByItsCall
  <2> QED BY <2>4, <2>5
<1>3. ASSUME NEW q \in Request PROVE (ByStep(q) /\ ByRpc(q) /\ Delegation(q))'
  <2>1. CASE q = r
    BY <2>1 DEF TypeOK, LoopHeldByItsCall, ByStep, ByRpc, Delegation, PostReturns, Received,
        OfEnvelope, tableVars, Jobs, Answers
  <2>2. CASE q # r
    BY <2>2 DEF TypeOK, ByStep, ByRpc, Delegation, PostReturns, Received, OfEnvelope, tableVars
  <2> QED BY <2>1, <2>2
<1> QED BY <1>1, <1>2, <1>3

LEMMA PostFailsIInv ==
  ASSUME IInv, NEW r \in Request, PostFails(r) PROVE IInv'
<1> USE CallsAssumption DEF IInv
<1>1. TypeOK'
  BY DEF TypeOK, PostFails, tableVars, Jobs, Steps, Rpcs, Answers, Rows, ByStep, ByRpc, Delegation
<1>2. LoopHeldByItsCall'
  <2> SUFFICES ASSUME NEW v \in Worker, NEW q \in Request
               PROVE  /\ (loop'[v] = <<q, "call">>)
                            <=> (step'[q] \in {"delegating", "turn"} /\ worker'[q] = v)
                      /\ (loop'[v] = <<q, "turn">>)
                            <=> (rpc'[q] = "running" /\ server'[q] = v)
    BY DEF LoopHeldByItsCall
  <2>1. /\ worker[r] \in Worker
        /\ loop' = [loop EXCEPT ![worker[r]] = Idle]
        /\ worker' = worker /\ server' = server
    BY DEF TypeOK, PostFails, tableVars, ByStep, ByRpc
  <2>2. /\ \A x \in Request : rpc'[x] = rpc[x]
        /\ \A x \in Request : x # r => step'[x] = step[x]
        /\ step'[r] \notin {"delegating", "turn"}
        /\ step[r] \in {"delegating", "turn"}
    BY DEF TypeOK, PostFails, tableVars
  <2>3. <<q, "call">> # Idle /\ <<q, "turn">> # Idle
    BY DEF Jobs
  <2>4. CASE v = worker[r]
    <3>1. \A x \in Request : 
              /\ x # r => ~(step[x] \in {"delegating", "turn"} /\ worker[x] = worker[r])
              /\ ~(rpc[x] = "running" /\ server[x] = worker[r])
      BY <2>1, <2>2, HeldByCall DEF IInv
    <3> QED BY <2>1, <2>2, <2>3, <2>4, <3>1 DEF TypeOK
  <2>5. CASE v # worker[r]
    BY <2>1, <2>2, <2>5, HeldByCall DEF TypeOK, LoopHeldByItsCall
  <2> QED BY <2>4, <2>5
<1>3. ASSUME NEW q \in Request PROVE (ByStep(q) /\ ByRpc(q) /\ Delegation(q))'
  <2>1. CASE q = r
    BY <2>1 DEF TypeOK, LoopHeldByItsCall, ByStep, ByRpc, Delegation, PostFails, tableVars, Jobs,
        Answers
  <2>2. CASE q # r
    BY <2>2 DEF TypeOK, ByStep, ByRpc, Delegation, PostFails, tableVars
  <2> QED BY <2>1, <2>2
<1> QED BY <1>1, <1>2, <1>3

LEMMA InProcessEndsIInv ==
  ASSUME IInv, NEW r \in Request, InProcessEnds(r) PROVE IInv'
<1> USE CallsAssumption DEF IInv
<1>1. TypeOK'
  BY DEF TypeOK, InProcessEnds, tableVars, Jobs, Steps, Rpcs, Answers, Rows, ByStep, ByRpc,
      Delegation
<1>2. LoopHeldByItsCall'
  <2> SUFFICES ASSUME NEW v \in Worker, NEW q \in Request
               PROVE  /\ (loop'[v] = <<q, "call">>)
                            <=> (step'[q] \in {"delegating", "turn"} /\ worker'[q] = v)
                      /\ (loop'[v] = <<q, "turn">>)
                            <=> (rpc'[q] = "running" /\ server'[q] = v)
    BY DEF LoopHeldByItsCall
  <2>1. /\ worker[r] \in Worker
        /\ loop' = [loop EXCEPT ![worker[r]] = Idle]
        /\ worker' = worker /\ server' = server
    BY DEF TypeOK, InProcessEnds, tableVars, ByStep, ByRpc
  <2>2. /\ \A x \in Request : rpc'[x] = rpc[x]
        /\ \A x \in Request : x # r => step'[x] = step[x]
        /\ step'[r] \notin {"delegating", "turn"}
        /\ step[r] \in {"delegating", "turn"}
    BY DEF TypeOK, InProcessEnds, tableVars
  <2>3. <<q, "call">> # Idle /\ <<q, "turn">> # Idle
    BY DEF Jobs
  <2>4. CASE v = worker[r]
    <3>1. \A x \in Request : 
              /\ x # r => ~(step[x] \in {"delegating", "turn"} /\ worker[x] = worker[r])
              /\ ~(rpc[x] = "running" /\ server[x] = worker[r])
      BY <2>1, <2>2, HeldByCall DEF IInv
    <3> QED BY <2>1, <2>2, <2>3, <2>4, <3>1 DEF TypeOK
  <2>5. CASE v # worker[r]
    BY <2>1, <2>2, <2>5, HeldByCall DEF TypeOK, LoopHeldByItsCall
  <2> QED BY <2>4, <2>5
<1>3. ASSUME NEW q \in Request PROVE (ByStep(q) /\ ByRpc(q) /\ Delegation(q))'
  <2>1. CASE q = r
    BY <2>1 DEF TypeOK, LoopHeldByItsCall, ByStep, ByRpc, Delegation, InProcessEnds, tableVars,
        Jobs, Answers
  <2>2. CASE q # r
    BY <2>2 DEF TypeOK, ByStep, ByRpc, Delegation, InProcessEnds, tableVars
  <2> QED BY <2>1, <2>2
<1> QED BY <1>1, <1>2, <1>3

LEMMA ChangeRowIInv ==
  ASSUME IInv, NEW a \in Agent, ChangeRow(a) PROVE IInv'
<1> USE CallsAssumption DEF IInv
<1>1. TypeOK'
  BY DEF TypeOK, ChangeRow, Jobs, Steps, Rpcs, Answers, Rows, ByStep, ByRpc, Delegation
<1>2. LoopHeldByItsCall'
  BY DEF TypeOK, LoopHeldByItsCall, ChangeRow, Jobs, ByStep, ByRpc, Delegation
<1>3. ASSUME NEW q \in Request PROVE (ByStep(q) /\ ByRpc(q) /\ Delegation(q))'
  BY DEF ByStep, ByRpc, Delegation, ChangeRow
<1> QED BY <1>1, <1>2, <1>3

LEMMA NextIInv == IInv /\ [Next]_vars => IInv'
<1> SUFFICES ASSUME IInv, [Next]_vars PROVE IInv'
  OBVIOUS
<1>1. CASE UNCHANGED vars
  BY <1>1 DEF vars, tableVars, IInv, TypeOK, LoopHeldByItsCall, ByStep, ByRpc, Delegation
<1>2. ASSUME NEW r \in Request, Handle(r) PROVE IInv'
  BY <1>2, AcceptIInv, AcceptChrisIInv, RoutingEndsIInv, DirectEndsIInv, InProcessEndsIInv,
     PostReturnsIInv, PostFailsIInv DEF Handle
<1>3. ASSUME NEW r \in Request, A2A(r) PROVE IInv'
  BY <1>3, ServeIInv, TurnEndsIInv DEF A2A
<1>4. ASSUME NEW a \in Agent, ChangeRow(a) PROVE IInv'
  BY <1>4, ChangeRowIInv
<1> QED BY <1>1, <1>2, <1>3, <1>4 DEF Next

LEMMA SpecIInv == Spec => []IInv
  BY InitIInv, NextIInv, PTL DEF Spec

-----------------------------------------------------------------------------
\* The variables keep their types.
THEOREM TypeCorrect == Spec => []TypeOK
<1>1. IInv => TypeOK
  BY DEF IInv
<1> QED BY <1>1, SpecIInv, PTL

\* A worker's loop is held by exactly the call that is open on it: blocking
\* calls exclude each other on a worker and always give its loop back.
THEOREM OneCallPerLoop == Spec => []LoopHeldByItsCall
<1>1. IInv => LoopHeldByItsCall
  BY DEF IInv
<1> QED BY <1>1, SpecIInv, PTL

\* Whoever is answered through the hub's own endpoint was answered by a turn on
\* another worker.
THEOREM AnotherWorker == Spec => []SelfCallNeedsAnotherWorker
<1>1. IInv => SelfCallNeedsAnotherWorker
  BY DEF IInv, Delegation, SelfCallNeedsAnotherWorker
<1> QED BY <1>1, SpecIInv, PTL

\* With the default of one worker, a request that is posted to the hub itself
\* never gets the agent's answer.
OneWorkerStarves ==
  \A r \in Request : ~(answer[r] = "agent" /\ rpc[r] # "none")

THEOREM SingleWorkerStarves ==
  ASSUME \A v, w \in Worker : v = w
  PROVE  Spec => []OneWorkerStarves
<1>1. IInv => OneWorkerStarves
  <2> SUFFICES ASSUME IInv, NEW r \in Request, answer[r] = "agent", rpc[r] # "none"
               PROVE  FALSE
    BY DEF OneWorkerStarves
  <2>1. server[r] \in Worker /\ server[r] # worker[r]
    BY DEF IInv, Delegation
  <2>2. worker[r] \in Worker
    <3>1. step[r] = "ended"
      BY CallsAssumption DEF IInv, ByStep, Answers
    <3> QED BY <3>1 DEF IInv, ByStep
  <2> QED BY <2>1, <2>2
<1> QED BY <1>1, SpecIInv, PTL

\* No message is given to a provider twice, and no post starts a turn for an
\* agent whose row is gone.
THEOREM TurnsHold == Spec => TurnsAreAllowed
<1>1. IInv /\ [Next]_vars => [\A r \in Request : turns'[r] # turns[r] =>
        turns'[r] = 1 /\ target'[r] \in Agent /\ Known(target'[r])]_vars
  <2> SUFFICES ASSUME IInv, Next, NEW q \in Request, turns'[q] # turns[q]
               PROVE  turns'[q] = 1 /\ target'[q] \in Agent /\ Known(target'[q])
    OBVIOUS
  <2>1. ASSUME NEW w \in Worker, NEW r \in Request, Accept(w, r)
      PROVE turns'[q] = 1 /\ target'[q] \in Agent /\ Known(target'[q])
    <3>1. InProcess(w, r, Wanted[r]) /\ Known(Wanted[r])
      BY <2>1 DEF Accept, End, Post
    <3>2. q = r /\ turns[r] = 0
      BY <2>1, <3>1 DEF Accept, InProcess, IInv, TypeOK, ByStep
    <3>3. turns'[r] = turns[r] + 1 /\ target'[r] = Wanted[r]
      BY <3>1 DEF InProcess, IInv, TypeOK
    <3> QED BY <3>1, <3>2, <3>3, CallsAssumption
  <2>2. ASSUME NEW w \in Worker, NEW r \in Request, Serve(w, r)
      PROVE turns'[q] = 1 /\ target'[q] \in Agent /\ Known(target'[q])
    BY <2>2, CallsAssumption DEF Serve, Runnable, Known, IInv, TypeOK, ByRpc
  <2> QED
    BY <2>1, <2>2 DEF Next, Handle, A2A, AcceptChris, RoutingEnds, Post, End, DirectEnds,
       InProcessEnds, PostReturns, PostFails, TurnEnds, ChangeRow
<1> QED BY <1>1, SpecIInv, PTL DEF Spec, TurnsAreAllowed

-----------------------------------------------------------------------------
\* A chat with an agent the hub runs itself never shows a reply unless the
\* client asked for a stream: the text of the turn is dropped.
UnstreamedIsSilent ==
  \A r \in Request \ Stream : Route[r] = "chat" /\ Wanted[r] \in Internal =>
    answer[r] \in {None, "nothing", "error", "refused"}

\* Such a request is never posted.
ShortCut ==
  \A r \in Request : Route[r] = "chat" /\ Wanted[r] \in Internal =>
    step[r] \in {"new", "turn", "ended"}

THEOREM ChatIsSilent == Spec => []UnstreamedIsSilent
<1> DEFINE Inv == IInv /\ ShortCut /\ UnstreamedIsSilent
<1>1. Init => Inv
  BY InitIInv DEF Init, ShortCut, UnstreamedIsSilent
<1>2. Inv /\ [Next]_vars => Inv'
  <2> SUFFICES ASSUME Inv, [Next]_vars PROVE ShortCut' /\ UnstreamedIsSilent'
    BY NextIInv
  <2> USE DEF Inv, IInv, TypeOK, ShortCut, UnstreamedIsSilent
  <2>1. CASE UNCHANGED vars
    BY <2>1 DEF vars
  <2>2. ASSUME NEW w \in Worker, NEW r \in Request, Accept(w, r)
        PROVE  ShortCut' /\ UnstreamedIsSilent'
    BY <2>2 DEF Accept, End, InProcess, Post
  <2>3. ASSUME NEW w \in Worker, NEW r \in Request, AcceptChris(w, r)
        PROVE  ShortCut' /\ UnstreamedIsSilent'
    BY <2>3 DEF AcceptChris
  <2>4. ASSUME NEW r \in Request, \/ RoutingEnds(r) \/ DirectEnds(r)
                                  \/ PostReturns(r) \/ PostFails(r)
        PROVE  ShortCut' /\ UnstreamedIsSilent'
    <3>1. ~(Route[r] = "chat" /\ Wanted[r] \in Internal)
      BY <2>4 DEF RoutingEnds, DirectEnds, PostReturns, PostFails
    <3>2. \A q \in Request : q # r => step'[q] = step[q] /\ answer'[q] = answer[q]
      BY <2>4 DEF RoutingEnds, End, Post, DirectEnds, PostReturns, PostFails
    <3> QED BY <3>1, <3>2
  <2>5. ASSUME NEW r \in Request, InProcessEnds(r)
        PROVE  ShortCut' /\ UnstreamedIsSilent'
    BY <2>5 DEF InProcessEnds
  <2>6. CASE (\E r \in Request : A2A(r)) \/ (\E a \in Agent : ChangeRow(a))
    BY <2>6 DEF A2A, Serve, TurnEnds, ChangeRow
  <2> QED BY <2>1, <2>2, <2>3, <2>4, <2>5, <2>6 DEF Next, Handle
<1> QED BY <1>1, <1>2, PTL DEF Spec

-----------------------------------------------------------------------------
(* What EveryRequestEnds rests on, apart from fairness. *)

\* A handler that waits for its loop waits for a call that ends by itself: the
\* holder is a post with a deadline or a provider's turn, and neither needs a
\* loop to end.  So the workers never wait for each other in a circle, though
\* all of them may be posting to the hub they are.
NoCircularWait ==
  \A w \in Worker : loop[w] # Idle =>
    \E q \in Request :
      \/ step[q] \in {"delegating", "turn"} /\ worker[q] = w
      \/ rpc[q] = "running" /\ server[q] = w

THEOREM WorkersNeverDeadlock == Spec => []NoCircularWait
<1>1. IInv => NoCircularWait
  <2> SUFFICES ASSUME IInv, NEW w \in Worker, loop[w] # Idle
               PROVE  \E q \in Request : \/ step[q] \in {"delegating", "turn"} /\ worker[q] = w
                                         \/ rpc[q] = "running" /\ server[q] = w
    BY DEF NoCircularWait
  <2>1. loop[w] \in Request \X {"call", "turn"}
    BY DEF IInv, TypeOK, Jobs
  <2>2. PICK q \in Request : loop[w] = <<q, "call">> \/ loop[w] = <<q, "turn">>
    BY <2>1
  <2> QED BY <2>2 DEF IInv, LoopHeldByItsCall
<1> QED BY <1>1, SpecIInv, PTL

\* A request moves on at each of its steps, so it takes at most four of them.
Rank(s) ==
  CASE s = "new" -> 0
    [] s = "routing" -> 1
    [] s \in {"delegating", "turn"} -> 2
    [] s = "direct" -> 3
    [] OTHER -> 4

RequestsOnlyAdvance ==
  [][\A r \in Request : step'[r] = step[r] \/ Rank(step[r]) < Rank(step'[r])]_vars

THEOREM RequestsAdvance == Spec => RequestsOnlyAdvance
<1> DEFINE Advances == \A r \in Request : step'[r] = step[r] \/ Rank(step[r]) < Rank(step'[r])
<1>1. IInv /\ [Next]_vars => [Advances]_vars
  <2> SUFFICES ASSUME IInv, Next PROVE Advances
    OBVIOUS
  <2>1. ASSUME NEW r \in Request, NEW s \in Steps,
               step' = [step EXCEPT ![r] = s], Rank(step[r]) < Rank(s)
        PROVE  Advances
    BY <2>1 DEF IInv, TypeOK
  <2>2. UNCHANGED step => Advances
    OBVIOUS
  <2> HIDE DEF Advances
  <2>3. ASSUME NEW w \in Worker, NEW r \in Request, Accept(w, r) \/ AcceptChris(w, r)
        PROVE  Advances
    BY <2>1, <2>3 DEF Accept, AcceptChris, End, InProcess, Post, Rank, Steps
  <2>4. ASSUME NEW r \in Request, RoutingEnds(r) PROVE Advances
    BY <2>1, <2>4 DEF RoutingEnds, End, Post, Rank, Steps
  <2>5. ASSUME NEW r \in Request,
               DirectEnds(r) \/ InProcessEnds(r) \/ PostReturns(r) \/ PostFails(r)
        PROVE  Advances
    BY <2>1, <2>5 DEF DirectEnds, End, InProcessEnds, PostReturns, PostFails, Rank, Steps
  <2>6. (\E r \in Request : A2A(r)) \/ (\E a \in Agent : ChangeRow(a)) => UNCHANGED step
    BY DEF A2A, Serve, TurnEnds, ChangeRow
  <2> QED BY <2>2, <2>3, <2>4, <2>5, <2>6 DEF Next, Handle
<1> QED BY <1>1, SpecIInv, PTL DEF Spec, RequestsOnlyAdvance

-----------------------------------------------------------------------------
\* What a caller may be told, by the route taken: the fallbacks and the error
\* envelopes come out differently on each, and the page of Chris has to cope
\* with the answers of the chris route and no others.
AnswersOf(route) ==
  CASE route = "message" -> {"agent", "envelope", "refused", "error"}
    [] route = "chris"   -> {"agent", "empty", "direct", "refused", "error"}
    [] route = "embed"   -> {"agent", "braces", "refused", "error"}
    [] OTHER             -> {"agent", "braces", "nothing", "refused", "error"}

AnswersFitRoute ==
  \A r \in Request : answer[r] # None => answer[r] \in AnswersOf(Route[r])

\* Only a request of Chris is ever routed or answered by Gemini itself, and
\* only a chat runs an agent in the worker that accepted it.
StepsFitRoute ==
  \A r \in Request :
    /\ step[r] \in {"routing", "direct"} => Route[r] = "chris"
    /\ step[r] = "turn" => Route[r] = "chat"

THEOREM RoutesAnswerTheirOwn == Spec => []AnswersFitRoute
<1> DEFINE Inv == IInv /\ StepsFitRoute /\ AnswersFitRoute
<1>1. Init => Inv
  BY InitIInv DEF Init, StepsFitRoute, AnswersFitRoute
<1>2. Inv /\ [Next]_vars => Inv'
  <2> SUFFICES ASSUME Inv, [Next]_vars PROVE StepsFitRoute' /\ AnswersFitRoute'
    BY NextIInv
  <2> USE CallsAssumption DEF Inv, IInv, TypeOK, StepsFitRoute, AnswersFitRoute, Routes
  <2>1. CASE UNCHANGED vars
    BY <2>1 DEF vars
  <2>2. ASSUME NEW w \in Worker, NEW r \in Request, Accept(w, r)
        PROVE  StepsFitRoute' /\ AnswersFitRoute'
    BY <2>2 DEF Accept, End, InProcess, Post, AnswersOf
  <2>3. ASSUME NEW w \in Worker, NEW r \in Request, AcceptChris(w, r)
        PROVE  StepsFitRoute' /\ AnswersFitRoute'
    BY <2>3 DEF AcceptChris
  <2>4. ASSUME NEW r \in Request, RoutingEnds(r) PROVE StepsFitRoute' /\ AnswersFitRoute'
    BY <2>4 DEF RoutingEnds, End, Post, AnswersOf
  <2>5. ASSUME NEW r \in Request, DirectEnds(r) \/ InProcessEnds(r)
        PROVE  StepsFitRoute' /\ AnswersFitRoute'
    BY <2>5 DEF DirectEnds, End, InProcessEnds, AnswersOf
  <2>6. ASSUME NEW r \in Request, PostReturns(r) PROVE StepsFitRoute' /\ AnswersFitRoute'
    BY <2>6 DEF PostReturns, OfEnvelope, AnswersOf
  <2>7. ASSUME NEW r \in Request, PostFails(r) PROVE StepsFitRoute' /\ AnswersFitRoute'
    BY <2>7 DEF PostFails, AnswersOf
  <2>8. CASE (\E r \in Request : A2A(r)) \/ (\E a \in Agent : ChangeRow(a))
    BY <2>8 DEF A2A, Serve, TurnEnds, ChangeRow
  <2> QED BY <2>1, <2>2, <2>3, <2>4, <2>5, <2>6, <2>7, <2>8 DEF Next, Handle
<1> QED BY <1>1, <1>2, PTL DEF Spec

-----------------------------------------------------------------------------
(* Refinement of Delivery. *)

\* What a request knows and whom it was given to, by where it is.
ByTarget(r) ==
  /\ step[r] \in {"new", "routing"} => target[r] = None
  /\ step[r] = "routing" => Route[r] = "chris"
  /\ step[r] # "routing" => candidates[r] = {}
  /\ rpc[r] # "none" => Route[r] # "chat" /\ (Route[r] # "embed" => target[r] \in Admitted[r])
  /\ (step[r] = "turn" \/ rpc[r] \in {"running", "text"}) => turns[r] > 0 /\ target[r] \in Agent

DInv == IInv /\ \A r \in Request : ByTarget(r)

LEMMA InitDInv == Init => DInv
  BY InitIInv DEF Init, DInv, ByTarget

LEMMA NextDInv == DInv /\ [Next]_vars => DInv'
<1> SUFFICES ASSUME DInv, [Next]_vars, NEW q \in Request PROVE ByTarget(q)'
  BY NextIInv DEF DInv
<1> USE CallsAssumption DEF DInv, IInv, TypeOK, ByTarget
<1>1. CASE UNCHANGED vars
  BY <1>1 DEF vars, tableVars
<1>2. ASSUME NEW w \in Worker, NEW r \in Request, Accept(w, r) PROVE ByTarget(q)'
  <2>1. CASE End(r, "refused")
    BY <1>2, <2>1 DEF Accept, End, ByStep
  <2>2. CASE InProcess(w, r, Wanted[r])
    BY <1>2, <2>2 DEF Accept, InProcess, ByStep
  <2>3. CASE Post(w, r, Wanted[r]) /\ Route[r] # "chat" /\ (Route[r] = "embed" \/ Wanted[r] \in Admitted[r])
    BY <1>2, <2>3 DEF Accept, Post, ByStep
  <2>4. CASE Post(w, r, Wanted[r]) /\ Wanted[r] \notin Internal
    BY <1>2, <2>4 DEF Accept, Post, ByStep
  <2> QED BY <1>2, <2>1, <2>2, <2>3, <2>4 DEF Accept
<1>3. ASSUME NEW w \in Worker, NEW r \in Request, AcceptChris(w, r) PROVE ByTarget(q)'
  BY <1>3 DEF AcceptChris, Listed, ByStep
<1>4. ASSUME NEW r \in Request, RoutingEnds(r) PROVE ByTarget(q)'
  <2>1. ASSUME NEW a \in candidates[r], a \in Admitted[r], Post(worker[r], r, a)
        PROVE  ByTarget(q)'
    BY <1>4, <2>1 DEF RoutingEnds, Post, ByStep
  <2>2. CASE End(r, "refused")
    BY <1>4, <2>2 DEF RoutingEnds, End, ByStep
  <2>3. CASE step' = [step EXCEPT ![r] = "direct"] /\ UNCHANGED <<loop, target, answer, rpc, turns>>
    BY <1>4, <2>3 DEF RoutingEnds, ByStep
  <2> QED BY <1>4, <2>1, <2>2, <2>3 DEF RoutingEnds
<1>5. ASSUME NEW r \in Request, \/ DirectEnds(r) \/ InProcessEnds(r)
                                \/ PostReturns(r) \/ PostFails(r)
      PROVE  ByTarget(q)'
  BY <1>5 DEF DirectEnds, End, InProcessEnds, PostReturns, PostFails
<1>6. ASSUME NEW w \in Worker, NEW r \in Request, Serve(w, r) PROVE ByTarget(q)'
  BY <1>6 DEF Serve, ByRpc
<1>7. ASSUME NEW r \in Request, TurnEnds(r) PROVE ByTarget(q)'
  BY <1>7 DEF TurnEnds
<1>8. ASSUME NEW a \in Agent, ChangeRow(a) PROVE ByTarget(q)'
  BY <1>8 DEF ChangeRow
<1> QED BY <1>1, <1>2, <1>3, <1>4, <1>5, <1>6, <1>7, <1>8 DEF Next, Handle, A2A

LEMMA SpecDInv == Spec => []DInv
  BY InitDInv, NextDInv, PTL DEF Spec

present == {a \in Agent : Known(a)}
givens  == [r \in Request |-> Given(r)]

LEMMA InitDelivery == Init => D!Init
  BY CallsAssumption DEF Init, D!Init, Given

\* A step that leaves the table alone and gives nothing to anybody, or gives one
\* request to an agent, is what happens to that request in Delivery.
LEMMA RequestStep ==
  ASSUME DInv, NEW r \in Request, UNCHANGED row,
         \A q \in Request : q # r => Given(q)' = Given(q),
         \/ /\ Given(r)' = Given(r) /\ answer' = answer
            /\ candidates' = candidates
         \/ /\ Given(r)' = Given(r) /\ answer' = answer
            /\ \E found \in SUBSET present : candidates' = [candidates EXCEPT ![r] = found]
         \/ /\ Given(r) = None /\ answer' = answer
            /\ candidates' = [candidates EXCEPT ![r] = {}]
            /\ \E a \in Reachable[r] :
                 /\ Given(r)' = a /\ a \in Agent
                 /\ a \in present \/ (a \notin Internal /\ a \in candidates[r])
         \/ /\ Given(r)' = Given(r)
            /\ candidates' = [candidates EXCEPT ![r] = {}]
            /\ answer[r] = None
            /\ \E what \in Answers :
                 /\ what = "agent" => Given(r) # None
                 /\ answer' = [answer EXCEPT ![r] = what]
  PROVE  D!Next \/ UNCHANGED D!deliveryVars
<1>1. present' = present
  BY DEF present, Known
<1>2. givens' = [givens EXCEPT ![r] = Given(r)']
  BY DEF givens
<1>3. givens[r] = Given(r)
  BY DEF givens
<1>4. CASE Given(r)' = Given(r)
  <2>1. givens' = givens
    BY <1>2, <1>4 DEF givens
  <2>2. CASE answer' = answer /\ candidates' = candidates
    BY <1>1, <2>1, <2>2 DEF D!deliveryVars, present, givens
  <2>3. CASE /\ answer' = answer
             /\ \E found \in SUBSET present : candidates' = [candidates EXCEPT ![r] = found]
    <3>1. D!Look(r)
      BY <1>1, <2>1, <2>3 DEF D!Look, present, givens
    <3> QED BY <3>1 DEF D!Next
  <2>4. ASSUME NEW what \in Answers,
               what = "agent" => Given(r) # None,
               answer' = [answer EXCEPT ![r] = what], answer[r] = None,
               candidates' = [candidates EXCEPT ![r] = {}]
        PROVE  D!Next
    <3>1. D!Answer(r, what)
      BY <1>1, <1>3, <2>1, <2>4 DEF D!Answer, present, givens
    <3> QED BY <3>1 DEF D!Next
  <2>5. CASE Given(r) = None /\ \E a \in Reachable[r] : Given(r)' = a /\ a \in Agent
    BY <1>4, <2>5, CallsAssumption
  <2> QED BY <2>2, <2>3, <2>4, <2>5
<1>5. ASSUME NEW a \in Reachable[r], Given(r)' = a, a \in Agent, Given(r) = None,
             a \in present \/ (a \notin Internal /\ a \in candidates[r]),
             answer' = answer, candidates' = [candidates EXCEPT ![r] = {}]
      PROVE  D!Next
  <2>1. D!Give(r, a)
    BY <1>1, <1>2, <1>3, <1>5 DEF D!Give, present, givens
  <2> QED BY <2>1, <1>5 DEF D!Next
<1> QED BY <1>4, <1>5

\* Only the turns and the target of a request say whom it was given to.
LEMMA OthersKeep ==
  ASSUME NEW r \in Request, \A q \in Request : q # r => turns'[q] = turns[q] /\ target'[q] = target[q]
  PROVE  \A q \in Request : q # r => Given(q)' = Given(q)
  BY DEF Given

\* A request that has not been posted was given to nobody.
LEMMA NotYet ==
  ASSUME DInv, NEW r \in Request, step[r] \in {"new", "routing"}
  PROVE  turns[r] = 0 /\ Given(r) = None
  BY CallsAssumption DEF DInv, IInv, ByStep, ByTarget, Given

\* The agents of the hub that a post may run, and the others.
LEMMA MayPost ==
  ASSUME NEW r \in Request, NEW a \in Agent, a \in Public \/ a \notin Internal,
         Route[r] = "embed" \/ a \in Admitted[r]
  PROVE  a \in Reachable[r]
  BY CallsAssumption DEF Reachable

LEMMA AcceptDelivery ==
  ASSUME DInv, NEW w \in Worker, NEW r \in Request, Accept(w, r)
  PROVE  D!Next \/ UNCHANGED D!deliveryVars
<1> DEFINE a == Wanted[r]
<1>0. /\ a \in Agent /\ UNCHANGED row /\ candidates' = candidates
      /\ candidates' = [candidates EXCEPT ![r] = {}]
      /\ turns[r] = 0 /\ Given(r) = None /\ answer[r] = None
  BY NotYet, CallsAssumption DEF Accept, tableVars, DInv, IInv, TypeOK, ByStep, ByTarget
<1>1. CASE End(r, "refused")
  <2>1. \A q \in Request : Given(q)' = Given(q)
    BY <1>1 DEF End, Given
  <2>2. "refused" \in Answers
    BY DEF Answers
  <2> QED BY <1>0, <1>1, <2>1, <2>2, RequestStep DEF End
<1>2. CASE InProcess(w, r, a) /\ Known(a) /\ Route[r] = "chat" /\ a \in Internal
  <2>1. turns'[r] = 1 /\ target'[r] = a
    BY <1>0, <1>2 DEF InProcess, DInv, IInv, TypeOK
  <2>2. Given(r)' = a /\ a \in Reachable[r] /\ a \in present
    BY <1>0, <1>2, <2>1 DEF Given, Reachable, present
  <2>3. \A q \in Request : q # r => Given(q)' = Given(q)
    BY <1>2, OthersKeep DEF InProcess, DInv, IInv, TypeOK
  <2> QED BY <1>0, <1>2, <2>2, <2>3, RequestStep DEF InProcess
<1>3. CASE Post(w, r, a) /\ Known(a) /\ a \in Internal
  <2>1. Given(r)' = Given(r)
    BY <1>0, <1>3 DEF Post, Given, DInv, IInv, TypeOK
  <2>2. \A q \in Request : q # r => Given(q)' = Given(q)
    BY <1>3, OthersKeep DEF Post, DInv, IInv, TypeOK
  <2> QED BY <1>0, <1>3, <2>1, <2>2, RequestStep DEF Post
<1>4. CASE /\ Post(w, r, a) /\ Known(a) /\ a \notin Internal
           /\ Route[r] = "embed" \/ a \in Admitted[r]
  <2>1. target'[r] = a
    BY <1>4 DEF Post, DInv, IInv, TypeOK
  <2>2. Given(r)' = a /\ a \in Reachable[r] /\ a \in present
    BY <1>0, <1>4, <2>1, CallsAssumption DEF Given, Reachable, present
  <2>3. \A q \in Request : q # r => Given(q)' = Given(q)
    BY <1>4, OthersKeep DEF Post, DInv, IInv, TypeOK
  <2> QED BY <1>0, <1>4, <2>2, <2>3, RequestStep DEF Post
<1> QED BY <1>1, <1>2, <1>3, <1>4 DEF Accept

LEMMA ChrisDelivery ==
  ASSUME DInv, NEW w \in Worker, NEW r \in Request, AcceptChris(w, r)
  PROVE  D!Next \/ UNCHANGED D!deliveryVars
<1>1. Listed \subseteq present
  BY DEF Listed, present, Known
<1>2. \A q \in Request : Given(q)' = Given(q)
  BY DEF AcceptChris, Given
<1> QED BY <1>1, <1>2, RequestStep DEF AcceptChris, tableVars

LEMMA RoutingDelivery ==
  ASSUME DInv, NEW r \in Request, RoutingEnds(r)
  PROVE  D!Next \/ UNCHANGED D!deliveryVars
<1>0. /\ UNCHANGED row /\ candidates' = [candidates EXCEPT ![r] = {}]
      /\ turns[r] = 0 /\ Given(r) = None /\ answer[r] = None /\ Route[r] = "chris"
      /\ candidates[r] \subseteq Agent /\ {} \in SUBSET present
  BY NotYet DEF RoutingEnds, tableVars, DInv, IInv, TypeOK, ByStep, ByTarget
<1>1. ASSUME NEW a \in candidates[r], a \in Admitted[r], Post(worker[r], r, a)
      PROVE  D!Next \/ UNCHANGED D!deliveryVars
  <2>1. \A q \in Request : q # r => Given(q)' = Given(q)
    BY <1>1, OthersKeep DEF Post, DInv, IInv, TypeOK
  <2>2. target'[r] = a /\ turns' = turns /\ answer' = answer
    BY <1>1 DEF Post, DInv, IInv, TypeOK
  <2>3. CASE a \in Internal
    <3>1. Given(r)' = Given(r)
      BY <1>0, <2>2, <2>3 DEF Given
    <3> QED BY <1>0, <2>1, <2>2, <3>1, RequestStep
  <2>4. CASE a \notin Internal
    <3>1. Given(r)' = a /\ a \in Reachable[r] /\ a \in Agent
      BY <1>0, <1>1, <2>2, <2>4, MayPost DEF Given
    <3> QED BY <1>0, <2>1, <2>2, <2>4, <3>1, RequestStep
  <2> QED BY <2>3, <2>4
<1>2. CASE End(r, "refused")
  <2>1. \A q \in Request : Given(q)' = Given(q)
    BY <1>2 DEF End, Given
  <2>2. "refused" \in Answers
    BY DEF Answers
  <2> QED BY <1>0, <1>2, <2>1, <2>2, RequestStep DEF End
<1>3. CASE UNCHANGED <<target, answer, turns>>
  <2>1. \A q \in Request : Given(q)' = Given(q)
    BY <1>3 DEF Given
  <2> QED BY <1>0, <1>3, <2>1, RequestStep
<1> QED BY <1>1, <1>2, <1>3 DEF RoutingEnds

\* The ends of a request: an answer, or the fallback of Chris.
LEMMA EndsDelivery ==
  ASSUME DInv, NEW r \in Request,
         DirectEnds(r) \/ InProcessEnds(r) \/ PostReturns(r) \/ PostFails(r)
  PROVE  D!Next \/ UNCHANGED D!deliveryVars
<1>0. /\ UNCHANGED <<row, target, turns, candidates>> /\ answer[r] = None
      /\ candidates' = [candidates EXCEPT ![r] = {}]
  BY DEF DirectEnds, End, InProcessEnds, PostReturns, PostFails, tableVars, DInv, IInv,
         TypeOK, ByStep, ByTarget
<1>1. \A q \in Request : Given(q)' = Given(q)
  BY <1>0 DEF Given
<1>2. \/ answer' = answer
      \/ \E what \in Answers : /\ what = "agent" => InProcessEnds(r) \/ PostReturns(r)
                              /\ answer' = [answer EXCEPT ![r] = what]
  BY DEF DirectEnds, End, InProcessEnds, PostReturns, PostFails, Answers, OfEnvelope
<1>3. InProcessEnds(r) => Given(r) # None
  BY CallsAssumption DEF InProcessEnds, DInv, ByTarget, Given
<1>4. PostReturns(r) => Given(r) # None \/ ~(answer' = [answer EXCEPT ![r] = "agent"])
  <2> SUFFICES ASSUME PostReturns(r), answer' = [answer EXCEPT ![r] = "agent"]
               PROVE  Given(r) # None
    OBVIOUS
  <2>1. target[r] \in Agent
    BY DEF PostReturns, DInv, IInv, ByStep
  <2>2. CASE target[r] \in Internal
    <3>1. PICK body \in Received(r) :
            answer' = [answer EXCEPT ![r] = IF body = "text" THEN "agent" ELSE OfEnvelope(Route[r])]
      BY DEF PostReturns
    <3>2. answer'[r] = "agent" /\ r \in DOMAIN answer
      BY DEF DInv, IInv, TypeOK
    <3>3. OfEnvelope(Route[r]) # "agent"
      BY DEF OfEnvelope
    <3>4. body = "text"
      BY <3>1, <3>2, <3>3
    <3>5. rpc[r] = "text"
      BY <2>2, <3>4 DEF Received
    <3> QED BY <2>1, <3>5, CallsAssumption DEF DInv, ByTarget, Given
  <2>3. CASE target[r] \notin Internal
    BY <2>1, <2>3, CallsAssumption DEF Given
  <2> QED BY <2>2, <2>3
<1>5. CASE answer' = answer
  BY <1>0, <1>1, <1>5, RequestStep
<1>6. ASSUME NEW what \in Answers, what = "agent" => InProcessEnds(r) \/ PostReturns(r),
             answer' = [answer EXCEPT ![r] = what]
      PROVE  D!Next \/ UNCHANGED D!deliveryVars
  <2>1. what = "agent" => Given(r) # None
    BY <1>3, <1>4, <1>6
  <2> QED BY <1>0, <1>1, <1>6, <2>1, RequestStep
<1> QED BY <1>2, <1>5, <1>6

LEMMA ServeDelivery ==
  ASSUME DInv, NEW w \in Worker, NEW r \in Request, Serve(w, r)
  PROVE  D!Next \/ UNCHANGED D!deliveryVars
<1>0. /\ UNCHANGED <<row, target, answer, candidates>> /\ turns[r] = 0
      /\ target[r] \in Internal /\ Given(r) = None /\ rpc[r] = "queued"
      /\ candidates' = [candidates EXCEPT ![r] = {}]
  <2>1. rpc[r] = "queued" /\ turns[r] = 0 /\ target[r] \in Internal
    BY DEF Serve, DInv, IInv, ByRpc
  <2>2. step[r] # "routing"
    BY <2>1 DEF DInv, IInv, ByStep
  <2>3. candidates' = candidates /\ candidates[r] = {}
    BY <2>2 DEF Serve, DInv, ByTarget
  <2> QED BY <2>1, <2>3 DEF Serve, tableVars, Given, DInv, IInv, TypeOK
<1>1. \A q \in Request : q # r => Given(q)' = Given(q)
  BY OthersKeep DEF Serve, DInv, IInv, TypeOK
<1>2. CASE turns' = turns
  <2>1. Given(r)' = Given(r)
    BY <1>0, <1>2 DEF Given
  <2> QED BY <1>0, <1>1, <2>1, RequestStep
<1>3. CASE Runnable(target[r]) /\ turns' = [turns EXCEPT ![r] = @ + 1]
  <2>1. turns'[r] = 1 /\ target'[r] = target[r]
    BY <1>0, <1>3 DEF DInv, IInv, TypeOK
  <2>2. target[r] \in Agent /\ target[r] \in present
    BY <1>0, <1>3, CallsAssumption DEF Runnable, present
  <2>3. target[r] \in Reachable[r]
    BY <1>0, <1>3, <2>2, MayPost DEF Runnable, DInv, ByTarget
  <2>4. Given(r)' = target[r]
    BY <2>1 DEF Given
  <2> QED BY <1>0, <1>1, <2>2, <2>3, <2>4, RequestStep
<1> QED BY <1>2, <1>3 DEF Serve

LEMMA RestDelivery ==
  ASSUME DInv,
         (\E r \in Request : TurnEnds(r)) \/ (\E a \in Agent : ChangeRow(a)) \/ UNCHANGED vars
  PROVE  D!Next \/ UNCHANGED D!deliveryVars
<1>1. UNCHANGED <<candidates, givens, answer>>
  BY DEF TurnEnds, ChangeRow, vars, givens, Given
<1>2. present' \in SUBSET Agent
  BY DEF present
<1>3. D!Install
  BY <1>1, <1>2 DEF D!Install, present, givens
<1> QED BY <1>3 DEF D!Next

\* The workers, their blocked loops, the late turns and the fallbacks implement
\* delivery at most once, to an installed agent within the sender's reach, with
\* one true answer.
THEOREM Refinement == Spec => ImplementsDelivery
<1>1. DInv /\ [Next]_vars => [D!Next]_(D!deliveryVars)
  BY AcceptDelivery, ChrisDelivery, RoutingDelivery, EndsDelivery, ServeDelivery, RestDelivery
     DEF Next, Handle, A2A
<1> QED BY <1>1, InitDelivery, SpecDInv, PTL DEF Spec, ImplementsDelivery, D!Spec
=============================================================================
