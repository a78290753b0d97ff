------------------------- MODULE CallOverlayProofs --------------------------
(***************************************************************************)
(* What CallOverlay guarantees for any number of answers, sentences,       *)
(* monitors and utterances.                                                *)
(***************************************************************************)
EXTENDS CallOverlay, SequenceTheorems, TLAPS

\* Every place that is dispatched or fetched is one of the text, and none is
\* ahead of what has arrived.
Places ==
  /\ \A a \in Answer : shown[a] <= Len(Says[a])
  /\ \A p \in fetching : p[2] \in 1 .. Len(Says[p[1]])
  /\ \A a \in Answer : \A i \in DOMAIN sent[a] : sent[a][i] <= shown[a]

Latest == monitor[Len(monitor)]

\* The monitor that is not aborted is that of the current answer; as long as
\* it goes on the microphone is muted, unless the user has cut it off; and
\* the audio element plays for a monitor that waits for it.
Voices ==
  /\ monitor # <<>> => Latest.id = currentMessageId
  /\ monitor # <<>> /\ open /\ Latest.at # "ended" => assistantSpeaking \/ hushed
  /\ sounding => open /\ player \in DOMAIN monitor /\ monitor[player].at = "playing"
  /\ ~open => recorder = "off"

\* Only the end of an earlier utterance can take confirmed back.
Listening == recorder = "stopping" /\ ~overlapped => confirmed /\ sending = 0

IInv == TypeOK /\ InOrder /\ Places /\ Voices /\ Listening

-----------------------------------------------------------------------------
LEMMA Appending ==
  ASSUME NEW S, NEW s \in Seq(S), NEW e \in S
  PROVE  /\ Append(s, e) \in Seq(S)
         /\ Append(s, e) # <<>>
         /\ Len(Append(s, e)) = Len(s) + 1
         /\ DOMAIN Append(s, e) = 1 .. Len(s) + 1
         /\ Append(s, e)[Len(s) + 1] = e
         /\ \A i \in DOMAIN s : Append(s, e)[i] = s[i]
  OBVIOUS

\* The provers take a concatenation more easily under a name.
Joined(s, q) == s \o q

\* To queue a sentence keeps what was spoken in front of what waits,
LEMMA Queued ==
  ASSUME NEW S, NEW s \in Seq(S), NEW q \in Seq(S), NEW e \in S
  PROVE  Append(Joined(s, q), e) = Joined(s, Append(q, e))
  BY DEF Joined

\* to speak the next one moves the border,
LEMMA Shifted ==
  ASSUME NEW S, NEW s \in Seq(S), NEW q \in Seq(S), q # <<>>
  PROVE  /\ Head(q) \in S /\ Tail(q) \in Seq(S)
         /\ Append(s, Head(q)) \in Seq(S)
         /\ Joined(Append(s, Head(q)), Tail(q)) = Joined(s, q)
<1>1. Head(q) \in S /\ Tail(q) \in Seq(S) /\ Append(s, Head(q)) \in Seq(S)
  OBVIOUS
<1>2. Len(Append(s, Head(q)) \o Tail(q)) = Len(s \o q)
  OBVIOUS
<1>3. \A i \in 1 .. Len(s \o q) : (Append(s, Head(q)) \o Tail(q))[i] = (s \o q)[i]
  OBVIOUS
<1> QED BY <1>1, <1>2, <1>3, SeqEqual DEF Joined

\* and to put it back changes nothing.
LEMMA PutBack ==
  ASSUME NEW S, NEW q \in Seq(S), q # <<>>
  PROVE  Requeued(q) = q
<1>1. <<Head(q)>> \o Tail(q) \in Seq(S)
  OBVIOUS
<1>2. Len(<<Head(q)>> \o Tail(q)) = Len(q)
  OBVIOUS
<1>3. \A i \in 1 .. Len(q) : (<<Head(q)>> \o Tail(q))[i] = q[i]
  OBVIOUS
<1> QED BY <1>1, <1>2, <1>3, SeqEqual DEF Requeued

-----------------------------------------------------------------------------
\* What a sentence that is dispatched to the call changes.
LEMMA EventHolds ==
  ASSUME TypeOK, InOrder, Places, NEW a \in Answer, NEW i \in 1 .. Len(Says[a]),
         \A j \in DOMAIN sent[a] : sent[a][j] <= i, ChatEvent(a, i)
  PROVE  /\ messages' \in [Answer -> Seq(Nat)] /\ sent' \in [Answer -> Seq(Nat)]
         /\ queued' \subseteq Answer /\ fetching' \subseteq Answer \X Nat
         /\ \A p \in fetching' : p[2] \in 1 .. Len(Says[p[1]])
         /\ \A b \in Answer \ {a} : sent'[b] = sent[b] /\ messages'[b] = messages[b]
         /\ sent'[a] = spoken[a] \o messages'[a]
         /\ \A j, k \in DOMAIN sent'[a] : j < k => sent'[a][j] <= sent'[a][k]
         /\ \A j \in DOMAIN sent'[a] : sent'[a][j] <= i
<1>1. i \in Nat
  BY SaysAssumption
<1>2. CASE open /\ currentMessageId = a
  <2>1. /\ messages' = [messages EXCEPT ![a] = Append(messages[a], i)]
        /\ sent' = [sent EXCEPT ![a] = Append(sent[a], i)]
        /\ queued' = queued \cup {a}
        /\ fetching' \subseteq fetching \cup {<<a, i>>}
    BY <1>2 DEF ChatEvent
  <2>2. messages[a] \in Seq(Nat) /\ sent[a] \in Seq(Nat) /\ spoken[a] \in Seq(Nat)
    BY DEF TypeOK
  <2>3. messages'[a] = Append(messages[a], i) /\ sent'[a] = Append(sent[a], i)
    BY <2>1 DEF TypeOK
  <2>4. Append(messages[a], i) \in Seq(Nat) /\ Append(sent[a], i) \in Seq(Nat)
    BY <1>1, <2>2
  <2>5. sent[a] = spoken[a] \o messages[a]
    BY DEF InOrder
  <2>6. sent'[a] = spoken[a] \o messages'[a]
    <3>1. sent[a] = Joined(spoken[a], messages[a])
      BY <2>5 DEF Joined
    <3>2. Append(Joined(spoken[a], messages[a]), i)
            = Joined(spoken[a], Append(messages[a], i))
      BY ONLY <1>1, <2>2, Queued
    <3>3. sent'[a] = Joined(spoken[a], messages'[a])
      BY ONLY <2>3, <3>1, <3>2
    <3> QED BY <3>3 DEF Joined
  <2>7. \A b \in Answer \ {a} : sent'[b] = sent[b] /\ messages'[b] = messages[b]
    BY <2>1 DEF TypeOK
  <2>8. /\ messages' \in [Answer -> Seq(Nat)] /\ sent' \in [Answer -> Seq(Nat)]
        /\ queued' \subseteq Answer /\ fetching' \subseteq Answer \X Nat
    BY <1>1, <2>1, <2>4 DEF TypeOK
  <2>9. \A p \in fetching' : p[2] \in 1 .. Len(Says[p[1]])
    BY <2>1 DEF Places
  <2>10. DOMAIN sent[a] = 1 .. Len(sent[a]) /\ Len(sent[a]) \in Nat
    BY <2>2
  <2>11. /\ DOMAIN sent'[a] = 1 .. Len(sent[a]) + 1
         /\ sent'[a][Len(sent[a]) + 1] = i
         /\ \A j \in 1 .. Len(sent[a]) : sent'[a][j] = sent[a][j]
    BY <1>1, <2>2, <2>3, <2>10, Appending
  <2>12. \A j \in DOMAIN sent'[a] : sent'[a][j] <= i
    BY <1>1, <2>10, <2>11
  <2>13. \A j, k \in DOMAIN sent'[a] : j < k => sent'[a][j] <= sent'[a][k]
    <3> SUFFICES ASSUME NEW j \in DOMAIN sent'[a], NEW k \in DOMAIN sent'[a], j < k
                 PROVE  sent'[a][j] <= sent'[a][k]
      OBVIOUS
    <3>1. CASE k = Len(sent[a]) + 1
      BY <2>11, <2>12, <3>1
    <3>2. CASE k # Len(sent[a]) + 1
      <4>1. j \in DOMAIN sent[a] /\ k \in DOMAIN sent[a]
        BY <2>10, <2>11, <3>2
      <4> QED BY <2>10, <2>11, <4>1 DEF InOrder
    <3> QED BY <3>1, <3>2
  <2> QED BY <2>6, <2>7, <2>8, <2>9, <2>12, <2>13
<1>3. CASE ~(open /\ currentMessageId = a)
  <2>1. UNCHANGED queue
    BY <1>3 DEF ChatEvent
  <2> QED BY <2>1 DEF queue, TypeOK, InOrder, Places
<1> QED BY <1>2, <1>3

LEMMA MonitorTypes ==
  ASSUME NEW a \in Answer, NEW m \in Seq(Monitor)
  PROVE  /\ Append(m, [id |-> a, at |-> "waiting"]) \in Seq(Monitor)
         /\ \A n \in DOMAIN m, s \in {"waiting", "playing", "ended"} :
              [m EXCEPT ![n].at = s] \in Seq(Monitor)
<1>1. [id |-> a, at |-> "waiting"] \in Monitor
  BY DEF Monitor
<1>2. ASSUME NEW n \in DOMAIN m, NEW s \in {"waiting", "playing", "ended"}
      PROVE  [m EXCEPT ![n].at = s] \in Seq(Monitor)
  <2>1. n \in 1 .. Len(m) /\ m[n] \in Monitor
    OBVIOUS
  <2>2. [m[n] EXCEPT !.at = s] \in Monitor
    BY <2>1 DEF Monitor
  <2> HIDE DEF Monitor
  <2> QED BY <2>1, <2>2, ExceptSeq
<1> QED BY <1>1, <1>2, Appending

LEMMA Moved ==
  ASSUME TypeOK, NEW n \in DOMAIN monitor,
         NEW s \in {"waiting", "playing", "ended"}, Moves(n, s)
  PROVE  /\ monitor' \in Seq(Monitor)
         /\ monitor # <<>> /\ monitor' # <<>>
         /\ Len(monitor') = Len(monitor) /\ DOMAIN monitor' = DOMAIN monitor
         /\ \A k \in DOMAIN monitor : monitor'[k].id = monitor[k].id
         /\ \A k \in DOMAIN monitor \ {n} : monitor'[k] = monitor[k]
         /\ monitor'[n].at = s
         /\ Len(monitor) \in DOMAIN monitor
<1>1. monitor \in Seq(Monitor)
  BY DEF TypeOK
<1>2. monitor' = [monitor EXCEPT ![n] = [monitor[n] EXCEPT !.at = s]]
  BY DEF Moves
<1>3. n \in 1 .. Len(monitor) /\ monitor[n] \in Monitor /\ Len(monitor) \in Nat
  BY <1>1
<1>4. [monitor[n] EXCEPT !.at = s] \in Monitor
      /\ [monitor[n] EXCEPT !.at = s].at = s
      /\ [monitor[n] EXCEPT !.at = s].id = monitor[n].id
  BY <1>3 DEF Monitor
<1> DEFINE r == [monitor[n] EXCEPT !.at = s]
<1> HIDE DEF r
<1>5. monitor' = [monitor EXCEPT ![n] = r] /\ r \in Monitor
      /\ r.at = s /\ r.id = monitor[n].id
  BY <1>2, <1>4 DEF r
<1>6. /\ monitor' \in Seq(Monitor) /\ Len(monitor') = Len(monitor)
      /\ \A j \in 1 .. Len(monitor) : monitor'[j] = IF j = n THEN r ELSE monitor[j]
  BY <1>1, <1>3, <1>5, ExceptSeq
<1>7. DOMAIN monitor = 1 .. Len(monitor) /\ DOMAIN monitor' = 1 .. Len(monitor)
  BY <1>1, <1>6
<1> QED BY <1>1, <1>3, <1>5, <1>6, <1>7

-----------------------------------------------------------------------------
LEMMA Initially == Init => IInv
<1> SUFFICES ASSUME Init PROVE IInv
  OBVIOUS
<1>1. TypeOK
  <2>1. phase \in [Answer -> Phases]
    <3>1. phase \in [Answer -> {"idle", "open"}]
      BY DEF Init
    <3>2. {"idle", "open"} \subseteq Phases
      BY DEF Phases
    <3> QED BY <3>1, <3>2
  <2>2. <<>> \in Seq(Nat) /\ <<>> \in Seq(Monitor)
    OBVIOUS
  <2>3. /\ messages \in [Answer -> Seq(Nat)] /\ sent \in [Answer -> Seq(Nat)]
        /\ spoken \in [Answer -> Seq(Nat)] /\ monitor \in Seq(Monitor)
    BY <2>2 DEF Init
  <2>4. shown \in [Answer -> Nat] /\ lastSentence \in [Answer -> Sentence \cup {None}]
    BY DEF Init
  <2>5. /\ starts \in Nat /\ open \in BOOLEAN /\ currentMessageId \in Answer \cup {None}
        /\ queued \subseteq Answer /\ finishedMessages \subseteq Answer
        /\ assistantSpeaking \in BOOLEAN /\ audioCache \subseteq Sentence
        /\ fetching \subseteq Answer \X Nat
    BY DEF Init
  <2>6. /\ player \in Nat /\ sounding \in BOOLEAN
        /\ recorder \in {"idle", "heard", "stopping", "off"}
        /\ confirmed \in BOOLEAN /\ sending \in Nat /\ overlapped \in BOOLEAN
        /\ hushed \in BOOLEAN
    BY DEF Init
  <2> QED BY <2>1, <2>3, <2>4, <2>5, <2>6 DEF TypeOK
<1>2. InOrder
  BY DEF Init, InOrder
<1>3. Places
  BY SaysAssumption DEF Init, Places
<1> QED BY <1>1, <1>2, <1>3 DEF Init, IInv, Voices, Listening

LEMMA Starts ==
  ASSUME IInv, NEW a \in Answer, Start(a) PROVE IInv'
<1> USE DEF IInv
<1>1. monitor \in Seq(Monitor) /\ phase' \in [Answer -> Phases] /\ starts' \in Nat
  BY DEF TypeOK, Start, Phases
<1>2. UNCHANGED <<shown, lastSentence, queue, open, finishedMessages, audioCache,
                  spoken, player, sounding, microphone>>
  BY DEF Start
<1>3. InOrder' /\ Places' /\ Listening'
  BY <1>2 DEF queue, microphone, InOrder, Places, Listening
<1>4. CASE open /\ currentMessageId # a
  <2> DEFINE r == [id |-> a, at |-> "waiting"]
  <2>1. /\ currentMessageId' = a /\ monitor' = Append(monitor, r)
        /\ assistantSpeaking' = TRUE /\ hushed' = FALSE
    BY <1>4 DEF Start, ChatStart
  <2>2. r \in Monitor /\ r.id = a
    BY DEF Monitor
  <2> HIDE DEF r
  <2>3. /\ monitor' \in Seq(Monitor) /\ monitor' # <<>>
        /\ Len(monitor') = Len(monitor) + 1 /\ monitor'[Len(monitor) + 1] = r
        /\ \A k \in DOMAIN monitor : k \in DOMAIN monitor' /\ monitor'[k] = monitor[k]
    BY <1>1, <2>1, <2>2, Appending
  <2>4. TypeOK'
    BY <1>1, <1>2, <2>1, <2>3 DEF TypeOK, queue, microphone
  <2>5. Voices'
    BY <1>2, <2>1, <2>2, <2>3 DEF Voices, Latest, microphone
  <2> QED BY <1>3, <2>4, <2>5
<1>5. CASE ~(open /\ currentMessageId # a)
  <2>1. UNCHANGED <<currentMessageId, monitor, assistantSpeaking, hushed>>
    BY <1>5 DEF Start, ChatStart
  <2>2. TypeOK' /\ Voices'
    BY <1>1, <1>2, <2>1 DEF TypeOK, Voices, Latest, queue, microphone
  <2> QED BY <1>3, <2>2
<1> QED BY <1>4, <1>5

\* One more piece of an answer's text, with or without a sentence for the call.
LEMMA Arrives ==
  ASSUME IInv, NEW a \in Answer, NEW n \in Nat, NEW i \in Nat,
         shown[a] <= n, n <= Len(Says[a]), shown' = [shown EXCEPT ![a] = n],
         \/ UNCHANGED queue
         \/ /\ i \in 1 .. Len(Says[a]) /\ shown[a] <= i /\ i <= n
            /\ ChatEvent(a, i),
         spoken' = spoken
  PROVE  /\ messages' \in [Answer -> Seq(Nat)] /\ sent' \in [Answer -> Seq(Nat)]
         /\ queued' \subseteq Answer /\ fetching' \subseteq Answer \X Nat
         /\ shown' \in [Answer -> Nat]
         /\ InOrder' /\ Places'
<1> USE DEF IInv
<1>1. /\ shown' \in [Answer -> Nat] /\ shown'[a] = n
      /\ \A b \in Answer \ {a} : shown'[b] = shown[b]
      /\ \A b \in Answer : shown[b] \in Nat /\ Len(Says[b]) \in Nat
  BY SaysAssumption DEF TypeOK
<1>2. \A b \in Answer : sent[b] \in Seq(Nat)
  BY DEF TypeOK
<1>3. \A b \in Answer : \A j \in DOMAIN sent[b] : sent[b][j] \in Nat
  BY <1>2
<1>4. CASE UNCHANGED queue
  <2>1. \A j \in DOMAIN sent[a] : sent[a][j] <= n
    BY <1>1, <1>3 DEF Places
  <2> QED BY <1>1, <1>4, <2>1 DEF queue, TypeOK, InOrder, Places
<1>5. CASE /\ i \in 1 .. Len(Says[a]) /\ shown[a] <= i /\ i <= n
           /\ ChatEvent(a, i)
  <2>1. \A j \in DOMAIN sent[a] : sent[a][j] <= i
    BY <1>1, <1>3, <1>5 DEF Places
  <2>2. /\ messages' \in [Answer -> Seq(Nat)] /\ sent' \in [Answer -> Seq(Nat)]
        /\ queued' \subseteq Answer /\ fetching' \subseteq Answer \X Nat
        /\ \A p \in fetching' : p[2] \in 1 .. Len(Says[p[1]])
        /\ \A b \in Answer \ {a} : sent'[b] = sent[b] /\ messages'[b] = messages[b]
        /\ sent'[a] = spoken[a] \o messages'[a]
        /\ \A j, k \in DOMAIN sent'[a] : j < k => sent'[a][j] <= sent'[a][k]
        /\ \A j \in DOMAIN sent'[a] : sent'[a][j] <= i
    BY <1>5, <2>1, EventHolds
  <2>3. sent'[a] \in Seq(Nat)
    BY <2>2
  <2>4. \A j \in DOMAIN sent'[a] : sent'[a][j] <= n
    <3> SUFFICES ASSUME NEW j \in DOMAIN sent'[a] PROVE sent'[a][j] <= n
      OBVIOUS
    <3>1. sent'[a][j] \in Nat
      <4>1. j \in 1 .. Len(sent'[a])
        BY <2>3, LenProperties
      <4> QED BY <2>3, <4>1, ElementOfSeq
    <3>2. sent'[a][j] <= i
      BY <2>2
    <3> QED BY <1>5, <3>1, <3>2
  <2>5. InOrder'
    BY <2>2 DEF InOrder
  <2>6. Places'
    BY <1>1, <2>2, <2>4 DEF Places
  <2> QED BY <1>1, <2>2, <2>5, <2>6
<1> QED BY <1>4, <1>5

LEMMA Streaming ==
  ASSUME IInv, NEW a \in Answer, NEW n \in 1 .. Len(Says[a]), Streams(a, n)
  PROVE  IInv'
<1> USE DEF IInv
<1>1. /\ n \in Nat /\ n - 1 \in Nat /\ shown[a] \in Nat /\ Len(Says[a]) \in Nat
      /\ shown[a] + 1 <= n /\ n <= Len(Says[a])
      /\ shown' = [shown EXCEPT ![a] = n]
  BY SaysAssumption DEF Streams, TypeOK
<1>2. UNCHANGED <<phase, starts, open, currentMessageId, finishedMessages,
                  audioCache, monitor, spoken, player, sounding,
                  assistantSpeaking, hushed, microphone>>
  BY DEF Streams
<1> DEFINE i == n - 1
<1>3. /\ i \in Nat /\ n \in Nat /\ shown[a] <= n /\ spoken' = spoken
      /\ \/ UNCHANGED queue
         \/ /\ i \in 1 .. Len(Says[a]) /\ shown[a] <= i /\ i <= n
            /\ ChatEvent(a, i)
  BY <1>1, <1>2 DEF Streams
<1> HIDE DEF i
<1>4. /\ messages' \in [Answer -> Seq(Nat)] /\ sent' \in [Answer -> Seq(Nat)]
      /\ queued' \subseteq Answer /\ fetching' \subseteq Answer \X Nat
      /\ shown' \in [Answer -> Nat]
      /\ InOrder' /\ Places'
  <2> HIDE DEF IInv
  <2> QED BY <1>1, <1>3, Arrives
<1>5. lastSentence' \in [Answer -> Sentence \cup {None}]
  <2>1. CASE n > 1
    <3>1. Says[a] \in Seq(Sentence)
      BY SaysAssumption
    <3>2. n - 1 \in 1 .. Len(Says[a])
      BY <1>1, <2>1
    <3>3. Says[a][n - 1] \in Sentence
      BY <3>1, <3>2, ElementOfSeq
    <3> QED BY <3>3 DEF Streams, TypeOK
  <2>2. CASE ~(n > 1)
    BY <2>2 DEF Streams, TypeOK
  <2> QED BY <2>1, <2>2
<1>6. TypeOK'
  BY <1>2, <1>4, <1>5 DEF TypeOK, microphone
<1>7. Voices' /\ Listening'
  BY <1>2 DEF Voices, Latest, Listening, microphone
<1> QED BY <1>4, <1>6, <1>7

LEMMA Finishing ==
  ASSUME IInv, NEW a \in Answer, Finishes(a) PROVE IInv'
<1> USE DEF IInv
<1>1. PICK n \in {shown[a]} \cup {m \in {Len(Says[a])} : shown[a] = 0} :
        /\ shown' = [shown EXCEPT ![a] = n]
        /\ IF n > 0 THEN ChatEvent(a, n) ELSE UNCHANGED queue
  BY DEF Finishes
<1>2. /\ n \in Nat /\ shown[a] \in Nat /\ shown[a] <= n
      /\ Len(Says[a]) \in Nat /\ n <= Len(Says[a])
  BY SaysAssumption DEF TypeOK, Places
<1>3. /\ UNCHANGED <<lastSentence, starts, open, currentMessageId, audioCache, monitor,
                     spoken, player, sounding, assistantSpeaking, hushed, microphone>>
      /\ spoken' = spoken
  BY DEF Finishes
<1>4. /\ messages' \in [Answer -> Seq(Nat)] /\ sent' \in [Answer -> Seq(Nat)]
      /\ queued' \subseteq Answer /\ fetching' \subseteq Answer \X Nat
      /\ shown' \in [Answer -> Nat]
      /\ InOrder' /\ Places'
  <2>1. \/ UNCHANGED queue
        \/ /\ n \in 1 .. Len(Says[a]) /\ shown[a] <= n /\ n <= n
           /\ ChatEvent(a, n)
    BY <1>1, <1>2
  <2> HIDE DEF IInv
  <2> QED BY <1>1, <1>2, <1>3, <2>1, Arrives
<1>5. phase' \in [Answer -> Phases] /\ finishedMessages' \subseteq Answer
  BY DEF Finishes, Finished, TypeOK, Phases
<1>6. TypeOK'
  BY <1>3, <1>4, <1>5 DEF TypeOK, microphone
<1>7. Voices' /\ Listening'
  BY <1>3 DEF Voices, Latest, Listening, microphone
<1> QED BY <1>4, <1>6, <1>7

LEMMA Fetches ==
  ASSUME IInv, NEW p \in fetching, Fetched(p[1], p[2]) PROVE IInv'
<1> USE DEF IInv
<1>1. p[1] \in Answer /\ p[2] \in 1 .. Len(Says[p[1]])
  BY DEF TypeOK, Places
<1>2. Says[p[1]] \in Seq(Sentence)
  BY <1>1, SaysAssumption
<1>3. Key(p[1], p[2]) \in Sentence
  BY <1>1, <1>2, ElementOfSeq DEF Key
<1>4. audioCache' \subseteq Sentence /\ fetching' \subseteq fetching
  BY <1>3 DEF Fetched, TypeOK
<1>5. UNCHANGED <<chat, messages, queued, sent, open, currentMessageId,
                  finishedMessages, monitor, spoken, player, sounding,
                  assistantSpeaking, hushed, microphone>>
  BY DEF Fetched
<1>6. TypeOK'
  BY <1>4, <1>5 DEF TypeOK, chat, microphone
<1> QED
  BY <1>4, <1>5, <1>6 DEF InOrder, Places, Voices, Latest, Listening, chat, microphone

LEMMA Breaking ==
  ASSUME IInv, NEW a \in Answer, Breaks(a) PROVE IInv'
<1> USE DEF IInv
<1>1. phase' \in [Answer -> Phases]
  BY DEF Breaks, TypeOK, Phases
<1>2. UNCHANGED <<shown, lastSentence, starts, queue, open, currentMessageId,
                  finishedMessages, audioCache, monitor, spoken, player, sounding,
                  assistantSpeaking, hushed, microphone>>
  BY DEF Breaks
<1>3. TypeOK'
  BY <1>1, <1>2 DEF TypeOK, queue, microphone
<1> QED
  BY <1>2, <1>3 DEF InOrder, Places, Voices, Latest, Listening, queue, microphone

-----------------------------------------------------------------------------
\* The monitor that is not aborted is the last one.
LEMMA TheLatest ==
  ASSUME TypeOK, NEW n, Waits(n), ~Aborted(n)
  PROVE  n \in DOMAIN monitor /\ n = Len(monitor) /\ open /\ monitor # <<>>
         /\ Latest.id = monitor[n].id /\ Latest.at = "waiting"
         /\ monitor[n].id \in Answer /\ n \in Nat
<1>1. monitor \in Seq(Monitor) /\ n \in DOMAIN monitor
  BY DEF TypeOK, Waits
<1>2. monitor[n] \in Monitor /\ n \in Nat /\ monitor # <<>>
  BY <1>1
<1> QED BY <1>1, <1>2 DEF Waits, Aborted, Latest, Monitor

LEMMA Playing ==
  ASSUME IInv, NEW n \in DOMAIN monitor, Plays(n) PROVE IInv'
<1> USE DEF IInv
<1> DEFINE a == monitor[n].id
<1>1. /\ n = Len(monitor) /\ open /\ monitor # <<>> /\ Latest.at = "waiting"
      /\ Latest.id = a /\ a \in Answer /\ n \in Nat
  BY TheLatest DEF Plays
<1>2. /\ messages[a] # <<>>
      /\ messages' = [messages EXCEPT ![a] = Tail(messages[a])]
      /\ spoken' = [spoken EXCEPT ![a] = Append(spoken[a], Head(messages[a]))]
  BY DEF Plays
<1>3. /\ player' = n /\ sounding' = TRUE /\ Moves(n, "playing")
      /\ UNCHANGED <<chat, queued, sent, fetching, open, currentMessageId,
                     finishedMessages, audioCache, assistantSpeaking, hushed, microphone>>
  BY DEF Plays
<1>4. /\ monitor' \in Seq(Monitor) /\ monitor' # <<>> /\ Len(monitor') = Len(monitor)
      /\ DOMAIN monitor' = DOMAIN monitor /\ monitor'[n].at = "playing"
      /\ \A k \in DOMAIN monitor : monitor'[k].id = monitor[k].id
  BY <1>3, Moved
<1> HIDE DEF a
<1>5. messages[a] \in Seq(Nat) /\ spoken[a] \in Seq(Nat)
  BY <1>1 DEF TypeOK
<1>6. /\ Tail(messages[a]) \in Seq(Nat)
      /\ Append(spoken[a], Head(messages[a])) \in Seq(Nat)
      /\ Joined(Append(spoken[a], Head(messages[a])), Tail(messages[a]))
           = Joined(spoken[a], messages[a])
  BY <1>2, <1>5, Shifted
<1>7. messages' \in [Answer -> Seq(Nat)] /\ spoken' \in [Answer -> Seq(Nat)]
  BY <1>1, <1>2, <1>6 DEF TypeOK
<1>8. TypeOK'
  BY <1>1, <1>3, <1>4, <1>7 DEF TypeOK, chat, microphone
<1>9. \A b \in Answer : sent'[b] = Joined(spoken'[b], messages'[b])
  <2> SUFFICES ASSUME NEW b \in Answer PROVE sent'[b] = Joined(spoken'[b], messages'[b])
    OBVIOUS
  <2>1. sent'[b] = Joined(spoken[b], messages[b])
    BY <1>3 DEF InOrder, Joined
  <2>2. CASE b = a
    <3>1. /\ messages'[a] = Tail(messages[a])
          /\ spoken'[a] = Append(spoken[a], Head(messages[a]))
      BY <1>1, <1>2 DEF TypeOK
    <3> QED BY ONLY <1>6, <2>1, <2>2, <3>1
  <2>3. CASE b # a
    <3>1. messages'[b] = messages[b] /\ spoken'[b] = spoken[b]
      BY <1>2, <2>3 DEF TypeOK
    <3> QED BY ONLY <2>1, <3>1
  <2> QED BY <2>2, <2>3
<1>10. InOrder'
  BY <1>3, <1>9 DEF InOrder, Joined
<1>11. Places' /\ Listening'
  BY <1>3 DEF Places, Listening, chat, microphone
<1>12. Voices'
  BY <1>1, <1>3, <1>4 DEF Voices, Latest, microphone, a
<1> QED BY <1>8, <1>10, <1>11, <1>12

LEMMA Retrying ==
  ASSUME IInv, NEW n \in DOMAIN monitor, Retries(n) PROVE IInv'
<1> USE DEF IInv
<1> DEFINE a == monitor[n].id
<1>1. a \in Answer
  BY TheLatest DEF Retries
<1>2. /\ messages[a] # <<>>
      /\ messages' = [messages EXCEPT ![a] = Requeued(messages[a])]
  BY DEF Retries
<1>3. UNCHANGED <<chat, queued, sent, fetching, open, currentMessageId,
                  finishedMessages, audioCache, monitor, spoken, player, sounding,
                  assistantSpeaking, hushed, microphone>>
  BY DEF Retries
<1> HIDE DEF a
<1>4. messages[a] \in Seq(Nat)
  BY <1>1 DEF TypeOK
<1>5. Requeued(messages[a]) = messages[a]
  BY <1>2, <1>4, PutBack
<1>6. messages' = messages
  BY <1>1, <1>2, <1>5 DEF TypeOK
<1>7. TypeOK'
  BY <1>3, <1>6 DEF TypeOK, chat, microphone
<1> QED
  BY <1>3, <1>6, <1>7
     DEF InOrder, Places, Voices, Latest, Listening, chat, microphone

\* A monitor's loop is left, or its sentence is over.
LEMMA Moving ==
  ASSUME IInv, NEW n \in DOMAIN monitor, NEW s \in {"waiting", "ended"},
         Moves(n, s),
         UNCHANGED <<chat, queue, open, currentMessageId, finishedMessages,
                     audioCache, spoken, player, hushed, microphone>>,
         assistantSpeaking' \in BOOLEAN, sounding' \in BOOLEAN,
         sounding' => sounding /\ player # n,
         open /\ Latest'.at # "ended" => assistantSpeaking' \/ hushed
  PROVE  IInv'
<1> USE DEF IInv
<1>1. /\ monitor' \in Seq(Monitor) /\ monitor # <<>> /\ monitor' # <<>>
      /\ Len(monitor') = Len(monitor) /\ DOMAIN monitor' = DOMAIN monitor
      /\ \A k \in DOMAIN monitor : monitor'[k].id = monitor[k].id
      /\ \A k \in DOMAIN monitor \ {n} : monitor'[k] = monitor[k]
      /\ Len(monitor) \in DOMAIN monitor
  BY Moved
<1>2. TypeOK'
  BY <1>1 DEF TypeOK, chat, queue, microphone
<1>3. InOrder' /\ Places' /\ Listening'
  BY DEF InOrder, Places, Listening, chat, queue, microphone
<1>4. Voices'
  BY <1>1 DEF Voices, Latest, microphone
<1> QED BY <1>2, <1>3, <1>4

LEMMA Resting ==
  ASSUME IInv, NEW n \in DOMAIN monitor, Rests(n) PROVE IInv'
<1>1. TypeOK /\ Voices /\ n = Len(monitor) /\ Latest.at = "waiting" /\ monitor # <<>>
  BY TheLatest DEF Rests, IInv
<1>2. Moves(n, "ended") /\ assistantSpeaking' = FALSE /\ sounding' = sounding
      /\ UNCHANGED <<chat, queue, open, currentMessageId, finishedMessages,
                     audioCache, spoken, player, hushed, microphone>>
  BY DEF Rests
<1>3. Latest'.at = "ended"
  BY <1>1, <1>2, Moved DEF Latest
<1>4. sounding => player # n
  BY <1>1 DEF Voices, Latest
<1>5. sounding \in BOOLEAN
  BY <1>1 DEF TypeOK
<1> QED BY <1>2, <1>3, <1>4, <1>5, Moving

LEMMA Leaving ==
  ASSUME IInv, NEW n \in DOMAIN monitor, Leaves(n) PROVE IInv'
<1>1. TypeOK /\ Voices /\ monitor[n].at = "waiting"
  BY DEF Leaves, Waits, IInv
<1>2. Moves(n, "ended") /\ assistantSpeaking' = assistantSpeaking
      /\ sounding' = sounding
      /\ UNCHANGED <<chat, queue, open, currentMessageId, finishedMessages,
                     audioCache, spoken, player, hushed, microphone>>
  BY DEF Leaves
<1>3. open => n # Len(monitor)
  BY DEF Leaves, Aborted
<1>4. open => Latest' = Latest
  BY <1>1, <1>2, <1>3, Moved DEF Latest
<1>5. sounding => player # n
  BY <1>1 DEF Voices
<1>6. open /\ Latest'.at # "ended" => assistantSpeaking' \/ hushed
  BY <1>1, <1>2, <1>4, Moved DEF Voices
<1>7. sounding \in BOOLEAN /\ assistantSpeaking \in BOOLEAN
  BY <1>1 DEF TypeOK
<1> QED BY <1>2, <1>5, <1>6, <1>7, Moving

LEMMA Sounded ==
  ASSUME IInv, Played PROVE IInv'
<1>1. TypeOK /\ Voices /\ sounding /\ sounding' = FALSE
      /\ player \in DOMAIN monitor /\ monitor[player].at = "playing"
  BY DEF Played, Voices, IInv
<1>2. Moves(player, "waiting") /\ assistantSpeaking' = assistantSpeaking
      /\ UNCHANGED <<chat, queue, open, currentMessageId, finishedMessages,
                     audioCache, spoken, player, hushed, microphone>>
  BY DEF Played
<1>3. open /\ Latest'.at # "ended" => assistantSpeaking' \/ hushed
  <2>1. CASE player = Len(monitor)
    BY <1>1, <1>2, <2>1, Moved DEF Voices, Latest
  <2>2. CASE player # Len(monitor)
    BY <1>1, <1>2, <2>2, Moved DEF Voices, Latest
  <2> QED BY <2>1, <2>2
<1>4. assistantSpeaking \in BOOLEAN
  BY <1>1 DEF TypeOK
<1> QED BY <1>1, <1>2, <1>3, <1>4, Moving

-----------------------------------------------------------------------------
\* The user's steps leave what is said and played alone.
LEMMA UserSteps ==
  ASSUME IInv, UNCHANGED page, open' \in BOOLEAN, assistantSpeaking' \in BOOLEAN,
         sounding' \in BOOLEAN, recorder' \in {"idle", "heard", "stopping", "off"},
         confirmed' \in BOOLEAN, sending' \in Nat, overlapped' \in BOOLEAN,
         hushed' \in BOOLEAN, open' => open,
         \/ hushed' /\ ~sounding'
         \/ UNCHANGED <<open, assistantSpeaking, sounding, hushed>>,
         ~open' => recorder' = "off", Listening'
  PROVE  IInv'
<1> USE DEF IInv
<1>1. TypeOK'
  BY DEF TypeOK, page, chat, queue
<1>2. InOrder' /\ Places'
  BY DEF InOrder, Places, page, chat, queue
<1>3. Voices'
  BY DEF Voices, Latest, page, chat, queue
<1> QED BY <1>1, <1>2, <1>3

LEMMA Users ==
  ASSUME IInv, Tap \/ Close \/ Hears \/ Silence \/ RecorderStops \/ Transcribed
  PROVE  IInv'
<1>0. TypeOK /\ Voices /\ Listening
  BY DEF IInv
<1>1. CASE Tap
  BY <1>0, <1>1, UserSteps DEF Tap, StopAllAudio, TypeOK, Voices, Listening, microphone
<1>2. CASE Close
  BY <1>0, <1>2, UserSteps DEF Close, StopAllAudio, TypeOK, Listening
<1>3. CASE Hears
  BY <1>0, <1>3, UserSteps DEF Hears, StopAllAudio, TypeOK, Voices, Listening
<1>4. CASE Silence
  BY <1>0, <1>4, UserSteps DEF Silence, Confirms, TypeOK, Voices, Listening
<1>5. CASE RecorderStops
  BY <1>0, <1>5, UserSteps DEF RecorderStops, TypeOK, Voices, Listening
<1>6. CASE Transcribed
  <2>1. sending \in Nat /\ sending > 0 /\ sending - 1 \in Nat
    BY <1>0, <1>6 DEF Transcribed, TypeOK
  <2>2. Listening'
    BY <1>0, <1>6, <2>1 DEF Transcribed, Listening
  <2>3. /\ UNCHANGED <<page, open, sounding, assistantSpeaking, hushed, recorder,
                       overlapped>>
        /\ confirmed' = FALSE /\ sending' \in Nat
    BY <1>6, <2>1 DEF Transcribed
  <2> QED BY <1>0, <2>2, <2>3, UserSteps DEF TypeOK, Voices
<1> QED BY <1>1, <1>2, <1>3, <1>4, <1>5, <1>6

LEMMA Stutters == IInv /\ UNCHANGED vars => IInv'
<1> SUFFICES ASSUME IInv, UNCHANGED vars PROVE IInv'
  OBVIOUS
<1> USE DEF IInv
<1>1. TypeOK'
  BY DEF TypeOK, vars, page, chat, queue, microphone
<1> QED
  BY <1>1 DEF InOrder, Places, Voices, Latest, Listening, vars, page, chat, queue,
              microphone

LEMMA Preserved == IInv /\ [Next]_vars => IInv'
<1> SUFFICES ASSUME IInv, [Next]_vars PROVE IInv'
  OBVIOUS
<1>1. ASSUME NEW a \in Answer, Start(a) PROVE IInv'
  BY <1>1, Starts
<1>2. ASSUME NEW a \in Answer, Ends(a) PROVE IInv'
  BY <1>2, Finishing, Breaking DEF Ends
<1>3. ASSUME NEW a \in Answer, NEW n \in 1 .. Len(Says[a]), Streams(a, n) PROVE IInv'
  BY <1>3, Streaming
<1>4. ASSUME NEW p \in fetching, Fetched(p[1], p[2]) PROVE IInv'
  BY <1>4, Fetches
<1>5. ASSUME NEW n \in DOMAIN monitor, MonitorStep(n) PROVE IInv'
  BY <1>5, Playing, Retrying, Resting, Leaving DEF MonitorStep
<1>6. CASE Played \/ Tap \/ Close \/ Hears \/ Silence \/ RecorderStops \/ Transcribed
  BY <1>6, Sounded, Users
<1>7. CASE UNCHANGED vars
  BY <1>7, Stutters
<1> QED BY <1>1, <1>2, <1>3, <1>4, <1>5, <1>6, <1>7 DEF Next

THEOREM Inductive == Spec => []IInv
BY Initially, Preserved, PTL DEF Spec

\* Every variable keeps its type, however many answers and utterances a call has.
THEOREM TypeCorrect == Spec => []TypeOK
<1>1. IInv => TypeOK
  BY DEF IInv
<1> QED BY <1>1, Inductive, PTL

\* The sentences of an answer are spoken in the order of its text, however late
\* the speech of each comes back.
THEOREM SpokenInOrder == Spec => []InOrder
<1>1. IInv => InOrder
  BY DEF IInv
<1> QED BY <1>1, Inductive, PTL

-----------------------------------------------------------------------------
\* Every step but that of a monitor that plays leaves spoken alone,
LEMMA WhoSpeaks ==
  ASSUME [Next]_vars, spoken' # spoken
  PROVE  \E n \in DOMAIN monitor : Plays(n)
<1>1. ASSUME NEW a \in Answer, Start(a) \/ Ends(a) PROVE FALSE
  BY <1>1 DEF Start, Ends, Finishes, Breaks
<1>2. ASSUME NEW a \in Answer, NEW n \in 1 .. Len(Says[a]), Streams(a, n) PROVE FALSE
  BY <1>2 DEF Streams
<1>3. ASSUME NEW p \in fetching, Fetched(p[1], p[2]) PROVE FALSE
  BY <1>3 DEF Fetched
<1>4. ASSUME NEW n \in DOMAIN monitor, Retries(n) \/ Rests(n) \/ Leaves(n) PROVE FALSE
  BY <1>4 DEF Retries, Rests, Leaves
<1>5. CASE Played \/ Tap \/ Close \/ Hears \/ Silence \/ RecorderStops \/ Transcribed
  BY <1>5 DEF Played, Tap, Close, Hears, Silence, RecorderStops, Transcribed,
              StopAllAudio, page
<1>6. CASE UNCHANGED vars
  BY <1>6 DEF vars, page
<1> QED BY <1>1, <1>2, <1>3, <1>4, <1>5, <1>6 DEF Next, MonitorStep

\* and every step but the end of a recording leaves a recorder that stops as
\* it is, or is the end of the call.
LEMMA WhoRecords ==
  ASSUME [Next]_vars, recorder = "stopping", recorder' = "idle"
  PROVE  RecorderStops
<1>1. ASSUME NEW a \in Answer, Start(a) \/ Ends(a) PROVE FALSE
  BY <1>1 DEF Start, Ends, Finishes, Breaks, microphone
<1>2. ASSUME NEW a \in Answer, NEW n \in 1 .. Len(Says[a]), Streams(a, n) PROVE FALSE
  BY <1>2 DEF Streams, microphone
<1>3. ASSUME NEW p \in fetching, Fetched(p[1], p[2]) PROVE FALSE
  BY <1>3 DEF Fetched, microphone
<1>4. ASSUME NEW n \in DOMAIN monitor, MonitorStep(n) PROVE FALSE
  BY <1>4 DEF MonitorStep, Plays, Retries, Rests, Leaves, microphone
<1>5. CASE Played \/ Tap \/ Close \/ Hears \/ Silence \/ RecorderStops \/ Transcribed
  BY <1>5 DEF Played, Tap, Close, Hears, Silence, Transcribed, microphone
<1>6. CASE UNCHANGED vars
  BY <1>6 DEF vars, microphone
<1> QED BY <1>1, <1>2, <1>3, <1>4, <1>5, <1>6 DEF Next

\* Only the newest answer is spoken, with the microphone muted unless the user
\* has cut it off, and the microphone does not hear it; whatever answers and
\* monitors there are.
THEOREM AlwaysTakesTurns == Spec => TakesTurns
<1> DEFINE Speaks == \A a \in Answer : spoken'[a] # spoken[a] =>
                       open /\ a = currentMessageId /\ (assistantSpeaking \/ hushed)
           Listens == Hears => VoiceInterruption \/ hushed
                                 \/ ~(sounding /\ player = Len(monitor))
<1>1. IInv /\ [Next]_vars => Speaks
  <2> SUFFICES ASSUME IInv, [Next]_vars, NEW a \in Answer, spoken'[a] # spoken[a]
               PROVE  open /\ a = currentMessageId /\ (assistantSpeaking \/ hushed)
    OBVIOUS
  <2>1. PICK n \in DOMAIN monitor : Plays(n)
    BY WhoSpeaks
  <2>2. TypeOK /\ Voices
    BY DEF IInv
  <2>3. open /\ monitor # <<>> /\ Latest.id = monitor[n].id /\ Latest.at = "waiting"
    BY <2>1, <2>2, TheLatest DEF Plays
  <2>4. a = monitor[n].id
    BY <2>1, <2>2 DEF Plays, TypeOK
  <2> QED BY <2>2, <2>3, <2>4 DEF Voices
<1>2. IInv => Listens
  <2> SUFFICES ASSUME IInv, Hears, ~VoiceInterruption, sounding, player = Len(monitor)
               PROVE  hushed
    OBVIOUS
  <2>1. Voices /\ TypeOK
    BY DEF IInv
  <2>2. open /\ player \in DOMAIN monitor /\ Latest.at = "playing" /\ monitor # <<>>
    BY <2>1 DEF Voices, Latest, TypeOK
  <2>3. ~assistantSpeaking
    BY DEF Hears, Muted
  <2> QED BY <2>1, <2>2, <2>3 DEF Voices
<1> QED BY <1>1, <1>2, Inductive, PTL DEF Spec, TakesTurns

\* An utterance is lost only when an earlier one was still on its way,
\* however the recorder, the transcriptions and the answers interleave.
THEOREM UtterancesSent == Spec => UtterancesAreSent
<1>1. IInv /\ [Next]_vars =>
        (recorder = "stopping" /\ recorder' = "idle" => sending' = sending + 1 \/ overlapped)
  <2> SUFFICES ASSUME IInv, [Next]_vars, recorder = "stopping", recorder' = "idle",
                      ~overlapped
               PROVE  sending' = sending + 1
    OBVIOUS
  <2>1. RecorderStops
    BY WhoRecords
  <2>2. confirmed
    BY DEF IInv, Listening
  <2> QED BY <2>1, <2>2 DEF RecorderStops
<1> QED BY <1>1, Inductive, PTL DEF Spec, UtterancesAreSent
=============================================================================
