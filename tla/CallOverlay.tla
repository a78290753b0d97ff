---------------------------- MODULE CallOverlay -----------------------------
(***************************************************************************)
(* A voice call with a model (front/src/lib/components/chat/               *)
(* MessageInput/CallOverlay.svelte).  The chat tells the call of every     *)
(* answer that starts, of its sentences and of its end; the call fetches   *)
(* the speech of each sentence, plays them one after the other in a        *)
(* monitor per answer, and listens to the user meanwhile.                  *)
(*                                                                         *)
(* A sentence is a value: speech is cached by what is said.  A call that   *)
(* is opened again is another instance.  The camera, the icons and the     *)
(* speech synthesis of the browser itself are left out.                    *)
(***************************************************************************)
EXTENDS Naturals, Sequences

CONSTANTS None,
          Answer,            \* ids of answers
          Sentence,
          Says,              \* the sentences each answer has in the end
          VoiceInterruption, \* the setting of that name
          MaxStarts,         \* bounds: answers that start or go on,
          MaxSends           \* utterances on their way to the chat

ASSUME SaysAssumption == Says \in [Answer -> Seq(Sentence)]
ASSUME NoneAssumption == None \notin Answer \cup Sentence
ASSUME SettingAssumption == VoiceInterruption \in BOOLEAN
ASSUME BoundsAssumption == MaxStarts \in Nat /\ MaxSends \in Nat

VARIABLES
  phase,             \* of each answer in the chat
  shown,             \* the sentences of it that have begun to arrive
  lastSentence,      \* the last one that was dispatched while it streamed
  starts,
  open,              \* showCallOverlay
  currentMessageId,
  messages,          \* the sentences of an answer that wait to be spoken
  queued,            \* the answers messages has an entry for
  finishedMessages,
  assistantSpeaking,
  audioCache,        \* the sentences whose speech is there
  fetching,          \* calls of fetchAudio: the answer and the sentence's place
  monitor,           \* calls of monitorAndPlayAudio: each with its answer
  player,            \* the one whose sentence is in the audio element, or 0
  sounding,          \* it plays
  recorder,          \* where mediaRecorder and the detection of sound are
  confirmed,
  sending,           \* utterances that are transcribed and submitted
  overlapped,        \* one was when the last silence was noticed
  sent, spoken,      \* of each answer: the sentences queued, and spoken
  hushed             \* the user has cut off the current answer

chat == <<phase, shown, lastSentence, starts>>
queue == <<messages, queued, sent, fetching>>
page == <<chat, queue, currentMessageId, finishedMessages, audioCache, monitor,
          spoken, player>>
microphone == <<recorder, confirmed, sending, overlapped>>
vars == <<page, open, sounding, assistantSpeaking, hushed, microphone>>

Phases == {"idle", "open", "done", "broken"}
Monitor == [id : Answer, at : {"waiting", "playing", "ended"}]

\* Answers may be on their way when the call is opened.
Init ==
  /\ phase \in [Answer -> {"idle", "open"}]
  /\ shown = [a \in Answer |-> 0]
  /\ lastSentence = [a \in Answer |-> None]
  /\ starts = 0
  /\ open = TRUE
  /\ currentMessageId = None
  /\ messages = [a \in Answer |-> <<>>]
  /\ queued = {}
  /\ finishedMessages = {}
  /\ assistantSpeaking = FALSE
  /\ audioCache = {}
  /\ fetching = {}
  /\ monitor = <<>>
  /\ player = 0
  /\ sounding = FALSE
  /\ recorder = "idle"
  /\ confirmed = FALSE
  /\ sending = 0
  /\ overlapped = FALSE
  /\ sent = [a \in Answer |-> <<>>]
  /\ spoken = [a \in Answer |-> <<>>]
  /\ hushed = FALSE

-----------------------------------------------------------------------------
(* The events of the chat; their listeners run at once *)

\* Mutant of Key: the speech of each sentence is kept apart.
KeptApart(a, i) == <<a, i>>
Key(a, i) == Says[a][i]

\* chatEventHandler, with the call of fetchAudio it does not wait for.
ChatEvent(a, i) ==
  IF open /\ currentMessageId = a
  THEN /\ messages' = [messages EXCEPT ![a] = Append(@, i)]
       /\ sent' = [sent EXCEPT ![a] = Append(@, i)]
       /\ queued' = queued \cup {a}
       /\ fetching' = fetching \cup {p \in {<<a, i>>} : Key(a, i) \notin audioCache}
  ELSE UNCHANGED queue

\* chatStartHandler: a new monitor, whose controller aborts the one before.
ChatStart(a) ==
  IF open /\ currentMessageId # a
  THEN /\ currentMessageId' = a
       /\ monitor' = Append(monitor, [id |-> a, at |-> "waiting"])
       /\ assistantSpeaking' = TRUE
       /\ hushed' = FALSE
  ELSE UNCHANGED <<currentMessageId, monitor, assistantSpeaking, hushed>>

\* sendPromptSocket, for a new answer or for one that goes on: what it adds
\* are sentences of their own.
Start(a) ==
  /\ phase[a] # "open" /\ starts < MaxStarts
  /\ phase' = [phase EXCEPT ![a] = "open"]
  /\ starts' = starts + 1
  /\ ChatStart(a)
  /\ UNCHANGED <<shown, lastSentence, queue, open, finishedMessages, audioCache,
                 spoken, player, sounding, microphone>>

\* A piece of a streamed answer arrives that reaches into its n-th sentence.
\* Only the last sentence that is complete is dispatched.
Streams(a, n) ==
  /\ phase[a] = "open" /\ n \in shown[a] + 1 .. Len(Says[a])
  /\ shown' = [shown EXCEPT ![a] = n]
  /\ IF n > 1 /\ Says[a][n - 1] # lastSentence[a]
     THEN lastSentence' = [lastSentence EXCEPT ![a] = Says[a][n - 1]]
          /\ ChatEvent(a, n - 1)
     ELSE UNCHANGED <<lastSentence, queue>>
  /\ UNCHANGED <<phase, starts, open, currentMessageId, finishedMessages,
                 audioCache, monitor, spoken, player, sounding,
                 assistantSpeaking, hushed, microphone>>

\* Mutant of Finished: chat:finish is not recorded.
Forgotten(a) == finishedMessages
Finished(a) == finishedMessages \cup {a}

\* done: the last sentence is dispatched, then the end of the answer.  One
\* that is not streamed arrives whole.
Finishes(a) ==
  /\ phase[a] = "open"
  /\ phase' = [phase EXCEPT ![a] = "done"]
  /\ \E n \in {shown[a]} \cup {m \in {Len(Says[a])} : shown[a] = 0} :
       /\ shown' = [shown EXCEPT ![a] = n]
       /\ IF n > 0 THEN ChatEvent(a, n) ELSE UNCHANGED queue
  /\ finishedMessages' = IF open THEN Finished(a) ELSE finishedMessages
  /\ UNCHANGED <<lastSentence, starts, open, currentMessageId, audioCache, monitor,
                 spoken, player, sounding, assistantSpeaking, hushed, microphone>>

\* An error, or stopResponse: the call hears nothing of it.
Breaks(a) ==
  /\ phase[a] = "open"
  /\ phase' = [phase EXCEPT ![a] = "broken"]
  /\ UNCHANGED <<shown, lastSentence, starts, queue, open, currentMessageId,
                 finishedMessages, audioCache, monitor, spoken, player, sounding,
                 assistantSpeaking, hushed, microphone>>

-----------------------------------------------------------------------------
(* Speech *)

\* fetchAudio comes back, with the speech or with an error.
Fetched(a, i) ==
  /\ <<a, i>> \in fetching
  /\ fetching' = fetching \ {<<a, i>>}
  /\ audioCache' \in {audioCache, audioCache \cup {Key(a, i)}}
  /\ UNCHANGED <<chat, messages, queued, sent, open, currentMessageId,
                 finishedMessages, monitor, spoken, player, sounding,
                 assistantSpeaking, hushed, microphone>>

\* Mutant of Aborted: a new answer does not abort the monitor of the last.
AbortedByClose(n) == ~open
Aborted(n) == ~open \/ n # Len(monitor)

Waits(n) == n \in DOMAIN monitor /\ monitor[n].at = "waiting"
Moves(n, s) == monitor' = [monitor EXCEPT ![n].at = s]

\* The next sentence is there: playAudio takes the audio element, from
\* whoever has it.
Plays(n) ==
  /\ Waits(n) /\ ~Aborted(n)
  /\ LET a == monitor[n].id
     IN  /\ messages[a] # <<>>
         /\ Key(a, Head(messages[a])) \in audioCache
         /\ messages' = [messages EXCEPT ![a] = Tail(@)]
         /\ spoken' = [spoken EXCEPT ![a] = Append(@, Head(messages[a]))]
  /\ player' = n /\ sounding' = TRUE
  /\ Moves(n, "playing")
  /\ UNCHANGED <<chat, queued, sent, fetching, open, currentMessageId,
                 finishedMessages, audioCache, assistantSpeaking, hushed, microphone>>

\* Mutant of Requeued: push for unshift.
Rotated(q) == Tail(q) \o <<Head(q)>>
Requeued(q) == <<Head(q)>> \o Tail(q)

\* It is not: the sentence is taken and put back.
Retries(n) ==
  /\ Waits(n) /\ ~Aborted(n)
  /\ LET a == monitor[n].id
     IN  /\ messages[a] # <<>>
         /\ Key(a, Head(messages[a])) \notin audioCache
         /\ messages' = [messages EXCEPT ![a] = Requeued(@)]
  /\ UNCHANGED <<chat, queued, sent, fetching, open, currentMessageId,
                 finishedMessages, audioCache, monitor, spoken, player, sounding,
                 assistantSpeaking, hushed, microphone>>

\* The answer is finished and nothing is left of it: the loop is left, and
\* the microphone is open again.
Rests(n) ==
  /\ Waits(n) /\ ~Aborted(n)
  /\ monitor[n].id \in finishedMessages \cap queued
  /\ messages[monitor[n].id] = <<>>
  /\ assistantSpeaking' = FALSE
  /\ Moves(n, "ended")
  /\ UNCHANGED <<chat, queue, open, currentMessageId, finishedMessages, audioCache,
                 spoken, player, sounding, hushed, microphone>>

Leaves(n) ==
  /\ Waits(n) /\ Aborted(n)
  /\ Moves(n, "ended")
  /\ UNCHANGED <<chat, queue, open, currentMessageId, finishedMessages, audioCache,
                 spoken, player, sounding, assistantSpeaking, hushed, microphone>>

\* The audio element has ended; the promise of an older playAudio, whose
\* listener was replaced or whose sentence was paused, is never resolved.
Played ==
  /\ sounding
  /\ sounding' = FALSE
  /\ Moves(player, "waiting")
  /\ UNCHANGED <<chat, queue, open, currentMessageId, finishedMessages, audioCache,
                 spoken, player, assistantSpeaking, hushed, microphone>>

-----------------------------------------------------------------------------
(* The user *)

\* stopAllAudio; the stopResponse it calls is one of the causes of Breaks.
StopAllAudio ==
  /\ assistantSpeaking' = FALSE
  /\ sounding' = FALSE
  /\ hushed' = TRUE
  /\ UNCHANGED page

Tap ==
  /\ open /\ assistantSpeaking
  /\ StopAllAudio
  /\ UNCHANGED <<open, microphone>>

Close ==
  /\ open /\ open' = FALSE
  /\ StopAllAudio
  /\ recorder' = "off"
  /\ UNCHANGED <<confirmed, sending, overlapped>>

Muted == assistantSpeaking /\ ~VoiceInterruption

\* processFrame: the first sound of an utterance, then two seconds of silence.
Hears ==
  /\ recorder = "idle" /\ ~Muted
  /\ recorder' = "heard"
  /\ StopAllAudio
  /\ UNCHANGED <<open, confirmed, sending, overlapped>>

\* Mutant of Confirms: confirmed is not set.
Neglects == UNCHANGED confirmed
Confirms == confirmed' = TRUE

Silence ==
  /\ recorder = "heard"
  /\ recorder' = "stopping"
  /\ Confirms
  /\ overlapped' = (sending > 0)
  /\ UNCHANGED <<page, open, sounding, assistantSpeaking, hushed, sending>>

\* stopRecordingCallback: a new recording begins, and the utterance is sent,
\* unless the end of an earlier one has reset confirmed in between.
RecorderStops ==
  /\ recorder = "stopping"
  /\ recorder' = "idle"
  /\ \/ confirmed /\ sending < MaxSends /\ sending' = sending + 1
     \/ ~confirmed /\ UNCHANGED sending
  /\ UNCHANGED <<page, open, sounding, assistantSpeaking, hushed, confirmed,
                 overlapped>>

\* transcribeHandler comes back; the prompt it submits is one of Start's.
Transcribed ==
  /\ sending > 0
  /\ sending' = sending - 1
  /\ confirmed' = FALSE
  /\ UNCHANGED <<page, open, sounding, assistantSpeaking, hushed, recorder,
                 overlapped>>

-----------------------------------------------------------------------------
MonitorStep(n) == Plays(n) \/ Retries(n) \/ Rests(n) \/ Leaves(n)
Ends(a) == Finishes(a) \/ Breaks(a)

Next ==
  \/ \E a \in Answer : Start(a) \/ Ends(a) \/ \E n \in 1 .. Len(Says[a]) : Streams(a, n)
  \/ \E p \in fetching : Fetched(p[1], p[2])
  \/ \E n \in DOMAIN monitor : MonitorStep(n)
  \/ Played \/ Tap \/ Close \/ Hears \/ Silence \/ RecorderStops \/ Transcribed

Spec == Init /\ [][Next]_vars

\* Timers fire, what is played comes to its end, requests for speech are
\* answered or fail, and so are requests for answers.
Fairness ==
  /\ \A n \in 1 .. MaxStarts : WF_vars(MonitorStep(n))
  /\ WF_vars(Played)
  /\ \A a \in Answer : WF_vars(Ends(a))
  /\ \A a \in Answer : \A i \in 1 .. Len(Says[a]) : WF_vars(Fetched(a, i))
FairSpec == Spec /\ Fairness

-----------------------------------------------------------------------------
TypeOK ==
  /\ phase \in [Answer -> Phases]
  /\ shown \in [Answer -> Nat]
  /\ lastSentence \in [Answer -> Sentence \cup {None}]
  /\ starts \in Nat
  /\ open \in BOOLEAN
  /\ currentMessageId \in Answer \cup {None}
  /\ messages \in [Answer -> Seq(Nat)]
  /\ queued \subseteq Answer
  /\ finishedMessages \subseteq Answer
  /\ assistantSpeaking \in BOOLEAN
  /\ audioCache \subseteq Sentence
  /\ fetching \subseteq Answer \X Nat
  /\ monitor \in Seq(Monitor)
  /\ player \in Nat
  /\ sounding \in BOOLEAN
  /\ recorder \in {"idle", "heard", "stopping", "off"}
  /\ confirmed \in BOOLEAN
  /\ sending \in Nat
  /\ overlapped \in BOOLEAN
  /\ sent \in [Answer -> Seq(Nat)]
  /\ spoken \in [Answer -> Seq(Nat)]
  /\ hushed \in BOOLEAN

\* Whichever speech comes back first and whichever monitors an answer has
\* had, its sentences are spoken in the order of its text, and none that was
\* queued is lost or spoken once more than it was queued.
InOrder ==
  \A a \in Answer :
    /\ sent[a] = spoken[a] \o messages[a]
    /\ \A i, j \in DOMAIN sent[a] : i < j => sent[a][i] <= sent[a][j]

\* A sentence is begun only if it is of the answer that started last, with
\* the microphone muted or after the user has cut that answer off; and the
\* microphone does not take that answer's own speech for the user's.
TakesTurns ==
  [][/\ \A a \in Answer : spoken'[a] # spoken[a] =>
          open /\ a = currentMessageId /\ (assistantSpeaking \/ hushed)
     /\ Hears => VoiceInterruption \/ hushed \/ ~(sounding /\ player = Len(monitor))]_vars

\* What the user has said is sent on, unless something said before was still
\* on its way: confirmed is shared by the two.
UtterancesAreSent ==
  [][recorder = "stopping" /\ recorder' = "idle" =>
       sending' = sending + 1 \/ overlapped]_vars

\* The code has no way on from these: the answer broke off, it had no
\* sentence, or the speech of the next one could not be fetched.
Stuck ==
  \E a \in Answer :
    /\ a = currentMessageId
    /\ \/ phase[a] = "broken"
       \/ phase[a] = "done" /\ a \notin queued
       \/ messages[a] # <<>> /\ Key(a, Head(messages[a])) \notin audioCache
          /\ \A p \in fetching : Key(p[1], p[2]) # Key(a, Head(messages[a]))

\* Once the last sentence is spoken the assistant stops speaking and the user
\* can be heard, unless the monitor has nothing to wait for.
SpeakingEnds == assistantSpeaking ~> ~assistantSpeaking \/ Stuck
=============================================================================
