-------------------------- MODULE ChrisChatProofs --------------------------
(***************************************************************************)
(* What ChrisChat guarantees for any number of agents, messages and reads  *)
(* of the list.  The page has one request of send out at a time, which is  *)
(* what TalkInv says; ListInv says what the last read of the list has seen *)
(* and when it is what the page shows.                                     *)
(***************************************************************************)
EXTENDS ChrisChat, TLAPS

TalkInv ==
  /\ loading <=> (asked # None \/ suggesting)
  /\ asked # None => ~suggesting

\* A read has seen a list the hub had since it began, and the last one a list
\* of the kind ListIsCurrent speaks of.  It is shown from when the last read
\* is back: one that began before and comes later sets missed.
Last == fetches[Len(fetches)]
ListInv ==
  /\ Len(fetches) > 0
  /\ installed \in since
  /\ Last.at = "answered" => Last.saw \in since
  /\ ~missed /\ Last.at = "back" => installedAgents \in since

IInv == TypeOK /\ TurnsAlternate /\ HistoryIsWhole /\ TalkInv /\ ListInv

-----------------------------------------------------------------------------
(* Every failure is answered with an error: the code is never found.       *)
LEMMA BodyHasNoCode ==
  ASSUME NEW x PROVE Code([detail |-> x]) = None
<1>1. DOMAIN [detail |-> x] = {"detail"} OBVIOUS
<1> QED BY <1>1 DEF Code

\* What a failed send comes to.
Fails ==
  /\ asked # None
  /\ messages' = Append(messages, Heard(None))
  /\ asked' = None
  /\ Finally
  /\ UNCHANGED <<suggesting, suggestions, pendingAgent, loginRequired, install, list>>

LEMMA FailuresAreErrors == Refused \/ Unavailable => Fails
<1>1. \A x : Catch([detail |-> x]) => Fails
  BY BodyHasNoCode, NoneAssumption DEF Catch, Fails
<1> QED BY <1>1 DEF Refused, Unavailable

LEMMA Parity ==
  ASSUME NEW n \in Nat
  PROVE  /\ n % 2 = 0 => (n + 1) % 2 = 1
         /\ n % 2 = 1 => (n + 1) % 2 = 0
  OBVIOUS

LEMMA Appending ==
  ASSUME NEW S, NEW s \in Seq(S), NEW e \in S
  PROVE  /\ Append(s, e) \in Seq(S)
         /\ Len(Append(s, e)) = Len(s) + 1
         /\ Append(s, e)[Len(s) + 1] = e
         /\ \A i \in 1..Len(s) : Append(s, e)[i] = s[i]
         /\ Past(Append(s, e)) = s
  BY DEF Past

-----------------------------------------------------------------------------
(* The types                                                               *)
LEMMA TypeInit == Init => TypeOK
<1> SUFFICES ASSUME Init PROVE TypeOK OBVIOUS
<1>1. messages \in Seq(Message) BY DEF Init
<1>2. FirstRead \in Read BY DEF FirstRead, Read
<1>3. fetches \in Seq(Read) /\ installs \in Seq(Install) BY <1>2 DEF Init
<1>4. installed \subseteq Agent /\ since \subseteq SUBSET Agent BY DEF Init
<1> QED BY <1>1, <1>3, <1>4 DEF Init, TypeOK

LEMMA TypeStep == TypeOK /\ [Next]_vars => TypeOK'
<1> SUFFICES ASSUME TypeOK, [Next]_vars PROVE TypeOK' OBVIOUS
<1>m. Said \in Message /\ \A a \in Agent \cup {None} : Heard(a) \in Message
  BY DEF Said, Heard, Message
<1>r. FirstRead \in Read BY DEF FirstRead, Read
<1>1. CASE Send
  <2>1. messages' \in Seq(Message) BY <1>1, <1>m DEF Send, TypeOK
  <2>2. Len(messages') = Len(messages) + 1 BY <1>1, <1>m DEF Send, TypeOK
  <2>3. Past(messages') \in Seq(Message) BY <2>1, <2>2 DEF Past, TypeOK
  <2>4. asked' \in Question BY <1>1, <2>3 DEF Send, Question, TypeOK
  <2> QED BY <1>1, <2>1, <2>4 DEF Send, TypeOK, choice, install, list
<1>2. ASSUME NEW a \in Agent, Routed(a) PROVE TypeOK'
  <2>1. messages' \in Seq(Message)
    BY <1>2, <1>m, Appending DEF Routed, TypeOK
  <2> QED BY <1>2, <2>1 DEF Routed, Finally, TypeOK, install, list
<1>3. CASE Direct
  <2>1. messages' \in Seq(Message)
    BY <1>3, <1>m, Appending DEF Direct, TypeOK
  <2> QED BY <1>3, <2>1 DEF Direct, TypeOK, choice, install, list
<1>4. CASE Suggested
  BY <1>4 DEF Suggested, Finally, TypeOK, install, list
<1>5. CASE Refused \/ Unavailable
  <2>1. Fails BY <1>5, FailuresAreErrors
  <2>2. messages' \in Seq(Message)
    BY <2>1, <1>m, Appending DEF Fails, TypeOK
  <2> QED BY <2>1, <2>2 DEF Fails, Finally, TypeOK, install, list
<1>6. CASE Choose
  <2>1. ASSUME NEW a \in Agent, ToggleTarget(a) PROVE TypeOK'
    BY <2>1 DEF ToggleTarget, NeedsWarning, TypeOK, talk, install, list
  <2>2. CASE ConfirmProvisional
    BY <2>2, UnverifiedAssumption DEF ConfirmProvisional, TypeOK, talk, install, list
  <2>3. CASE CancelProvisional
    BY <2>3 DEF CancelProvisional, TypeOK, talk, install, list
  <2>4. CASE Untarget
    BY <2>4 DEF Untarget, TypeOK, talk, install, list
  <2> QED BY <1>6, <2>1, <2>2, <2>3, <2>4 DEF Choose
<1>7. ASSUME NEW a \in Agent, InstallSuggestion(a) PROVE TypeOK'
  <2>1. [agent |-> a, at |-> "asked"] \in Install BY DEF Install
  <2>2. installs' \in Seq(Install) BY <1>7, <2>1 DEF InstallSuggestion, TypeOK
  <2> QED BY <1>7, <2>2 DEF InstallSuggestion, TypeOK, talk, choice, list
<1>b. ASSUME NEW agents \in SUBSET Agent, Becomes(agents)
      PROVE  installed' \subseteq Agent /\ since' \subseteq SUBSET Agent
  BY <1>b DEF Becomes, TypeOK
<1>e. ASSUME NEW i \in DOMAIN installs, Extend(i) PROVE TypeOK'
  <2>1. installs[i] \in Install /\ installs \in Seq(Install) BY DEF TypeOK
  <2>2. \A s \in {"asked", "installed", "refused", "alone", "over"} :
          [installs EXCEPT ![i].at = s] \in Seq(Install)
    BY <2>1 DEF Install
  <2>3. CASE HubInstalls(i)
    <3>1. installs' \in Seq(Install) BY <2>2, <2>3 DEF HubInstalls
    <3>2. installed \cup {installs[i].agent} \in SUBSET Agent
      BY <2>1 DEF Install, TypeOK
    <3>3. installed' \subseteq Agent /\ since' \subseteq SUBSET Agent
      BY <1>b, <2>3, <3>2 DEF HubInstalls, TypeOK
    <3> QED BY <2>3, <3>1, <3>3 DEF HubInstalls, TypeOK, talk, choice
  <2>4. CASE Installed(i)
    <3>1. installs' \in Seq(Install) BY <2>2, <2>4 DEF Installed
    <3>2. fetches' \in Seq(Read) BY <1>r, <2>4 DEF Installed, Reads, TypeOK
    <3>3. suggestions' \subseteq Agent /\ since' \subseteq SUBSET Agent
      BY <2>4 DEF Installed, TypeOK
    <3> QED BY <2>4, <3>1, <3>2, <3>3 DEF Installed, TypeOK, talk, choice
  <2>5. CASE InstallFails(i)
    <3>1. installs' \in Seq(Install) BY <2>2, <2>5 DEF InstallFails
    <3> QED BY <2>5, <3>1 DEF InstallFails, TypeOK, talk, choice, list
  <2> QED BY <1>e, <2>3, <2>4, <2>5 DEF Extend
<1>c. CASE ChangeElsewhere
  <2>1. installed' \subseteq Agent /\ since' \subseteq SUBSET Agent
    BY <1>b, <1>c DEF ChangeElsewhere
  <2> QED BY <1>c, <2>1 DEF ChangeElsewhere, TypeOK, talk, choice
<1>8. ASSUME NEW i \in DOMAIN fetches, HubLists(i) PROVE TypeOK'
  <2>1. [at |-> "answered", saw |-> installed] \in Read BY DEF Read, TypeOK
  <2>2. fetches' \in Seq(Read) BY <1>8, <2>1 DEF HubLists, TypeOK
  <2> QED BY <1>8, <2>2 DEF HubLists, TypeOK, talk, choice, install
<1>9. ASSUME NEW i \in DOMAIN fetches, Listed(i) PROVE TypeOK'
  <2>1. fetches[i] \in Read BY DEF TypeOK
  <2>2. [at |-> "back", saw |-> {}] \in Read /\ fetches[i].saw \subseteq Agent
    BY <2>1 DEF Read
  <2>3. fetches' \in Seq(Read) BY <1>9, <2>2 DEF Listed, TypeOK
  <2>4. installedAgents' \subseteq Agent /\ missed' \in BOOLEAN
    BY <1>9, <2>2 DEF Listed, Overtaken, TypeOK
  <2> QED BY <1>9, <2>3, <2>4 DEF Listed, TypeOK, talk, choice
<1>10. CASE UNCHANGED vars
  BY <1>10 DEF TypeOK, vars, talk, choice, install, list
<1> QED
  BY <1>1, <1>2, <1>3, <1>4, <1>5, <1>6, <1>7, <1>e, <1>c, <1>8, <1>9, <1>10
  DEF Next, Answered

-----------------------------------------------------------------------------
(* The conversation                                                        *)
LEMMA TalkInit == Init => TurnsAlternate /\ HistoryIsWhole /\ TalkInv
  BY DEF Init, TurnsAlternate, HistoryIsWhole, TalkInv

\* A step of talk that leaves messages as they are, or says what is due.
LEMMA Alternates ==
  ASSUME TypeOK, TurnsAlternate, NEW e \in Message,
         messages' = Append(messages, e),
         \/ asked = None /\ asked' # None /\ e.role = "user"
         \/ asked # None /\ asked' = None /\ e.role = "assistant"
  PROVE  TurnsAlternate'
<1>1. messages \in Seq(Message) BY DEF TypeOK
<1>2. /\ Len(messages') = Len(messages) + 1
      /\ messages'[Len(messages) + 1] = e
      /\ \A i \in 1..Len(messages) : messages'[i] = messages[i]
      /\ DOMAIN messages = 1..Len(messages)
      /\ DOMAIN messages' = 1..(Len(messages) + 1)
  BY <1>1, Appending
<1>3. Len(messages) \in Nat BY <1>1
<1>4. /\ Len(messages) % 2 = 0 => (Len(messages) + 1) % 2 = 1
      /\ Len(messages) % 2 = 1 => (Len(messages) + 1) % 2 = 0
  BY <1>3, Parity
<1>5. Len(messages) % 2 = (IF asked # None THEN 1 ELSE 0) BY DEF TurnsAlternate
<1>6. Len(messages') % 2 = (IF asked' # None THEN 1 ELSE 0) BY <1>2, <1>4, <1>5
<1>7. \A i \in DOMAIN messages' :
        messages'[i].role = IF i % 2 = 1 THEN "user" ELSE "assistant"
  <2> SUFFICES ASSUME NEW i \in 1..(Len(messages) + 1)
               PROVE  messages'[i].role = IF i % 2 = 1 THEN "user" ELSE "assistant"
    BY <1>2
  <2>1. CASE i \in 1..Len(messages) BY <2>1, <1>2 DEF TurnsAlternate
  <2>2. CASE i = Len(messages) + 1 BY <2>2, <1>2, <1>4, <1>5
  <2> QED BY <2>1, <2>2, <1>3
<1> QED BY <1>6, <1>7 DEF TurnsAlternate

LEMMA TalkStep ==
  TypeOK /\ TurnsAlternate /\ HistoryIsWhole /\ TalkInv /\ [Next]_vars
    => TurnsAlternate' /\ HistoryIsWhole' /\ TalkInv'
<1> SUFFICES ASSUME TypeOK, TurnsAlternate, HistoryIsWhole, TalkInv, [Next]_vars
             PROVE  TurnsAlternate' /\ HistoryIsWhole' /\ TalkInv'
  OBVIOUS
<1>m. /\ Said \in Message /\ Said.role = "user"
      /\ \A a \in Agent \cup {None} :
           Heard(a) \in Message /\ Heard(a).role = "assistant"
  BY DEF Said, Heard, Message
<1>1. CASE Send
  <2>1. asked = None /\ ~suggesting BY <1>1 DEF Send, Busy, TalkInv
  <2>2. messages \in Seq(Message) BY DEF TypeOK
  <2>3. messages' = Append(messages, Said) /\ Past(messages') = messages
    BY <1>1, <1>m, <2>2, Appending DEF Send
  <2>4. asked' \in Question BY <1>1, <2>2, <2>3 DEF Send, Question, TypeOK, choice
  <2>5. asked' # None BY <2>4, NoneAssumption
  <2>6. TurnsAlternate' BY <2>1, <2>3, <2>5, <1>m, Alternates
  <2>7. HistoryIsWhole' BY <1>1, <2>3 DEF Send, HistoryIsWhole
  <2> QED BY <1>1, <2>1, <2>5, <2>6, <2>7 DEF Send, TalkInv
<1>2. ASSUME NEW a \in Agent, Routed(a)
      PROVE TurnsAlternate' /\ HistoryIsWhole' /\ TalkInv'
  <2>1. messages' = Append(messages, Heard(a)) BY <1>2 DEF Routed
  <2>2. asked # None /\ asked' = None BY <1>2 DEF Routed
  <2>3. TurnsAlternate' BY <2>1, <2>2, <1>m, Alternates
  <2> QED BY <1>2, <2>2, <2>3 DEF Routed, Finally, HistoryIsWhole, TalkInv
<1>3. CASE Direct
  <2>1. asked # None /\ asked' = None /\ messages' = Append(messages, Heard(None))
    BY <1>3 DEF Direct
  <2>2. TurnsAlternate' BY <2>1, <1>m, Alternates
  <2> QED BY <1>3, <2>1, <2>2 DEF Direct, HistoryIsWhole, TalkInv
<1>4. CASE Suggested
  BY <1>4 DEF Suggested, Finally, TurnsAlternate, HistoryIsWhole, TalkInv
<1>5. CASE Refused \/ Unavailable
  <2>1. Fails BY <1>5, FailuresAreErrors
  <2>2. TurnsAlternate' BY <2>1, <1>m, Alternates DEF Fails
  <2> QED BY <2>1, <2>2 DEF Fails, Finally, HistoryIsWhole, TalkInv
<1>6. CASE UNCHANGED talk
  BY <1>6 DEF talk, TurnsAlternate, HistoryIsWhole, TalkInv
<1>7. Choose => UNCHANGED talk
  BY DEF Choose, ConfirmProvisional, CancelProvisional, Untarget, ToggleTarget
<1>8. /\ \A a \in Agent : InstallSuggestion(a) => UNCHANGED talk
      /\ \A i \in DOMAIN installs : Extend(i) => UNCHANGED talk
      /\ ChangeElsewhere => UNCHANGED talk
  BY DEF InstallSuggestion, Extend, HubInstalls, Installed, InstallFails,
         ChangeElsewhere
<1>9. \A i \in DOMAIN fetches : HubLists(i) \/ Listed(i) => UNCHANGED talk
  BY DEF HubLists, Listed
<1>10. UNCHANGED vars => UNCHANGED talk BY DEF vars
<1> QED
  BY <1>1, <1>2, <1>3, <1>4, <1>5, <1>6, <1>7, <1>8, <1>9, <1>10 DEF Next, Answered

-----------------------------------------------------------------------------
(* The list of installed agents                                            *)
LEMMA ListInit == Init => ListInv
  BY DEF Init, ListInv, Last, FirstRead

\* Whatever the hub's list becomes, the lists it had are still among those.
LEMMA BecomesKeepsList ==
  ASSUME ListInv, NEW agents, Becomes(agents),
         UNCHANGED <<installedAgents, fetches, missed>>
  PROVE  ListInv'
<1>1. installed' = agents /\ since' = since \cup {agents} BY DEF Becomes
<1> QED BY <1>1 DEF ListInv, Last

LEMMA ListStep == TypeOK /\ ListInv /\ [Next]_vars => ListInv'
<1> SUFFICES ASSUME TypeOK, ListInv, [Next]_vars PROVE ListInv' OBVIOUS
<1> DEFINE n == Len(fetches)
<1>t. fetches \in Seq(Read) /\ n \in Nat /\ n > 0 /\ DOMAIN fetches = 1..n /\ n \in 1..n
  BY DEF TypeOK, ListInv
<1>1. CASE UNCHANGED <<installed, list>>
  BY <1>1 DEF ListInv, Last, list
<1>2. Send \/ Direct \/ Suggested \/ Choose => UNCHANGED <<installed, list>>
  BY DEF Send, Direct, Suggested, Choose, ConfirmProvisional, CancelProvisional,
         Untarget, ToggleTarget, install
<1>3. \A a \in Agent : Routed(a) \/ InstallSuggestion(a) => UNCHANGED <<installed, list>>
  BY DEF Routed, InstallSuggestion, install
<1>4. Refused \/ Unavailable => UNCHANGED <<installed, list>>
  BY FailuresAreErrors DEF Fails, install
<1>5. ASSUME NEW i \in DOMAIN installs, HubInstalls(i) PROVE ListInv'
  <2>1. UNCHANGED <<installedAgents, agentsLoading, fetches, missed>>
    BY <1>5 DEF HubInstalls
  <2>2. CASE Becomes(installed \cup {installs[i].agent})
    BY <2>1, <2>2, BecomesKeepsList
  <2>3. CASE UNCHANGED <<installed, since>>
    BY <1>1, <2>1, <2>3 DEF list
  <2> QED BY <1>5, <2>2, <2>3 DEF HubInstalls
<1>6. CASE ChangeElsewhere
  BY <1>6, BecomesKeepsList DEF ChangeElsewhere
<1>7. ASSUME NEW i \in DOMAIN installs, Installed(i) PROVE ListInv'
  <2>1. fetches' = Append(fetches, FirstRead) /\ since' = {installed} /\ installed' = installed
    BY <1>7 DEF Installed, Reads
  <2>2. Len(fetches') = n + 1 /\ fetches'[n + 1] = FirstRead BY <2>1, <1>t
  <2>3. Last'.at = "out" BY <2>2 DEF Last, FirstRead
  <2> QED BY <2>1, <2>2, <2>3, <1>t DEF ListInv
<1>8. ASSUME NEW i \in DOMAIN installs, InstallFails(i) PROVE ListInv'
  BY <1>1, <1>8 DEF InstallFails
<1>9. ASSUME NEW i \in DOMAIN fetches, HubLists(i) PROVE ListInv'
  <2>1. /\ Len(fetches') = n /\ DOMAIN fetches' = 1..n
        /\ fetches'[i] = [at |-> "answered", saw |-> installed]
        /\ \A j \in 1..n : j # i => fetches'[j] = fetches[j]
    BY <1>9, <1>t DEF HubLists
  <2>2. UNCHANGED <<installed, installedAgents, missed, since>>
    BY <1>9 DEF HubLists, install
  <2>3. CASE i = n
    <3>1. Last' = [at |-> "answered", saw |-> installed] BY <2>1, <2>3 DEF Last
    <3>2. Last'.at = "answered" /\ Last'.saw = installed BY <3>1
    <3> QED BY <2>1, <2>2, <3>2, <1>t DEF ListInv
  <2>4. CASE i # n
    <3>1. Last' = Last BY <2>1, <2>4, <1>t DEF Last
    <3> QED BY <2>1, <2>2, <3>1, <1>t DEF ListInv
  <2> QED BY <2>3, <2>4
<1>10. ASSUME NEW i \in DOMAIN fetches, Listed(i) PROVE ListInv'
  <2>1. /\ Len(fetches') = n /\ DOMAIN fetches' = 1..n
        /\ fetches'[i] = [at |-> "back", saw |-> {}]
        /\ \A j \in 1..n : j # i => fetches'[j] = fetches[j]
    BY <1>10, <1>t DEF Listed
  <2>2. UNCHANGED <<installed, since>> BY <1>10 DEF Listed
  <2>3. /\ fetches[i].at = "answered"
        /\ \/ installedAgents' = fetches[i].saw /\ missed' = Overtaken(i)
           \/ installedAgents' = installedAgents /\ missed' = (missed \/ ~Overtaken(i))
    BY <1>10 DEF Listed
  <2>4. CASE i = n
    <3>1. Last' = [at |-> "back", saw |-> {}] BY <2>1, <2>4 DEF Last
    <3>2. Last'.at = "back" BY <3>1
    <3>3. ~Overtaken(i) BY <2>4, <1>t DEF Overtaken
    <3>4. ~missed' => installedAgents' = Last.saw BY <2>3, <2>4, <3>3 DEF Last
    <3>5. Last.saw \in since BY <2>3, <2>4 DEF ListInv, Last
    <3> QED BY <2>1, <2>2, <3>2, <3>4, <3>5, <1>t DEF ListInv
  <2>5. CASE i # n
    <3>1. Last' = Last BY <2>1, <2>5, <1>t DEF Last
    <3>2. Last.at = "back" => Overtaken(i) BY <2>5, <1>t DEF Overtaken, Last
    <3>3. ~missed' /\ Last.at = "back" => ~missed /\ installedAgents' = installedAgents
      BY <2>3, <3>2
    <3> QED BY <2>1, <2>2, <3>1, <3>3, <1>t DEF ListInv
  <2> QED BY <2>4, <2>5
<1>11. UNCHANGED vars => UNCHANGED <<installed, list>>
  BY DEF vars, install
<1> QED
  BY <1>1, <1>2, <1>3, <1>4, <1>5, <1>6, <1>7, <1>8, <1>9, <1>10, <1>11
  DEF Next, Answered, Extend

-----------------------------------------------------------------------------
\* The inductive invariant of the page.
THEOREM Inductive == Spec => []IInv
<1>1. Init => IInv BY TypeInit, TalkInit, ListInit DEF IInv
<1>2. IInv /\ [Next]_vars => IInv' BY TypeStep, TalkStep, ListStep DEF IInv
<1> QED BY <1>1, <1>2, PTL DEF Spec

\* The types, for any number of agents, messages and reads.
THEOREM TypeCorrect == Spec => []TypeOK
  BY Inductive, PTL DEF IInv

\* However the user's clicks fall between the steps of send, prompts and
\* answers alternate.
THEOREM TurnsAlwaysAlternate == Spec => []TurnsAlternate
  BY Inductive, PTL DEF IInv

\* Chris is told the whole conversation, and nothing is said meanwhile.
THEOREM HistoryAlwaysWhole == Spec => []HistoryIsWhole
  BY Inductive, PTL DEF IInv

\* Both, however the user's clicks fall between the steps of send.
THEOREM AlwaysTold == Spec => []ConversationIsTold
  BY TurnsAlwaysAlternate, HistoryAlwaysWhole, PTL DEF ConversationIsTold

\* Once every read is back, the page shows a list the hub had since the last
\* one began, whatever other pages change, however many installs are under way
\* and whether the page has given them up or not; unless the last read failed
\* or an older one came after it.
THEOREM ListSettles == Spec => []ListIsCurrent
<1>1. IInv => ListIsCurrent
  <2> SUFFICES ASSUME IInv, ~missed,
                      \A i \in DOMAIN fetches : fetches[i].at = "back"
               PROVE  installedAgents \in since
    BY DEF ListIsCurrent
  <2>1. Len(fetches) \in DOMAIN fetches BY DEF IInv, TypeOK, ListInv
  <2>2. Last.at = "back" BY <2>1 DEF Last
  <2> QED BY <2>2 DEF IInv, ListInv
<1> QED BY <1>1, Inductive, PTL

\* The prompt to sign in never appears: send looks for the code of a refusal
\* beside detail and the hub puts it inside.
NotPrompted == loginRequired = FALSE

THEOREM NeverPrompted == Spec => []NotPrompted
<1>1. Init => NotPrompted
  BY DEF Init, NotPrompted
<1>2. NotPrompted /\ [Next]_vars => NotPrompted'
  <2> SUFFICES ASSUME NotPrompted, [Next]_vars PROVE loginRequired' = FALSE
    BY DEF NotPrompted
  <2> USE DEF NotPrompted
  <2>1. CASE Answered
    BY <2>1, FailuresAreErrors DEF Answered, Direct, Routed, Fails
  <2>2. CASE Choose
    BY <2>2 DEF Choose, ConfirmProvisional, CancelProvisional, Untarget, ToggleTarget
  <2>3. CASE Send \/ Suggested \/ UNCHANGED vars
    BY <2>3 DEF Send, Suggested, vars
  <2>4. ASSUME \/ \E a \in Agent : InstallSuggestion(a)
               \/ \E i \in DOMAIN installs : Extend(i)
               \/ ChangeElsewhere
        PROVE  loginRequired' = FALSE
    BY <2>4 DEF InstallSuggestion, Extend, HubInstalls, Installed, InstallFails,
                ChangeElsewhere
  <2>5. ASSUME NEW i \in DOMAIN fetches, HubLists(i) \/ Listed(i)
        PROVE  loginRequired' = FALSE
    BY <2>5 DEF HubLists, Listed
  <2> QED BY <2>1, <2>2, <2>3, <2>4, <2>5 DEF Next
<1> QED BY <1>1, <1>2, PTL DEF Spec

\* The input is closed exactly while the hub owes an answer or suggestions: no
\* click, refusal or failure leaves it closed with nothing on its way.
ClosedForAReason == loading <=> (asked # None \/ suggesting)

\* With fairness of the hub this is why SendEnds.
THEOREM PageNeverStuck == Spec => []ClosedForAReason
  BY Inductive, PTL DEF IInv, TalkInv, ClosedForAReason

=============================================================================
