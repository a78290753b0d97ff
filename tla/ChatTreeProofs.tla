--------------------------- MODULE ChatTreeProofs ---------------------------
(***************************************************************************)
(* What ChatTree guarantees for any number of messages and models.  That   *)
(* links lead from newer to older messages holds whatever a late handler   *)
(* writes (Order, Copies); that they agree in both directions, and that    *)
(* the message shown last has none below it, holds until one does; and     *)
(* that prompts and answers alternate until a prompt that was left without *)
(* an answer gets a prompt below it.  deleteMessage needs the links to     *)
(* agree; that it keeps roles alternating rests on both.                   *)
(***************************************************************************)
EXTENDS ChatTree, FiniteSetTheorems, WellFoundedInduction, TLAPS

Ordered(m, rec) ==
  /\ rec.parentId \in Id => rec.parentId < m
  /\ \A c \in rec.childrenIds : m < c

Order ==
  /\ \A m \in Id : Ordered(m, messages[m])
  /\ \A m \in Id : held[m] # None => Ordered(m, held[m])
  /\ \A r \in Id : request[r] \in Id /\ request[r] # Live => request[r] < r

\* Only ids that were drawn are in use, and what handlers hold are answers.
Copies ==
  /\ \A m \in present : m <= drawn
  /\ \A r \in Id : request[r] # None =>
       r <= drawn /\ messages[r].role = "assistant"
  /\ \A m \in Id : held[m] # None =>
       /\ m <= drawn
       /\ messages[m].role = "assistant" /\ held[m].role = "assistant"

Linked(msgs, here) ==
  \A m \in here :
    /\ msgs[m].parentId # None =>
         /\ msgs[m].parentId \in here
         /\ m \in msgs[msgs[m].parentId].childrenIds
    /\ \A c \in msgs[m].childrenIds : c \in here /\ msgs[c].parentId = m

Alternating(msgs, here) ==
  \A m \in here :
    /\ msgs[m].parentId \in Id => msgs[msgs[m].parentId].role # msgs[m].role
    /\ \A c \in msgs[m].childrenIds : msgs[c].role # msgs[m].role

\* The view is on a message with none below it, or there are none.
AtLeaf(msgs, here, m) ==
  \/ m = None /\ here = {}
  \/ m \in here /\ msgs[m].childrenIds = {}

IInv ==
  /\ TypeOK
  /\ Order
  /\ Copies
  /\ ~disturbed => /\ Linked(messages, present)
                   /\ AtLeaf(messages, present, currentId)
                   /\ ~stacked => Alternating(messages, present)

-----------------------------------------------------------------------------
(* New messages. *)

\* Objects for new ids, under p or under one another.
Additions(new, p) ==
  /\ DOMAIN new \subseteq Id
  /\ \A n \in DOMAIN new : drawn < n /\ new[n] \in Message /\ Ordered(n, new[n])
  /\ p \in Id => p <= drawn

\* Below p, or one another, they make a tree with what is there.
Grafts(new, p) ==
  /\ p \in present \cup {None}
  /\ \A n \in DOMAIN new :
       /\ new[n].parentId # p =>
            /\ new[n].parentId \in DOMAIN new
            /\ n \in new[new[n].parentId].childrenIds
       /\ \A c \in new[n].childrenIds : c \in DOMAIN new /\ new[c].parentId = n

\* Each is of the other role than the message above it.
Fits(new, p) ==
  \A n \in DOMAIN new :
    /\ new[n].parentId = p => p = None \/ messages[p].role # new[n].role
    /\ new[n].parentId # p => new[new[n].parentId].role # new[n].role
    /\ \A c \in new[n].childrenIds : new[c].role # new[n].role

LEMMA NewAreNew ==
  ASSUME IInv, NEW new, NEW p, Additions(new, p), NEW m \in DOMAIN new
  PROVE  m \in Id /\ m \notin present
<1>1. m \in Id /\ drawn < m BY DEF Additions
<1>2. m \in present => m <= drawn BY DEF IInv, Copies
<1>3. drawn \in Nat BY MaxMessagesAssumption DEF IInv, TypeOK
<1> QED BY <1>1, <1>2, <1>3 DEF Id

LEMMA WithNew ==
  ASSUME IInv, NEW new, NEW p, Additions(new, p), NEW m \in Id, m \in DOMAIN new
  PROVE  With(new, p)[m] = new[m]
BY NewAreNew DEF With

LEMMA WithOld ==
  ASSUME IInv, NEW new, NEW p, Additions(new, p), NEW m \in Id,
         m \notin DOMAIN new, m # p \/ p \notin present
  PROVE  With(new, p)[m] = messages[m]
BY DEF With

LEMMA WithParent ==
  ASSUME IInv, NEW new, NEW p, Additions(new, p), NEW m \in Id, m = p, p \in present
  PROVE  With(new, p)[m] = [messages[m] EXCEPT
           !.childrenIds = @ \cup {n \in DOMAIN new : new[n].parentId = p}]
<1>1. m \notin DOMAIN new BY NewAreNew
<1> QED BY <1>1 DEF With

LEMMA WithTypes ==
  ASSUME IInv, NEW new, NEW p, Additions(new, p)
  PROVE  /\ With(new, p) \in [Id -> Message]
         /\ \A m \in Id : Ordered(m, With(new, p)[m])
         /\ \A m \in Id : m <= drawn => With(new, p)[m].role = messages[m].role
<1> DEFINE W == With(new, p)
<1>0. messages \in [Id -> Message] /\ drawn \in Nat
  BY MaxMessagesAssumption DEF IInv, TypeOK
<1>a. DOMAIN W = Id /\ W = [m \in Id |-> W[m]] BY DEF With
<1> HIDE DEF W
<1>1. SUFFICES ASSUME NEW m \in Id
               PROVE  /\ W[m] \in Message
                      /\ Ordered(m, W[m])
                      /\ m <= drawn => W[m].role = messages[m].role
  <2>1. W \in [Id -> Message] BY <1>a
  <2> QED BY <2>1 DEF W
<1>2. CASE m \in DOMAIN new
  <2>1. W[m] = new[m] BY <1>2, WithNew DEF W
  <2>2. drawn < m /\ new[m] \in Message /\ Ordered(m, new[m])
    BY <1>2 DEF Additions
  <2> QED BY <1>0, <2>1, <2>2 DEF Id
<1>3. CASE m = p /\ p \in present
  <2> DEFINE K == {n \in DOMAIN new : new[n].parentId = p}
  <2>1. W[m] = [messages[m] EXCEPT !.childrenIds = @ \cup K]
    BY <1>3, WithParent DEF W
  <2>2. K \subseteq Id /\ \A c \in K : m < c
    <3>1. \A c \in K : c \in Id /\ drawn < c BY DEF Additions
    <3>2. m <= drawn BY <1>3 DEF IInv, Copies
    <3> QED BY <1>0, <3>1, <3>2 DEF Id
  <2>3. messages[m] \in Message /\ Ordered(m, messages[m])
    BY <1>0 DEF IInv, Order
  <2> HIDE DEF K
  <2>4. /\ W[m] \in Message
        /\ W[m].parentId = messages[m].parentId
        /\ W[m].role = messages[m].role
        /\ W[m].childrenIds = messages[m].childrenIds \cup K
    BY <2>1, <2>2, <2>3 DEF Message
  <2> QED BY <2>2, <2>3, <2>4 DEF Ordered
<1>4. CASE m \notin DOMAIN new /\ ~(m = p /\ p \in present)
  <2>1. W[m] = messages[m] BY <1>4, WithOld DEF W
  <2> QED BY <1>0, <2>1 DEF IInv, Order
<1> QED BY <1>2, <1>3, <1>4

LEMMA WithTree ==
  ASSUME IInv, ~disturbed, NEW new, NEW p, Additions(new, p), Grafts(new, p)
  PROVE  /\ Linked(With(new, p), present \cup DOMAIN new)
         /\ ~stacked /\ Fits(new, p)
              => Alternating(With(new, p), present \cup DOMAIN new)
<1> DEFINE W == With(new, p)
           N == DOMAIN new
           K == {n \in N : new[n].parentId = p}
<1>0. messages \in [Id -> Message] /\ present \subseteq Id /\ N \subseteq Id
  BY DEF IInv, TypeOK, Additions
<1>a. Linked(messages, present) BY DEF IInv
<1>b. None \notin Id BY NoneAssumption DEF Id
<1>1. N \cap present = {} BY NewAreNew
<1>2. \A n \in N : W[n] = new[n] BY <1>0, WithNew
<1>3. \A m \in present : /\ W[m].parentId = messages[m].parentId
                         /\ W[m].role = messages[m].role
                         /\ W[m].childrenIds =
                              messages[m].childrenIds \cup (IF m = p THEN K ELSE {})
  <2> TAKE m \in present
  <2>1. m \in Id /\ messages[m] \in Message /\ m \notin N BY <1>0, <1>1
  <2>2. CASE m = p
    <3>1. W[m] = [messages[m] EXCEPT !.childrenIds = @ \cup K]
      BY <2>1, <2>2, WithParent
    <3> HIDE DEF W, K
    <3> QED BY <2>1, <2>2, <3>1 DEF Message
  <2>3. CASE m # p
    <3>1. W[m] = messages[m] BY <2>1, <2>3, WithOld
    <3> HIDE DEF W, K
    <3> QED BY <2>3, <3>1
  <2> QED BY <2>2, <2>3
<1>4. p \in present \cup {None} BY DEF Grafts
<1>5. \A n \in N :
        /\ new[n].parentId # p =>
             /\ new[n].parentId \in N
             /\ n \in new[new[n].parentId].childrenIds
        /\ \A c \in new[n].childrenIds : c \in N /\ new[c].parentId = n
  BY DEF Grafts
<1>f. ASSUME Fits(new, p), NEW n \in N
      PROVE  /\ new[n].parentId = p => p = None \/ messages[p].role # new[n].role
             /\ new[n].parentId # p => new[new[n].parentId].role # new[n].role
             /\ \A c \in new[n].childrenIds : new[c].role # new[n].role
  BY <1>f DEF Fits
<1>g. ~stacked => Alternating(messages, present) BY DEF IInv
<1>k. \A c : c \in K <=> c \in N /\ new[c].parentId = p OBVIOUS
<1> HIDE DEF W, N, K
<1>6. Linked(W, present \cup N)
  <2>1. ASSUME NEW m \in present
        PROVE  /\ W[m].parentId # None =>
                    /\ W[m].parentId \in present \cup N
                    /\ m \in W[W[m].parentId].childrenIds
               /\ \A c \in W[m].childrenIds :
                    c \in present \cup N /\ W[c].parentId = m
    <3>1. ASSUME W[m].parentId # None
          PROVE  /\ W[m].parentId \in present
                 /\ m \in W[W[m].parentId].childrenIds
      BY <1>3, <1>a, <2>1, <3>1 DEF Linked
    <3>2. ASSUME NEW c \in messages[m].childrenIds
          PROVE  c \in present /\ W[c].parentId = m
      BY <1>3, <1>a DEF Linked
    <3>3. ASSUME NEW c \in K, m = p
          PROVE  c \in N /\ W[c].parentId = m
      BY <1>2, <1>k, <3>3
    <3> QED BY <1>3, <3>1, <3>2, <3>3
  <2>2. ASSUME NEW n \in N
        PROVE  /\ W[n].parentId # None =>
                    /\ W[n].parentId \in present \cup N
                    /\ n \in W[W[n].parentId].childrenIds
               /\ \A c \in W[n].childrenIds :
                    c \in present \cup N /\ W[c].parentId = n
    <3>1. CASE new[n].parentId = p
      BY <1>2, <1>3, <1>4, <1>5, <1>k, <3>1
    <3>2. CASE new[n].parentId # p
      BY <1>2, <1>5, <3>2
    <3> QED BY <3>1, <3>2
  <2> QED BY <2>1, <2>2 DEF Linked
<1>7. ASSUME ~stacked, Fits(new, p) PROVE Alternating(W, present \cup N)
  <2>a. Alternating(messages, present) BY <1>7, <1>g
  <2>1. ASSUME NEW m \in present
        PROVE  /\ W[m].parentId \in Id => W[W[m].parentId].role # W[m].role
               /\ \A c \in W[m].childrenIds : W[c].role # W[m].role
    <3>1. ASSUME W[m].parentId \in Id
          PROVE  W[W[m].parentId].role # W[m].role
      <4>1. messages[m].parentId \in present BY <1>3, <1>a, <1>b, <3>1 DEF Linked
      <4> QED BY <1>3, <2>a, <3>1, <4>1 DEF Alternating
    <3>2. ASSUME NEW c \in messages[m].childrenIds
          PROVE  W[c].role # W[m].role
      <4>1. c \in present BY <1>a DEF Linked
      <4> QED BY <1>3, <2>a, <4>1 DEF Alternating
    <3>3. ASSUME NEW c \in K, m = p
          PROVE  W[c].role # W[m].role
      <4>1. c \in N /\ new[c].parentId = p BY <1>k
      <4>2. messages[p].role # new[c].role BY <1>0, <1>7, <1>b, <1>f, <3>3, <4>1
      <4> QED BY <1>2, <1>3, <3>3, <4>1, <4>2
    <3> QED BY <1>3, <3>1, <3>2, <3>3
  <2>2. ASSUME NEW n \in N
        PROVE  /\ W[n].parentId \in Id => W[W[n].parentId].role # W[n].role
               /\ \A c \in W[n].childrenIds : W[c].role # W[n].role
    <3>0. \A c \in W[n].childrenIds : W[c].role # W[n].role
      BY <1>2, <1>5, <1>7, <1>f
    <3>1. CASE new[n].parentId = p
      BY <1>7, <1>b, <1>2, <1>3, <1>4, <1>f, <3>0, <3>1
    <3>2. CASE new[n].parentId # p
      BY <1>7, <1>2, <1>5, <1>f, <3>0, <3>2
    <3> QED BY <3>1, <3>2
  <2> QED BY <2>1, <2>2 DEF Alternating
<1> QED BY <1>6, <1>7 DEF W, N

-----------------------------------------------------------------------------
(* The view. *)

LEMMA BranchEndsHere ==
  ASSUME NEW msgs, NEW here \in SUBSET Id, NEW start \in here,
         \A x \in here : msgs[x].childrenIds \subseteq here,
         NEW l \in Ends(msgs, here, start)
  PROVE  l \in here /\ msgs[l].childrenIds = {}
<1> DEFINE linked == {start} \cup UNION {msgs[x].childrenIds : x \in here}
           S == linked \cap here
<1>1. l \in Under(msgs, here, start) /\ (l \in here => msgs[l].childrenIds = {})
  BY DEF Ends
<1>2. \A x \in S \cap here : msgs[x].childrenIds \subseteq S OBVIOUS
<1>3. start \in S /\ S \in SUBSET linked OBVIOUS
<1>4. l \in S BY <1>1, <1>2, <1>3 DEF Under
<1> QED BY <1>1, <1>4

LEMMA ViewEndsBranch ==
  ASSUME NEW msgs, NEW here \in SUBSET Id, NEW start \in here,
         Linked(msgs, here), View(msgs, here, start)
  PROVE  AtLeaf(msgs, here, currentId')
<1>1. \A x \in here : msgs[x].childrenIds \subseteq here BY DEF Linked
<1>2. PICK l \in Ends(msgs, here, start) :
        currentId' = IF l \in here THEN l ELSE currentId
  BY DEF View
<1>3. l \in here /\ msgs[l].childrenIds = {} BY <1>1, BranchEndsHere
<1> QED BY <1>2, <1>3 DEF AtLeaf

LEMMA ViewTypes ==
  ASSUME IInv, NEW msgs, NEW here \in SUBSET Id, NEW start, View(msgs, here, start)
  PROVE  currentId' \in Id \cup {None}
BY DEF View, IInv, TypeOK

-----------------------------------------------------------------------------
(* What deleteMessage leaves. *)

LEMMA GrandchildrenAreNewer ==
  ASSUME IInv, NEW m \in Id, NEW x \in Grandchildren(m)
  PROVE  x \in Id /\ m < x /\ (messages[m].parentId \in Id => messages[m].parentId < x)
<1>1. PICK c \in messages[m].childrenIds \cap present : x \in messages[c].childrenIds
  BY DEF Grandchildren
<1>2. messages \in [Id -> Message] BY DEF IInv, TypeOK
<1>3. c \in Id /\ x \in Id BY <1>1, <1>2 DEF Message, IInv, TypeOK
<1>4. m < c /\ c < x BY <1>1, <1>3 DEF IInv, Order, Ordered
<1>5. messages[m].parentId \in Id => messages[m].parentId < m
  BY DEF IInv, Order, Ordered
<1> QED BY <1>3, <1>4, <1>5 DEF Id

\* The objects of the messages deleteMessage concerns, and of the others.
LEMMA WithoutAbove ==
  ASSUME IInv, NEW m \in Id, NEW x \in Id, x = messages[m].parentId, x \in Left(m)
  PROVE  Without(m)[x] = [messages[x] EXCEPT
           !.childrenIds = (@ \ {m}) \cup Grandchildren(m)]
<1>1. x \notin Grandchildren(m)
  <2>1. x \in Grandchildren(m) => x < x BY GrandchildrenAreNewer
  <2> QED BY <2>1 DEF Id
<1>2. ~(x \in present \ Left(m)) OBVIOUS
<1> QED BY <1>1, <1>2 DEF Without

LEMMA WithoutBelow ==
  ASSUME IInv, NEW m \in Id, NEW x \in Grandchildren(m) \cap Left(m)
  PROVE  Without(m)[x] = Lifted(x, messages[m].parentId)
<1>1. x \in Id /\ x # messages[m].parentId
  <2>1. x \in Id BY GrandchildrenAreNewer
  <2>2. x = messages[m].parentId => x < x BY <2>1, GrandchildrenAreNewer
  <2> QED BY <2>1, <2>2 DEF Id
<1>2. ~(x \in present \ Left(m)) OBVIOUS
<1> QED BY <1>1, <1>2 DEF Without

LEMMA WithoutElsewhere ==
  ASSUME IInv, NEW m \in Id, NEW x \in Id,
         x # messages[m].parentId \/ x \notin Left(m),
         x \notin Grandchildren(m) \cap Left(m)
  PROVE  Without(m)[x] = IF x \in present \ Left(m) /\ request[x] # Live
                         THEN Blank(messages[x].role) ELSE messages[x]
BY DEF Without

LEMMA BlankIs ==
  ASSUME NEW r \in {"user", "assistant"}
  PROVE  /\ Blank(r) \in Message /\ Blank(r).role = r
         /\ Blank(r).childrenIds = {} /\ Blank(r).parentId = None
BY DEF Message, Blank, Answer

LEMMA WithoutTypes ==
  ASSUME IInv, NEW m \in Id
  PROVE  /\ Without(m) \in [Id -> Message]
         /\ \A x \in Id : Ordered(x, Without(m)[x])
         /\ \A x \in Id : Without(m)[x].role = messages[x].role
<1> DEFINE W == Without(m)
           p == messages[m].parentId
           G == Grandchildren(m)
<1>0. messages \in [Id -> Message] BY DEF IInv, TypeOK
<1>a. W = [x \in Id |-> W[x]] BY DEF Without
<1>b. \A x \in G : x \in Id /\ m < x /\ (p \in Id => p < x)
  BY GrandchildrenAreNewer
<1>c. p \in Id \cup {None} /\ (p \in Id => p < m)
  BY <1>0 DEF IInv, Order, Ordered, Message
<1> HIDE DEF W
<1>1. SUFFICES ASSUME NEW x \in Id
               PROVE  W[x] \in Message /\ Ordered(x, W[x])
                      /\ W[x].role = messages[x].role
  <2>1. W \in [Id -> Message] BY <1>a
  <2> QED BY <2>1 DEF W
<1>d. messages[x] \in Message /\ Ordered(x, messages[x])
  BY <1>0 DEF IInv, Order
<1>2. CASE x = p /\ x \in Left(m)
  <2>1. W[x] = [messages[x] EXCEPT !.childrenIds = (@ \ {m}) \cup G]
    BY <1>2, WithoutAbove DEF W
  <2>2. G \subseteq Id /\ \A c \in G : x < c BY <1>2, <1>b
  <2> HIDE DEF G, p
  <2>3. /\ W[x] \in Message
        /\ W[x].parentId = messages[x].parentId
        /\ W[x].role = messages[x].role
        /\ W[x].childrenIds = (messages[x].childrenIds \ {m}) \cup G
    BY <1>d, <2>1, <2>2 DEF Message
  <2> QED BY <1>d, <2>2, <2>3 DEF Ordered
<1>3. CASE x \in G \cap Left(m)
  <2>1. W[x] = Lifted(x, p) BY <1>3, WithoutBelow DEF W
  <2>2. p \in Id => p < x BY <1>3, <1>b
  <2> HIDE DEF G, p
  <2>3. /\ W[x] \in Message
        /\ W[x].parentId = p
        /\ W[x].role = messages[x].role
        /\ W[x].childrenIds = messages[x].childrenIds
    BY <1>c, <1>d, <2>1 DEF Message, Lifted
  <2> QED BY <1>d, <2>2, <2>3 DEF Ordered
<1>4. CASE ~(x = p /\ x \in Left(m)) /\ x \notin G \cap Left(m)
  <2>1. W[x] = IF x \in present \ Left(m) /\ request[x] # Live
               THEN Blank(messages[x].role) ELSE messages[x]
    BY <1>4, WithoutElsewhere DEF W
  <2> HIDE DEF G, p
  <2>2. messages[x].role \in {"user", "assistant"} BY <1>d DEF Message
  <2>3. /\ Blank(messages[x].role) \in Message
        /\ Blank(messages[x].role).role = messages[x].role
        /\ Blank(messages[x].role).childrenIds = {}
        /\ Blank(messages[x].role).parentId = None
    BY <2>2, BlankIs
  <2>4. Ordered(x, Blank(messages[x].role))
    BY <2>3, NoneAssumption DEF Ordered, Id
  <2> QED BY <1>d, <2>1, <2>3, <2>4
<1> QED BY <1>2, <1>3, <1>4

LEMMA WithoutTree ==
  ASSUME IInv, ~disturbed, NEW m \in present
  PROVE  /\ Linked(Without(m), Left(m))
         /\ ~stacked => Alternating(Without(m), Left(m))
<1> DEFINE W == Without(m)
           L == Left(m)
           p == messages[m].parentId
           kids == messages[m].childrenIds
           G == Grandchildren(m)
<1>0. messages \in [Id -> Message] /\ present \subseteq Id BY DEF IInv, TypeOK
<1>a. Linked(messages, present) BY DEF IInv
<1>s. ~stacked => Alternating(messages, present) BY DEF IInv
<1>b. None \notin Id BY NoneAssumption DEF Id
<1>c. \A x \in present : messages[x].parentId # x /\ x \notin messages[x].childrenIds
  <2> TAKE x \in present
  <2>1. Ordered(x, messages[x]) /\ x \in Id BY <1>0 DEF IInv, Order
  <2> QED BY <2>1 DEF Ordered, Id
<1>1. \A c \in kids : c \in present /\ messages[c].parentId = m
  BY <1>a DEF Linked
<1>2. \A x \in present : x \in kids <=> messages[x].parentId = m
  BY <1>0, <1>1, <1>a, <1>b DEF Linked
<1>3. \A x : x \in G <=> x \in present /\ messages[x].parentId \in kids
  <2> TAKE x
  <2>1. ASSUME x \in G PROVE x \in present /\ messages[x].parentId \in kids
    <3>1. PICK c \in kids \cap present : x \in messages[c].childrenIds
      BY <2>1 DEF Grandchildren
    <3> QED BY <3>1, <1>a DEF Linked
  <2>2. ASSUME x \in present, messages[x].parentId \in kids PROVE x \in G
    <3>1. messages[x].parentId \in present BY <1>1, <2>2
    <3>2. x \in messages[messages[x].parentId].childrenIds
      BY <1>0, <1>a, <1>b, <2>2, <3>1 DEF Linked
    <3> QED BY <2>2, <3>1, <3>2 DEF Grandchildren
  <2> QED BY <2>1, <2>2
<1>4. \A x : x \in L <=> x \in present /\ x # m /\ x \notin kids BY DEF Left
<1>5. p # m /\ p \notin kids
  <2>1. Ordered(m, messages[m]) /\ m \in Id BY <1>0 DEF IInv, Order
  <2>2. \A c \in kids : c \in Id /\ m < c BY <1>0, <1>1, <2>1 DEF Ordered
  <2>3. p \in Id => p < m BY <2>1 DEF Ordered
  <2> QED BY <1>0, <2>1, <2>2, <2>3 DEF Id
<1>6. p # None => p \in L BY <1>a, <1>4, <1>5 DEF Linked
<1>7. \A x \in G : x \in L
  <2>1. m \notin G BY <1>3, <1>5
  <2>2. \A x \in G : x \notin kids BY <1>1, <1>3, <1>c
  <2> QED BY <1>3, <1>4, <2>1, <2>2
<1>8. \A x \in L :
        /\ W[x].parentId = IF x \in G THEN p ELSE messages[x].parentId
        /\ W[x].childrenIds = IF x = p THEN (messages[x].childrenIds \ {m}) \cup G
                              ELSE messages[x].childrenIds
        /\ W[x].role = messages[x].role
  <2> TAKE x \in L
  <2>0. x \in Id /\ messages[x] \in Message BY <1>0, <1>4
  <2>1. CASE x = p
    <3>1. W[x] = [messages[x] EXCEPT !.childrenIds = (@ \ {m}) \cup G]
      BY <1>0, <2>0, <2>1, WithoutAbove
    <3>2. x \notin G
      <4>1. x \in G => x < x BY <1>0, <2>0, <2>1, GrandchildrenAreNewer
      <4> QED BY <2>0, <4>1 DEF Id
    <3> HIDE DEF W, L, p, G
    <3> QED BY <2>0, <2>1, <3>1, <3>2 DEF Message
  <2>2. CASE x # p /\ x \in G
    <3>1. W[x] = Lifted(x, p) BY <1>0, <2>2, WithoutBelow
    <3> HIDE DEF W, L, p, G
    <3> QED BY <2>0, <2>2, <3>1 DEF Message, Lifted
  <2>3. CASE x # p /\ x \notin G
    <3>1. x \notin present \ Left(m) OBVIOUS
    <3>2. W[x] = messages[x] BY <1>0, <2>0, <2>3, <3>1, WithoutElsewhere
    <3> HIDE DEF W, L, p, G
    <3> QED BY <2>3, <3>2
  <2> QED BY <2>1, <2>2, <2>3
<1>9. \A x \in L : \A c \in messages[x].childrenIds : c # m =>
        c \in L /\ c \notin G /\ messages[c].parentId = x
  <2> TAKE x \in L
  <2> TAKE c \in messages[x].childrenIds
  <2> HAVE c # m
  <2>1. c \in present /\ messages[c].parentId = x BY <1>4, <1>a DEF Linked
  <2> QED BY <1>2, <1>3, <1>4, <2>1
<1>10. \A x \in L : m \in messages[x].childrenIds => x = p
  BY <1>4, <1>a DEF Linked
<1>11. \A x \in L : messages[x].parentId # None /\ x \notin G =>
         /\ messages[x].parentId \in L
         /\ x \in messages[messages[x].parentId].childrenIds
  BY <1>2, <1>3, <1>4, <1>a DEF Linked
<1>r. \A x \in present : messages[x].role \in {"user", "assistant"}
  BY <1>0 DEF Message
<1> HIDE DEF W, L, p, kids, G
<1>12. Linked(W, L)
  <2>1. ASSUME NEW x \in L, W[x].parentId # None
        PROVE  W[x].parentId \in L /\ x \in W[W[x].parentId].childrenIds
    <3>1. CASE x \in G BY <1>6, <1>8, <2>1, <3>1
    <3>2. CASE x \notin G
      <4>1. messages[x].parentId \in L /\ W[x].parentId = messages[x].parentId
            /\ x \in messages[messages[x].parentId].childrenIds /\ x # m
        BY <1>4, <1>8, <1>11, <2>1, <3>2
      <4> QED BY <1>8, <4>1
    <3> QED BY <3>1, <3>2
  <2>2. ASSUME NEW x \in L, NEW c \in W[x].childrenIds
        PROVE  c \in L /\ W[c].parentId = x
    <3>1. CASE x = p /\ c \in G BY <1>7, <1>8, <3>1
    <3>2. CASE ~(x = p /\ c \in G)
      <4>1. c \in messages[x].childrenIds /\ c # m BY <1>8, <1>10, <3>2
      <4> QED BY <1>8, <1>9, <4>1
    <3> QED BY <3>1, <3>2
  <2> QED BY <2>1, <2>2 DEF Linked
<1>13. ASSUME ~stacked PROVE Alternating(W, L)
  <2>a. Alternating(messages, present) BY <1>13, <1>s
  <2>1. \A x \in G : p # None => messages[p].role # messages[x].role
    <3> TAKE x \in G
    <3> HAVE p # None
    <3>1. PICK c \in kids : messages[x].parentId = c BY <1>3
    <3>2. c \in present /\ p \in present /\ x \in present BY <1>1, <1>3, <1>4, <1>6
    <3>3. messages[x].role # messages[c].role
      BY <1>0, <2>a, <3>1, <3>2 DEF Alternating
    <3>4. messages[c].role # messages[m].role
      BY <2>a DEF Alternating, kids
    <3>5. messages[p].role # messages[m].role
      BY <1>0, <2>a, <3>2 DEF Alternating, p
    <3> QED BY <1>r, <3>2, <3>3, <3>4, <3>5
  <2>2. ASSUME NEW x \in L, W[x].parentId \in Id
        PROVE  W[W[x].parentId].role # W[x].role
    <3>1. CASE x \in G
      <4>1. W[x].parentId = p /\ p # None BY <1>8, <1>b, <2>2, <3>1
      <4> QED BY <1>6, <1>8, <2>1, <3>1, <4>1
    <3>2. CASE x \notin G
      <4>1. messages[x].parentId \in L /\ W[x].parentId = messages[x].parentId
        BY <1>8, <1>11, <1>b, <2>2, <3>2
      <4>2. messages[messages[x].parentId].role # messages[x].role
        BY <1>4, <2>a, <2>2, <4>1 DEF Alternating
      <4> QED BY <1>8, <4>1, <4>2
    <3> QED BY <3>1, <3>2
  <2>3. ASSUME NEW x \in L, NEW c \in W[x].childrenIds
        PROVE  W[c].role # W[x].role
    <3>1. CASE x = p /\ c \in G
      BY <1>0, <1>4, <1>7, <1>8, <1>b, <2>1, <3>1
    <3>2. CASE ~(x = p /\ c \in G)
      <4>1. c \in messages[x].childrenIds /\ c # m BY <1>8, <1>10, <3>2
      <4>2. c \in L /\ messages[c].role # messages[x].role
        BY <1>4, <1>9, <2>a, <4>1 DEF Alternating
      <4> QED BY <1>8, <4>2
    <3> QED BY <3>1, <3>2
  <2> QED BY <2>2, <2>3 DEF Alternating
<1> QED BY <1>12, <1>13 DEF W, L

-----------------------------------------------------------------------------
(* Steps that add messages. *)

LEMMA Numbers ==
  ASSUME IInv
  PROVE  /\ drawn \in Nat /\ drawn <= MaxMessages /\ MaxMessages \in Nat
         /\ present \subseteq Id /\ messages \in [Id -> Message]
         /\ \A m \in Id : m \in Nat /\ (m \in present => m <= drawn)
         /\ None \notin Id /\ None \notin Nat
BY MaxMessagesAssumption, NoneAssumption DEF IInv, TypeOK, Copies, Id

LEMMA Adding ==
  ASSUME IInv, NEW new, NEW p, Additions(new, p), ~disturbed => Grafts(new, p),
         NEW u \in Id, NEW sent \in SUBSET DOMAIN new,
         \A m \in sent : u < m /\ new[m].role = "assistant",
         messages' = With(new, p), present' = present \cup DOMAIN new,
         \/ currentId' \in DOMAIN new /\ new[currentId'].childrenIds = {}
         \/ DOMAIN new = {} /\ currentId' = currentId,
         drawn' \in drawn..MaxMessages, \A n \in DOMAIN new : n <= drawn',
         request' = [m \in Id |-> IF m \in sent THEN u ELSE request[m]],
         stacked' \in BOOLEAN,
         ~disturbed /\ ~stacked' => ~stacked /\ Fits(new, p),
         UNCHANGED <<task, stopping, held, disturbed>>
  PROVE  IInv'
<1>0. /\ drawn \in Nat /\ drawn <= MaxMessages /\ MaxMessages \in Nat
      /\ drawn' \in Nat /\ drawn <= drawn' /\ drawn' <= MaxMessages
      /\ \A m \in Id : m \in Nat
  BY Numbers
<1>a. DOMAIN new \subseteq Id BY DEF Additions
<1>1. /\ messages' \in [Id -> Message]
      /\ \A m \in Id : Ordered(m, messages'[m])
      /\ \A m \in Id : m <= drawn => messages'[m].role = messages[m].role
  BY WithTypes
<1>2. \A n \in DOMAIN new : messages'[n] = new[n]
  <2> TAKE n \in DOMAIN new
  <2> QED BY <1>a, WithNew
<1>3. TypeOK'
  <2>1. request' \in [Id -> Id \cup {None, Live}] BY DEF IInv, TypeOK
  <2> QED BY <1>0, <1>1, <1>a, <2>1 DEF IInv, TypeOK
<1>4. Order'
  <2>1. \A r \in Id : request'[r] \in Id /\ request'[r] # Live => request'[r] < r
    BY DEF IInv, Order
  <2>2. \A m \in Id : held'[m] # None => Ordered(m, held'[m])
    BY DEF IInv, Order
  <2> QED BY <1>1, <2>1, <2>2 DEF Order, Ordered
<1>5. Copies'
  <2>1. \A m \in present' : m <= drawn'
    BY <1>0, Numbers DEF IInv, Copies
  <2>2. ASSUME NEW r \in Id, request'[r] # None
        PROVE  r <= drawn' /\ messages'[r].role = "assistant"
    <3>1. CASE r \in sent BY <1>2, <3>1
    <3>2. CASE r \notin sent
      <4>1. request[r] # None BY <2>2, <3>2
      <4>2. r <= drawn /\ messages[r].role = "assistant"
        BY <4>1 DEF IInv, Copies
      <4> QED BY <1>0, <1>1, <4>2
    <3> QED BY <3>1, <3>2
  <2>3. ASSUME NEW m \in Id, held'[m] # None
        PROVE  /\ m <= drawn' /\ messages'[m].role = "assistant"
               /\ held'[m].role = "assistant"
    <3>1. m <= drawn /\ messages[m].role = "assistant" /\ held[m].role = "assistant"
      BY <2>3 DEF IInv, Copies
    <3> QED BY <1>0, <1>1, <3>1
  <2> QED BY <2>1, <2>2, <2>3 DEF Copies
<1>6. ASSUME ~disturbed' PROVE Linked(messages', present')
                               /\ (~stacked' => Alternating(messages', present'))
  <2>1. ~disturbed BY <1>6
  <2>2. /\ Linked(With(new, p), present \cup DOMAIN new)
        /\ ~stacked /\ Fits(new, p)
             => Alternating(With(new, p), present \cup DOMAIN new)
    BY <2>1, WithTree
  <2> QED BY <2>1, <2>2
<1>7. ASSUME ~disturbed' PROVE AtLeaf(messages', present', currentId')
  <2>1. CASE currentId' \in DOMAIN new /\ new[currentId'].childrenIds = {}
    BY <1>2, <2>1 DEF AtLeaf
  <2>2. CASE DOMAIN new = {} /\ currentId' = currentId
    <3>1. AtLeaf(messages, present, currentId) /\ present' = present
      BY <1>7, <2>2 DEF IInv
    <3>2. CASE currentId \in present
      <4>1. currentId \in Id /\ messages[currentId] \in Message
        BY <3>2 DEF IInv, TypeOK
      <4>2. messages[currentId].childrenIds = {}
        BY <3>1, <3>2 DEF AtLeaf
      <4>3. messages'[currentId].childrenIds = {}
        <5>1. CASE currentId = p
          <6>1. messages'[currentId] =
                  [messages[currentId] EXCEPT
                     !.childrenIds = @ \cup {n \in DOMAIN new : new[n].parentId = p}]
            BY <3>2, <4>1, <5>1, WithParent
          <6>2. {n \in DOMAIN new : new[n].parentId = p} = {} BY <2>2
          <6> QED BY <4>1, <4>2, <6>1, <6>2 DEF Message
        <5>2. CASE currentId # p
          <6>1. currentId \notin DOMAIN new BY <2>2
          <6>2. messages'[currentId] = messages[currentId]
            BY <4>1, <5>2, <6>1, WithOld
          <6> QED BY <4>2, <6>2
        <5> QED BY <5>1, <5>2
      <4> QED BY <2>2, <3>1, <3>2, <4>3 DEF AtLeaf
    <3>3. CASE currentId \notin present BY <2>2, <3>1, <3>3 DEF AtLeaf
    <3> QED BY <3>2, <3>3
  <2> QED BY <2>1, <2>2
<1> QED BY <1>3, <1>4, <1>5, <1>6, <1>7 DEF IInv

LEMMA TurnIs ==
  ASSUME IInv, NEW p \in present \cup {None}, NEW w \in Nat, NEW n \in Nat,
         NEW d \in BOOLEAN, drawn + n + 1 <= MaxMessages
  PROVE  /\ DOMAIN Turn(p, w, n, d) = Fresh(n + 1)
         /\ Additions(Turn(p, w, n, d), p)
         /\ Grafts(Turn(p, w, n, d), p)
         /\ (p # None => messages[p].role # "user") => Fits(Turn(p, w, n, d), p)
         /\ \A m \in Fresh(n + 1) \ {drawn + 1} :
              drawn + 1 < m /\ Turn(p, w, n, d)[m].role = "assistant"
         /\ drawn + 1 \in Id /\ Fresh(n + 1) \subseteq Id
         /\ \A m \in Fresh(n + 1) : m <= drawn + n + 1
         /\ drawn + n + 1 \in Fresh(n + 1)
         /\ Turn(p, w, n, d)[drawn + n + 1].childrenIds = {}
         /\ drawn + n + 1 \in drawn..MaxMessages
<1> DEFINE u == drawn + 1
           F == Fresh(n + 1)
           T == Turn(p, w, n, d)
<1>0. /\ drawn \in Nat /\ drawn <= MaxMessages /\ MaxMessages \in Nat
      /\ None \notin Id /\ None \notin Nat /\ present \subseteq Id
      /\ \A m \in Id : m \in Nat /\ (m \in present => m <= drawn)
  BY Numbers
<1>1. /\ u \in F /\ F \subseteq Id
      /\ \A m \in F : m \in Nat /\ drawn < m /\ m <= drawn + n + 1
      /\ \A m \in F \ {u} : u < m
      /\ drawn + n + 1 \in F
      /\ drawn + n + 1 = u => F \ {u} = {}
      /\ drawn + n + 1 \in drawn..MaxMessages
  BY <1>0 DEF Fresh, Id
<1>2. DOMAIN T = F BY DEF Turn
<1>3. T[u] = [Prompt(p, w) EXCEPT !.childrenIds = F \ {u}]
  BY <1>1 DEF Turn
<1>4. \A m \in F \ {u} : T[m] = Answer(u, d) BY DEF Turn
<1> HIDE DEF T, F, u
<1>5. /\ T[u] \in Message /\ T[u].parentId = p /\ T[u].role = "user"
      /\ T[u].childrenIds = F \ {u}
  BY <1>0, <1>1, <1>3 DEF Prompt, Message
<1>6. \A m \in F \ {u} : /\ T[m] \in Message /\ T[m].parentId = u
                         /\ T[m].role = "assistant" /\ T[m].childrenIds = {}
  BY <1>1, <1>4 DEF Answer, Message
<1>7. u # p /\ u \in Nat /\ (p \in Id => p < u) BY <1>0 DEF u
<1>8. Additions(T, p)
  <2>1. \A x \in F : Ordered(x, T[x])
    <3> TAKE x \in F
    <3>1. CASE x = u BY <1>1, <1>5, <1>7, <3>1 DEF Ordered
    <3>2. CASE x # u BY <1>1, <1>6, <3>2 DEF Ordered
    <3> QED BY <3>1, <3>2
  <2>2. p \in Id => p <= drawn BY <1>0
  <2>3. \A x \in F : x \in Id /\ drawn < x /\ T[x] \in Message
    BY <1>1, <1>5, <1>6
  <2> QED BY <1>1, <1>2, <1>5, <1>6, <2>1, <2>2, <2>3 DEF Additions
<1>9. Grafts(T, p)
  <2> SUFFICES ASSUME NEW x \in F
               PROVE  /\ T[x].parentId # p =>
                           T[x].parentId \in F /\ x \in T[T[x].parentId].childrenIds
                      /\ \A c \in T[x].childrenIds : c \in F /\ T[c].parentId = x
    BY <1>2 DEF Grafts
  <2>1. CASE x = u BY <1>1, <1>5, <1>6, <2>1
  <2>2. CASE x # u BY <1>1, <1>5, <1>6, <2>2
  <2> QED BY <2>1, <2>2
<1>10. ASSUME p # None => messages[p].role # "user" PROVE Fits(T, p)
  <2> SUFFICES ASSUME NEW x \in F
               PROVE  /\ T[x].parentId = p => p = None \/ messages[p].role # T[x].role
                      /\ T[x].parentId # p => T[T[x].parentId].role # T[x].role
                      /\ \A c \in T[x].childrenIds : T[c].role # T[x].role
    BY <1>2 DEF Fits
  <2>1. CASE x = u BY <1>5, <1>6, <1>10, <2>1
  <2>2. CASE x # u BY <1>5, <1>6, <1>7, <2>2
  <2> QED BY <2>1, <2>2
<1>11. T[drawn + n + 1].childrenIds = {}
  <2>1. CASE drawn + n + 1 = u BY <1>1, <1>5, <2>1
  <2>2. CASE drawn + n + 1 # u BY <1>1, <1>6, <2>2
  <2> QED BY <2>1, <2>2
<1>12. u \in Id BY <1>1
<1> QED BY <1>1, <1>2, <1>6, <1>8, <1>9, <1>10, <1>11, <1>12 DEF T, F, u

LEMMA PutStep ==
  ASSUME IInv, NEW p \in present \cup {None}, NEW w \in Nat, NEW n \in Nat,
         NEW d \in BOOLEAN, Put(p, w, n, d),
         NEW sent \in SUBSET (Fresh(n + 1) \ {drawn + 1}),
         request' = [m \in Id |-> IF m \in sent THEN drawn + 1 ELSE request[m]]
  PROVE  IInv'
<1>1. drawn + n + 1 <= MaxMessages BY DEF Put
<1>2. PICK T : /\ T = Turn(p, w, n, d)
               /\ DOMAIN T = Fresh(n + 1) /\ Additions(T, p) /\ Grafts(T, p)
               /\ (p # None => messages[p].role # "user") => Fits(T, p)
               /\ \A m \in Fresh(n + 1) \ {drawn + 1} :
                    drawn + 1 < m /\ T[m].role = "assistant"
               /\ drawn + 1 \in Id
               /\ \A m \in Fresh(n + 1) : m <= drawn + n + 1
               /\ drawn + n + 1 \in Fresh(n + 1)
               /\ T[drawn + n + 1].childrenIds = {}
               /\ drawn + n + 1 \in drawn..MaxMessages
  BY <1>1, TurnIs
<1>3. /\ messages' = With(T, p) /\ present' = present \cup Fresh(n + 1)
      /\ currentId' = drawn + n + 1 /\ drawn' = drawn + n + 1
      /\ stacked' = (stacked \/ (p \in present /\ messages[p].role = "user"))
      /\ UNCHANGED <<task, stopping, held, disturbed>>
  BY <1>2 DEF Put
<1>4. stacked' \in BOOLEAN /\ (~stacked' => ~stacked /\ (p # None => messages[p].role # "user"))
  BY <1>3 DEF IInv, TypeOK
<1>5. sent \in SUBSET DOMAIN T /\ \A m \in sent : drawn + 1 < m /\ T[m].role = "assistant"
  BY <1>2
<1>6. ~disturbed /\ ~stacked' => ~stacked /\ Fits(T, p) BY <1>2, <1>4
<1> QED BY <1>2, <1>3, <1>4, <1>5, <1>6, Adding

LEMMA AskedIs ==
  ASSUME NEW w \in Widths, NEW n \in Asked(w)
  PROVE  w \in Nat /\ n \in Nat
BY WidthsAssumption DEF Asked

LEMMA SayStep ==
  ASSUME IInv, NEW p \in present \cup {None}, NEW w \in Widths, Say(p, w)
  PROVE  IInv'
<1>1. PICK n \in Asked(w) : Put(p, w, n, FALSE) /\ Post(Fresh(n + 1) \ {drawn + 1}, drawn + 1)
  BY DEF Say
<1>2. PICK sent \in SUBSET (Fresh(n + 1) \ {drawn + 1}) :
        request' = [m \in Id |-> IF m \in sent THEN drawn + 1 ELSE request[m]]
  BY <1>1 DEF Post
<1>3. w \in Nat /\ n \in Nat /\ FALSE \in BOOLEAN BY AskedIs
<1> QED BY <1>1, <1>2, <1>3, PutStep

LEMMA PairStep ==
  ASSUME IInv, NEW p \in present \cup {None}, Pair(p)
  PROVE  IInv'
<1> DEFINE sent == {}
<1>1. Put(p, 0, 1, TRUE) /\ request' = request BY DEF Pair
<1>2. request' = [m \in Id |-> IF m \in sent THEN drawn + 1 ELSE request[m]]
  <2>1. request \in [Id -> Id \cup {None, Live}] BY DEF IInv, TypeOK
  <2> QED BY <1>1, <2>1
<1>3. /\ 0 \in Nat /\ 1 \in Nat /\ TRUE \in BOOLEAN
      /\ sent \in SUBSET (Fresh(1 + 1) \ {drawn + 1})
  OBVIOUS
<1> HIDE DEF sent
<1> QED BY <1>1, <1>2, <1>3, PutStep

LEMMA RegenerateStep ==
  ASSUME IInv, NEW m \in Id, Regenerate(m), PromptOf(m) = messages[m].parentId
  PROVE  IInv'
<1> DEFINE u == messages[m].parentId
<1>1. /\ m \in present /\ messages[m].role = "assistant" /\ u \in present
      /\ UNCHANGED <<task, stopping, held, disturbed, stacked>>
  BY DEF Regenerate, Shown, ghosts
<1>2. PICK w \in Nat :
        /\ drawn + w <= MaxMessages
        /\ drawn' = drawn + w
        /\ messages' = With([a \in Fresh(w) |-> Answer(u, FALSE)], u)
        /\ present' = present \cup Fresh(w)
        /\ currentId' = IF w = 0 THEN currentId ELSE drawn + w
        /\ Post(Fresh(w), u)
  BY AskedIs DEF Regenerate
<1> DEFINE new == [a \in Fresh(w) |-> Answer(u, FALSE)]
<1>0. /\ drawn \in Nat /\ drawn <= MaxMessages /\ MaxMessages \in Nat
      /\ None \notin Id /\ None \notin Nat /\ present \subseteq Id
      /\ \A x \in Id : x \in Nat /\ (x \in present => x <= drawn)
  BY Numbers
<1>4. /\ \A x \in Fresh(w) : x \in Id /\ drawn < x /\ x <= drawn + w
      /\ drawn + w \in drawn..MaxMessages
      /\ w # 0 => drawn + w \in Fresh(w)
      /\ w = 0 => Fresh(w) = {}
  BY <1>0, <1>2 DEF Fresh, Id
<1>5. u \in Id /\ u <= drawn /\ u # None BY <1>0, <1>1
<1>6. PICK sent \in SUBSET Fresh(w) :
        request' = [x \in Id |-> IF x \in sent THEN u ELSE request[x]]
  BY <1>2 DEF Post
<1>7. DOMAIN new = Fresh(w) OBVIOUS
<1>8. \A n \in Fresh(w) : new[n] = Answer(u, FALSE) OBVIOUS
<1> HIDE DEF new, u
<1>9. \A n \in Fresh(w) : /\ new[n] \in Message /\ new[n].parentId = u
                          /\ new[n].role = "assistant" /\ new[n].childrenIds = {}
  <2>1. /\ Answer(u, FALSE) \in Message /\ Answer(u, FALSE).parentId = u
        /\ Answer(u, FALSE).role = "assistant"
        /\ Answer(u, FALSE).childrenIds = {}
    BY <1>5 DEF Answer, Message
  <2> QED BY <1>8, <2>1
<1>10. \A n \in Fresh(w) : u < n
  BY <1>0, <1>4, <1>5
<1>11. Additions(new, u)
  <2>1. \A n \in Fresh(w) : Ordered(n, new[n])
    BY <1>5, <1>9, <1>10 DEF Ordered
  <2> QED BY <1>4, <1>5, <1>7, <1>9, <2>1 DEF Additions
<1>12. ASSUME ~disturbed PROVE Grafts(new, u)
  BY <1>1, <1>7, <1>9 DEF Grafts, u
<1>13. ASSUME ~disturbed, ~stacked PROVE Fits(new, u)
  <2>1. messages[u].role # "assistant"
    BY <1>1, <1>5, <1>13 DEF IInv, Alternating, u
  <2> QED BY <1>7, <1>9, <2>1 DEF Fits
<1>14. sent \in SUBSET DOMAIN new /\ \A x \in sent : u < x /\ new[x].role = "assistant"
  BY <1>7, <1>9, <1>10
<1>15. messages' = With(new, u) BY <1>2 DEF new, u
<1>16. \/ currentId' \in DOMAIN new /\ new[currentId'].childrenIds = {}
       \/ DOMAIN new = {} /\ currentId' = currentId
  BY <1>2, <1>4, <1>7, <1>9
<1>17. stacked' \in BOOLEAN BY <1>1 DEF IInv, TypeOK
<1> QED
  BY <1>1, <1>2, <1>4, <1>5, <1>6, <1>7, <1>11, <1>12, <1>13, <1>14, <1>15, <1>16,
     <1>17, Adding

LEMMA CopyStep ==
  ASSUME IInv, NEW m \in Id, CopyAnswer(m)
  PROVE  IInv'
<1> DEFINE p == messages[m].parentId
           new == [a \in Fresh(1) |-> Copied(m)]
           sent == {}
<1>0. /\ drawn \in Nat /\ drawn <= MaxMessages /\ MaxMessages \in Nat
      /\ None \notin Id /\ None \notin Nat /\ present \subseteq Id
      /\ messages \in [Id -> Message]
      /\ \A x \in Id : x \in Nat /\ (x \in present => x <= drawn)
  BY Numbers
<1>1. /\ m \in present /\ messages[m].role = "assistant"
      /\ drawn + 1 <= MaxMessages /\ drawn' = drawn + 1
      /\ messages' = With(new, p)
      /\ present' = present \cup Fresh(1)
      /\ currentId' = drawn + 1
      /\ UNCHANGED <<request, task, stopping, held, disturbed, stacked>>
  BY DEF CopyAnswer, Shown, flight, ghosts
<1>2. /\ Fresh(1) = {drawn + 1} /\ drawn + 1 \in Id /\ drawn < drawn + 1
      /\ drawn + 1 \in drawn..MaxMessages
  BY <1>0, <1>1 DEF Fresh, Id
<1>3. DOMAIN new = Fresh(1) /\ new[drawn + 1] = Copied(m) BY <1>2
<1>4. /\ Copied(m) \in Message /\ Copied(m).parentId = p
      /\ Copied(m).role = "assistant" /\ Copied(m).childrenIds = {}
  <2>1. messages[m] \in Message BY <1>0
  <2> QED BY <1>1, <2>1 DEF Copied, Message
<1>5. p \in Id \cup {None} /\ (p \in Id => p <= drawn /\ p < drawn + 1)
  <2>1. messages[m] \in Message /\ Ordered(m, messages[m]) /\ m <= drawn
    BY <1>0, <1>1 DEF IInv, Order
  <2>2. p \in Id => p < m BY <2>1 DEF Ordered
  <2> QED BY <1>0, <2>1, <2>2 DEF Message
<1>p. p = messages[m].parentId OBVIOUS
<1>6. request' = [x \in Id |-> IF x \in sent THEN drawn + 1 ELSE request[x]]
  <2>1. request \in [Id -> Id \cup {None, Live}] BY DEF IInv, TypeOK
  <2> QED BY <1>1, <2>1
<1>7. sent \in SUBSET DOMAIN new /\ \A x \in sent : drawn + 1 < x /\ new[x].role = "assistant"
  OBVIOUS
<1> HIDE DEF new, p, sent
<1>8. Additions(new, p)
  <2>1. Ordered(drawn + 1, new[drawn + 1]) BY <1>3, <1>4, <1>5 DEF Ordered
  <2> QED BY <1>2, <1>3, <1>4, <1>5, <2>1 DEF Additions
<1>9. ASSUME ~disturbed PROVE Grafts(new, p)
  <2>1. p \in present \cup {None}
    BY <1>1, <1>9, <1>p DEF IInv, Linked
  <2> QED BY <1>2, <1>3, <1>4, <2>1 DEF Grafts
<1>10. ASSUME ~disturbed, ~stacked PROVE Fits(new, p)
  <2>1. p \in present \cup {None}
    BY <1>1, <1>10, <1>p DEF IInv, Linked
  <2>2. p # None => messages[p].role # "assistant"
    BY <1>0, <1>1, <1>10, <1>p, <2>1 DEF IInv, Alternating
  <2> QED BY <1>2, <1>3, <1>4, <2>2 DEF Fits
<1>11. stacked' \in BOOLEAN BY <1>1 DEF IInv, TypeOK
<1>12. currentId' \in DOMAIN new /\ new[currentId'].childrenIds = {}
  BY <1>1, <1>2, <1>3, <1>4
<1>13. drawn' \in drawn..MaxMessages /\ \A n \in DOMAIN new : n <= drawn'
  BY <1>0, <1>1, <1>2, <1>3
<1> QED BY <1>1, <1>2, <1>3, <1>6, <1>7, <1>8, <1>9, <1>10, <1>11, <1>12, <1>13, Adding

-----------------------------------------------------------------------------
(* Steps that change no link. *)

SameLinks ==
  \A m \in Id : /\ messages'[m].parentId = messages[m].parentId
                /\ messages'[m].childrenIds = messages[m].childrenIds
                /\ messages'[m].role = messages[m].role

LEMMA SameTree ==
  ASSUME IInv, ~disturbed, SameLinks, present' = present
  PROVE  /\ Linked(messages', present')
         /\ ~stacked => Alternating(messages', present')
         /\ AtLeaf(messages', present', currentId)
<1>1. /\ Linked(messages, present) /\ AtLeaf(messages, present, currentId)
      /\ ~stacked => Alternating(messages, present)
      /\ present \subseteq Id /\ messages \in [Id -> Message]
  BY DEF IInv, TypeOK
<1>2. \A m \in present : messages[m].childrenIds \subseteq Id BY <1>1 DEF Message
<1>3. Linked(messages', present) BY <1>1, <1>2 DEF SameLinks, Linked
<1>4. ~stacked => Alternating(messages', present)
  BY <1>1, <1>2 DEF SameLinks, Alternating
<1>5. AtLeaf(messages', present, currentId) BY <1>1 DEF SameLinks, AtLeaf
<1> QED BY <1>3, <1>4, <1>5

\* What is left to show of a step, when the links are kept.
Kept == ~disturbed => /\ Linked(messages, present)
                      /\ AtLeaf(messages, present, currentId)
                      /\ ~stacked => Alternating(messages, present)

\* The fields of messages that only differ in whether they are done.
LEMMA DoneKeeps ==
  ASSUME NEW rec \in Message, NEW d \in BOOLEAN
  PROVE  /\ [rec EXCEPT !.done = d] \in Message
         /\ [rec EXCEPT !.done = d].parentId = rec.parentId
         /\ [rec EXCEPT !.done = d].childrenIds = rec.childrenIds
         /\ [rec EXCEPT !.done = d].role = rec.role
BY DEF Message

Marked(S, d) ==
  [m \in Id |-> IF m \in S THEN [messages[m] EXCEPT !.done = d] ELSE messages[m]]

\* A step that only says of some messages whether they are done.
LEMMA DoneStep ==
  ASSUME IInv, NEW S \in SUBSET Id, NEW d \in BOOLEAN,
         messages' = Marked(S, d),
         request' \in [Id -> Id \cup {None, Live}],
         \A r \in Id : request'[r] # request[r] =>
           request'[r] = Live /\ r <= drawn /\ messages[r].role = "assistant",
         task' \in [Id -> {"none", "running", "over", "silent", "cancelled"}],
         stopping' \in BOOLEAN,
         UNCHANGED <<present, currentId, drawn, held, disturbed, stacked>>
  PROVE  IInv'
<1>0. messages \in [Id -> Message] BY DEF IInv, TypeOK
<1>1. \A m \in Id : /\ messages'[m] \in Message
                    /\ messages'[m].parentId = messages[m].parentId
                    /\ messages'[m].childrenIds = messages[m].childrenIds
                    /\ messages'[m].role = messages[m].role
  <2> TAKE m \in Id
  <2>1. messages[m] \in Message BY <1>0
  <2>2. CASE m \in S BY <2>1, <2>2, DoneKeeps DEF Marked
  <2>3. CASE m \notin S BY <2>1, <2>3 DEF Marked
  <2> QED BY <2>2, <2>3
<1>2. messages' \in [Id -> Message] /\ SameLinks BY <1>1 DEF SameLinks, Marked
<1>3. TypeOK' BY <1>2 DEF IInv, TypeOK
<1>4. Order'
  <2>1. \A m \in Id : Ordered(m, messages'[m])
    BY <1>1 DEF IInv, Order, Ordered
  <2>2. \A m \in Id : held'[m] # None => Ordered(m, held'[m])
    BY DEF IInv, Order
  <2>3. \A r \in Id : request'[r] \in Id /\ request'[r] # Live => request'[r] < r
    BY DEF IInv, Order
  <2> QED BY <2>1, <2>2, <2>3 DEF Order, Ordered
<1>5. Copies' BY <1>1 DEF IInv, Copies
<1>6. Kept'
  BY <1>2, SameTree DEF Kept
<1> QED BY <1>3, <1>4, <1>5, <1>6 DEF IInv, Kept

\* A step that puts an object back for m, with the view on it or as it was.
LEMMA PutBackStep ==
  ASSUME IInv, NEW m \in Id, NEW rec \in Message, PutBack(m, rec),
         m <= drawn, messages[m].role = "assistant", rec.role = "assistant",
         Ordered(m, rec), currentId' \in {currentId, m},
         ~disturbed' => ~disturbed /\ ~Overwrites(m, rec), disturbed' \in BOOLEAN,
         request' \in {request, [request EXCEPT ![m] = None]},
         held' \in {held, [held EXCEPT ![m] = None]},
         currentId' = m /\ ~disturbed' => messages[m].childrenIds = {},
         UNCHANGED <<drawn, task, stopping, stacked>>
  PROVE  IInv'
<1>0. messages \in [Id -> Message] BY DEF IInv, TypeOK
<1>1. messages' = [messages EXCEPT ![m] = rec] /\ present' = present \cup {m}
  BY DEF PutBack
<1>2. TypeOK' BY <1>0, <1>1 DEF IInv, TypeOK
<1>3. Order'
  <2>1. \A x \in Id : Ordered(x, messages'[x])
    BY <1>0, <1>1 DEF IInv, Order
  <2>2. \A x \in Id : held'[x] # None => Ordered(x, held'[x])
    BY DEF IInv, TypeOK, Order
  <2>3. \A r \in Id : request'[r] \in Id /\ request'[r] # Live => request'[r] < r
    <3>1. \A r \in Id : request'[r] \in {request[r], None} BY DEF IInv, TypeOK
    <3>2. \A r \in Id : request'[r] \in Id => request'[r] = request[r]
      BY <3>1, NoneAssumption DEF Id
    <3> QED BY <3>2 DEF IInv, Order
  <2> QED BY <2>1, <2>2, <2>3 DEF Order, Ordered
<1>4. Copies'
  <2>1. \A x \in Id : messages'[x].role = messages[x].role BY <1>0, <1>1
  <2>2. \A x \in present' : x <= drawn' BY <1>1 DEF IInv, Copies
  <2>3. \A r \in Id : request'[r] # None => request[r] # None
    BY DEF IInv, TypeOK
  <2>4. \A x \in Id : held'[x] # None => held'[x] = held[x]
    BY DEF IInv, TypeOK
  <2> QED BY <2>1, <2>2, <2>3, <2>4 DEF IInv, Copies
<1>5. Kept'
  <2> SUFFICES ASSUME ~disturbed'
               PROVE  /\ Linked(messages', present')
                      /\ AtLeaf(messages', present', currentId')
                      /\ ~stacked' => Alternating(messages', present')
    BY DEF Kept
  <2>1. /\ m \in present /\ present' = present
        /\ rec.parentId = messages[m].parentId
        /\ rec.childrenIds = messages[m].childrenIds
    BY <1>1 DEF Overwrites
  <2>2. SameLinks BY <1>0, <1>1, <2>1 DEF SameLinks
  <2>3. /\ Linked(messages', present')
        /\ ~stacked => Alternating(messages', present')
        /\ AtLeaf(messages', present', currentId)
    BY <2>1, <2>2, SameTree
  <2>4. messages'[m].childrenIds = messages[m].childrenIds BY <2>2 DEF SameLinks
  <2>5. CASE currentId' = currentId BY <2>3, <2>5
  <2>6. CASE currentId' = m BY <2>1, <2>3, <2>4, <2>6 DEF AtLeaf
  <2> QED BY <2>5, <2>6
<1> QED BY <1>2, <1>3, <1>4, <1>5 DEF IInv, Kept

-----------------------------------------------------------------------------
(* The remaining steps, and the invariant. *)

LEMMA ShowStep ==
  ASSUME IInv, NEW m \in Id, ShowMessage(m)
  PROVE  IInv'
<1>1. /\ m \in present /\ View(messages, present, m)
      /\ UNCHANGED <<messages, present, drawn, request, task, stopping, held,
                     disturbed, stacked>>
  BY DEF ShowMessage, flight, ghosts
<1>2. present \in SUBSET Id BY DEF IInv, TypeOK
<1>3. currentId' \in Id \cup {None} BY <1>1, <1>2, ViewTypes
<1>4. ASSUME ~disturbed PROVE AtLeaf(messages, present, currentId')
  <2>1. Linked(messages, present) BY <1>4 DEF IInv
  <2> QED BY <1>1, <1>2, <2>1, ViewEndsBranch
<1>5. TypeOK' /\ Order' /\ Copies'
  BY <1>1, <1>3 DEF IInv, TypeOK, Order, Ordered, Copies
<1>6. Kept' BY <1>1, <1>4 DEF IInv, Kept
<1> QED BY <1>5, <1>6 DEF IInv, Kept

LEMMA DeleteStep ==
  ASSUME IInv, NEW m \in Id, Delete(m)
  PROVE  IInv'
<1> DEFINE p == messages[m].parentId
           W == Without(m)
           L == Left(m)
           roots == {r \in L : W[r].parentId = None}
<1>1. /\ m \in present /\ messages' = W /\ present' = L
      /\ UNCHANGED <<drawn, request, task, stopping, held, disturbed, stacked>>
  BY DEF Delete, Shown, flight, ghosts
<1>2. /\ messages[m].role = "user" =>
           p # None \/ \E r \in present \ {m} : messages[r].parentId = None
      /\ messages[m].role # "user" => p \in present
  BY DEF Delete
<1>3. IF p = None
      THEN IF roots = {} THEN currentId' = None ELSE \E r \in roots : View(W, L, r)
      ELSE View(W, L, p)
  BY DEF Delete
<1>0. messages \in [Id -> Message] /\ present \subseteq Id BY DEF IInv, TypeOK
<1>4. /\ W \in [Id -> Message]
      /\ \A x \in Id : Ordered(x, W[x])
      /\ \A x \in Id : W[x].role = messages[x].role
  BY WithoutTypes
<1>5. L \subseteq present /\ L \in SUBSET Id BY <1>0 DEF Left
<1>6. currentId' \in Id \cup {None} BY <1>3, <1>5, ViewTypes
<1>7. TypeOK' BY <1>1, <1>4, <1>5, <1>6 DEF IInv, TypeOK
<1>8. Order' BY <1>1, <1>4 DEF IInv, Order, Ordered
<1>9. Copies' BY <1>1, <1>4, <1>5 DEF IInv, Copies
<1>10. ASSUME ~disturbed
       PROVE  /\ Linked(W, L) /\ AtLeaf(W, L, currentId')
              /\ ~stacked => Alternating(W, L)
  <2>0. Linked(messages, present) BY <1>10 DEF IInv
  <2>2. Linked(W, L) /\ (~stacked => Alternating(W, L)) BY <1>1, <1>10, WithoutTree
  <2>3. CASE p # None
    <3>1. p \in L
      <4>1. p \in present BY <1>1, <2>0, <2>3 DEF Linked
      <4>2. Ordered(m, messages[m]) /\ p \in Id BY <1>0, <4>1 DEF IInv, Order
      <4>3. p < m /\ \A c \in messages[m].childrenIds : m < c
        BY <4>2 DEF Ordered
      <4>4. p # m /\ p \notin messages[m].childrenIds
        BY <4>2, <4>3, NoneAssumption DEF Id
      <4> QED BY <4>1, <4>4 DEF Left
    <3>2. View(W, L, p) BY <1>3, <2>3
    <3> HIDE DEF W, L, p
    <3> QED BY <1>4, <1>5, <2>2, <3>1, <3>2, ViewEndsBranch
  <2>4. CASE p = None
    <3>1. roots # {}
      <4>1. messages[m].role = "user"
        <5>1. None \notin present BY Numbers
        <5> QED BY <1>2, <2>4, <5>1
      <4>2. PICK r \in present \ {m} : messages[r].parentId = None
        BY <1>2, <2>4, <4>1
      <4>3. r \notin messages[m].childrenIds
        BY <1>0, <1>1, <2>0, <4>2, NoneAssumption DEF Linked, Id
      <4>4. r \in L BY <4>2, <4>3 DEF Left
      <4>5. W[r].parentId = None
        <5>1. r \in Id /\ r \notin present \ Left(m) BY <1>0, <4>4
        <5>2. r # p BY <5>1, <2>4, NoneAssumption DEF Id
        <5>3. CASE r \in Grandchildren(m)
          <6>1. W[r] = Lifted(r, p) BY <4>4, <5>1, <5>3, WithoutBelow
          <6>2. messages[r] \in Message BY <1>0, <5>1
          <6> HIDE DEF W, p
          <6> QED BY <2>4, <6>1, <6>2 DEF Lifted, Message
        <5>4. CASE r \notin Grandchildren(m)
          <6>1. W[r] = messages[r] BY <5>1, <5>2, <5>4, WithoutElsewhere
          <6> QED BY <4>2, <6>1
        <5> QED BY <5>3, <5>4
      <4> QED BY <4>4, <4>5
    <3>2. PICK r \in L : View(W, L, r) BY <1>3, <2>4, <3>1
    <3> HIDE DEF W, L, p
    <3> QED BY <1>4, <1>5, <2>2, <3>2, ViewEndsBranch
  <2> QED BY <2>2, <2>3, <2>4
<1>11. Kept' BY <1>1, <1>10 DEF Kept
<1> QED BY <1>7, <1>8, <1>9, <1>11 DEF IInv, Kept

LEMMA ContinueStep ==
  ASSUME IInv, ContinueResponse
  PROVE  IInv'
<1>1. currentId \in present /\ messages[currentId].role = "assistant"
  BY DEF ContinueResponse
<1>2. /\ messages' = [messages EXCEPT ![currentId].done = FALSE]
      /\ AskForMore(currentId) \/ UNCHANGED flight
      /\ UNCHANGED <<present, currentId, drawn, held, disturbed, stacked>>
  BY DEF ContinueResponse, ghosts
<1>3. currentId \in Id /\ messages \in [Id -> Message] /\ currentId <= drawn
  BY <1>1 DEF IInv, TypeOK, Copies
<1>4. messages' = Marked({currentId}, FALSE)
  BY <1>2, <1>3 DEF Marked
<1>5. /\ request' = [request EXCEPT ![currentId] = Live] \/ request' = request
      /\ task' = [task EXCEPT ![currentId] = "none"] \/ task' = task
      /\ stopping' = stopping
  BY <1>2 DEF AskForMore, flight
<1>6. request' \in [Id -> Id \cup {None, Live}]
      /\ \A r \in Id : request'[r] # request[r] =>
           request'[r] = Live /\ r <= drawn /\ messages[r].role = "assistant"
  BY <1>1, <1>3, <1>5 DEF IInv, TypeOK
<1>7. task' \in [Id -> {"none", "running", "over", "silent", "cancelled"}]
      /\ stopping' \in BOOLEAN
  BY <1>3, <1>5 DEF IInv, TypeOK
<1>8. {currentId} \in SUBSET Id /\ FALSE \in BOOLEAN BY <1>3
<1> QED BY <1>2, <1>4, <1>6, <1>7, <1>8, DoneStep

\* Steps of the requests and of stopResponse that leave the objects alone or
\* say that some are done.
LEMMA FlightStep ==
  ASSUME IInv, NEW S \in SUBSET Id,
         messages' = Marked(S, TRUE),
         request' = request \/ \E r \in Id : request' = [request EXCEPT ![r] = None],
         task' = task \/ \E r \in Id : \E t \in {"running", "over", "silent", "cancelled"} :
                           task' = [task EXCEPT ![r] = t],
         stopping' \in BOOLEAN,
         UNCHANGED <<present, currentId, drawn, held, disturbed, stacked>>
  PROVE  IInv'
<1>0. messages \in [Id -> Message] BY DEF IInv, TypeOK
<1>1. \A m \in Id : /\ messages'[m] \in Message
                    /\ messages'[m].parentId = messages[m].parentId
                    /\ messages'[m].childrenIds = messages[m].childrenIds
                    /\ messages'[m].role = messages[m].role
  <2> TAKE m \in Id
  <2>1. messages[m] \in Message BY <1>0
  <2>2. CASE m \in S BY <2>1, <2>2, DoneKeeps DEF Marked
  <2>3. CASE m \notin S BY <2>1, <2>3 DEF Marked
  <2> QED BY <2>2, <2>3
<1>2. messages' \in [Id -> Message] /\ SameLinks BY <1>1 DEF SameLinks, Marked
<1>3. /\ request' \in [Id -> Id \cup {None, Live}]
      /\ \A r \in Id : request'[r] \in {request[r], None}
      /\ task' \in [Id -> {"none", "running", "over", "silent", "cancelled"}]
  BY DEF IInv, TypeOK
<1>4. TypeOK' BY <1>2, <1>3 DEF IInv, TypeOK
<1>5. Order'
  <2>1. \A r \in Id : request'[r] \in Id => request'[r] = request[r]
    BY <1>3, NoneAssumption DEF Id
  <2> QED BY <1>1, <2>1 DEF IInv, Order, Ordered
<1>6. Copies' BY <1>1, <1>3 DEF IInv, Copies
<1>7. Kept' BY <1>2, SameTree DEF Kept
<1> QED BY <1>4, <1>5, <1>6, <1>7 DEF IInv, Kept

\* The objects when none, or one, or those of a set are marked done.
LEMMA NothingDone ==
  ASSUME IInv, messages' = messages
  PROVE  \E S \in SUBSET Id : messages' = Marked(S, TRUE)
<1>1. messages' = Marked({}, TRUE) BY DEF IInv, TypeOK, Marked
<1> QED BY <1>1

LEMMA DoneIs ==
  ASSUME IInv, NEW r \in Id, Done(r)
  PROVE  messages' = Marked({r} \cap present, TRUE)
<1>1. messages \in [Id -> Message] BY DEF IInv, TypeOK
<1> QED BY <1>1 DEF Done, Marked

LEMMA ReplyStep ==
  ASSUME IInv, NEW r \in Id, Reply(r)
  PROVE  IInv'
<1>0. stopping \in BOOLEAN /\ messages \in [Id -> Message] BY DEF IInv, TypeOK
<1>1. CASE PostArrives(r)
  <2>1. /\ task' = [task EXCEPT ![r] = "running"] /\ messages' = messages
        /\ UNCHANGED <<request, stopping, present, currentId, drawn, held,
                     disturbed, stacked>>
    BY <1>1 DEF PostArrives, tree, ghosts
  <2>2. PICK S \in SUBSET Id : messages' = Marked(S, TRUE) BY <2>1, NothingDone
  <2> QED BY <1>0, <2>1, <2>2, FlightStep
<1>2. CASE PostAnswered(r)
  <2>1. /\ request' = [request EXCEPT ![r] = None] /\ messages' = messages
        /\ UNCHANGED <<task, stopping, present, currentId, drawn, held,
                     disturbed, stacked>>
    BY <1>2 DEF PostAnswered, tree, ghosts
  <2>2. PICK S \in SUBSET Id : messages' = Marked(S, TRUE) BY <2>1, NothingDone
  <2> QED BY <1>0, <2>1, <2>2, FlightStep
<1>3. CASE ErrorArrives(r)
  <2>1. Done(r) /\ UNCHANGED <<request, task, stopping, present, currentId,
                               drawn, held,
                     disturbed, stacked>>
    BY <1>3 DEF ErrorArrives, flight, ghosts
  <2>2. {r} \cap present \in SUBSET Id OBVIOUS
  <2> QED BY <1>0, <2>1, <2>2, DoneIs, FlightStep
<1>4. CASE DoneArrives(r)
  <2>1. /\ Done(r) /\ task' = [task EXCEPT ![r] = "over"]
        /\ UNCHANGED <<request, stopping, present, currentId, drawn, held,
                     disturbed, stacked>>
    BY <1>4 DEF DoneArrives, ghosts
  <2>2. {r} \cap present \in SUBSET Id OBVIOUS
  <2> QED BY <1>0, <2>1, <2>2, DoneIs, FlightStep
<1>5. CASE FallsSilent(r)
  <2>1. /\ task' = [task EXCEPT ![r] = "silent"] /\ messages' = messages
        /\ UNCHANGED <<request, stopping, present, currentId, drawn, held,
                       disturbed, stacked>>
    BY <1>5 DEF FallsSilent, tree, ghosts
  <2>2. PICK S \in SUBSET Id : messages' = Marked(S, TRUE) BY <2>1, NothingDone
  <2> QED BY <1>0, <2>1, <2>2, FlightStep
<1>6. CASE PostFails(r) \/ PostRefused(r)
  <2> DEFINE rec == InError(r)
  <2>1. /\ request[r] # None /\ PutBack(r, rec) /\ currentId' \in {currentId, r}
        /\ currentId' = r /\ currentId # r /\ ~disturbed' => messages[r].childrenIds = {}
        /\ ~disturbed' => ~disturbed /\ ~Overwrites(r, rec)
        /\ disturbed' \in BOOLEAN
        /\ request' = [request EXCEPT ![r] = None]
        /\ UNCHANGED <<drawn, task, stopping, held, stacked>>
    BY <1>6 DEF PostFails, PostRefused, IInv, TypeOK
  <2>2. r <= drawn /\ messages[r].role = "assistant"
    BY <2>1 DEF IInv, Copies
  <2>3. rec \in Message /\ rec.role = "assistant" /\ Ordered(r, rec)
    <3>1. CASE request[r] = Live
      <4>1. rec = [messages[r] EXCEPT !.done = TRUE] BY <3>1 DEF InError
      <4>2. messages[r] \in Message /\ TRUE \in BOOLEAN BY <1>0
      <4>3. Ordered(r, messages[r]) BY DEF IInv, Order
      <4> HIDE DEF rec
      <4> QED BY <2>2, <4>1, <4>2, <4>3, DoneKeeps DEF Ordered
    <3>2. CASE request[r] # Live
      <4>1. request[r] \in Id /\ request[r] < r
        BY <2>1, <3>2 DEF IInv, TypeOK, Order
      <4>2. rec = Answer(request[r], TRUE) BY <3>2 DEF InError, Failed
      <4> HIDE DEF rec
      <4> QED BY <4>1, <4>2 DEF Answer, Message, Ordered
    <3> QED BY <3>1, <3>2
  <2>4. currentId' = r /\ ~disturbed' => messages[r].childrenIds = {}
    <3>1. CASE currentId = r /\ ~disturbed'
      <4>1. AtLeaf(messages, present, currentId) /\ r \in present
        BY <2>1, <3>1 DEF IInv, Overwrites
      <4> QED BY <3>1, <4>1 DEF AtLeaf
    <3> QED BY <2>1, <3>1
  <2>5. /\ request' \in {request, [request EXCEPT ![r] = None]}
        /\ held' \in {held, [held EXCEPT ![r] = None]}
    BY <2>1
  <2> HIDE DEF rec
  <2> QED BY <2>1, <2>2, <2>3, <2>4, <2>5, PutBackStep
<1> QED BY <1>1, <1>2, <1>3, <1>4, <1>5, <1>6 DEF Reply

LEMMA StopStep ==
  ASSUME IInv, Stop
  PROVE  IInv'
<1>0. messages \in [Id -> Message] BY DEF IInv, TypeOK
<1>1. CASE StopResponse
  <2>1. /\ stopping' = TRUE /\ messages' = messages
        /\ UNCHANGED <<request, task, present, currentId, drawn, held, disturbed,
                       stacked>>
    BY <1>1 DEF StopResponse, tree, ghosts
  <2>2. PICK S \in SUBSET Id : messages' = Marked(S, TRUE) BY <2>1, NothingDone
  <2> QED BY <2>1, <2>2, FlightStep
<1>2. CASE Stopped
  <2> DEFINE u == messages[currentId].parentId
             S == IF currentId \in present /\ u \in present
                  THEN messages[u].childrenIds \cap present ELSE {}
  <2>1. /\ stopping' = FALSE
        /\ UNCHANGED <<request, task, present, currentId, drawn, held, disturbed,
                       stacked>>
        /\ messages' =
             IF currentId \in present /\ u \in present
             THEN [m \in Id |->
                     IF m \in messages[u].childrenIds \cap present
                     THEN [messages[m] EXCEPT !.done = TRUE] ELSE messages[m]]
             ELSE messages
    BY <1>2 DEF Stopped, ghosts
  <2>2. S \in SUBSET Id BY DEF IInv, TypeOK
  <2>3. messages' = Marked(S, TRUE) BY <1>0, <2>1 DEF Marked
  <2> HIDE DEF S
  <2> QED BY <2>1, <2>2, <2>3, FlightStep
<1>3. ASSUME NEW r \in Id, StopTask(r) PROVE IInv'
  <2>1. /\ task' = [task EXCEPT ![r] = "cancelled"] /\ messages' = messages
        /\ UNCHANGED <<request, stopping, present, currentId, drawn, held, disturbed,
                       stacked>>
    BY <1>3 DEF StopTask, tree, ghosts
  <2>2. stopping' \in BOOLEAN BY <2>1 DEF IInv, TypeOK
  <2>3. PICK S \in SUBSET Id : messages' = Marked(S, TRUE) BY <2>1, NothingDone
  <2> QED BY <2>1, <2>2, <2>3, FlightStep
<1> QED BY <1>1, <1>2, <1>3 DEF Stop

LEMMA LateStep ==
  ASSUME IInv, Late
  PROVE  IInv'
<1>0. messages \in [Id -> Message] BY DEF IInv, TypeOK
<1>1. ASSUME NEW m \in Id, Hold(m) PROVE IInv'
  <2>1. /\ m \in present /\ messages[m].role = "assistant"
        /\ held' = [held EXCEPT ![m] = messages[m]]
        /\ UNCHANGED <<messages, present, currentId, drawn, request, task,
                       stopping, disturbed, stacked>>
    BY <1>1 DEF Hold, Shown, tree, flight, ghosts
  <2>2. \A x \in Id : held'[x] = IF x = m THEN messages[m] ELSE held[x]
    BY <2>1 DEF IInv, TypeOK
  <2>3. TypeOK' BY <1>0, <2>1 DEF IInv, TypeOK
  <2>4. Order' BY <2>1, <2>2 DEF IInv, Order, Ordered
  <2>5. Copies' BY <2>1, <2>2 DEF IInv, Copies
  <2>6. Kept' BY <2>1 DEF IInv, Kept
  <2> QED BY <2>3, <2>4, <2>5, <2>6 DEF IInv, Kept
<1>2. ASSUME NEW m \in Id, SaveHeld(m) PROVE IInv'
  <2>1. /\ held[m] # None /\ PutBack(m, held[m])
        /\ disturbed' = (disturbed \/ Overwrites(m, held[m]))
        /\ held' \in {held, [held EXCEPT ![m] = None]}
        /\ UNCHANGED <<currentId, drawn, request, task, stopping, stacked>>
    BY <1>2 DEF SaveHeld, flight
  <2>2. /\ held[m] \in Message /\ Ordered(m, held[m]) /\ m <= drawn
        /\ messages[m].role = "assistant" /\ held[m].role = "assistant"
    BY <2>1 DEF IInv, TypeOK, Order, Copies
  <2>3. disturbed \in BOOLEAN BY DEF IInv, TypeOK
  <2>4. disturbed' \in BOOLEAN /\ (~disturbed' => ~disturbed /\ ~Overwrites(m, held[m]))
    BY <2>1, <2>3
  <2>5. currentId' = m /\ ~disturbed' => messages[m].childrenIds = {}
    <3> SUFFICES ASSUME currentId = m, ~disturbed' PROVE messages[m].childrenIds = {}
      BY <2>1
    <3>1. AtLeaf(messages, present, currentId) /\ m \in present
      BY <2>4 DEF IInv, Overwrites
    <3> QED BY <3>1 DEF AtLeaf
  <2>6. /\ currentId' \in {currentId, m}
        /\ request' \in {request, [request EXCEPT ![m] = None]}
    BY <2>1
  <2> QED BY <2>1, <2>2, <2>4, <2>5, <2>6, PutBackStep
<1> QED BY <1>1, <1>2 DEF Late

LEMMA AskStep ==
  ASSUME IInv, Ask
  PROVE  IInv'
<1>1. CASE SubmitPrompt
  <2>1. PICK w \in Widths : Say(currentId, w) BY <1>1 DEF SubmitPrompt
  <2>2. currentId \in present \cup {None} BY <1>1 DEF SubmitPrompt
  <2> QED BY <2>1, <2>2, SayStep
<1>2. ASSUME NEW m \in Id, SubmitMessage(m) PROVE IInv'
  <2>1. PICK w \in Widths : Say(m, w) BY <1>2 DEF SubmitMessage
  <2>2. m \in present BY <1>2 DEF SubmitMessage, Shown
  <2> QED BY <2>1, <2>2, SayStep
<1>3. ASSUME NEW m \in Id, EditPrompt(m) PROVE IInv'
  <2>1. PICK w \in Widths : Say(messages[m].parentId, w) BY <1>3 DEF EditPrompt
  <2>2. messages[m].parentId \in present \cup {None} BY <1>3 DEF EditPrompt
  <2> QED BY <2>1, <2>2, SayStep
<1>4. ASSUME NEW m \in Id, Regenerate(m) PROVE IInv'
  BY <1>4, RegenerateStep DEF PromptOf
<1> QED BY <1>1, <1>2, <1>3, <1>4, ContinueStep DEF Ask

LEMMA ArrangeStep ==
  ASSUME IInv, Arrange
  PROVE  IInv'
<1>1. CASE CreateMessagePair
  <2>1. currentId \in present \cup {None} /\ Pair(currentId)
    BY <1>1 DEF CreateMessagePair
  <2> QED BY <2>1, PairStep
<1>2. ASSUME NEW m \in Id, AddMessages(m) PROVE IInv'
  <2>1. m \in present /\ Pair(m) BY <1>2 DEF AddMessages, Shown
  <2> QED BY <2>1, PairStep
<1> QED BY <1>1, <1>2, CopyStep, ShowStep, DeleteStep DEF Arrange

LEMMA InitIInv == Init => IInv
<1> SUFFICES ASSUME Init PROVE IInv OBVIOUS
<1>0. None \notin Nat /\ MaxMessages \in Nat
  BY NoneAssumption, MaxMessagesAssumption
<1>1. Blank("assistant") \in Message /\ Blank("assistant").parentId = None
      /\ Blank("assistant").childrenIds = {}
  BY BlankIs
<1>2. TypeOK
  <2>1. messages \in [Id -> Message] BY <1>1 DEF Init
  <2>2. drawn \in 0..MaxMessages BY <1>0 DEF Init
  <2>3. request \in [Id -> Id \cup {None, Live}] BY DEF Init
  <2>4. task \in [Id -> {"none", "running", "over", "silent", "cancelled"}] BY DEF Init
  <2>5. held \in [Id -> Message \cup {None}] BY DEF Init
  <2>6. /\ present \subseteq Id /\ currentId \in Id \cup {None}
        /\ stopping \in BOOLEAN /\ disturbed \in BOOLEAN /\ stacked \in BOOLEAN
    BY DEF Init
  <2> QED BY <2>1, <2>2, <2>3, <2>4, <2>5, <2>6 DEF TypeOK
<1>3. Order BY <1>0, <1>1 DEF Init, Order, Ordered, Id
<1>4. Copies BY DEF Init, Copies
<1>5. Kept BY DEF Init, Kept, Linked, Alternating, AtLeaf
<1> QED BY <1>2, <1>3, <1>4, <1>5 DEF IInv, Kept

LEMMA NextIInv == IInv /\ [Next]_vars => IInv'
<1> SUFFICES ASSUME IInv, [Next]_vars PROVE IInv' OBVIOUS
<1>1. ASSUME NEW r \in Id, Reply(r) PROVE IInv' BY <1>1, ReplyStep
<1>2. CASE UNCHANGED vars
  <2>1. UNCHANGED <<messages, present, currentId, drawn, request, task, stopping,
                    held, disturbed, stacked>>
    BY <1>2 DEF vars, tree, flight, ghosts
  <2>2. TypeOK' /\ Order' /\ Copies'
    BY <2>1 DEF IInv, TypeOK, Order, Ordered, Copies
  <2>3. Kept' BY <2>1 DEF IInv, Kept
  <2> QED BY <2>2, <2>3 DEF IInv, Kept
<1> QED BY <1>1, <1>2, AskStep, ArrangeStep, StopStep, LateStep DEF Next

\* The invariant everything below follows from.
THEOREM Inductive == Spec => []IInv
BY InitIInv, NextIInv, PTL DEF Spec

\* The history, the requests and what handlers hold have their types.
THEOREM TypeCorrect == Spec => []TypeOK
<1>1. IInv => TypeOK BY DEF IInv
<1> QED BY <1>1, Inductive, PTL

\* Links lead from newer to older messages and back, so every walk over them
\* ends, whatever late handlers write and however many messages there are.
THEOREM NeverACycle == Spec => []NoCycle
<1>1. IInv => NoCycle
  <2>1. IInv => present \subseteq Id BY DEF IInv, TypeOK
  <2> QED BY <2>1 DEF IInv, Order, Ordered, NoCycle
<1> QED BY <1>1, Inductive, PTL

\* Prompts and answers alternate on every branch until a late handler writes
\* over a change, or a prompt is put under one that was left without an answer.
THEOREM AlwaysAlternate == Spec => []Alternate
<1>1. IInv => Alternate BY DEF IInv, Alternating, Alternate
<1> QED BY <1>1, Inductive, PTL

\* The links of both directions agree, and none leads to a message that is
\* gone, until a late handler writes over a change.
THEOREM AlwaysWellFormed == Spec => []WellFormed
<1>1. IInv => WellFormed BY DEF IInv, Linked, WellFormed
<1> QED BY <1>1, Inductive, PTL

\* Whatever is edited, copied, deleted and answered, or not answered, the
\* history is one tree, of prompts and answers in turn, until then.
THEOREM AlwaysATree == Spec => []AlternatingTree
<1>1. WellFormed /\ Alternate => AlternatingTree BY DEF AlternatingTree
<1> QED BY <1>1, AlwaysWellFormed, AlwaysAlternate, PTL

\* The screen goes on to the end of a branch, until a late handler writes over
\* a change, prompts without an answer and stacked ones included.
THEOREM AlwaysEndsBranch == Spec => []ScreenEndsBranch
<1>1. IInv => ScreenEndsBranch BY DEF IInv, AtLeaf, ScreenEndsBranch
<1> QED BY <1>1, Inductive, PTL

-----------------------------------------------------------------------------
(* Conversations.  They are values of a recursive function, so what a step *)
(* does to them is proved from the smallest message it would be wrong of.  *)

\* A non-empty set of numbers has a smallest one.
LEMMA Smallest ==
  ASSUME NEW T, T \subseteq Nat, T # {}
  PROVE  \E x \in T : \A y \in T : x <= y
<1>1. PICK x \in T : \A y \in T : ~ (<<y, x>> \in OpToRel(<, Nat))
  BY WFMin, NatLessThanWellFounded
<1>2. \A y \in T : ~(y < x)
  BY <1>1 DEF OpToRel
<1> QED BY <1>2

\* c satisfies the equation that defines Conversation.
Unrolled(c, msgs, here) ==
  c = [m \in Id \cup {None} |->
         IF m = None \/ m \notin here THEN {}
         ELSE {m} \cup c[msgs[m].parentId]]

LEMMA NoneIsNoId == None \notin Id
BY MaxMessagesAssumption, NoneAssumption DEF Id

\* The equation has a solution: what is reached over links to parents.
LEMMA Recursion ==
  ASSUME NEW msgs, NEW here, here \subseteq Id,
         \A m \in here : msgs[m].parentId \in Id \cup {None}
  PROVE  \E c : Unrolled(c, msgs, here)
<1> DEFINE Closed(S) ==
             \A x \in S \cap here : msgs[x].parentId \in here => msgs[x].parentId \in S
           Above(m) == {a \in here : \A S \in SUBSET Id : m \in S /\ Closed(S) => a \in S}
           Reached(m) == IF m = None \/ m \notin here THEN {} ELSE Above(m)
           c == [m \in Id \cup {None} |-> Reached(m)]
<1>1. ASSUME NEW m \in here PROVE Reached(m) = {m} \cup Reached(msgs[m].parentId)
  <2> DEFINE p == msgs[m].parentId
  <2>0. m \in Id /\ m # None /\ p \in Id \cup {None}
    BY NoneIsNoId
  <2>1. Reached(m) = Above(m) BY <2>0
  <2>2. m \in Above(m) BY <2>0
  <2>3. CASE p \in here
    <3>0. p \in Id /\ p # None BY <2>3, NoneIsNoId
    <3>1. Reached(p) = Above(p) BY <2>3, <3>0
    <3>2. ASSUME NEW a \in Above(p) PROVE a \in Above(m)
      <4>1. ASSUME NEW S \in SUBSET Id, m \in S, Closed(S) PROVE a \in S
        <5>1. p \in S BY <4>1, <2>3
        <5> QED BY <4>1, <5>1, <3>2
      <4> QED BY <4>1
    <3>3. ASSUME NEW a \in Above(m) PROVE a \in {m} \cup Above(p)
      <4> DEFINE S == {m} \cup Above(p)
      <4>1. S \in SUBSET Id /\ m \in S BY <2>0
      <4>2. p \in S BY <2>3
      <4>3. ASSUME NEW x \in Above(p), msgs[x].parentId \in here
            PROVE  msgs[x].parentId \in Above(p)
        <5>1. ASSUME NEW R \in SUBSET Id, p \in R, Closed(R) PROVE msgs[x].parentId \in R
          BY <5>1, <4>3
        <5> QED BY <4>3, <5>1
      <4>4. Closed(S) BY <4>2, <4>3
      <4> HIDE DEF S
      <4>5. a \in S BY <4>1, <4>4
      <4> QED BY <4>5 DEF S
    <3> QED BY <2>1, <2>2, <3>1, <3>2, <3>3
  <2>4. CASE p \notin here
    <3>1. Closed({m}) BY <2>4
    <3>2. \A a \in Above(m) : a \in {m} BY <3>1, <2>0
    <3> QED BY <2>1, <2>2, <2>4, <3>2
  <2> QED BY <2>3, <2>4
<1>2. ASSUME NEW m \in Id \cup {None}
      PROVE  c[m] = IF m = None \/ m \notin here THEN {}
                    ELSE {m} \cup c[msgs[m].parentId]
  <2> HIDE DEF Reached
  <2>1. CASE m = None \/ m \notin here BY <2>1 DEF Reached
  <2>2. CASE m # None /\ m \in here BY <2>2, <1>1
  <2> QED BY <2>1, <2>2
<1>3. c = [m \in Id \cup {None} |-> IF m = None \/ m \notin here THEN {}
                                    ELSE {m} \cup c[msgs[m].parentId]]
  BY <1>2
<1> QED BY <1>3 DEF Unrolled

LEMMA ConversationUnrolls == TypeOK => Unrolled(Conversation, messages, present)
<1> SUFFICES ASSUME TypeOK PROVE Unrolled(Conversation, messages, present)
  OBVIOUS
<1>1. \E c : Unrolled(c, messages, present)
  <2>1. present \subseteq Id /\ \A m \in present : messages[m].parentId \in Id \cup {None}
    BY DEF TypeOK, Message
  <2> QED BY <2>1, Recursion
<1>2. Conversation = CHOOSE c : Unrolled(c, messages, present)
  BY DEF Conversation, Unrolled
<1> QED BY <1>1, <1>2

\* A message, and what leads to the message above it.
LEMMA ConversationIs ==
  TypeOK => /\ Conversation[None] = {}
            /\ \A m \in present :
                 Conversation[m] = {m} \cup Conversation[messages[m].parentId]
<1> SUFFICES ASSUME TypeOK
             PROVE  /\ Conversation[None] = {}
                    /\ \A m \in present :
                         Conversation[m] = {m} \cup Conversation[messages[m].parentId]
  OBVIOUS
<1>1. Unrolled(Conversation, messages, present) BY ConversationUnrolls
<1>2. present \subseteq Id /\ None \notin present
  BY NoneIsNoId DEF TypeOK
<1> HIDE DEF Conversation
<1> QED BY <1>1, <1>2 DEF Unrolled

\* What a step does to the link of a message that stays: nothing, unless its
\* parent is deleted below one that is; then it gets the parent of that one.
ParentsKept ==
  \A m \in present \cap present' : messages'[m].parentId = messages[m].parentId
Climbs ==
  \A m \in present \cap present' :
    LET p == messages[m].parentId
        d == messages[p].parentId
    IN  \/ messages'[m].parentId = p
        \/ /\ p \in present \ present' /\ d \in present \ present'
           /\ messages'[m].parentId = messages[d].parentId

LEMMA WithKeepsParents ==
  ASSUME IInv, NEW new, NEW p, \A n \in DOMAIN new : n \in Nat /\ drawn < n,
         messages' = With(new, p)
  PROVE  ParentsKept
<1> SUFFICES ASSUME NEW m \in present
             PROVE  With(new, p)[m].parentId = messages[m].parentId
  BY DEF ParentsKept
<1>1. m \in Id /\ m <= drawn /\ drawn \in Nat /\ m \in Nat /\ messages[m] \in Message
  BY Numbers
<1>2. m \notin DOMAIN new BY <1>1
<1> QED BY <1>1, <1>2 DEF With, Message

LEMMA MarkedKeepsParents ==
  ASSUME IInv, NEW S, NEW d, messages' = Marked(S, d)
  PROVE  ParentsKept
<1> SUFFICES ASSUME NEW m \in present
             PROVE  Marked(S, d)[m].parentId = messages[m].parentId
  BY DEF ParentsKept
<1>1. m \in Id /\ messages[m] \in Message BY Numbers
<1> QED BY <1>1 DEF Marked, Message

LEMMA FreshIsNew ==
  ASSUME IInv, NEW w \in Nat
  PROVE  \A n \in Fresh(w) : n \in Nat /\ drawn < n
BY Numbers DEF Fresh

LEMMA PutKeepsParents ==
  ASSUME IInv, NEW p, NEW w, NEW n \in Nat, NEW d, Put(p, w, n, d)
  PROVE  ParentsKept
<1>1. n + 1 \in Nat OBVIOUS
<1>2. DOMAIN Turn(p, w, n, d) = Fresh(n + 1) BY DEF Turn
<1>3. messages' = With(Turn(p, w, n, d), p) BY DEF Put
<1> QED BY <1>1, <1>2, <1>3, FreshIsNew, WithKeepsParents

LEMMA SayKeepsParents ==
  ASSUME IInv, NEW p, NEW w \in Widths, Say(p, w)
  PROVE  ParentsKept /\ disturbed' = disturbed
<1>1. PICK n \in Asked(w) : Put(p, w, n, FALSE) BY DEF Say
<1>2. disturbed' = disturbed BY <1>1 DEF Put
<1> QED BY <1>1, <1>2, AskedIs, PutKeepsParents

LEMMA PairKeepsParents ==
  ASSUME IInv, NEW p, Pair(p)
  PROVE  ParentsKept /\ disturbed' = disturbed
<1>1. Put(p, 0, 1, TRUE) BY DEF Pair
<1>2. disturbed' = disturbed BY <1>1 DEF Put
<1> QED BY <1>1, <1>2, PutKeepsParents

LEMMA PutBackKeepsParents ==
  ASSUME IInv, NEW m \in Id, NEW rec, PutBack(m, rec), ~Overwrites(m, rec)
  PROVE  ParentsKept
<1>1. messages \in [Id -> Message] /\ present \subseteq Id BY Numbers
<1> QED BY <1>1 DEF PutBack, Overwrites, ParentsKept

LEMMA DeleteClimbs ==
  ASSUME IInv, ~disturbed, NEW m \in Id, Delete(m)
  PROVE  Climbs
<1>0. /\ m \in present /\ messages' = Without(m) /\ present' = Left(m)
      /\ messages \in [Id -> Message] /\ present \subseteq Id /\ None \notin Id
  BY Numbers DEF Delete, Shown
<1>1. Linked(messages, present) BY DEF IInv
<1>2. SUFFICES ASSUME NEW x \in Left(m)
               PROVE  LET p == messages[x].parentId
                          d == messages[p].parentId
                      IN  \/ Without(m)[x].parentId = p
                          \/ /\ p \in present \ Left(m) /\ d \in present \ Left(m)
                             /\ Without(m)[x].parentId = messages[d].parentId
  BY <1>0, <1>2 DEF Climbs
<1>3. x \in Id /\ messages[x] \in Message /\ x \notin present \ Left(m)
  BY <1>0 DEF Left
<1>4. CASE x \in Grandchildren(m)
  <2>1. PICK c \in messages[m].childrenIds \cap present : x \in messages[c].childrenIds
    BY <1>4 DEF Grandchildren
  <2>2. messages[x].parentId = c /\ messages[c].parentId = m
    BY <1>0, <1>1, <2>1 DEF Linked
  <2>3. c \in present \ Left(m) /\ m \in present \ Left(m) BY <1>0, <2>1 DEF Left
  <2>4. Without(m)[x] = Lifted(x, messages[m].parentId) BY <1>4, WithoutBelow
  <2>5. Lifted(x, messages[m].parentId).parentId = messages[m].parentId
    BY <1>3 DEF Lifted, Message
  <2> QED BY <2>2, <2>3, <2>4, <2>5
<1>5. CASE x \notin Grandchildren(m) /\ x = messages[m].parentId
  <2>1. Without(m)[x] = [messages[x] EXCEPT
            !.childrenIds = (@ \ {m}) \cup Grandchildren(m)]
    BY <1>3, <1>5, WithoutAbove
  <2> QED BY <1>3, <2>1 DEF Message
<1>6. CASE x \notin Grandchildren(m) /\ x # messages[m].parentId
  <2>1. Without(m)[x] = messages[x] BY <1>3, <1>6, WithoutElsewhere
  <2> QED BY <2>1
<1> QED BY <1>4, <1>5, <1>6

LEMMA ReplyKeepsParents ==
  ASSUME IInv, NEW r \in Id, Reply(r), ~disturbed'
  PROVE  ParentsKept /\ ~disturbed
<1>1. CASE PostArrives(r) \/ PostAnswered(r) \/ FallsSilent(r)
  BY <1>1 DEF PostArrives, PostAnswered, FallsSilent, tree, ghosts, ParentsKept
<1>2. CASE ErrorArrives(r) \/ DoneArrives(r)
  <2>1. Done(r) /\ disturbed' = disturbed BY <1>2 DEF ErrorArrives, DoneArrives, ghosts
  <2> QED BY <2>1, DoneIs, MarkedKeepsParents
<1>3. CASE PostFails(r) \/ PostRefused(r)
  <2> DEFINE rec == InError(r)
  <2>1. PutBack(r, rec) /\ (~disturbed' => ~disturbed /\ ~Overwrites(r, rec))
    BY <1>3 DEF PostFails, PostRefused
  <2> HIDE DEF rec
  <2> QED BY <2>1, PutBackKeepsParents
<1> QED BY <1>1, <1>2, <1>3 DEF Reply

LEMMA StopKeepsParents ==
  ASSUME IInv, Stop
  PROVE  ParentsKept /\ disturbed' = disturbed
<1>1. CASE StopResponse \/ \E r \in Id : StopTask(r)
  BY <1>1 DEF StopResponse, StopTask, tree, ghosts, ParentsKept
<1>2. CASE Stopped
  <2>1. CASE messages' = messages BY <1>2, <2>1 DEF Stopped, ghosts, ParentsKept
  <2>2. CASE messages' # messages
    <3>1. messages' = Marked(messages[messages[currentId].parentId].childrenIds \cap present, TRUE)
      BY <1>2, <2>2 DEF Stopped, Marked
    <3> QED BY <1>2, <3>1, MarkedKeepsParents DEF Stopped, ghosts
  <2> QED BY <2>1, <2>2
<1> QED BY <1>1, <1>2 DEF Stop

LEMMA LateKeepsParents ==
  ASSUME IInv, Late, ~disturbed'
  PROVE  ParentsKept /\ ~disturbed
<1>1. ASSUME NEW m \in Id, Hold(m) PROVE ParentsKept /\ ~disturbed
  BY <1>1 DEF Hold, tree, ghosts, ParentsKept
<1>2. ASSUME NEW m \in Id, SaveHeld(m) PROVE ParentsKept /\ ~disturbed
  <2>1. PutBack(m, held[m]) /\ disturbed' = (disturbed \/ Overwrites(m, held[m]))
    BY <1>2 DEF SaveHeld
  <2> QED BY <2>1, PutBackKeepsParents
<1> QED BY <1>1, <1>2 DEF Late

LEMMA AskKeepsParents ==
  ASSUME IInv, Ask
  PROVE  ParentsKept /\ disturbed' = disturbed
<1>1. ASSUME NEW p, NEW w \in Widths, Say(p, w) PROVE ParentsKept /\ disturbed' = disturbed
  BY <1>1, SayKeepsParents
<1>2. ASSUME NEW m \in Id, Regenerate(m) PROVE ParentsKept /\ disturbed' = disturbed
  <2> DEFINE u == PromptOf(m)
             new(w) == [a \in Fresh(w) |-> Answer(u, FALSE)]
  <2>1. PICK w \in Nat : messages' = With(new(w), u)
    BY <1>2, AskedIs DEF Regenerate
  <2>3. DOMAIN new(w) = Fresh(w) OBVIOUS
  <2> HIDE DEF new
  <2> QED BY <1>2, <2>1, <2>3, FreshIsNew, WithKeepsParents DEF Regenerate, ghosts
<1>3. CASE ContinueResponse
  <2>1. messages' = [messages EXCEPT ![currentId].done = FALSE] /\ disturbed' = disturbed
    BY <1>3 DEF ContinueResponse, ghosts
  <2>2. messages' = Marked({currentId}, FALSE)
    BY <2>1, Numbers DEF Marked
  <2> QED BY <2>1, <2>2, MarkedKeepsParents
<1> QED BY <1>1, <1>2, <1>3 DEF Ask, SubmitPrompt, SubmitMessage, EditPrompt

LEMMA ArrangeClimbs ==
  ASSUME IInv, Arrange, ~disturbed'
  PROVE  Climbs /\ ~disturbed
<1>0. ParentsKept => Climbs BY DEF ParentsKept, Climbs
<1>1. ASSUME NEW p, Pair(p) PROVE ParentsKept /\ disturbed' = disturbed
  BY <1>1, PairKeepsParents
<1>2. ASSUME NEW m \in Id, CopyAnswer(m) PROVE ParentsKept /\ disturbed' = disturbed
  <2> DEFINE new == [a \in Fresh(1) |-> Copied(m)]
  <2>1. messages' = With(new, messages[m].parentId) /\ disturbed' = disturbed
    BY <1>2 DEF CopyAnswer, ghosts
  <2>2. DOMAIN new = Fresh(1) OBVIOUS
  <2> HIDE DEF new
  <2> QED BY <2>1, <2>2, FreshIsNew, WithKeepsParents
<1>3. ASSUME NEW m \in Id, ShowMessage(m) PROVE ParentsKept /\ disturbed' = disturbed
  BY <1>3 DEF ShowMessage, ghosts, ParentsKept
<1>4. ASSUME NEW m \in Id, Delete(m) PROVE Climbs /\ ~disturbed
  <2>1. disturbed' = disturbed BY <1>4 DEF Delete, ghosts
  <2> QED BY <1>4, <2>1, DeleteClimbs
<1> QED BY <1>0, <1>1, <1>2, <1>3, <1>4 DEF Arrange, CreateMessagePair, AddMessages

LEMMA NextClimbs ==
  ASSUME IInv, Next, ~disturbed'
  PROVE  Climbs /\ ~disturbed
<1>1. ParentsKept => Climbs BY DEF ParentsKept, Climbs
<1> QED BY <1>1, AskKeepsParents, ArrangeClimbs, StopKeepsParents, LateKeepsParents,
           ReplyKeepsParents DEF Next

\* What a step does to conversations, from what it does to links.
LEMMA ConversationStep ==
  ASSUME IInv, IInv', Climbs, ~disturbed, ~disturbed'
  PROVE  \A m \in present \cap present' : Conversation'[m] = Conversation[m] \cap present'
<1>1. /\ Conversation[None] = {}
      /\ \A m \in present :
           Conversation[m] = {m} \cup Conversation[messages[m].parentId]
  BY ConversationIs DEF IInv
<1>2. /\ Conversation'[None] = {}
      /\ \A m \in present' :
           Conversation'[m] = {m} \cup Conversation'[messages'[m].parentId]
  <2>1. (TypeOK => /\ Conversation[None] = {}
                   /\ \A m \in present :
                        Conversation[m] = {m} \cup Conversation[messages[m].parentId])'
    BY ConversationIs, PTL
  <2>2. TypeOK' BY DEF IInv
  <2> HIDE DEF Conversation
  <2> QED BY <2>1, <2>2
<1>3. Linked(messages, present) /\ Linked(messages', present')
  BY DEF IInv
<1>4. /\ present \subseteq Id /\ \A m \in Id : m \in Nat
      /\ None \notin Id /\ present' \subseteq Id
  BY Numbers DEF IInv, TypeOK
<1>5. \A m \in present : messages[m].parentId \in Id => messages[m].parentId < m
  BY <1>4 DEF IInv, Order, Ordered
<1> HIDE DEF Conversation
<1> DEFINE Wrong == {m \in present \cap present' :
                       Conversation'[m] # Conversation[m] \cap present'}
<1>6. SUFFICES ASSUME Wrong # {} PROVE FALSE OBVIOUS
<1>7. PICK m \in Wrong : \A y \in Wrong : m <= y
  <2>1. Wrong \subseteq Nat BY <1>4
  <2> HIDE DEF Wrong
  <2> QED BY <1>6, <2>1, Smallest
<1> DEFINE p == messages[m].parentId
           d == messages[p].parentId
           q == messages'[m].parentId
<1>8. m \in present /\ m \in present' /\ m \in Nat BY <1>4, <1>7
<1>9. Conversation'[m] # Conversation[m] \cap present' BY <1>7
<1>10. /\ Conversation[m] = {m} \cup Conversation[p]
       /\ Conversation'[m] = {m} \cup Conversation'[q]
  BY <1>1, <1>2, <1>8
\* The message above m now, if any, was there and is smaller, so it is right.
<1>11. ASSUME q # None, q \in present, q < m
       PROVE  Conversation'[q] = Conversation[q] \cap present'
  <2>1. q \in present' BY <1>3, <1>8, <1>11 DEF Linked
  <2>2. q \notin Wrong
    <3>1. q \in Nat /\ m \in Nat /\ q < m BY <1>4, <1>8, <1>11
    <3> HIDE DEF Wrong, q
    <3>2. ~(m <= q) BY <3>1
    <3> QED BY <1>7, <3>2
  <2> QED BY <1>11, <2>1, <2>2
<1>12. CASE q = p
  <2>1. CASE p = None BY <1>1, <1>2, <1>8, <1>9, <1>10, <1>12, <2>1
  <2>2. CASE p # None
    <3>1. p \in present BY <1>3, <1>8, <2>2 DEF Linked
    <3>2. p < m BY <1>4, <1>5, <1>8, <3>1
    <3> QED BY <1>8, <1>9, <1>10, <1>11, <1>12, <2>2, <3>1, <3>2
  <2> QED BY <2>1, <2>2
<1>13. CASE /\ p \in present \ present' /\ d \in present \ present'
            /\ q = messages[d].parentId
  <2>1. Conversation[m] = {m, p, d} \cup Conversation[q]
    BY <1>1, <1>10, <1>13
  <2>2. Conversation[m] \cap present' = {m} \cup (Conversation[q] \cap present')
    BY <1>8, <1>13, <2>1
  <2>3. CASE q = None BY <1>1, <1>2, <1>9, <1>10, <2>2, <2>3
  <2>4. CASE q # None
    <3>1. q \in present BY <1>3, <1>13, <2>4 DEF Linked
    <3>2. q < m
      <4>1. p < m /\ d < p /\ q < d BY <1>4, <1>5, <1>8, <1>13, <3>1
      <4>2. m \in Nat /\ p \in Nat /\ d \in Nat /\ q \in Nat
        BY <1>4, <1>8, <1>13, <3>1
      <4> HIDE DEF p, d, q
      <4> QED BY <4>1, <4>2
    <3> QED BY <1>9, <1>10, <1>11, <2>2, <2>4, <3>1, <3>2
  <2> QED BY <2>3, <2>4
<1> QED BY <1>8, <1>12, <1>13 DEF Climbs

\* What was said before a message stays what it was but for what is deleted,
\* whatever is edited, asked again, copied, stopped or answered late, in a history
\* of any depth, until a late handler writes over a change.
THEOREM ConversationsAreKept == Spec => ConversationKept
<1>1. IInv /\ IInv' /\ [Next]_vars =>
        [~disturbed' => \A m \in present \cap present' :
           Conversation'[m] = Conversation[m] \cap present']_vars
  BY NextClimbs, ConversationStep
<1> QED BY <1>1, Inductive, PTL DEF Spec, ConversationKept

-----------------------------------------------------------------------------
\* createMessagesList gives the whole conversation: from the message up to one
\* that has none above it, with no gap and nothing that is gone.
ConversationIsWhole ==
  ~disturbed =>
    \A m \in present :
      /\ Conversation[m] \subseteq present
      /\ \A x \in Conversation[m] :
           x <= m /\ messages[x].parentId \in Conversation[m] \cup {None}
      /\ \E r \in Conversation[m] : messages[r].parentId = None

\* In a history of any depth, until a late handler writes over a change.
THEOREM ConversationsAreWhole == Spec => []ConversationIsWhole
<1> DEFINE Whole(m) ==
             /\ Conversation[m] \subseteq present
             /\ \A x \in Conversation[m] :
                  x <= m /\ messages[x].parentId \in Conversation[m] \cup {None}
<1>1. ASSUME IInv, ~disturbed
      PROVE  \A m \in present : Whole(m) /\ \E r \in Conversation[m] : messages[r].parentId = None
  <2>1. /\ Conversation[None] = {}
        /\ \A m \in present : Conversation[m] = {m} \cup Conversation[messages[m].parentId]
    BY <1>1, ConversationIs DEF IInv
  <2>2. present \subseteq Nat /\ \A m \in present : m \in Id
    BY <1>1 DEF IInv, TypeOK, Id
  <2>3. \A m \in present : messages[m].parentId = None \/ messages[m].parentId \in present
    BY <1>1 DEF IInv, Linked
  <2>4. \A m \in present : messages[m].parentId \in present => messages[m].parentId < m
    BY <1>1, <2>2 DEF IInv, Order, Ordered
  <2> HIDE DEF Conversation
  <2>5. ASSUME NEW m \in present, messages[m].parentId \in present => Whole(messages[m].parentId)
        PROVE  Whole(m)
    <3> DEFINE p == messages[m].parentId
    <3>1. Conversation[m] = {m} \cup Conversation[p]
      BY <2>1
    <3>2. m <= m /\ m \in Nat
      BY <2>2
    <3>3. CASE p = None
      <4>1. Conversation[m] = {m}
        BY <2>1, <3>1, <3>3
      <4> QED BY <3>2, <3>3, <4>1
    <3>4. CASE p \in present
      <4>1. p \in Conversation[p] /\ p < m /\ p \in Nat
        BY <2>1, <2>2, <2>4, <3>4
      <4>2. Conversation[p] \subseteq present
        BY <2>5, <3>4
      <4>3. \A x \in Conversation[p] :
              x <= p /\ messages[x].parentId \in Conversation[p] \cup {None}
        BY <2>5, <3>4
      <4>4. ASSUME NEW x \in Conversation[p] PROVE x <= m
        <5>1. x \in Nat /\ m \in Nat /\ x <= p
          BY <2>2, <3>2, <4>2, <4>3
        <5> HIDE DEF p
        <5> QED BY <4>1, <5>1
      <4>5. \A x \in Conversation[m] : x <= m
        BY <3>1, <3>2, <4>4
      <4>6. \A x \in Conversation[m] : messages[x].parentId \in Conversation[m] \cup {None}
        BY <3>1, <4>1, <4>3
      <4>7. Conversation[m] \subseteq present
        BY <3>1, <4>2
      <4> QED BY <4>5, <4>6, <4>7
    <3> QED BY <2>3, <3>3, <3>4
  <2>6. \A m \in present : Whole(m)
    <3> DEFINE Wrong == {m \in present : ~Whole(m)}
    <3> SUFFICES ASSUME Wrong # {} PROVE FALSE
      OBVIOUS
    <3>0. Wrong \subseteq Nat
      BY <2>2
    <3> HIDE DEF Wrong
    <3>1. PICK b \in Wrong : \A y \in Wrong : b <= y
      BY <3>0, Smallest
    <3>2. b \in present /\ ~Whole(b) /\ b \in Nat
      BY <2>2 DEF Wrong
    <3>3. messages[b].parentId \in present => messages[b].parentId \notin Wrong
      <4> SUFFICES ASSUME messages[b].parentId \in present, messages[b].parentId \in Wrong
                   PROVE  FALSE
        OBVIOUS
      <4> DEFINE p == messages[b].parentId
      <4>1. p < b /\ b <= p /\ p \in Nat
        BY <2>2, <2>4, <3>1, <3>2
      <4> HIDE DEF p
      <4> QED BY <3>2, <4>1
    <3>4. messages[b].parentId \in present => Whole(messages[b].parentId)
      BY <3>3 DEF Wrong
    <3> HIDE DEF Whole
    <3> QED BY <2>5, <3>2, <3>4
  <2>7. ASSUME NEW m \in present PROVE \E r \in Conversation[m] : messages[r].parentId = None
    <3>1. /\ Conversation[m] \subseteq present
          /\ \A x \in Conversation[m] : messages[x].parentId \in Conversation[m] \cup {None}
      BY <2>6
    <3>2. m \in Conversation[m] /\ Conversation[m] \subseteq Nat
      BY <2>1, <2>2, <3>1
    <3>3. PICK r \in Conversation[m] : \A y \in Conversation[m] : r <= y
      BY <3>2, Smallest
    <3>4. messages[r].parentId \in Conversation[m] =>
            messages[r].parentId < r /\ r <= messages[r].parentId
      BY <2>4, <3>1, <3>3
    <3>5. r \in Nat /\ (messages[r].parentId \in Conversation[m] => messages[r].parentId \in Nat)
      BY <3>2
    <3>6. messages[r].parentId \notin Conversation[m]
      BY <3>4, <3>5
    <3> QED BY <3>1, <3>6
  <2> QED BY <2>6, <2>7
<1>2. IInv => ConversationIsWhole
  <2> HIDE DEF Conversation
  <2> QED BY <1>1 DEF ConversationIsWhole
<1> QED BY <1>2, Inductive, PTL

\* From every message a walk over the children comes to an end, so the view can
\* always be moved; and it does not stop at a message that is gone, nor before
\* the last one.
EveryBranchEnds ==
  \A m \in present :
    /\ Ends(messages, present, m) # {}
    /\ ~disturbed => \A l \in Ends(messages, present, m) :
         l \in present /\ messages[l].childrenIds = {}

\* However deep the history, and the first part whatever late handlers write.
THEOREM BranchesEnd == Spec => []EveryBranchEnds
<1>1. ASSUME IInv, NEW m \in present PROVE Ends(messages, present, m) # {}
  <2> DEFINE U == Under(messages, present, m)
             T == {MaxMessages - l : l \in U}
             linked == {m} \cup UNION {messages[x].childrenIds : x \in present}
  <2>1. m \in Id /\ \A x \in present : messages[x].childrenIds \subseteq Id
    BY <1>1 DEF IInv, TypeOK, Message
  <2>2. m \in U /\ U \subseteq Id
    BY <2>1 DEF Under
  <2>3. ASSUME NEW x \in U, x \in present, NEW y \in messages[x].childrenIds PROVE y \in U
    <3>1. y \in linked
      BY <2>3
    <3>2. ASSUME NEW S \in SUBSET linked, m \in S,
                 \A z \in S \cap present : messages[z].childrenIds \subseteq S
          PROVE  y \in S
      <4>1. x \in S
        BY <2>3, <3>2 DEF Under
      <4> QED BY <2>3, <3>2, <4>1
    <3> QED BY <3>1, <3>2 DEF Under
  <2> HIDE DEF U
  <2>4. \A l \in U : l \in Nat /\ l <= MaxMessages /\ MaxMessages - l \in Nat
    BY <2>2, MaxMessagesAssumption DEF Id
  <2>5. T \subseteq Nat /\ T # {}
    BY <2>2, <2>4
  <2>6. PICK t \in T : \A s \in T : t <= s
    BY <2>5, Smallest
  <2>7. PICK l \in U : t = MaxMessages - l
    OBVIOUS
  <2>8. \A k \in U : k <= l
    <3> TAKE k \in U
    <3>1. MaxMessages - l <= MaxMessages - k
      BY <2>6, <2>7
    <3> QED BY <2>4, <3>1, MaxMessagesAssumption
  <2>9. l \in present => messages[l].childrenIds = {}
    <3> SUFFICES ASSUME l \in present, NEW c \in messages[l].childrenIds PROVE FALSE
      OBVIOUS
    <3>1. l < c
      BY <1>1, <2>2 DEF IInv, Order, Ordered
    <3>2. c \in U
      BY <2>3
    <3> QED BY <2>4, <2>8, <3>1, <3>2
  <2> QED BY <2>9 DEF Ends, U
<1>2. ASSUME IInv, ~disturbed, NEW m \in present, NEW l \in Ends(messages, present, m)
      PROVE  l \in present /\ messages[l].childrenIds = {}
  <2>1. present \in SUBSET Id /\ \A z \in present : messages[z].childrenIds \subseteq present
    BY <1>2 DEF IInv, TypeOK, Linked
  <2> QED BY <2>1, BranchEndsHere
<1>3. IInv => EveryBranchEnds
  BY <1>1, <1>2 DEF EveryBranchEnds
<1> QED BY <1>3, Inductive, PTL
=============================================================================
