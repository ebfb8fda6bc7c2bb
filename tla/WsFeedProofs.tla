---------------------------- MODULE WsFeedProofs ----------------------------
(***************************************************************************)
(* Proofs about WsFeed, for any orders, takers and unlock authorities.     *)
(***************************************************************************)
EXTENDS WsFeed, FiniteSetTheorems, SequenceTheorems, TLAPS

(* The events about orders, and the stage one tells of.                     *)
OrderEvent == [order: OrderId, status: DOMAIN StageOf]
Tells(event, o, stage) ==
  event \in OrderEvent /\ event.order = o /\ StageOf[event.status] = stage

(* A stage an order may have had before it was in the other.                *)
Before(a, b) == a = b \/ Rank[a] < Rank[b]

(* The events of an inbox tell of the stages h was not told of yet and os   *)
(* has reached, each order's in their order.                                *)
InOrder(inbox, h, os) ==
  \A i \in DOMAIN inbox : \A o \in OrderId : \A a \in Stage :
    Tells(inbox[i], o, a) =>
      /\ Rank[h[o]] <= Rank[a]
      /\ Before(a, os[o])
      /\ \A j \in DOMAIN inbox : \A b \in Stage :
           i < j /\ Tells(inbox[j], o, b) => Rank[a] <= Rank[b]

HandedInOrder ==
  /\ \A o \in OrderId : Before(handed[o], orders[o])
  /\ InOrder(socket.inbox, handed, orders)
  /\ previous # None => InOrder(previous.inbox, handed, orders)

(* Two connections never deliver at a time.                                 *)
OneDelivers ==
  /\ socket.state \in {"connecting", "open", "dropped"}
  /\ socket.state # "open" => socket.inbox = <<>>
  /\ previous # None => previous.state = "closing" /\ socket.state # "open"

(* Until the subscription is acted on, everything is still to be asked.     *)
SubscribedFirst ==
  socket.state = "open" /\ ~socket.subscribed => socket.commands = Commands

(* Of an order in a stage that matters, the processor was told, or it is on *)
(* its way, or it is still to be asked for.                                 *)
Covered(o, stage, command) ==
  \/ handed[o] = stage
  \/ \E i \in DOMAIN socket.inbox : Tells(socket.inbox[i], o, stage)
  \/ \E i \in DOMAIN socket.commands : socket.commands[i] = command

NothingMissed ==
  socket.state = "open" =>
    \A o \in OrderId :
      /\ orders[o] = "created" => Covered(o, "created", [command |-> "GetCreated"])
      /\ orders[o] = "fulfilled" /\ Taker[o] \in Range(UnlockAuthorities) =>
           Covered(o, "fulfilled", [command |-> "GetFulfilled", unlockAuthority |-> Taker[o]])

IInv == TypeOK /\ HandedInOrder /\ OneDelivers /\ SubscribedFirst /\ NothingMissed

-----------------------------------------------------------------------------
(* The stages and their ranks.                                              *)
LEMMA StageLemma ==
  /\ \A a \in Stage : Rank[a] \in Nat
  /\ \A s \in DOMAIN StageOf : StageOf[s] \in Stage
  /\ Rank["none"] = 0 /\ Rank["created"] = 1 /\ Rank["cancelled"] = 2
  /\ Rank["fulfilled"] = 2 /\ Rank["unlocked"] = 3
BY DEF Stage, StageOf, Rank

(* An event about an order tells of one stage.                              *)
LEMMA TellsLemma ==
  ASSUME NEW e \in OrderEvent
  PROVE  e.order \in OrderId /\ StageOf[e.status] \in Stage /\ Tells(e, e.order, StageOf[e.status])
BY StageLemma DEF OrderEvent, Tells

(* A finite set as a sequence has its elements and no others.               *)
LEMMA SetToSeqLemma ==
  ASSUME NEW S, IsFiniteSet(S)
  PROVE  /\ SetToSeq(S) \in Seq(S)
         /\ \A x \in S : \E i \in DOMAIN SetToSeq(S) : SetToSeq(S)[i] = x
<1> DEFINE n == Cardinality(S)
           f == SetToSeq(S)
<1>1. n \in Nat /\ ExistsBijection(1..n, S)
  BY FS_CardinalityType
<1>2. \E g \in [1..n -> S] : IsInjective(g)
  BY <1>1 DEF ExistsBijection, Bijection, Injection, IsInjective
<1>3. f \in [1..n -> S] /\ IsInjective(f)
  BY <1>2 DEF SetToSeq
<1> HIDE DEF f
<1>4. f \in Injection(1..n, S)
  BY <1>3 DEF Injection, IsInjective
<1>5. Cardinality(1..n) = n /\ IsFiniteSet(1..n)
  BY <1>1, FS_Interval
<1>6. f \in Surjection(1..n, S)
  BY <1>4, <1>5, FS_Injection
<1>7. \A x \in S : \E i \in 1..n : f[i] = x
  BY <1>6 DEF Surjection
<1>8. f \in Seq(S) /\ DOMAIN f = 1..n
  BY <1>1, <1>3
<1>9. QED
  BY <1>7, <1>8 DEF f

-----------------------------------------------------------------------------
(* What is received stays in order.                                         *)

(* The numbers of the elements of a sequence.                               *)
LEMMA TailLemma ==
  ASSUME NEW T, NEW s \in Seq(T), s # <<>>
  PROVE  /\ 1 \in DOMAIN s /\ Head(s) = s[1]
         /\ Tail(s) \in Seq(T)
         /\ DOMAIN Tail(s) = 1..(Len(s) - 1)
         /\ \A i \in DOMAIN Tail(s) : i + 1 \in DOMAIN s /\ Tail(s)[i] = s[i + 1]
         /\ \A i \in DOMAIN s : i # 1 => i - 1 \in DOMAIN Tail(s) /\ Tail(s)[i - 1] = s[i]
<1>1. Len(s) \in Nat /\ DOMAIN s = 1..Len(s) /\ Len(s) # 0
  OBVIOUS
<1>2. Tail(s) \in Seq(T) /\ Len(Tail(s)) = Len(s) - 1
  OBVIOUS
<1>3. DOMAIN Tail(s) = 1..(Len(s) - 1)
  BY <1>1, <1>2
<1>4. \A i \in 1..(Len(s) - 1) : Tail(s)[i] = s[i + 1]
  OBVIOUS
<1>5. Head(s) = s[1]
  OBVIOUS
<1>6. QED
  BY <1>1, <1>2, <1>3, <1>4, <1>5

LEMMA ConcatLemma ==
  ASSUME NEW T, NEW s \in Seq(T), NEW t \in Seq(T)
  PROVE  /\ s \o t \in Seq(T)
         /\ \A i \in DOMAIN s : i \in DOMAIN (s \o t) /\ (s \o t)[i] = s[i]
         /\ \A i \in DOMAIN t : i + Len(s) \in DOMAIN (s \o t) /\ (s \o t)[i + Len(s)] = t[i]
         /\ \A i \in DOMAIN (s \o t) :
              \/ i \in DOMAIN s
              \/ i > Len(s) /\ i - Len(s) \in DOMAIN t /\ (s \o t)[i] = t[i - Len(s)]
<1>1. Len(s) \in Nat /\ DOMAIN s = 1..Len(s) /\ Len(t) \in Nat /\ DOMAIN t = 1..Len(t)
  OBVIOUS
<1>2. s \o t \in Seq(T) /\ Len(s \o t) = Len(s) + Len(t)
  OBVIOUS
<1>3. DOMAIN (s \o t) = 1..(Len(s) + Len(t))
  BY <1>2
<1>4. \A i \in 1..(Len(s) + Len(t)) : (s \o t)[i] = IF i <= Len(s) THEN s[i] ELSE t[i - Len(s)]
  OBVIOUS
<1>5. QED
  BY <1>1, <1>2, <1>3, <1>4

(* What the next event tells the processor.                                 *)
Delivered(inbox, h) ==
  IF Head(inbox) \in OrderEvent
  THEN [h EXCEPT ![Head(inbox).order] = StageOf[Head(inbox).status]] ELSE h

(* Delivering the first event keeps the rest in order.                      *)
LEMMA DeliveredInOrder ==
  ASSUME NEW inbox \in Seq(Event), inbox # <<>>,
         NEW h \in [OrderId -> Stage], NEW os \in [OrderId -> Stage],
         InOrder(inbox, h, os), \A o \in OrderId : Before(h[o], os[o])
  PROVE  /\ Delivered(inbox, h) \in [OrderId -> Stage]
         /\ InOrder(Tail(inbox), Delivered(inbox, h), os)
         /\ \A o \in OrderId : /\ Before(Delivered(inbox, h)[o], os[o])
                               /\ Rank[h[o]] <= Rank[Delivered(inbox, h)[o]]
<1> DEFINE e == Head(inbox)
           g == Delivered(inbox, h)
<1>1. /\ 1 \in DOMAIN inbox /\ e = inbox[1]
      /\ \A i \in DOMAIN Tail(inbox) : i + 1 \in DOMAIN inbox /\ Tail(inbox)[i] = inbox[i + 1]
      /\ DOMAIN Tail(inbox) \subseteq Nat \ {0}
  BY TailLemma
<1>2. \A a \in Stage : Rank[a] \in Nat
  BY StageLemma
<1>3. CASE e \notin OrderEvent
  <2>1. g = h
    BY <1>3 DEF Delivered
  <2>2. InOrder(Tail(inbox), h, os)
    <3> SUFFICES ASSUME NEW i \in DOMAIN Tail(inbox), NEW o \in OrderId, NEW a \in Stage,
                        Tells(Tail(inbox)[i], o, a)
                 PROVE  /\ Rank[h[o]] <= Rank[a]
                        /\ Before(a, os[o])
                        /\ \A j \in DOMAIN Tail(inbox) : \A b \in Stage :
                             i < j /\ Tells(Tail(inbox)[j], o, b) => Rank[a] <= Rank[b]
      BY DEF InOrder
    <3>1. QED
      BY <1>1 DEF InOrder
  <2>3. QED
    BY <1>2, <2>1, <2>2
<1>4. CASE e \in OrderEvent
  <2> DEFINE k == e.order
             c == StageOf[e.status]
  <2>1. k \in OrderId /\ c \in Stage /\ Tells(e, k, c)
    BY <1>4, TellsLemma
  <2>2. g = [h EXCEPT ![k] = c]
    BY <1>4 DEF Delivered
  <2> HIDE DEF k, c, g
  <2>3. /\ Rank[h[k]] <= Rank[c]
        /\ Before(c, os[k])
        /\ \A j \in DOMAIN inbox : \A b \in Stage : 1 < j /\ Tells(inbox[j], k, b) => Rank[c] <= Rank[b]
    BY <1>1, <2>1 DEF InOrder
  <2>4. g \in [OrderId -> Stage] /\ g[k] = c /\ \A o \in OrderId \ {k} : g[o] = h[o]
    BY <2>1, <2>2
  <2>5. ASSUME NEW o \in OrderId
        PROVE  Before(g[o], os[o]) /\ Rank[h[o]] <= Rank[g[o]]
    BY <1>2, <2>3, <2>4
  <2>6. InOrder(Tail(inbox), g, os)
    <3> SUFFICES ASSUME NEW i \in DOMAIN Tail(inbox), NEW o \in OrderId, NEW a \in Stage,
                        Tells(Tail(inbox)[i], o, a)
                 PROVE  /\ Rank[g[o]] <= Rank[a]
                        /\ Before(a, os[o])
                        /\ \A j \in DOMAIN Tail(inbox) : \A b \in Stage :
                             i < j /\ Tells(Tail(inbox)[j], o, b) => Rank[a] <= Rank[b]
      BY DEF InOrder
    <3>1. i + 1 \in DOMAIN inbox /\ Tells(inbox[i + 1], o, a) /\ 1 < i + 1
      BY <1>1
    <3>2. Rank[h[o]] <= Rank[a] /\ Before(a, os[o])
      BY <3>1 DEF InOrder
    <3>3. Rank[g[o]] <= Rank[a]
      BY <2>3, <2>4, <3>1, <3>2
    <3>4. ASSUME NEW j \in DOMAIN Tail(inbox), NEW b \in Stage, i < j, Tells(Tail(inbox)[j], o, b)
          PROVE  Rank[a] <= Rank[b]
      <4>1. j + 1 \in DOMAIN inbox /\ Tells(inbox[j + 1], o, b) /\ i + 1 < j + 1
        BY <1>1, <3>4
      <4>2. QED
        BY <3>1, <4>1 DEF InOrder
    <3>5. QED
      BY <3>2, <3>3, <3>4
  <2>7. QED
    BY <2>4, <2>5, <2>6 DEF g
<1>5. QED
  BY <1>3, <1>4

(* When an order moves on, what an inbox tells stays in order.              *)
LEMMA MovedInOrder ==
  ASSUME NEW inbox, NEW h, NEW os \in [OrderId -> Stage], InOrder(inbox, h, os),
         NEW o \in OrderId, NEW b \in Stage, Rank[os[o]] < Rank[b]
  PROVE  InOrder(inbox, h, [os EXCEPT ![o] = b])
<1> DEFINE ns == [os EXCEPT ![o] = b]
<1>1. \A x \in OrderId, a \in Stage : Before(a, os[x]) => Before(a, ns[x])
  <2>1. \A a \in Stage : Rank[a] \in Nat
    BY StageLemma
  <2>2. ns[o] = b /\ \A x \in OrderId \ {o} : ns[x] = os[x]
    OBVIOUS
  <2>3. QED
    BY <2>1, <2>2 DEF Before
<1> HIDE DEF ns
<1>2. InOrder(inbox, h, ns)
  BY <1>1 DEF InOrder
<1>3. QED
  BY <1>2 DEF ns

(* The server tells of the stage an order is in: nothing later was told.    *)
LEMMA AnsweredInOrder ==
  ASSUME NEW inbox \in Seq(Event), NEW answer \in Seq(Event),
         NEW h \in [OrderId -> Stage], NEW os \in [OrderId -> Stage],
         InOrder(inbox, h, os), \A o \in OrderId : Before(h[o], os[o]),
         \A i \in DOMAIN answer : \A o \in OrderId : \A a \in Stage :
           Tells(answer[i], o, a) => a = os[o]
  PROVE  InOrder(inbox \o answer, h, os)
<1> DEFINE all == inbox \o answer
           n == Len(inbox)
<1>1. /\ \A i \in DOMAIN inbox : i \in DOMAIN all /\ all[i] = inbox[i]
      /\ \A i \in DOMAIN all :
           \/ i \in DOMAIN inbox
           \/ i > n /\ i - n \in DOMAIN answer /\ all[i] = answer[i - n]
      /\ DOMAIN inbox = 1..n /\ n \in Nat
      /\ DOMAIN all \subseteq Nat
  BY ConcatLemma
<1>2. \A a \in Stage : Rank[a] \in Nat
  BY StageLemma
<1> HIDE DEF all, n
<1> SUFFICES ASSUME NEW i \in DOMAIN all, NEW o \in OrderId, NEW a \in Stage, Tells(all[i], o, a)
             PROVE  /\ Rank[h[o]] <= Rank[a]
                    /\ Before(a, os[o])
                    /\ \A j \in DOMAIN all : \A b \in Stage :
                         i < j /\ Tells(all[j], o, b) => Rank[a] <= Rank[b]
  BY DEF InOrder, all
<1>3. /\ h[o] \in Stage /\ os[o] \in Stage
      /\ \A c, d \in Stage : Before(c, d) => Rank[c] <= Rank[d]
  BY <1>2 DEF Before
<1>4. Rank[h[o]] <= Rank[os[o]]
  BY <1>3
<1>5. CASE i \in DOMAIN inbox
  <2>1. Tells(inbox[i], o, a)
    BY <1>1, <1>5
  <2>2. Rank[h[o]] <= Rank[a] /\ Before(a, os[o])
    BY <1>5, <2>1 DEF InOrder
  <2>3. ASSUME NEW j \in DOMAIN all, NEW b \in Stage, i < j, Tells(all[j], o, b)
        PROVE  Rank[a] <= Rank[b]
    <3>1. CASE j \in DOMAIN inbox
      <4>1. Tells(inbox[j], o, b)
        BY <1>1, <2>3, <3>1
      <4>2. QED
        BY <1>5, <2>1, <2>3, <3>1, <4>1 DEF InOrder
    <3>2. CASE j \notin DOMAIN inbox
      <4>1. j - n \in DOMAIN answer /\ Tells(answer[j - n], o, b)
        BY <1>1, <2>3, <3>2
      <4>2. b = os[o]
        BY <4>1
      <4>3. QED
        BY <1>3, <2>2, <4>2
    <3>3. QED
      BY <3>1, <3>2
  <2>4. QED
    BY <2>2, <2>3
<1>6. CASE i \notin DOMAIN inbox
  <2>1. i > n /\ i - n \in DOMAIN answer /\ Tells(answer[i - n], o, a)
    BY <1>1, <1>6
  <2>2. a = os[o]
    BY <2>1
  <2>3. ASSUME NEW j \in DOMAIN all, NEW b \in Stage, i < j, Tells(all[j], o, b)
        PROVE  Rank[a] <= Rank[b]
    <3>1. j \notin DOMAIN inbox
      BY <1>1, <2>1, <2>3
    <3>2. j - n \in DOMAIN answer /\ Tells(answer[j - n], o, b)
      BY <1>1, <2>3, <3>1
    <3>3. b = os[o]
      BY <3>2
    <3>4. QED
      BY <1>2, <2>2, <3>3
  <2>4. QED
    BY <1>4, <2>2, <2>3 DEF Before
<1>7. QED
  BY <1>5, <1>6

-----------------------------------------------------------------------------
(* What is asked, and what is answered.                                     *)

(* Once a socket is open, everything is asked for, the subscription first.  *)
LEMMA CommandsLemma ==
  /\ Commands \in Seq(Command) /\ Commands # <<>>
  /\ Head(Commands) = [command |-> "Subscription"]
  /\ \E i \in DOMAIN Commands : Commands[i] = [command |-> "GetCreated"]
  /\ \A k \in Range(UnlockAuthorities) : \E i \in DOMAIN Commands :
       Commands[i] = [command |-> "GetFulfilled", unlockAuthority |-> k]
<1> DEFINE first == <<[command |-> "Subscription"], [command |-> "GetCreated"]>>
<1>1. /\ Len(UnlockAuthorities) \in Nat
      /\ DOMAIN UnlockAuthorities = 1..Len(UnlockAuthorities)
  BY WsFeedAssumption
<1>2. \A i \in DOMAIN UnlockAuthorities : UnlockAuthorities[i] \in Range(UnlockAuthorities)
  BY DEF Range
<1>3. GetFulfilled \in [1..Len(UnlockAuthorities) -> Command]
  BY <1>1, <1>2 DEF GetFulfilled, Command
<1>4. GetFulfilled \in Seq(Command)
  BY <1>1, <1>3
<1>5. /\ first \in Seq(Command)
      /\ DOMAIN first = 1..2 /\ Len(first) = 2
      /\ first[1] = [command |-> "Subscription"] /\ first[2] = [command |-> "GetCreated"]
  BY DEF Command
<1>6. Commands = first \o GetFulfilled
  BY DEF Commands
<1> HIDE DEF first
<1>7. /\ Commands \in Seq(Command)
      /\ \A i \in DOMAIN first : i \in DOMAIN Commands /\ Commands[i] = first[i]
      /\ \A i \in DOMAIN GetFulfilled :
           i + 2 \in DOMAIN Commands /\ Commands[i + 2] = GetFulfilled[i]
  <2> DEFINE all == first \o GetFulfilled
  <2>1. first \in Seq(Command)
    BY <1>5
  <2>2. /\ all \in Seq(Command)
        /\ \A i \in DOMAIN first : i \in DOMAIN all /\ all[i] = first[i]
        /\ \A i \in DOMAIN GetFulfilled :
             i + Len(first) \in DOMAIN all /\ all[i + Len(first)] = GetFulfilled[i]
    BY ONLY <1>4, <2>1, ConcatLemma
  <2> HIDE DEF all
  <2>3. Commands = all
    BY <1>6 DEF all
  <2>4. QED
    BY <2>2, <2>3, <1>5
<1>8. 1 \in DOMAIN Commands /\ Commands[1] = first[1] /\ 2 \in DOMAIN Commands /\ Commands[2] = first[2]
  BY <1>5, <1>7
<1>9. Commands # <<>> /\ Head(Commands) = Commands[1]
  <2>1. Commands # <<>>
    BY <1>8
  <2>2. QED
    BY <2>1, <1>7, TailLemma
<1>10. ASSUME NEW k \in Range(UnlockAuthorities)
       PROVE  \E i \in DOMAIN Commands :
                Commands[i] = [command |-> "GetFulfilled", unlockAuthority |-> k]
  <2>1. PICK i \in DOMAIN UnlockAuthorities : UnlockAuthorities[i] = k
    BY DEF Range
  <2>2. i \in DOMAIN GetFulfilled
        /\ GetFulfilled[i] = [command |-> "GetFulfilled", unlockAuthority |-> k]
    BY <2>1 DEF GetFulfilled
  <2>3. QED
    BY <1>7, <2>2
<1>11. QED
  BY <1>5, <1>7, <1>8, <1>9, <1>10

(* The events of an answer are those of the orders found.                   *)
EventsOf(found, status) == SetToSeq({[order |-> o, status |-> status] : o \in found})

LEMMA EventsLemma ==
  ASSUME NEW found \in SUBSET OrderId, NEW status \in DOMAIN StageOf, NEW q,
         q = EventsOf(found, status)
  PROVE  /\ q \in Seq(Event)
         /\ \A i \in DOMAIN q : q[i].order \in found /\ q[i].status = status
         /\ \A o \in found : \E i \in DOMAIN q : Tells(q[i], o, StageOf[status])
<1> DEFINE event(o) == [order |-> o, status |-> status]
           events == {event(o) : o \in found}
           f == [o \in found |-> event(o)]
<1>1. IsFiniteSet(events)
  <2>1. f \in Surjection(found, events)
    BY DEF Surjection
  <2>2. IsFiniteSet(found)
    BY WsFeedAssumption, FS_Subset
  <2> HIDE DEF f, events
  <2>3. QED
    BY <2>1, <2>2, FS_Surjection
<1>2. events \subseteq OrderEvent /\ \A e \in events : e.order \in found /\ e.status = status
  BY DEF OrderEvent
<1>3. ASSUME NEW o \in found PROVE event(o) \in events /\ Tells(event(o), o, StageOf[status])
  BY DEF Tells, OrderEvent
<1> HIDE DEF events
<1>4. q \in Seq(events) /\ \A e \in events : \E i \in DOMAIN q : q[i] = e
  BY <1>1, SetToSeqLemma DEF events, EventsOf
<1>5. \A i \in DOMAIN q : q[i] \in events
  BY <1>4
<1>6. q \in Seq(Event)
  <2>1. events \subseteq Event
    BY <1>2 DEF Event, OrderEvent
  <2>2. QED
    BY <1>4, <2>1
<1>7. \A o \in found : \E i \in DOMAIN q : Tells(q[i], o, StageOf[status])
  BY <1>3, <1>4
<1>8. QED
  BY <1>2, <1>5, <1>6, <1>7

(* An answer tells of the stage orders are in, and of every order asked for. *)
LEMMA AnswerLemma ==
  ASSUME NEW c \in Command
  PROVE  /\ Answer(c) \in Seq(Event)
         /\ \A i \in DOMAIN Answer(c) : \A o \in OrderId : \A a \in Stage :
              Tells(Answer(c)[i], o, a) => a = orders[o]
         /\ c = [command |-> "GetCreated"] =>
              \A o \in OrderId : orders[o] = "created" =>
                \E i \in DOMAIN Answer(c) : Tells(Answer(c)[i], o, "created")
         /\ \A o \in OrderId :
              c = [command |-> "GetFulfilled", unlockAuthority |-> Taker[o]]
                /\ orders[o] = "fulfilled" =>
                  \E i \in DOMAIN Answer(c) : Tells(Answer(c)[i], o, "fulfilled")
<1>1. c.command \in {"Subscription", "GetCreated", "GetFulfilled"}
  BY DEF Command
<1>2. CASE c.command = "Subscription"
  <2>1. Answer(c) = <<[ack |-> TRUE]>>
    BY <1>2 DEF Answer
  <2>2. [ack |-> TRUE] \in Event /\ [ack |-> TRUE] \notin OrderEvent
    BY DEF Event, OrderEvent
  <2>3. \A o, a : ~Tells([ack |-> TRUE], o, a)
    BY <2>2 DEF Tells
  <2>4. DOMAIN Answer(c) = {1} /\ Answer(c)[1] = [ack |-> TRUE] /\ Answer(c) \in Seq(Event)
    BY <2>1, <2>2
  <2>5. /\ c # [command |-> "GetCreated"]
        /\ \A k : c # [command |-> "GetFulfilled", unlockAuthority |-> k]
    BY <1>2
  <2>6. QED
    BY <2>3, <2>4, <2>5
<1>3. CASE c.command = "GetCreated"
  <2> DEFINE found == {o \in OrderId : orders[o] = "created"}
  <2>1. Answer(c) = EventsOf(found, "ArchivalCreated")
    BY <1>3 DEF Answer, EventsOf
  <2>2. "ArchivalCreated" \in DOMAIN StageOf /\ StageOf["ArchivalCreated"] = "created"
    BY DEF StageOf
  <2>3. found \in SUBSET OrderId /\ \A o \in OrderId : o \in found <=> orders[o] = "created"
    OBVIOUS
  <2> HIDE DEF found
  <2>4. /\ Answer(c) \in Seq(Event)
        /\ \A i \in DOMAIN Answer(c) : /\ Answer(c)[i].order \in found
                                       /\ Answer(c)[i].status = "ArchivalCreated"
        /\ \A o \in found : \E i \in DOMAIN Answer(c) : Tells(Answer(c)[i], o, "created")
    BY <2>1, <2>2, <2>3, EventsLemma
  <2>5. \A k : c # [command |-> "GetFulfilled", unlockAuthority |-> k]
    BY <1>3
  <2>6. QED
    BY <2>2, <2>3, <2>4, <2>5 DEF Tells
<1>4. CASE c.command = "GetFulfilled"
  <2> DEFINE found == {o \in OrderId : orders[o] = "fulfilled" /\ Taker[o] \in {c.unlockAuthority}}
  <2>1. Answer(c) = EventsOf(found, "ArchivalFulfilled")
    BY <1>4 DEF Answer, EventsOf
  <2>2. "ArchivalFulfilled" \in DOMAIN StageOf /\ StageOf["ArchivalFulfilled"] = "fulfilled"
    BY DEF StageOf
  <2>3. /\ found \in SUBSET OrderId
        /\ \A o \in OrderId : /\ o \in found => orders[o] = "fulfilled"
                              /\ orders[o] = "fulfilled" /\ Taker[o] = c.unlockAuthority => o \in found
    OBVIOUS
  <2> HIDE DEF found
  <2>4. /\ Answer(c) \in Seq(Event)
        /\ \A i \in DOMAIN Answer(c) : /\ Answer(c)[i].order \in found
                                       /\ Answer(c)[i].status = "ArchivalFulfilled"
        /\ \A o \in found : \E i \in DOMAIN Answer(c) : Tells(Answer(c)[i], o, "fulfilled")
    BY <2>1, <2>2, <2>3, EventsLemma
  <2>5. c # [command |-> "GetCreated"]
    BY <1>4
  <2>6. \A k : c = [command |-> "GetFulfilled", unlockAuthority |-> k] => c.unlockAuthority = k
    OBVIOUS
  <2>7. QED
    BY <2>2, <2>3, <2>4, <2>5, <2>6 DEF Tells
<1>5. QED
  BY <1>1, <1>2, <1>3, <1>4

-----------------------------------------------------------------------------
(* Steps.                                                                   *)

(* The new socket, and what has not changed in a socket.                    *)
LEMMA NewSocketLemma ==
  /\ NewSocket \in Socket /\ NewSocket.state = "connecting" /\ NewSocket.inbox = <<>>
  /\ [NewSocket EXCEPT !.state = "dropped"] \in Socket
  /\ [NewSocket EXCEPT !.state = "dropped"].state = "dropped"
  /\ [NewSocket EXCEPT !.state = "dropped"].inbox = <<>>
<1>1. <<>> \in Seq(Command) /\ <<>> \in Seq(Event)
  OBVIOUS
<1>2. /\ NewSocket \in Socket /\ NewSocket.state = "connecting" /\ NewSocket.inbox = <<>>
  BY <1>1 DEF NewSocket, Socket
<1>3. ASSUME NEW s \in Socket
      PROVE  /\ [s EXCEPT !.state = "dropped"] \in Socket
             /\ [s EXCEPT !.state = "dropped"].state = "dropped"
             /\ [s EXCEPT !.state = "dropped"].inbox = s.inbox
  BY DEF Socket
<1>4. QED
  BY <1>2, <1>3

(* Nothing received is in order.                                            *)
LEMMA NothingInOrder == \A h, os : InOrder(<<>>, h, os)
BY DEF InOrder

LEMMA InitInv == Init => IInv
<1> SUFFICES ASSUME Init PROVE IInv
  OBVIOUS
<1>1. TypeOK
  BY WsFeedAssumption, NewSocketLemma DEF Init, TypeOK, Stage
<1>2. HandedInOrder
  <2>1. InOrder(socket.inbox, handed, orders)
    BY NewSocketLemma, NothingInOrder DEF Init
  <2>2. QED
    BY <2>1 DEF Init, HandedInOrder, Before
<1>3. OneDelivers /\ SubscribedFirst /\ NothingMissed
  BY NewSocketLemma DEF Init, OneDelivers, SubscribedFirst, NothingMissed
<1>4. QED
  BY <1>1, <1>2, <1>3 DEF IInv

(* Steps of the timer, the server and the network that touch no connection  *)
(* and no order.                                                            *)
LEMMA IdleStep ==
  ASSUME IInv, UNCHANGED <<orders, socket, previous, handed>>,
         up' \in BOOLEAN, faults' \in 0..MaxFaults, timer' \in 0..PingTimeout
  PROVE  IInv'
<1>1. TypeOK'
  BY DEF IInv, TypeOK
<1>2. HandedInOrder' /\ OneDelivers' /\ SubscribedFirst'
  BY DEF IInv, HandedInOrder, OneDelivers, SubscribedFirst
<1>3. NothingMissed'
  BY DEF IInv, NothingMissed, Covered
<1>4. QED
  BY <1>1, <1>2, <1>3 DEF IInv

(* The timer runs out: the next connection starts with nothing received,    *)
(* and what the one before had received is still in order.                  *)
LEMMA StaleStep == ASSUME IInv, Stale PROVE IInv'
<1>1. /\ previous' = Terminated(socket)
      /\ socket' = NewSocket /\ timer' = PingTimeout
      /\ UNCHANGED <<orders, up, faults, handed>>
  BY DEF Stale, InitWs, Heartbeat
<1>2. /\ Terminated(socket) \in Socket \cup {None}
      /\ Terminated(socket) # None =>
           Terminated(socket).state = "closing" /\ Terminated(socket).inbox = socket.inbox
  BY DEF Terminated, IInv, TypeOK, Socket
<1>3. TypeOK'
  BY <1>1, <1>2, NewSocketLemma, WsFeedAssumption DEF IInv, TypeOK
<1>4. HandedInOrder'
  <2>1. InOrder(socket'.inbox, handed, orders)
    BY <1>1, NewSocketLemma, NothingInOrder
  <2>2. previous' # None => InOrder(previous'.inbox, handed, orders)
    BY <1>1, <1>2 DEF IInv, HandedInOrder
  <2>3. QED
    BY <1>1, <2>1, <2>2 DEF IInv, HandedInOrder
<1>5. OneDelivers' /\ SubscribedFirst' /\ NothingMissed'
  BY <1>1, <1>2, NewSocketLemma DEF OneDelivers, SubscribedFirst, NothingMissed
<1>6. QED
  BY <1>3, <1>4, <1>5 DEF IInv

(* A socket opens: everything is to be asked for.                           *)
LEMMA SocketOpenStep == ASSUME IInv, SocketOpen PROVE IInv'
<1>1. /\ socket.state = "connecting"
      /\ socket' = [socket EXCEPT !.state = "open", !.commands = Commands]
      /\ timer' = PingTimeout
      /\ UNCHANGED <<orders, up, faults, previous, handed>>
  BY DEF SocketOpen, Heartbeat
<1>2. previous = None
  BY DEF SocketOpen, IInv, OneDelivers
<1>3. /\ socket' \in Socket
      /\ socket'.state = "open" /\ socket'.commands = Commands /\ socket'.inbox = socket.inbox
  BY <1>1, CommandsLemma DEF IInv, TypeOK, Socket
<1>4. TypeOK'
  BY <1>1, <1>3, WsFeedAssumption DEF IInv, TypeOK
<1>5. HandedInOrder' /\ OneDelivers' /\ SubscribedFirst'
  BY <1>1, <1>2, <1>3 DEF IInv, HandedInOrder, OneDelivers, SubscribedFirst
<1>6. NothingMissed'
  BY <1>1, <1>3, CommandsLemma DEF NothingMissed, Covered
<1>7. QED
  BY <1>4, <1>5, <1>6 DEF IInv

(* The processor is told of the first event received.                       *)
LEMMA HandleEventLemma ==
  ASSUME IInv, NEW inbox \in Seq(Event), inbox # <<>>, InOrder(inbox, handed, orders),
         HandleEvent(Head(inbox))
  PROVE  /\ handed' = Delivered(inbox, handed)
         /\ handed' \in [OrderId -> Stage]
         /\ InOrder(Tail(inbox), handed', orders)
         /\ Tail(inbox) \in Seq(Event)
         /\ \A o \in OrderId : /\ Before(handed'[o], orders[o])
                               /\ Rank[handed[o]] <= Rank[handed'[o]]
<1>1. handed' = Delivered(inbox, handed)
  BY DEF HandleEvent, Delivered, OrderEvent
<1>2. /\ handed \in [OrderId -> Stage] /\ orders \in [OrderId -> Stage]
      /\ \A o \in OrderId : Before(handed[o], orders[o])
  BY DEF IInv, TypeOK, HandedInOrder
<1>3. Tail(inbox) \in Seq(Event)
  BY TailLemma
<1>4. QED
  BY <1>1, <1>2, <1>3, DeliveredInOrder

(* Nothing is missed when the first event of the open socket is delivered.  *)
LEMMA DeliveredCovers ==
  ASSUME IInv, socket.inbox # <<>>, NEW o \in OrderId,
         NEW stage \in {"created", "fulfilled"}, orders[o] = stage, NEW command,
         handed' = Delivered(socket.inbox, handed),
         Before(handed'[o], orders[o]), Rank[handed[o]] <= Rank[handed'[o]],
         handed' \in [OrderId -> Stage],
         socket'.inbox = Tail(socket.inbox), socket'.commands = socket.commands,
         Covered(o, stage, command)
  PROVE  Covered(o, stage, command)'
<1> DEFINE inbox == socket.inbox
<1>1. /\ inbox \in Seq(Event)
      /\ handed \in [OrderId -> Stage]
  BY DEF IInv, TypeOK, Socket
<1>2. /\ Head(inbox) = inbox[1]
      /\ \A i \in DOMAIN inbox : i # 1 => i - 1 \in DOMAIN Tail(inbox) /\ Tail(inbox)[i - 1] = inbox[i]
  BY <1>1, TailLemma
<1>3. CASE handed[o] = stage
  <2>1. stage \in Stage /\ handed'[o] \in Stage
    BY DEF Stage
  <2>2. handed'[o] = stage
    <3>1. handed'[o] = stage \/ Rank[handed'[o]] < Rank[stage]
      BY DEF Before
    <3>2. Rank[stage] <= Rank[handed'[o]]
      BY <1>3
    <3>3. Rank[stage] \in Nat /\ Rank[handed'[o]] \in Nat
      BY <2>1, StageLemma
    <3>4. QED
      BY <3>1, <3>2, <3>3
  <2>3. QED
    BY <2>2 DEF Covered
<1>4. ASSUME NEW i \in DOMAIN inbox, Tells(inbox[i], o, stage)
      PROVE  Covered(o, stage, command)'
  <2>1. CASE i = 1
    <3>1. Head(inbox) \in OrderEvent /\ Head(inbox).order = o /\ StageOf[Head(inbox).status] = stage
      BY <1>2, <1>4, <2>1 DEF Tells
    <3>2. handed' = [handed EXCEPT ![o] = stage]
      BY <3>1 DEF Delivered
    <3>3. handed'[o] = stage
      BY <1>1, <3>2
    <3>4. QED
      BY <3>3 DEF Covered
  <2>2. CASE i # 1
    <3>1. i - 1 \in DOMAIN socket'.inbox /\ Tells(socket'.inbox[i - 1], o, stage)
      BY <1>2, <1>4, <2>2
    <3>2. QED
      BY <3>1 DEF Covered
  <2>3. QED
    BY <2>1, <2>2
<1>5. CASE \E i \in DOMAIN socket.commands : socket.commands[i] = command
  BY <1>5 DEF Covered
<1>6. QED
  BY <1>3, <1>4, <1>5 DEF Covered

LEMMA MessageStep == ASSUME IInv, Message PROVE IInv'
<1>1. /\ socket.state = "open" /\ socket.inbox # <<>>
      /\ HandleEvent(Head(socket.inbox))
      /\ socket' = [socket EXCEPT !.inbox = Tail(socket.inbox)]
      /\ UNCHANGED <<orders, up, faults, previous, timer>>
  BY DEF Message
<1>2. socket \in Socket /\ socket.inbox \in Seq(Event)
  BY DEF IInv, TypeOK, Socket
<1>3. /\ handed' = Delivered(socket.inbox, handed)
      /\ handed' \in [OrderId -> Stage]
      /\ InOrder(Tail(socket.inbox), handed', orders)
      /\ Tail(socket.inbox) \in Seq(Event)
      /\ \A o \in OrderId : /\ Before(handed'[o], orders[o])
                            /\ Rank[handed[o]] <= Rank[handed'[o]]
  BY <1>1, <1>2, HandleEventLemma DEF IInv, HandedInOrder
<1>4. /\ socket' \in Socket /\ socket'.state = "open" /\ socket'.inbox = Tail(socket.inbox)
      /\ socket'.commands = socket.commands /\ socket'.subscribed = socket.subscribed
  BY <1>1, <1>2, <1>3 DEF Socket
<1>5. previous = None
  BY <1>1 DEF IInv, OneDelivers
<1>6. TypeOK'
  BY <1>1, <1>3, <1>4 DEF IInv, TypeOK
<1>7. HandedInOrder'
  BY <1>1, <1>3, <1>4, <1>5 DEF HandedInOrder
<1>8. OneDelivers' /\ SubscribedFirst'
  BY <1>1, <1>4, <1>5 DEF IInv, OneDelivers, SubscribedFirst
<1>9. NothingMissed'
  <2> SUFFICES ASSUME NEW o \in OrderId
               PROVE  /\ orders[o] = "created" => Covered(o, "created", [command |-> "GetCreated"])'
                      /\ orders[o] = "fulfilled" /\ Taker[o] \in Range(UnlockAuthorities) =>
                           Covered(o, "fulfilled",
                                   [command |-> "GetFulfilled", unlockAuthority |-> Taker[o]])'
    BY <1>1 DEF NothingMissed, Covered
  <2>1. ASSUME orders[o] = "created"
        PROVE  Covered(o, "created", [command |-> "GetCreated"])'
    <3>1. Covered(o, "created", [command |-> "GetCreated"])
      BY <1>1, <2>1 DEF IInv, NothingMissed
    <3>2. QED
      BY <1>1, <1>3, <1>4, <2>1, <3>1, DeliveredCovers
  <2>2. ASSUME orders[o] = "fulfilled", Taker[o] \in Range(UnlockAuthorities)
        PROVE  Covered(o, "fulfilled", [command |-> "GetFulfilled", unlockAuthority |-> Taker[o]])'
    <3>1. Covered(o, "fulfilled", [command |-> "GetFulfilled", unlockAuthority |-> Taker[o]])
      BY <1>1, <2>2 DEF IInv, NothingMissed
    <3>2. QED
      BY <1>1, <1>3, <1>4, <2>2, <3>1, DeliveredCovers
  <2>3. QED
    BY <2>1, <2>2
<1>10. QED
  BY <1>6, <1>7, <1>8, <1>9 DEF IInv

(* What the terminated socket had received reaches the processor before the *)
(* next one opens.                                                          *)
LEMMA LateMessageStep == ASSUME IInv, LateMessage PROVE IInv'
<1>1. /\ previous # None /\ previous.inbox # <<>>
      /\ HandleEvent(Head(previous.inbox))
      /\ previous' = [previous EXCEPT !.inbox = Tail(previous.inbox)]
      /\ UNCHANGED <<orders, up, faults, socket, timer>>
  BY DEF LateMessage
<1>2. previous \in Socket /\ previous.inbox \in Seq(Event)
  BY <1>1 DEF IInv, TypeOK, Socket
<1>3. /\ handed' \in [OrderId -> Stage]
      /\ InOrder(Tail(previous.inbox), handed', orders)
      /\ Tail(previous.inbox) \in Seq(Event)
      /\ \A o \in OrderId : Before(handed'[o], orders[o])
  BY <1>1, <1>2, HandleEventLemma DEF IInv, HandedInOrder
<1>4. /\ previous' \in Socket /\ previous'.state = previous.state
      /\ previous'.inbox = Tail(previous.inbox)
  BY <1>1, <1>2, <1>3 DEF Socket
<1>5. /\ previous.state = "closing" /\ socket.state # "open" /\ socket.inbox = <<>>
      /\ socket.state \in {"connecting", "open", "dropped"}
  BY <1>1 DEF IInv, OneDelivers
<1>6. TypeOK'
  BY <1>1, <1>3, <1>4 DEF IInv, TypeOK
<1>7. HandedInOrder'
  <2>1. InOrder(socket'.inbox, handed', orders)
    BY <1>1, <1>5, NothingInOrder
  <2>2. QED
    BY <1>1, <1>3, <1>4, <2>1 DEF HandedInOrder
<1>8. OneDelivers' /\ SubscribedFirst' /\ NothingMissed'
  BY <1>1, <1>4, <1>5 DEF OneDelivers, SubscribedFirst, NothingMissed
<1>9. QED
  BY <1>6, <1>7, <1>8 DEF IInv

(* What had not been emitted by the time the socket is closed is lost.      *)
LEMMA PreviousClosesStep == ASSUME IInv, PreviousCloses PROVE IInv'
<1>1. previous' = None /\ UNCHANGED <<orders, up, faults, socket, timer, handed>>
  BY DEF PreviousCloses
<1>2. TypeOK' /\ HandedInOrder' /\ OneDelivers' /\ SubscribedFirst'
  BY <1>1 DEF IInv, TypeOK, HandedInOrder, OneDelivers, SubscribedFirst
<1>3. NothingMissed'
  BY <1>1 DEF IInv, NothingMissed, Covered
<1>4. QED
  BY <1>2, <1>3 DEF IInv

(* The connection is dropped: what it was to deliver is gone with it.       *)
LEMMA DropsStep == ASSUME IInv, Drops PROVE IInv'
<1>1. /\ faults < MaxFaults /\ faults' = faults + 1
      /\ socket' = [NewSocket EXCEPT !.state = "dropped"]
      /\ UNCHANGED <<orders, up, previous, timer, handed>>
  BY DEF Drops
<1>2. socket' \in Socket /\ socket'.state = "dropped" /\ socket'.inbox = <<>>
  BY <1>1, NewSocketLemma
<1>3. TypeOK'
  BY <1>1, <1>2, WsFeedAssumption DEF IInv, TypeOK
<1>4. HandedInOrder'
  BY <1>1, <1>2, NothingInOrder DEF IInv, HandedInOrder
<1>5. OneDelivers' /\ SubscribedFirst' /\ NothingMissed'
  BY <1>1, <1>2 DEF IInv, OneDelivers, SubscribedFirst, NothingMissed
<1>6. QED
  BY <1>3, <1>4, <1>5 DEF IInv

(* The server acts on the first command: what was to be asked for is on its *)
(* way now.                                                                 *)
LEMMA ServeStep == ASSUME IInv, Serve PROVE IInv'
<1> DEFINE c == Head(socket.commands)
<1>1. /\ socket.state = "open" /\ socket.commands # <<>>
      /\ socket' = [socket EXCEPT !.commands = Tail(socket.commands),
                       !.inbox = socket.inbox \o Answer(c),
                       !.subscribed = socket.subscribed \/ c.command = "Subscription"]
      /\ UNCHANGED <<orders, up, faults, previous, timer, handed>>
  BY DEF Serve
<1>2. /\ socket \in Socket /\ socket.inbox \in Seq(Event)
      /\ socket.commands \in Seq(Command) /\ socket.subscribed \in BOOLEAN
  BY DEF IInv, TypeOK, Socket
<1>3. /\ c = socket.commands[1] /\ c \in Command
      /\ Tail(socket.commands) \in Seq(Command)
      /\ \A i \in DOMAIN socket.commands : i # 1 =>
           /\ i - 1 \in DOMAIN Tail(socket.commands)
           /\ Tail(socket.commands)[i - 1] = socket.commands[i]
  <2>1. 1 \in DOMAIN socket.commands /\ c = socket.commands[1]
    BY <1>1, <1>2, TailLemma
  <2>2. socket.commands[1] \in Command
    BY <1>2, <2>1
  <2>3. QED
    BY <1>1, <1>2, <2>1, <2>2, TailLemma
<1> HIDE DEF c
<1>4. /\ Answer(c) \in Seq(Event)
      /\ \A i \in DOMAIN Answer(c) : \A o \in OrderId : \A a \in Stage :
           Tells(Answer(c)[i], o, a) => a = orders[o]
  BY <1>3, AnswerLemma
<1>5. /\ socket.inbox \o Answer(c) \in Seq(Event)
      /\ \A i \in DOMAIN socket.inbox :
           /\ i \in DOMAIN (socket.inbox \o Answer(c))
           /\ (socket.inbox \o Answer(c))[i] = socket.inbox[i]
      /\ \A i \in DOMAIN Answer(c) :
           /\ i + Len(socket.inbox) \in DOMAIN (socket.inbox \o Answer(c))
           /\ (socket.inbox \o Answer(c))[i + Len(socket.inbox)] = Answer(c)[i]
  BY <1>2, <1>4, ConcatLemma
<1>6. /\ socket' \in Socket /\ socket'.state = "open"
      /\ socket'.commands = Tail(socket.commands)
      /\ socket'.inbox = socket.inbox \o Answer(c)
      /\ c.command = "Subscription" \/ socket.subscribed => socket'.subscribed
  <2>1. (socket.subscribed \/ c.command = "Subscription") \in BOOLEAN
    BY <1>2
  <2>2. QED
    BY <1>1, <1>2, <1>3, <1>5, <2>1 DEF Socket
<1>7. TypeOK'
  BY <1>1, <1>6 DEF IInv, TypeOK
<1>8. HandedInOrder'
  <2>1. InOrder(socket.inbox \o Answer(c), handed, orders)
    <3>1. /\ handed \in [OrderId -> Stage] /\ orders \in [OrderId -> Stage]
          /\ InOrder(socket.inbox, handed, orders)
          /\ \A o \in OrderId : Before(handed[o], orders[o])
      BY DEF IInv, TypeOK, HandedInOrder
    <3>2. QED
      BY <1>2, <1>4, <3>1, AnsweredInOrder
  <2>2. QED
    BY <1>1, <1>6, <2>1 DEF IInv, HandedInOrder
<1>9. OneDelivers'
  BY <1>1, <1>6 DEF IInv, OneDelivers
<1>10. SubscribedFirst'
  <2>1. CASE socket.subscribed
    BY <1>6, <2>1 DEF SubscribedFirst
  <2>2. CASE ~socket.subscribed
    <3>1. c = [command |-> "Subscription"]
      BY <1>1, <2>2, CommandsLemma DEF IInv, SubscribedFirst, c
    <3>2. QED
      BY <1>6, <3>1 DEF SubscribedFirst
  <2>3. QED
    BY <2>1, <2>2
<1>11. ASSUME NEW o \in OrderId, NEW stage, NEW command, Covered(o, stage, command),
              c = command => \E i \in DOMAIN Answer(c) : Tells(Answer(c)[i], o, stage)
       PROVE  Covered(o, stage, command)'
  <2>1. CASE handed[o] = stage
    BY <1>1, <2>1 DEF Covered
  <2>2. CASE \E i \in DOMAIN socket.inbox : Tells(socket.inbox[i], o, stage)
    BY <1>5, <1>6, <2>2 DEF Covered
  <2>3. ASSUME NEW i \in DOMAIN socket.commands, socket.commands[i] = command
        PROVE  Covered(o, stage, command)'
    <3>1. CASE i = 1
      <4>1. PICK j \in DOMAIN Answer(c) : Tells(Answer(c)[j], o, stage)
        BY <1>3, <1>11, <2>3, <3>1
      <4>2. QED
        BY <1>5, <1>6, <4>1 DEF Covered
    <3>2. CASE i # 1
      BY <1>3, <1>6, <2>3, <3>2 DEF Covered
    <3>3. QED
      BY <3>1, <3>2
  <2>4. QED
    BY <1>11, <2>1, <2>2, <2>3 DEF Covered
<1>12. NothingMissed'
  <2> SUFFICES ASSUME NEW o \in OrderId
               PROVE  /\ orders[o] = "created" => Covered(o, "created", [command |-> "GetCreated"])'
                      /\ orders[o] = "fulfilled" /\ Taker[o] \in Range(UnlockAuthorities) =>
                           Covered(o, "fulfilled",
                                   [command |-> "GetFulfilled", unlockAuthority |-> Taker[o]])'
    BY <1>1 DEF NothingMissed, Covered
  <2>1. ASSUME orders[o] = "created"
        PROVE  Covered(o, "created", [command |-> "GetCreated"])'
    <3>1. Covered(o, "created", [command |-> "GetCreated"])
      BY <1>1, <2>1 DEF IInv, NothingMissed
    <3>2. c = [command |-> "GetCreated"] =>
            \E i \in DOMAIN Answer(c) : Tells(Answer(c)[i], o, "created")
      BY <1>3, <2>1, AnswerLemma
    <3>3. QED
      BY <1>11, <3>1, <3>2
  <2>2. ASSUME orders[o] = "fulfilled", Taker[o] \in Range(UnlockAuthorities)
        PROVE  Covered(o, "fulfilled", [command |-> "GetFulfilled", unlockAuthority |-> Taker[o]])'
    <3>1. Covered(o, "fulfilled", [command |-> "GetFulfilled", unlockAuthority |-> Taker[o]])
      BY <1>1, <2>2 DEF IInv, NothingMissed
    <3>2. c = [command |-> "GetFulfilled", unlockAuthority |-> Taker[o]] =>
            \E i \in DOMAIN Answer(c) : Tells(Answer(c)[i], o, "fulfilled")
      BY <1>3, <2>2, AnswerLemma
    <3>3. QED
      BY <1>11, <3>1, <3>2
  <2>3. QED
    BY <2>1, <2>2
<1>13. QED
  BY <1>7, <1>8, <1>9, <1>10, <1>12 DEF IInv

(* An order moves on: a subscriber is told, and one that is not subscribed  *)
(* yet will ask for it.                                                     *)
LEMMA MovesStep ==
  ASSUME IInv, NEW o \in OrderId, NEW from \in Stage, NEW status \in DOMAIN StageOf,
         Rank[from] < Rank[StageOf[status]], Moves(o, from, status)
  PROVE  IInv'
<1> DEFINE stage == StageOf[status]
           e == [order |-> o, status |-> status]
<1>1. /\ orders[o] = from
      /\ orders' = [orders EXCEPT ![o] = stage]
      /\ socket' = Told(socket, e)
      /\ previous' = IF previous = None THEN None ELSE Told(previous, e)
      /\ UNCHANGED <<up, faults, timer, handed>>
  BY DEF Moves
<1>2. stage \in Stage /\ Tells(e, o, stage) /\ e \in OrderEvent /\ e.order = o /\ e \in Event
  BY StageLemma DEF Tells, OrderEvent, Event
<1>3. /\ socket \in Socket /\ socket.inbox \in Seq(Event)
      /\ orders \in [OrderId -> Stage] /\ handed \in [OrderId -> Stage]
      /\ orders' \in [OrderId -> Stage]
      /\ orders'[o] = stage /\ \A x \in OrderId \ {o} : orders'[x] = orders[x]
  BY <1>1, <1>2 DEF IInv, TypeOK, Socket
<1>4. Rank[orders[o]] < Rank[stage]
  BY <1>1
<1> HIDE DEF stage
<1>5. previous' = previous
  BY <1>1 DEF IInv, OneDelivers, Told
<1>6. /\ \A x \in OrderId : Before(handed[x], orders'[x])
      /\ \A inbox : InOrder(inbox, handed, orders) => InOrder(inbox, handed, orders')
  <2>1. ASSUME NEW x \in OrderId PROVE Before(handed[x], orders'[x])
    <3>1. Before(handed[x], orders[x])
      BY DEF IInv, HandedInOrder
    <3>2. /\ Rank[handed[x]] \in Nat /\ Rank[orders[x]] \in Nat
          /\ Rank[orders'[x]] \in Nat
      BY <1>3, StageLemma
    <3>3. QED
      BY <1>3, <1>4, <3>1, <3>2 DEF Before
  <2>2. ASSUME NEW inbox, InOrder(inbox, handed, orders)
        PROVE  InOrder(inbox, handed, orders')
    BY <1>1, <1>2, <1>3, <1>4, <2>2, MovedInOrder
  <2>3. QED
    BY <2>1, <2>2
<1>7. CASE ~ (socket.subscribed /\ socket.state = "open")
  <2>1. socket' = socket
    BY <1>1, <1>7 DEF Told
  <2>2. TypeOK'
    BY <1>1, <1>3, <1>5, <2>1 DEF IInv, TypeOK
  <2>3. HandedInOrder'
    BY <1>1, <1>5, <1>6, <2>1 DEF IInv, HandedInOrder
  <2>4. OneDelivers' /\ SubscribedFirst'
    BY <1>5, <2>1 DEF IInv, OneDelivers, SubscribedFirst
  <2>5. NothingMissed'
    <3> SUFFICES ASSUME socket.state = "open" PROVE NothingMissed'
      BY <2>1 DEF NothingMissed
    <3>1. socket'.commands = Commands
      BY <1>7, <2>1 DEF IInv, TypeOK, Socket, SubscribedFirst
    <3>2. QED
      BY <3>1, CommandsLemma DEF NothingMissed, Covered
  <2>6. QED
    BY <2>2, <2>3, <2>4, <2>5 DEF IInv
<1>8. CASE socket.subscribed /\ socket.state = "open"
  <2> DEFINE inbox == socket.inbox \o <<e>>
  <2>1. <<e>> \in Seq(Event) /\ DOMAIN <<e>> = {1} /\ <<e>>[1] = e
    BY <1>2
  <2>2. /\ inbox \in Seq(Event)
        /\ \A i \in DOMAIN socket.inbox : i \in DOMAIN inbox /\ inbox[i] = socket.inbox[i]
        /\ 1 + Len(socket.inbox) \in DOMAIN inbox /\ inbox[1 + Len(socket.inbox)] = e
    BY <1>3, <2>1, ConcatLemma
  <2>3. Append(socket.inbox, e) = inbox
    BY <1>2, <1>3
  <2>4. InOrder(inbox, handed, orders')
    <3>1. InOrder(socket.inbox, handed, orders')
      BY <1>6 DEF IInv, HandedInOrder
    <3>2. \A i \in DOMAIN <<e>> : \A x \in OrderId : \A a \in Stage :
            Tells(<<e>>[i], x, a) => a = orders'[x]
      BY <1>2, <1>3, <2>1 DEF Tells
    <3>3. QED
      BY <1>3, <1>6, <2>1, <3>1, <3>2, AnsweredInOrder
  <2> HIDE DEF inbox
  <2>5. /\ socket' \in Socket /\ socket'.state = "open" /\ socket'.subscribed
        /\ socket'.inbox = inbox /\ socket'.commands = socket.commands
    BY <1>1, <1>3, <1>8, <2>2, <2>3 DEF Told, Socket
  <2>6. TypeOK'
    BY <1>1, <1>3, <1>5, <2>5 DEF IInv, TypeOK
  <2>7. HandedInOrder'
    BY <1>1, <1>5, <1>6, <2>4, <2>5 DEF IInv, HandedInOrder
  <2>8. OneDelivers' /\ SubscribedFirst'
    BY <1>5, <1>8, <2>5 DEF IInv, OneDelivers, SubscribedFirst
  <2>9. ASSUME NEW x \in OrderId, NEW s, NEW command, orders'[x] = s,
               orders[x] = s => Covered(x, s, command)
        PROVE  Covered(x, s, command)'
    <3>1. CASE x = o
      <4>1. Tells(inbox[1 + Len(socket.inbox)], x, s)
        BY <1>2, <1>3, <2>2, <2>9, <3>1
      <4>2. QED
        BY <2>2, <2>5, <4>1 DEF Covered
    <3>2. CASE x # o
      <4>1. Covered(x, s, command)
        BY <1>3, <2>9, <3>2
      <4>2. QED
        BY <1>1, <2>2, <2>5, <4>1 DEF Covered
    <3>3. QED
      BY <3>1, <3>2
  <2>10. NothingMissed'
    <3> SUFFICES ASSUME NEW x \in OrderId
                 PROVE  /\ orders'[x] = "created" => Covered(x, "created", [command |-> "GetCreated"])'
                        /\ orders'[x] = "fulfilled" /\ Taker[x] \in Range(UnlockAuthorities) =>
                             Covered(x, "fulfilled",
                                     [command |-> "GetFulfilled", unlockAuthority |-> Taker[x]])'
      BY DEF NothingMissed, Covered
    <3>1. /\ orders[x] = "created" => Covered(x, "created", [command |-> "GetCreated"])
          /\ orders[x] = "fulfilled" /\ Taker[x] \in Range(UnlockAuthorities) =>
               Covered(x, "fulfilled", [command |-> "GetFulfilled", unlockAuthority |-> Taker[x]])
      BY <1>8 DEF IInv, NothingMissed
    <3>2. QED
      BY <2>9, <3>1
  <2>11. QED
    BY <2>6, <2>7, <2>8, <2>10 DEF IInv
<1>9. QED
  BY <1>7, <1>8

(* Every step keeps the invariant.                                          *)
LEMMA NextStep == IInv /\ [Next]_vars => IInv'
<1> SUFFICES ASSUME IInv, [Next]_vars PROVE IInv'
  OBVIOUS
<1>1. /\ up \in BOOLEAN /\ faults \in 0..MaxFaults /\ timer \in 0..PingTimeout
      /\ MaxFaults \in Nat /\ PingTimeout \in Nat
  BY WsFeedAssumption DEF IInv, TypeOK
<1>2. CASE Client
  BY <1>2, StaleStep, SocketOpenStep, MessageStep, LateMessageStep, PreviousClosesStep DEF Client
<1>3. CASE Ping \/ LatePing
  <2>1. UNCHANGED <<orders, up, faults, socket, previous, handed>> /\ timer' = PingTimeout
    BY <1>3 DEF Ping, LatePing, Heartbeat
  <2>2. QED
    BY <1>1, <2>1, IdleStep
<1>4. CASE Tick
  <2>1. UNCHANGED <<orders, up, faults, socket, previous, handed>> /\ timer' \in 0..PingTimeout
    BY <1>1, <1>4 DEF Tick
  <2>2. QED
    BY <1>1, <2>1, IdleStep
<1>5. CASE Serve
  BY <1>5, ServeStep
<1>6. ASSUME NEW o \in OrderId, OrderMoves(o)
      PROVE  IInv'
  <2>1. /\ {"none", "created", "fulfilled"} \subseteq Stage
        /\ {"Created", "Cancelled", "Fulfilled", "UnlockSent"} \subseteq DOMAIN StageOf
        /\ StageOf["Created"] = "created" /\ StageOf["Cancelled"] = "cancelled"
        /\ StageOf["Fulfilled"] = "fulfilled" /\ StageOf["UnlockSent"] = "unlocked"
    BY DEF Stage, StageOf
  <2>2. /\ Rank["none"] < Rank["created"] /\ Rank["created"] < Rank["cancelled"]
        /\ Rank["created"] < Rank["fulfilled"] /\ Rank["fulfilled"] < Rank["unlocked"]
    BY StageLemma
  <2>3. QED
    BY <1>6, <2>1, <2>2, MovesStep DEF OrderMoves
<1>7. CASE GoesSilent \/ ComesBack
  <2>1. UNCHANGED <<orders, socket, previous, timer, handed>>
    BY <1>7 DEF GoesSilent, ComesBack
  <2>2. up' \in BOOLEAN /\ faults' \in 0..MaxFaults
    <3>1. CASE GoesSilent
      <4>1. up' = FALSE /\ faults' = faults + 1 /\ faults < MaxFaults
        BY <3>1 DEF GoesSilent
      <4>2. up' \in BOOLEAN
        BY <4>1
      <4>3. faults' \in 0..MaxFaults
        BY <1>1, <4>1
      <4>4. QED
        BY <4>2, <4>3
    <3>2. CASE ComesBack
      BY <1>1, <3>2 DEF ComesBack
    <3>3. QED
      BY <1>7, <3>1, <3>2
  <2>3. QED
    BY <1>1, <2>1, <2>2, IdleStep
<1>8. CASE Drops
  BY <1>8, DropsStep
<1>9. CASE UNCHANGED vars
  BY <1>1, <1>9, IdleStep DEF vars
<1>10. QED
  BY <1>2, <1>3, <1>4, <1>5, <1>6, <1>7, <1>8, <1>9 DEF Next

-----------------------------------------------------------------------------
(* The theorems.                                                            *)

(* The inductive invariant holds of every behaviour.                        *)
THEOREM Invariance == Spec => []IInv
<1>1. QED
  BY InitInv, NextStep, PTL DEF Spec

(* Type correctness: of the sockets, of what they received and of what is   *)
(* still to be asked, for any number of orders and authorities.             *)
THEOREM TypeCorrect == Spec => []TypeOK
<1>1. IInv => TypeOK
  BY DEF IInv
<1>2. QED
  BY <1>1, Invariance, PTL

(* A terminated socket and its successor never deliver at the same time.    *)
THEOREM DeliversAlone == Spec => []OneDelivers
<1>1. IInv => OneDelivers
  BY DEF IInv
<1>2. QED
  BY <1>1, Invariance, PTL

(* When a connection has nothing left to deliver, the processor knows every *)
(* order to be taken and every one of ours to be unlocked: nothing falls    *)
(* between the replay and the subscription, which comes first.              *)
THEOREM NothingFallsBetween == Spec => []InSync
<1>1. IInv => InSync
  BY DEF IInv, NothingMissed, Covered, InSync
<1>2. QED
  BY <1>1, Invariance, PTL

(* The processor is never told of an earlier stage of an order after a      *)
(* later one, over any number of connections.                               *)
THEOREM ForwardOnly == Spec => NeverBackwards
<1>1. IInv /\ [Next]_vars => [\A o \in OrderId : Rank[handed[o]] <= Rank[handed'[o]]]_vars
  <2> SUFFICES ASSUME IInv, Next, NEW o \in OrderId
               PROVE  Rank[handed[o]] <= Rank[handed'[o]]
    OBVIOUS
  <2>1. Rank[handed[o]] \in Nat
    BY StageLemma DEF IInv, TypeOK
  <2>2. CASE handed' = handed
    BY <2>1, <2>2
  <2>3. CASE Message
    <3>1. /\ socket.inbox \in Seq(Event) /\ socket.inbox # <<>>
          /\ InOrder(socket.inbox, handed, orders)
          /\ HandleEvent(Head(socket.inbox))
      BY <2>3 DEF Message, IInv, TypeOK, Socket, HandedInOrder
    <3>2. QED
      BY <3>1, HandleEventLemma
  <2>4. CASE LateMessage
    <3>1. /\ previous.inbox \in Seq(Event) /\ previous.inbox # <<>>
          /\ InOrder(previous.inbox, handed, orders)
          /\ HandleEvent(Head(previous.inbox))
      BY <2>4 DEF LateMessage, IInv, TypeOK, Socket, HandedInOrder
    <3>2. QED
      BY <3>1, HandleEventLemma
  <2>5. Message \/ LateMessage \/ handed' = handed
    BY DEF Next, Client, Stale, SocketOpen, PreviousCloses, Ping, LatePing, Tick, Serve,
           OrderMoves, Moves, GoesSilent, ComesBack, Drops
  <2>6. QED
    BY <2>2, <2>3, <2>4, <2>5
<1>2. QED
  BY <1>1, Invariance, PTL DEF Spec, NeverBackwards
=============================================================================
