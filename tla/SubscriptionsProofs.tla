------------------------ MODULE SubscriptionsProofs ------------------------
(* Proofs about Subscriptions, for all numbers of subscriptions, threads,  *)
(* clients and events.                                                     *)
EXTENDS Subscriptions, TLAPS

-----------------------------------------------------------------------------
(* The inductive invariant.                                                *)

\* Numbers that have not been given belong to no subscription.
FreshUnused == \A s \in Subs : s > next_subscription_id => phase[s] = "none"

\* Only an initialized subscription has events.
EventsWhenReady == \A s \in Subs : phase[s] # "ready" => events[s] = <<>>

\* Who initializes a subscription is the only one to do so, and it has not been
\* done.
InitializedOnce ==
  /\ \A c \in Clients : cpc[c] = "init" =>
       csub[c] \in Subs /\ phase[csub[c]] \in {"published", "freed"}
  /\ \A b, c \in Clients :
       (b # c /\ cpc[b] = "init" /\ cpc[c] = "init") => csub[b] # csub[c]

\* The event a client is about to copy is there.
CopyInRange ==
  \A c \in Clients : cpc[c] = "copy" =>
    csub[c] \in Subs /\ cevent[c] <= Len(events[csub[c]])

\* What is in the array, or about to be deleted, has not been freed.
ListedAlive ==
  /\ \A s \in subscriptions \cup condemned : phase[s] \in {"published", "ready"}
  /\ subscriptions \cap condemned = {}

\* Who reads the array is at a subscription in it, or at its end.
ReadersInArray ==
  /\ \A d \in Deliverers : dpc[d] = "loop" => dsub[d] \in subscriptions \cup {None}
  /\ \A c \in Clients : cpc[c] = "list" => csub[c] \in subscriptions \cup {None}

IInv ==
  /\ TypeOK /\ FreshUnused /\ EventsWhenReady /\ InitializedOnce
  /\ CopyInRange /\ ListedAlive /\ ReadersInArray

\* What the iterator finds is in the array, or nothing.
LEMMA FirstIn ==
  ASSUME NEW s \in First(subscriptions)
  PROVE  s \in subscriptions \cup {None}
  BY DEF First

\* The same of what it finds next.
LEMMA NextIn ==
  ASSUME NEW n, NEW s \in NextAfter(n)
  PROVE  s \in subscriptions \cup {None}
  BY DEF NextAfter, First

\* Adding an event keeps a sequence of at most MaxEvents events.
LEMMA KeptType ==
  ASSUME NEW q \in Seq(Event), Len(q) <= MaxEvents, NEW e \in Event
  PROVE  Kept(q, e) \in Seq(Event) /\ Len(Kept(q, e)) <= MaxEvents
<1> DEFINE a == Append(q, e)
<1>1. a \in Seq(Event) /\ Len(a) = Len(q) + 1 /\ a # <<>>
  OBVIOUS
<1> HIDE DEF a
<1>2. CASE Overfull(a)
  <2>1. Tail(a) \in Seq(Event) /\ Len(Tail(a)) = Len(a) - 1
    BY <1>1
  <2> QED BY <1>1, <1>2, <2>1 DEF Kept, a
<1>3. CASE ~Overfull(a)
  BY <1>1, <1>3, ConstantsAssumption DEF ConstantsAssumption, Kept, Overfull, a
<1> QED BY <1>2, <1>3

\* A thread that delivers is at a subscription that can take the event.
LEMMA DeliverTo ==
  ASSUME IInv, NEW d \in Deliverers, Deliver(d)
  PROVE  /\ dsub[d] \in subscriptions /\ dsub[d] \in Subs
         /\ [num |-> last_sequence[dsub[d]] + 1, event |-> devent[d]] \in Event
<1>1. dsub[d] \in subscriptions /\ dsub[d] \in Subs
  BY DEF IInv, ReadersInArray, TypeOK, ArrayType, Deliver
<1> QED
  BY <1>1 DEF IInv, TypeOK, SubType, DelivererType, Event

\* The event a client begins with is one of those the subscription has, or 0.
LEMMA IndexFound ==
  ASSUME IInv, NEW s \in Subs, NEW i
  PROVE  (IF i \in 1 .. Len(events[s]) THEN i ELSE 0) \in 0 .. MaxEvents
  BY ConstantsAssumption DEF ConstantsAssumption, IInv, TypeOK, EventsType

\* A client copies an event that is there, and the iterator stays in range.
LEMMA CopiedEvent ==
  ASSUME IInv, NEW c \in Clients, Copy(c)
  PROVE  LET s == csub[c]
             i == IF event_cursor[s] \in 1 .. Len(events[s]) - 1
                  THEN event_cursor[s] + 1 ELSE 0
         IN  /\ s \in Subs /\ cevent[c] \in 1 .. Len(events[s])
             /\ events[s][cevent[c]].num \in Nat
             /\ i \in 0 .. Len(events[s]) /\ i \in 0 .. MaxEvents
<1> DEFINE s == csub[c]
<1>1. s \in Subs /\ cevent[c] \in 1 .. Len(events[s])
  BY ConstantsAssumption
  DEF ConstantsAssumption, IInv, CopyInRange, TypeOK, ClientType, EventsType, Copy, At
<1>2. events[s] \in Seq(Event) /\ Len(events[s]) <= MaxEvents
  BY <1>1 DEF IInv, TypeOK, EventsType
<1>3. events[s][cevent[c]] \in Event
  BY <1>1, <1>2
<1>4. event_cursor[s] \in Nat
  BY <1>1 DEF IInv, TypeOK, EventsType
<1> HIDE DEF s
<1>5. (IF event_cursor[s] \in 1 .. Len(events[s]) - 1 THEN event_cursor[s] + 1 ELSE 0)
        \in 0 .. Len(events[s])
  BY <1>2, <1>4
<1>6. \A i \in 0 .. Len(events[s]) : i \in 0 .. MaxEvents
  BY <1>2, ConstantsAssumption DEF ConstantsAssumption
<1> QED BY <1>1, <1>3, <1>5, <1>6 DEF Event, s

\* Every step preserves the types.
LEMMA TypeStep == IInv /\ Next => TypeOK'
<1> USE DEF Subs, None, Before, subVars, arrayVars, delVars, cliVars
<1> SUFFICES ASSUME IInv, Next PROVE TypeOK'
  OBVIOUS
<1>1. ASSUME NEW d \in Deliverers, Raise(d)
      PROVE  TypeOK'
  <2>1. ArrayType'
    BY <1>1, ConstantsAssumption DEF ConstantsAssumption, IInv, TypeOK,
    ArrayType, Raise, MoveOn, First
  <2>2. DelivererType'
    <3>1. PICK t \in First(subscriptions) : dsub' = [dsub EXCEPT ![d] = t]
      BY <1>1 DEF Raise, MoveOn
    <3>2. t \in Subs \cup {None}
      BY <3>1, FirstIn DEF IInv, TypeOK, ArrayType
    <3> QED BY <1>1, <3>1, <3>2 DEF IInv, TypeOK, DelivererType, Raise
  <2>3. /\ raised' \in Nat /\ requests' \in Nat /\ crashed' \in BOOLEAN
       /\ alone' \in SUBSET (Deliverers \cup Clients)
       /\ SubType' /\ EventsType' /\ ClientType'
    BY <1>1 DEF IInv, TypeOK, SubType, EventsType, ClientType, Raise, MoveOn,
    First
  <2> QED BY <2>1, <2>2, <2>3 DEF TypeOK
<1>2. ASSUME NEW d \in Deliverers, Deliver(d)
      PROVE  TypeOK'
  <2> DEFINE s == dsub[d]
             e == [num |-> last_sequence[s] + 1, event |-> devent[d]]
  <2>1. s \in subscriptions /\ s \in Subs /\ e \in Event
    BY <1>2, DeliverTo
  <2>2. SubType'
    <3>1. \/ last_sequence' = last_sequence
          \/ last_sequence' = [last_sequence EXCEPT ![s] = @ + 1]
      BY <1>2 DEF Deliver
    <3>2. \/ first_sequence' = first_sequence
          \/ first_sequence' = [first_sequence EXCEPT ![s] = @ + 1]
      <4>1. \/ first_sequence' = first_sequence
            \/ first_sequence' = [first_sequence EXCEPT ![s] =
                 IF Overfull(Append(events[s], e)) THEN @ + 1 ELSE @]
        BY <1>2 DEF Deliver
      <4>2. [first_sequence EXCEPT ![s] = @] = first_sequence
        BY DEF IInv, TypeOK, SubType
      <4> HIDE DEF e
      <4> QED BY <4>1, <4>2
    <3>3. UNCHANGED <<phase, mask, is_canceled, expired>>
      BY <1>2 DEF Deliver
    <3>4. last_sequence' \in [Subs -> Nat]
      BY <2>1, <3>1 DEF IInv, TypeOK, SubType
    <3>5. first_sequence' \in [Subs -> Nat]
      BY <2>1, <3>2 DEF IInv, TypeOK, SubType
    <3> QED BY <3>3, <3>4, <3>5 DEF IInv, TypeOK, SubType
  <2>3. EventsType'
    <3>1. events[s] \in Seq(Event) /\ Len(events[s]) <= MaxEvents
      BY <2>1 DEF IInv, TypeOK, EventsType
    <3>2. Kept(events[s], e) \in Seq(Event) /\ Len(Kept(events[s], e)) <= MaxEvents
      BY <2>1, <3>1, KeptType
    <3>3. events' = events \/ events' = [events EXCEPT ![s] = Kept(@, e)]
      BY <1>2 DEF Deliver
    <3>4. event_cursor' = event_cursor
      BY <1>2 DEF Deliver
    <3> HIDE DEF s, e
    <3> QED BY <2>1, <3>2, <3>3, <3>4 DEF IInv, TypeOK, EventsType
  <2>4. ArrayType' /\ DelivererType'
    <3>1. PICK t \in NextAfter(cursor) : cursor' = t /\ dsub' = [dsub EXCEPT ![d] = t]
      BY <1>2 DEF Deliver, MoveOn
    <3>2. t \in Subs \cup {None}
      BY <3>1, NextIn DEF IInv, TypeOK, ArrayType
    <3>3. UNCHANGED <<arrayVars, dpc, devent>>
      BY <1>2 DEF Deliver
    <3> QED BY <3>1, <3>2, <3>3 DEF IInv, TypeOK, ArrayType, DelivererType
  <2>5. ClientType'
    BY <1>2 DEF IInv, TypeOK, ClientType, Deliver
  <2>6. /\ raised' \in Nat /\ requests' \in Nat /\ crashed' \in BOOLEAN
        /\ alone' \in SUBSET (Deliverers \cup Clients)
    BY <1>2 DEF IInv, TypeOK, Deliver
  <2> QED BY <2>2, <2>3, <2>4, <2>5, <2>6 DEF TypeOK
<1>3. ASSUME NEW d \in Deliverers, EndDelivery(d)
      PROVE  TypeOK'
  <2>1. ArrayType'
    BY <1>3, ConstantsAssumption DEF ConstantsAssumption, IInv, TypeOK,
    ArrayType, EndDelivery
  <2>2. DelivererType'
    BY <1>3, ConstantsAssumption DEF ConstantsAssumption, IInv, TypeOK,
    DelivererType, EndDelivery
  <2>3. /\ raised' \in Nat /\ requests' \in Nat /\ crashed' \in BOOLEAN
       /\ alone' \in SUBSET (Deliverers \cup Clients)
       /\ SubType' /\ EventsType' /\ ClientType'
    BY <1>3 DEF IInv, TypeOK, SubType, EventsType, ClientType, EndDelivery
  <2> QED BY <2>1, <2>2, <2>3 DEF TypeOK
<1>4. ASSUME NEW c \in Clients, Create(c)
      PROVE  TypeOK'
  <2>1. SubType'
    BY <1>4, ConstantsAssumption DEF ConstantsAssumption, IInv, TypeOK,
    SubType, Create, Ask
  <2>2. ArrayType'
    BY <1>4, ConstantsAssumption DEF ConstantsAssumption, IInv, TypeOK,
    ArrayType, Create, Ask
  <2>3. ClientType'
    BY <1>4, ConstantsAssumption DEF ConstantsAssumption, IInv, TypeOK,
    ClientType, Create, Ask
  <2>4. /\ raised' \in Nat /\ requests' \in Nat /\ crashed' \in BOOLEAN
       /\ alone' \in SUBSET (Deliverers \cup Clients)
       /\ EventsType' /\ DelivererType'
    BY <1>4 DEF IInv, TypeOK, EventsType, DelivererType, Create, Ask
  <2> QED BY <2>1, <2>2, <2>3, <2>4 DEF TypeOK
<1>5. ASSUME NEW c \in Clients, NotFound(c)
      PROVE  TypeOK'
  <2>1. ArrayType'
    BY <1>5 DEF IInv, TypeOK, ArrayType, NotFound, Missing, MovedTo
  <2>2. SubType' /\ EventsType' /\ DelivererType'
    BY <1>5 DEF IInv, TypeOK, SubType, EventsType, DelivererType, NotFound
  <2>3. ClientType'
    BY <1>5 DEF IInv, TypeOK, ClientType, NotFound
  <2>4. /\ raised' \in Nat /\ requests' \in Nat /\ crashed' \in BOOLEAN
        /\ alone' \in SUBSET (Deliverers \cup Clients)
    BY <1>5 DEF IInv, TypeOK, NotFound, Ask, Missing, MovedTo
  <2> QED BY <2>1, <2>2, <2>3, <2>4 DEF TypeOK
<1>6. ASSUME NEW c \in Clients, List(c)
      PROVE  TypeOK'
  <2>1. ArrayType'
    BY <1>6, ConstantsAssumption DEF ConstantsAssumption, IInv, TypeOK,
    ArrayType, List, Ask, First
  <2>2. ClientType'
    BY <1>6, FirstIn DEF IInv, TypeOK, ClientType, ArrayType, List
  <2>3. /\ raised' \in Nat /\ requests' \in Nat /\ crashed' \in BOOLEAN
       /\ alone' \in SUBSET (Deliverers \cup Clients)
       /\ SubType' /\ EventsType' /\ DelivererType'
    BY <1>6 DEF IInv, TypeOK, SubType, EventsType, DelivererType, List, Ask,
    First
  <2> QED BY <2>1, <2>2, <2>3 DEF TypeOK
<1>7. ASSUME NEW c \in Clients, NEW s \in Subs, NEW op \in {"cancel", "renew"},
             Find(c, s, op)
      PROVE  TypeOK'
  <2>1. ArrayType'
    BY <1>7, ConstantsAssumption DEF ConstantsAssumption, IInv, TypeOK,
    ArrayType, Find, Ask, Found, MovedTo
  <2>2. ClientType'
    BY <1>7, ConstantsAssumption DEF ConstantsAssumption, IInv, TypeOK,
    ClientType, Find, Ask, Found, MovedTo
  <2>3. /\ raised' \in Nat /\ requests' \in Nat /\ crashed' \in BOOLEAN
       /\ alone' \in SUBSET (Deliverers \cup Clients)
    BY <1>7 DEF IInv, TypeOK, Find, Ask, Found, MovedTo
  <2>4. SubType' /\ EventsType' /\ DelivererType'
    BY <1>7 DEF IInv, TypeOK, SubType, EventsType, DelivererType, Find
  <2> QED BY <2>1, <2>2, <2>3, <2>4 DEF TypeOK
<1>8. ASSUME NEW c \in Clients, NEW s \in Subs,
             NEW n \in 0 .. last_sequence[s] + 1, NEW wait \in BOOLEAN,
             GetNotifications(c, s, n, wait)
      PROVE  TypeOK'
  <2>1. ArrayType'
    BY <1>8, ConstantsAssumption DEF ConstantsAssumption, IInv, TypeOK,
    ArrayType, GetNotifications, Ask, Found, MovedTo
  <2>2. ClientType'
    BY <1>8, ConstantsAssumption DEF ConstantsAssumption, IInv, TypeOK,
    ClientType, GetNotifications, Ask, Found, MovedTo
  <2>3. /\ raised' \in Nat /\ requests' \in Nat /\ crashed' \in BOOLEAN
       /\ alone' \in SUBSET (Deliverers \cup Clients)
    BY <1>8 DEF IInv, TypeOK, GetNotifications, Ask, Found, MovedTo
  <2>4. SubType' /\ EventsType' /\ DelivererType'
    BY <1>8
    DEF IInv, TypeOK, SubType, EventsType, DelivererType, GetNotifications
  <2> QED BY <2>1, <2>2, <2>3, <2>4 DEF TypeOK
<1>9. ASSUME NEW c \in Clients, Initialize(c)
      PROVE  TypeOK'
  <2>1. SubType'
    BY <1>9, ConstantsAssumption DEF ConstantsAssumption, IInv, TypeOK,
    SubType, Initialize, At, Return
  <2>2. EventsType'
    BY <1>9, ConstantsAssumption DEF ConstantsAssumption, IInv, TypeOK,
    EventsType, Initialize, At, Return
  <2>3. ClientType'
    BY <1>9, ConstantsAssumption DEF ConstantsAssumption, IInv, TypeOK,
    ClientType, Initialize, At, Return
  <2>4. /\ raised' \in Nat /\ requests' \in Nat /\ crashed' \in BOOLEAN
       /\ alone' \in SUBSET (Deliverers \cup Clients)
       /\ ArrayType' /\ DelivererType'
    BY <1>9 DEF IInv, TypeOK, ArrayType, DelivererType, Initialize, At, Return
  <2> QED BY <2>1, <2>2, <2>3, <2>4 DEF TypeOK
<1>10. ASSUME NEW c \in Clients, Cancel(c)
      PROVE  TypeOK'
  <2>1. SubType'
    BY <1>10, ConstantsAssumption DEF ConstantsAssumption, IInv, TypeOK,
    SubType, Cancel, At, Return
  <2>2. ClientType'
    BY <1>10, ConstantsAssumption DEF ConstantsAssumption, IInv, TypeOK,
    ClientType, Cancel, At, Return
  <2>3. /\ raised' \in Nat /\ requests' \in Nat /\ crashed' \in BOOLEAN
       /\ alone' \in SUBSET (Deliverers \cup Clients)
       /\ EventsType' /\ ArrayType' /\ DelivererType'
    BY <1>10 DEF IInv, TypeOK, EventsType, ArrayType, DelivererType, Cancel,
    At, Return
  <2> QED BY <2>1, <2>2, <2>3 DEF TypeOK
<1>11. ASSUME NEW c \in Clients, Renew(c)
      PROVE  TypeOK'
  <2>1. SubType'
    BY <1>11, ConstantsAssumption DEF ConstantsAssumption, IInv, TypeOK,
    SubType, Renew, At, Return
  <2>2. ClientType'
    BY <1>11, ConstantsAssumption DEF ConstantsAssumption, IInv, TypeOK,
    ClientType, Renew, At, Return
  <2>3. /\ raised' \in Nat /\ requests' \in Nat /\ crashed' \in BOOLEAN
       /\ alone' \in SUBSET (Deliverers \cup Clients)
       /\ EventsType' /\ ArrayType' /\ DelivererType'
    BY <1>11 DEF IInv, TypeOK, EventsType, ArrayType, DelivererType, Renew,
    At, Return
  <2> QED BY <2>1, <2>2, <2>3 DEF TypeOK
<1>12. ASSUME NEW c \in Clients, Scan(c)
      PROVE  TypeOK'
  <2>1. EventsType'
    BY <1>12, IndexFound DEF IInv, TypeOK, EventsType, Scan, At
  <2>2. ClientType'
    <3>1. CASE Return(c)
      BY <1>12, <3>1, ConstantsAssumption
      DEF ConstantsAssumption, IInv, TypeOK, ClientType, Return
    <3>2. CASE /\ cpc' = [cpc EXCEPT ![c] = "unheard"]
               /\ UNCHANGED <<csub, casked, cwait, cevent, canswer>>
      BY <3>2 DEF IInv, TypeOK, ClientType
    <3>3. ASSUME NEW i, cpc' = [cpc EXCEPT ![c] = "copy"],
                 cevent' = [cevent EXCEPT ![c] =
                   IF i \in 1 .. Len(events[csub[c]]) THEN i ELSE 0],
                 UNCHANGED <<csub, casked, cwait, canswer>>
          PROVE  ClientType'
      BY <1>12, <3>3, IndexFound DEF IInv, TypeOK, ClientType, Scan, At
    <3> QED BY <1>12, <3>1, <3>2, <3>3 DEF Scan, Empty
  <2>3. /\ raised' \in Nat /\ requests' \in Nat /\ crashed' \in BOOLEAN
       /\ alone' \in SUBSET (Deliverers \cup Clients)
       /\ SubType' /\ ArrayType' /\ DelivererType'
    BY <1>12 DEF IInv, TypeOK, SubType, ArrayType, DelivererType, Scan
  <2> QED BY <2>1, <2>2, <2>3 DEF TypeOK
<1>13. ASSUME NEW c \in Clients, Copy(c)
      PROVE  TypeOK'
  <2>1. EventsType'
    BY <1>13, CopiedEvent DEF IInv, TypeOK, EventsType, Copy
  <2>2. ClientType'
    BY <1>13, CopiedEvent DEF IInv, TypeOK, ClientType, Copy
  <2>3. /\ raised' \in Nat /\ requests' \in Nat /\ crashed' \in BOOLEAN
       /\ alone' \in SUBSET (Deliverers \cup Clients)
       /\ SubType' /\ ArrayType' /\ DelivererType'
    BY <1>13 DEF IInv, TypeOK, SubType, ArrayType, DelivererType, Copy
  <2> QED BY <2>1, <2>2, <2>3 DEF TypeOK
<1>14. ASSUME NEW c \in Clients, EndCopy(c)
      PROVE  TypeOK'
  <2>1. EventsType'
    BY <1>14, ConstantsAssumption DEF ConstantsAssumption, IInv, TypeOK,
    EventsType, EndCopy, At, Return, Empty
  <2>2. ClientType'
    <3>1. CASE Return(c)
      BY <1>14, <3>1, ConstantsAssumption
      DEF ConstantsAssumption, IInv, TypeOK, ClientType, Return
    <3>2. CASE ~Return(c)
      BY <1>14, <3>2 DEF IInv, TypeOK, ClientType, EndCopy, Empty
    <3> QED BY <3>1, <3>2
  <2>3. /\ raised' \in Nat /\ requests' \in Nat /\ crashed' \in BOOLEAN
       /\ alone' \in SUBSET (Deliverers \cup Clients)
       /\ SubType' /\ ArrayType' /\ DelivererType'
    BY <1>14 DEF IInv, TypeOK, SubType, ArrayType, DelivererType, EndCopy, At,
    Return, Empty
  <2> QED BY <2>1, <2>2, <2>3 DEF TypeOK
<1>15. ASSUME NEW c \in Clients, Wait(c)
      PROVE  TypeOK'
  <2>1. ClientType'
    BY <1>15, ConstantsAssumption DEF ConstantsAssumption, IInv, TypeOK,
    ClientType, Wait
  <2>2. /\ raised' \in Nat /\ requests' \in Nat /\ crashed' \in BOOLEAN
       /\ alone' \in SUBSET (Deliverers \cup Clients)
       /\ SubType' /\ EventsType' /\ ArrayType' /\ DelivererType'
    BY <1>15 DEF IInv, TypeOK, SubType, EventsType, ArrayType, DelivererType,
    Wait
  <2> QED BY <2>1, <2>2 DEF TypeOK
<1>16. ASSUME NEW c \in Clients, Timeout(c)
      PROVE  TypeOK'
  <2>1. ClientType'
    BY <1>16, ConstantsAssumption DEF ConstantsAssumption, IInv, TypeOK,
    ClientType, Timeout
  <2>2. /\ raised' \in Nat /\ requests' \in Nat /\ crashed' \in BOOLEAN
       /\ alone' \in SUBSET (Deliverers \cup Clients)
       /\ SubType' /\ EventsType' /\ ArrayType' /\ DelivererType'
    BY <1>16 DEF IInv, TypeOK, SubType, EventsType, ArrayType, DelivererType,
    Timeout
  <2> QED BY <2>1, <2>2 DEF TypeOK
<1>17. ASSUME NEW c \in Clients, LookAgain(c)
      PROVE  TypeOK'
  <2>1. ArrayType'
    BY <1>17, ConstantsAssumption DEF ConstantsAssumption, IInv, TypeOK,
    ArrayType, LookAgain, Return, Found, Missing, MovedTo, WaitsNoMore
  <2>2. ClientType'
    <3>1. CASE Return(c)
      BY <1>17, <3>1, ConstantsAssumption
      DEF ConstantsAssumption, IInv, TypeOK, ClientType, Return
    <3>2. CASE ~Return(c)
      BY <1>17, <3>2 DEF IInv, TypeOK, ClientType, LookAgain, WaitsNoMore
    <3> QED BY <3>1, <3>2
  <2>3. /\ raised' \in Nat /\ requests' \in Nat /\ crashed' \in BOOLEAN
       /\ alone' \in SUBSET (Deliverers \cup Clients)
       /\ SubType' /\ EventsType' /\ DelivererType'
    BY <1>17 DEF IInv, TypeOK, SubType, EventsType, DelivererType, LookAgain,
    Return, Found, Missing, MovedTo, WaitsNoMore
  <2> QED BY <2>1, <2>2, <2>3 DEF TypeOK
<1>18. ASSUME NEW c \in Clients, ListNext(c)
      PROVE  TypeOK'
  <2>1. ArrayType'
    BY <1>18, ConstantsAssumption DEF ConstantsAssumption, IInv, TypeOK,
    ArrayType, ListNext, NextAfter, First
  <2>2. ClientType'
    <3>1. PICK s \in NextAfter(cursor) : csub' = [csub EXCEPT ![c] = s]
      BY <1>18 DEF ListNext
    <3>2. s \in Subs \cup {None}
      BY <3>1, NextIn DEF IInv, TypeOK, ArrayType
    <3> QED BY <1>18, <3>1, <3>2 DEF IInv, TypeOK, ClientType, ListNext
  <2>3. /\ raised' \in Nat /\ requests' \in Nat /\ crashed' \in BOOLEAN
       /\ alone' \in SUBSET (Deliverers \cup Clients)
       /\ SubType' /\ EventsType' /\ DelivererType'
    BY <1>18 DEF IInv, TypeOK, SubType, EventsType, DelivererType, ListNext,
    NextAfter, First
  <2> QED BY <2>1, <2>2, <2>3 DEF TypeOK
<1>19. ASSUME NEW c \in Clients, EndList(c)
      PROVE  TypeOK'
  <2>1. ArrayType'
    BY <1>19, ConstantsAssumption DEF ConstantsAssumption, IInv, TypeOK,
    ArrayType, EndList, Return
  <2>2. ClientType'
    BY <1>19, ConstantsAssumption DEF ConstantsAssumption, IInv, TypeOK,
    ClientType, EndList, Return
  <2>3. /\ raised' \in Nat /\ requests' \in Nat /\ crashed' \in BOOLEAN
       /\ alone' \in SUBSET (Deliverers \cup Clients)
       /\ SubType' /\ EventsType' /\ DelivererType'
    BY <1>19 DEF IInv, TypeOK, SubType, EventsType, DelivererType, EndList,
    Return
  <2> QED BY <2>1, <2>2, <2>3 DEF TypeOK
<1>20. ASSUME NEW s \in Subs, Expire(s)
      PROVE  TypeOK'
  <2>1. SubType'
    BY <1>20, ConstantsAssumption DEF ConstantsAssumption, IInv, TypeOK,
    SubType, Expire
  <2>2. /\ raised' \in Nat /\ requests' \in Nat /\ crashed' \in BOOLEAN
       /\ alone' \in SUBSET (Deliverers \cup Clients)
       /\ EventsType' /\ ArrayType' /\ DelivererType' /\ ClientType'
    BY <1>20 DEF IInv, TypeOK, EventsType, ArrayType, DelivererType,
    ClientType, Expire
  <2> QED BY <2>1, <2>2 DEF TypeOK
<1>21. ASSUME NEW s \in Subs, Delete(s)
      PROVE  TypeOK'
  <2>1. SubType'
    BY <1>21, ConstantsAssumption DEF ConstantsAssumption, IInv, TypeOK,
    SubType, Delete
  <2>2. EventsType'
    BY <1>21, ConstantsAssumption DEF ConstantsAssumption, IInv, TypeOK,
    EventsType, Delete
  <2>3. ArrayType'
    BY <1>21, ConstantsAssumption DEF ConstantsAssumption, IInv, TypeOK,
    ArrayType, Delete
  <2>4. /\ raised' \in Nat /\ requests' \in Nat /\ crashed' \in BOOLEAN
       /\ alone' \in SUBSET (Deliverers \cup Clients)
       /\ DelivererType' /\ ClientType'
    BY <1>21 DEF IInv, TypeOK, DelivererType, ClientType, Delete
  <2> QED BY <2>1, <2>2, <2>3, <2>4 DEF TypeOK
<1>22. ASSUME Clean
      PROVE  TypeOK'
  <2>1. ArrayType'
    BY <1>22, ConstantsAssumption DEF ConstantsAssumption, IInv, TypeOK,
    ArrayType, Clean, Due
  <2>2. /\ raised' \in Nat /\ requests' \in Nat /\ crashed' \in BOOLEAN
       /\ alone' \in SUBSET (Deliverers \cup Clients)
       /\ SubType' /\ EventsType' /\ DelivererType' /\ ClientType'
    BY <1>22 DEF IInv, TypeOK, SubType, EventsType, DelivererType, ClientType,
    Clean, Due
  <2> QED BY <2>1, <2>2 DEF TypeOK
<1>23. ASSUME UseFreed
      PROVE  TypeOK'
  <2>1. /\ raised' \in Nat /\ requests' \in Nat /\ crashed' \in BOOLEAN
       /\ alone' \in SUBSET (Deliverers \cup Clients)
       /\ SubType' /\ EventsType' /\ ArrayType' /\ DelivererType' /\ ClientType'
    BY <1>23 DEF IInv, TypeOK, SubType, EventsType, ArrayType, DelivererType,
    ClientType, UseFreed
  <2> QED BY <2>1 DEF TypeOK
<1> QED
  BY <1>1, <1>2, <1>3, <1>4, <1>5, <1>6, <1>7, <1>8, <1>9, <1>10, <1>11,
  <1>12, <1>13, <1>14, <1>15, <1>16, <1>17, <1>18, <1>19, <1>20, <1>21, <1>22,
  <1>23 DEF Next, Request, RequestStep, DeliveryStep

\* A client that does not begin to create a subscription disturbs nobody who does.
LEMMA OtherClient ==
  ASSUME IInv, NEW c \in Clients,
         UNCHANGED <<phase, events, next_subscription_id>>,
         \A b \in Clients \ {c} : cpc'[b] = cpc[b] /\ csub'[b] = csub[b],
         cpc'[c] # "init"
  PROVE  (FreshUnused /\ EventsWhenReady /\ InitializedOnce)'
<1>1. (FreshUnused /\ EventsWhenReady)'
  BY DEF IInv, FreshUnused, EventsWhenReady, Subs
<1>2. InitializedOnce'
  BY DEF IInv, InitializedOnce, Subs
<1> QED BY <1>1, <1>2

\* Every step preserves what is said of subscriptions that are being created.
LEMMA OwnershipStep == IInv /\ Next => (FreshUnused /\ EventsWhenReady /\ InitializedOnce)'
<1> USE DEF Subs, None, Before, subVars, arrayVars, delVars, cliVars
<1> SUFFICES ASSUME IInv, Next PROVE (FreshUnused /\ EventsWhenReady /\ InitializedOnce)'
  OBVIOUS
<1>1. ASSUME NEW d \in Deliverers, Raise(d)
      PROVE  (FreshUnused /\ EventsWhenReady /\ InitializedOnce)'
  BY <1>1 DEF IInv, TypeOK, SubType, ArrayType, ClientType, FreshUnused,
  EventsWhenReady, InitializedOnce, ListedAlive, Raise, MoveOn, First
<1>2. ASSUME NEW d \in Deliverers, Deliver(d)
      PROVE  (FreshUnused /\ EventsWhenReady /\ InitializedOnce)'
  <2>1. FreshUnused'
    BY <1>2 DEF IInv, FreshUnused, Deliver
  <2>2. EventsWhenReady'
    <3>1. \A s \in Subs : phase[s] # "ready" => events'[s] = events[s]
      BY <1>2 DEF IInv, TypeOK, EventsType, Deliver
    <3> QED BY <1>2, <3>1 DEF IInv, EventsWhenReady, Deliver
  <2>3. InitializedOnce'
    <3>1. \A c \in Clients : cpc'[c] = "init" => cpc[c] = "init"
      BY <1>2 DEF IInv, TypeOK, ClientType, Deliver
    <3>2. UNCHANGED <<phase, csub>>
      BY <1>2 DEF Deliver
    <3> QED BY <3>1, <3>2 DEF IInv, InitializedOnce
  <2> QED BY <2>1, <2>2, <2>3
<1>3. ASSUME NEW d \in Deliverers, EndDelivery(d)
      PROVE  (FreshUnused /\ EventsWhenReady /\ InitializedOnce)'
  BY <1>3 DEF IInv, TypeOK, SubType, ArrayType, ClientType, FreshUnused,
  EventsWhenReady, InitializedOnce, ListedAlive, EndDelivery
<1>4. ASSUME NEW c \in Clients, Create(c)
      PROVE  (FreshUnused /\ EventsWhenReady /\ InitializedOnce)'
  BY <1>4 DEF IInv, TypeOK, SubType, ArrayType, ClientType, FreshUnused,
  EventsWhenReady, InitializedOnce, ListedAlive, Create, Ask
<1>5. ASSUME NEW c \in Clients, NotFound(c)
      PROVE  (FreshUnused /\ EventsWhenReady /\ InitializedOnce)'
  BY <1>5 DEF IInv, TypeOK, SubType, ArrayType, ClientType, FreshUnused,
  EventsWhenReady, InitializedOnce, ListedAlive, NotFound, Ask, Missing,
  MovedTo
<1>6. ASSUME NEW c \in Clients, List(c)
      PROVE  (FreshUnused /\ EventsWhenReady /\ InitializedOnce)'
  BY <1>6 DEF IInv, TypeOK, SubType, ArrayType, ClientType, FreshUnused,
  EventsWhenReady, InitializedOnce, ListedAlive, List, Ask, First
<1>7. ASSUME NEW c \in Clients, NEW s \in Subs, NEW op \in {"cancel", "renew"},
             Find(c, s, op)
      PROVE  (FreshUnused /\ EventsWhenReady /\ InitializedOnce)'
  BY <1>7 DEF IInv, TypeOK, SubType, ArrayType, ClientType, FreshUnused,
  EventsWhenReady, InitializedOnce, ListedAlive, Find, Ask, Found, MovedTo
<1>8. ASSUME NEW c \in Clients, NEW s \in Subs,
             NEW n \in 0 .. last_sequence[s] + 1, NEW wait \in BOOLEAN,
             GetNotifications(c, s, n, wait)
      PROVE  (FreshUnused /\ EventsWhenReady /\ InitializedOnce)'
  BY <1>8 DEF IInv, TypeOK, SubType, ArrayType, ClientType, FreshUnused,
  EventsWhenReady, InitializedOnce, ListedAlive, GetNotifications, Ask, Found,
  MovedTo
<1>9. ASSUME NEW c \in Clients, Initialize(c)
      PROVE  (FreshUnused /\ EventsWhenReady /\ InitializedOnce)'
  BY <1>9 DEF IInv, TypeOK, SubType, ArrayType, ClientType, FreshUnused,
  EventsWhenReady, InitializedOnce, ListedAlive, Initialize, At, Return
<1>10. ASSUME NEW c \in Clients, Cancel(c)
      PROVE  (FreshUnused /\ EventsWhenReady /\ InitializedOnce)'
  <2>1. \A b \in Clients \ {c} : cpc'[b] = cpc[b] /\ csub'[b] = csub[b]
    BY <1>10 DEF IInv, TypeOK, ClientType, Cancel, Return
  <2>2. cpc'[c] # "init"
    BY <1>10 DEF IInv, TypeOK, ClientType, Cancel, Return
  <2>3. UNCHANGED <<phase, events, next_subscription_id>>
    BY <1>10 DEF Cancel
  <2> QED BY <2>1, <2>2, <2>3, OtherClient
<1>11. ASSUME NEW c \in Clients, Renew(c)
      PROVE  (FreshUnused /\ EventsWhenReady /\ InitializedOnce)'
  <2>1. \A b \in Clients \ {c} : cpc'[b] = cpc[b] /\ csub'[b] = csub[b]
    BY <1>11 DEF IInv, TypeOK, ClientType, Renew, Return
  <2>2. cpc'[c] # "init"
    BY <1>11 DEF IInv, TypeOK, ClientType, Renew, Return
  <2>3. UNCHANGED <<phase, events, next_subscription_id>>
    BY <1>11 DEF Renew
  <2> QED BY <2>1, <2>2, <2>3, OtherClient
<1>12. ASSUME NEW c \in Clients, Scan(c)
      PROVE  (FreshUnused /\ EventsWhenReady /\ InitializedOnce)'
  <2>1. \A b \in Clients \ {c} : cpc'[b] = cpc[b] /\ csub'[b] = csub[b]
    BY <1>12 DEF IInv, TypeOK, ClientType, Scan, At, Empty, Return
  <2>2. cpc'[c] # "init"
    BY <1>12 DEF IInv, TypeOK, ClientType, Scan, At, Empty, Return
  <2>3. UNCHANGED <<phase, events, next_subscription_id>>
    BY <1>12 DEF Scan
  <2> QED BY <2>1, <2>2, <2>3, OtherClient
<1>13. ASSUME NEW c \in Clients, Copy(c)
      PROVE  (FreshUnused /\ EventsWhenReady /\ InitializedOnce)'
  BY <1>13 DEF IInv, TypeOK, SubType, ArrayType, ClientType, FreshUnused,
  EventsWhenReady, InitializedOnce, ListedAlive, Copy, At
<1>14. ASSUME NEW c \in Clients, EndCopy(c)
      PROVE  (FreshUnused /\ EventsWhenReady /\ InitializedOnce)'
  <2>1. \A b \in Clients \ {c} : cpc'[b] = cpc[b] /\ csub'[b] = csub[b]
    BY <1>14 DEF IInv, TypeOK, ClientType, EndCopy, Empty, Return
  <2>2. cpc'[c] # "init"
    BY <1>14 DEF IInv, TypeOK, ClientType, EndCopy, Empty, Return
  <2>3. UNCHANGED <<phase, events, next_subscription_id>>
    BY <1>14 DEF EndCopy
  <2> QED BY <2>1, <2>2, <2>3, OtherClient
<1>15. ASSUME NEW c \in Clients, Wait(c)
      PROVE  (FreshUnused /\ EventsWhenReady /\ InitializedOnce)'
  BY <1>15 DEF IInv, TypeOK, SubType, ArrayType, ClientType, FreshUnused,
  EventsWhenReady, InitializedOnce, ListedAlive, Wait
<1>16. ASSUME NEW c \in Clients, Timeout(c)
      PROVE  (FreshUnused /\ EventsWhenReady /\ InitializedOnce)'
  BY <1>16 DEF IInv, TypeOK, SubType, ArrayType, ClientType, FreshUnused,
  EventsWhenReady, InitializedOnce, ListedAlive, Timeout
<1>17. ASSUME NEW c \in Clients, LookAgain(c)
      PROVE  (FreshUnused /\ EventsWhenReady /\ InitializedOnce)'
  <2>1. \A b \in Clients \ {c} : cpc'[b] = cpc[b] /\ csub'[b] = csub[b]
    BY <1>17 DEF IInv, TypeOK, ClientType, LookAgain, Return, Found
  <2>2. cpc'[c] # "init"
    BY <1>17 DEF IInv, TypeOK, ClientType, LookAgain, Return, Found
  <2>3. UNCHANGED <<phase, events, next_subscription_id>>
    BY <1>17 DEF LookAgain
  <2> QED BY <2>1, <2>2, <2>3, OtherClient
<1>18. ASSUME NEW c \in Clients, ListNext(c)
      PROVE  (FreshUnused /\ EventsWhenReady /\ InitializedOnce)'
  <2>1. \A b \in Clients \ {c} : cpc'[b] = cpc[b] /\ csub'[b] = csub[b]
    BY <1>18 DEF IInv, TypeOK, ClientType, ListNext
  <2>2. cpc'[c] # "init"
    BY <1>18 DEF IInv, TypeOK, ClientType, ListNext
  <2>3. UNCHANGED <<phase, events, next_subscription_id>>
    BY <1>18 DEF ListNext
  <2> QED BY <2>1, <2>2, <2>3, OtherClient
<1>19. ASSUME NEW c \in Clients, EndList(c)
      PROVE  (FreshUnused /\ EventsWhenReady /\ InitializedOnce)'
  <2>1. \A b \in Clients \ {c} : cpc'[b] = cpc[b] /\ csub'[b] = csub[b]
    BY <1>19 DEF IInv, TypeOK, ClientType, EndList, Return
  <2>2. cpc'[c] # "init"
    BY <1>19 DEF IInv, TypeOK, ClientType, EndList, Return
  <2>3. UNCHANGED <<phase, events, next_subscription_id>>
    BY <1>19 DEF EndList
  <2> QED BY <2>1, <2>2, <2>3, OtherClient
<1>20. ASSUME NEW s \in Subs, Expire(s)
      PROVE  (FreshUnused /\ EventsWhenReady /\ InitializedOnce)'
  BY <1>20 DEF IInv, TypeOK, SubType, ArrayType, ClientType, FreshUnused,
  EventsWhenReady, InitializedOnce, ListedAlive, Expire
<1>21. ASSUME NEW s \in Subs, Delete(s)
      PROVE  (FreshUnused /\ EventsWhenReady /\ InitializedOnce)'
  <2>1. phase[s] \in {"published", "ready"}
    BY <1>21 DEF IInv, ListedAlive, Delete
  <2>2. FreshUnused'
    BY <1>21, <2>1 DEF IInv, TypeOK, SubType, FreshUnused, Delete
  <2>3. EventsWhenReady'
    BY <1>21 DEF IInv, TypeOK, SubType, EventsType, EventsWhenReady, Delete
  <2>4. InitializedOnce'
    BY <1>21 DEF IInv, TypeOK, SubType, ClientType, InitializedOnce, Delete
  <2> QED BY <2>2, <2>3, <2>4
<1>22. ASSUME Clean
      PROVE  (FreshUnused /\ EventsWhenReady /\ InitializedOnce)'
  BY <1>22 DEF IInv, TypeOK, SubType, ArrayType, ClientType, FreshUnused,
  EventsWhenReady, InitializedOnce, ListedAlive, Clean, Due
<1>23. ASSUME UseFreed
      PROVE  (FreshUnused /\ EventsWhenReady /\ InitializedOnce)'
  BY <1>23 DEF IInv, TypeOK, SubType, ArrayType, ClientType, FreshUnused,
  EventsWhenReady, InitializedOnce, ListedAlive, UseFreed
<1> QED
  BY <1>1, <1>2, <1>3, <1>4, <1>5, <1>6, <1>7, <1>8, <1>9, <1>10, <1>11,
  <1>12, <1>13, <1>14, <1>15, <1>16, <1>17, <1>18, <1>19, <1>20, <1>21, <1>22,
  <1>23 DEF Next, Request, RequestStep, DeliveryStep

\* A client disturbs no other that copies or lists.
LEMMA OtherReader ==
  ASSUME IInv, NEW c \in Clients,
         UNCHANGED <<phase, events, subscriptions, condemned, dpc, dsub>>,
         \A b \in Clients \ {c} :
           cpc'[b] = cpc[b] /\ csub'[b] = csub[b] /\ cevent'[b] = cevent[b],
         cpc'[c] = "copy" =>
           csub'[c] \in Subs /\ cevent'[c] <= Len(events[csub'[c]]),
         cpc'[c] # "list"
  PROVE  (CopyInRange /\ ListedAlive /\ ReadersInArray)'
<1>1. CopyInRange'
  BY DEF IInv, CopyInRange, Subs
<1>2. (ListedAlive /\ ReadersInArray)'
  BY DEF IInv, ListedAlive, ReadersInArray
<1> QED BY <1>1, <1>2

\* Every step preserves what is said of the arrays and of those who read them.
LEMMA ArrayStep == IInv /\ Next => (CopyInRange /\ ListedAlive /\ ReadersInArray)'
<1> USE DEF Subs, None, Before, subVars, arrayVars, delVars, cliVars
<1> SUFFICES ASSUME IInv, Next PROVE (CopyInRange /\ ListedAlive /\ ReadersInArray)'
  OBVIOUS
<1>1. ASSUME NEW d \in Deliverers, Raise(d)
      PROVE  (CopyInRange /\ ListedAlive /\ ReadersInArray)'
  BY <1>1 DEF IInv, TypeOK, SubType, ArrayType, ClientType, DelivererType,
  FreshUnused, CopyInRange, ListedAlive, ReadersInArray, Readers, Delivering,
  Copying, Raise, MoveOn, First
<1>2. ASSUME NEW d \in Deliverers, Deliver(d)
      PROVE  (CopyInRange /\ ListedAlive /\ ReadersInArray)'
  <2>1. CopyInRange'
    <3>1. \A c \in Clients : cpc'[c] = "copy" => cpc[c] = "copy"
      BY <1>2 DEF IInv, TypeOK, ClientType, Deliver
    <3>2. \A c \in Clients : cpc[c] = "copy" => events'[csub[c]] = events[csub[c]]
      BY <1>2 DEF IInv, TypeOK, EventsType, CopyInRange, Deliver, Copying
    <3>3. UNCHANGED <<csub, cevent>>
      BY <1>2 DEF Deliver
    <3> QED BY <3>1, <3>2, <3>3 DEF IInv, CopyInRange
  <2>2. ListedAlive'
    BY <1>2 DEF IInv, ListedAlive, Deliver
  <2>3. ReadersInArray'
    <3>1. PICK s \in NextAfter(cursor) : dsub' = [dsub EXCEPT ![d] = s]
      BY <1>2 DEF Deliver, MoveOn
    <3>2. s \in subscriptions \cup {None}
      BY <3>1, NextIn
    <3>3. \A c \in Clients : cpc'[c] = "list" => cpc[c] = "list"
      BY <1>2 DEF IInv, TypeOK, ClientType, Deliver
    <3>4. UNCHANGED <<dpc, csub, subscriptions>>
      BY <1>2 DEF Deliver
    <3> QED
      BY <3>1, <3>2, <3>3, <3>4 DEF IInv, TypeOK, DelivererType, ReadersInArray
  <2> QED BY <2>1, <2>2, <2>3
<1>3. ASSUME NEW d \in Deliverers, EndDelivery(d)
      PROVE  (CopyInRange /\ ListedAlive /\ ReadersInArray)'
  BY <1>3 DEF IInv, TypeOK, SubType, ArrayType, ClientType, DelivererType,
  FreshUnused, CopyInRange, ListedAlive, ReadersInArray, Readers, Delivering,
  Copying, EndDelivery
<1>4. ASSUME NEW c \in Clients, Create(c)
      PROVE  (CopyInRange /\ ListedAlive /\ ReadersInArray)'
  BY <1>4 DEF IInv, TypeOK, SubType, ArrayType, ClientType, DelivererType,
  FreshUnused, CopyInRange, ListedAlive, ReadersInArray, Readers, Delivering,
  Copying, Create, Ask
<1>5. ASSUME NEW c \in Clients, NotFound(c)
      PROVE  (CopyInRange /\ ListedAlive /\ ReadersInArray)'
  BY <1>5 DEF IInv, TypeOK, SubType, ArrayType, ClientType, DelivererType,
  FreshUnused, CopyInRange, ListedAlive, ReadersInArray, Readers, Delivering,
  Copying, NotFound, Ask, Missing, MovedTo
<1>6. ASSUME NEW c \in Clients, List(c)
      PROVE  (CopyInRange /\ ListedAlive /\ ReadersInArray)'
  BY <1>6 DEF IInv, TypeOK, SubType, ArrayType, ClientType, DelivererType,
  FreshUnused, CopyInRange, ListedAlive, ReadersInArray, Readers, Delivering,
  Copying, List, Ask, First
<1>7. ASSUME NEW c \in Clients, NEW s \in Subs, NEW op \in {"cancel", "renew"},
             Find(c, s, op)
      PROVE  (CopyInRange /\ ListedAlive /\ ReadersInArray)'
  BY <1>7 DEF IInv, TypeOK, SubType, ArrayType, ClientType, DelivererType,
  FreshUnused, CopyInRange, ListedAlive, ReadersInArray, Readers, Delivering,
  Copying, Find, Ask, Found, MovedTo
<1>8. ASSUME NEW c \in Clients, NEW s \in Subs,
             NEW n \in 0 .. last_sequence[s] + 1, NEW wait \in BOOLEAN,
             GetNotifications(c, s, n, wait)
      PROVE  (CopyInRange /\ ListedAlive /\ ReadersInArray)'
  BY <1>8 DEF IInv, TypeOK, SubType, ArrayType, ClientType, DelivererType,
  FreshUnused, CopyInRange, ListedAlive, ReadersInArray, Readers, Delivering,
  Copying, GetNotifications, Ask, Found, MovedTo
<1>9. ASSUME NEW c \in Clients, Initialize(c)
      PROVE  (CopyInRange /\ ListedAlive /\ ReadersInArray)'
  <2>1. phase[csub[c]] # "ready" /\ events[csub[c]] = <<>>
    BY <1>9 DEF IInv, InitializedOnce, EventsWhenReady, Initialize, At
  <2>2. events' = events
    BY <1>9, <2>1 DEF IInv, TypeOK, EventsType, Initialize, At
  <2>3. CopyInRange'
    BY <1>9, <2>2 DEF IInv, TypeOK, ClientType, CopyInRange, Initialize, Return
  <2>4. ListedAlive'
    BY <1>9 DEF IInv, TypeOK, SubType, ListedAlive, Initialize
  <2>5. ReadersInArray'
    BY <1>9 DEF IInv, TypeOK, ClientType, ReadersInArray, Initialize, Return
  <2> QED BY <2>3, <2>4, <2>5
<1>10. ASSUME NEW c \in Clients, Cancel(c)
      PROVE  (CopyInRange /\ ListedAlive /\ ReadersInArray)'
  BY <1>10 DEF IInv, TypeOK, SubType, ArrayType, ClientType, DelivererType,
  FreshUnused, CopyInRange, ListedAlive, ReadersInArray, Readers, Delivering,
  Copying, Cancel, At, Return
<1>11. ASSUME NEW c \in Clients, Renew(c)
      PROVE  (CopyInRange /\ ListedAlive /\ ReadersInArray)'
  BY <1>11 DEF IInv, TypeOK, SubType, ArrayType, ClientType, DelivererType,
  FreshUnused, CopyInRange, ListedAlive, ReadersInArray, Readers, Delivering,
  Copying, Renew, At, Return
<1>12. ASSUME NEW c \in Clients, Scan(c)
      PROVE  (CopyInRange /\ ListedAlive /\ ReadersInArray)'
  <2>1. \A b \in Clients \ {c} :
          cpc'[b] = cpc[b] /\ csub'[b] = csub[b] /\ cevent'[b] = cevent[b]
    BY <1>12 DEF IInv, TypeOK, ClientType, Scan, At, Empty, Return
  <2>2. /\ cpc'[c] # "list"
        /\ cpc'[c] = "copy" =>
             csub'[c] \in Subs /\ cevent'[c] <= Len(events[csub'[c]])
    BY <1>12 DEF IInv, TypeOK, ClientType, EventsType, Scan, At, Empty, Return
  <2>3. UNCHANGED <<phase, events, subscriptions, condemned, dpc, dsub>>
    BY <1>12 DEF Scan
  <2> QED BY <2>1, <2>2, <2>3, OtherReader
<1>13. ASSUME NEW c \in Clients, Copy(c)
      PROVE  (CopyInRange /\ ListedAlive /\ ReadersInArray)'
  <2>1. \A b \in Clients \ {c} :
          cpc'[b] = cpc[b] /\ csub'[b] = csub[b] /\ cevent'[b] = cevent[b]
    BY <1>13 DEF IInv, TypeOK, ClientType, Copy
  <2>2. UNCHANGED <<phase, events, subscriptions, condemned, dpc, dsub, cpc, csub>>
    BY <1>13 DEF Copy
  <2>3. csub[c] \in Subs /\ cevent'[c] <= Len(events[csub[c]])
    <3> DEFINE s == csub[c]
               i == IF event_cursor[s] \in 1 .. Len(events[s]) - 1
                    THEN event_cursor[s] + 1 ELSE 0
    <3>1. s \in Subs /\ i \in 0 .. Len(events[s]) /\ Len(events[s]) \in Nat
      BY <1>13, CopiedEvent DEF IInv, TypeOK, EventsType
    <3>2. cevent' = [cevent EXCEPT ![c] = i]
      BY <1>13 DEF Copy
    <3>3. cevent'[c] = i
      BY <3>2 DEF IInv, TypeOK, ClientType
    <3> HIDE DEF i
    <3> QED BY <3>1, <3>3
  <2>4. cpc[c] = "copy"
    BY <1>13 DEF Copy, At
  <2> QED BY <2>1, <2>2, <2>3, <2>4, OtherReader
<1>14. ASSUME NEW c \in Clients, EndCopy(c)
      PROVE  (CopyInRange /\ ListedAlive /\ ReadersInArray)'
  <2>1. \A b \in Clients \ {c} :
          cpc'[b] = cpc[b] /\ csub'[b] = csub[b] /\ cevent'[b] = cevent[b]
    BY <1>14 DEF IInv, TypeOK, ClientType, EndCopy, At, Empty, Return
  <2>2. cpc'[c] \notin {"copy", "list"}
    BY <1>14 DEF IInv, TypeOK, ClientType, EndCopy, At, Empty, Return
  <2>3. UNCHANGED <<phase, events, subscriptions, condemned, dpc, dsub>>
    BY <1>14 DEF EndCopy
  <2> QED BY <2>1, <2>2, <2>3, OtherReader
<1>15. ASSUME NEW c \in Clients, Wait(c)
      PROVE  (CopyInRange /\ ListedAlive /\ ReadersInArray)'
  BY <1>15 DEF IInv, TypeOK, SubType, ArrayType, ClientType, DelivererType,
  FreshUnused, CopyInRange, ListedAlive, ReadersInArray, Readers, Delivering,
  Copying, Wait
<1>16. ASSUME NEW c \in Clients, Timeout(c)
      PROVE  (CopyInRange /\ ListedAlive /\ ReadersInArray)'
  BY <1>16 DEF IInv, TypeOK, SubType, ArrayType, ClientType, DelivererType,
  FreshUnused, CopyInRange, ListedAlive, ReadersInArray, Readers, Delivering,
  Copying, Timeout
<1>17. ASSUME NEW c \in Clients, LookAgain(c)
      PROVE  (CopyInRange /\ ListedAlive /\ ReadersInArray)'
  <2>1. \A b \in Clients \ {c} :
          cpc'[b] = cpc[b] /\ csub'[b] = csub[b] /\ cevent'[b] = cevent[b]
    BY <1>17 DEF IInv, TypeOK, ClientType, LookAgain, Return, Found
  <2>2. cpc'[c] \notin {"copy", "list"}
    BY <1>17 DEF IInv, TypeOK, ClientType, LookAgain, Return, Found
  <2>3. UNCHANGED <<phase, events, subscriptions, condemned, dpc, dsub>>
    BY <1>17 DEF LookAgain
  <2> QED BY <2>1, <2>2, <2>3, OtherReader
<1>18. ASSUME NEW c \in Clients, ListNext(c)
      PROVE  (CopyInRange /\ ListedAlive /\ ReadersInArray)'
  BY <1>18 DEF IInv, TypeOK, SubType, ArrayType, ClientType, DelivererType,
  FreshUnused, CopyInRange, ListedAlive, ReadersInArray, Readers, Delivering,
  Copying, ListNext, NextAfter, First
<1>19. ASSUME NEW c \in Clients, EndList(c)
      PROVE  (CopyInRange /\ ListedAlive /\ ReadersInArray)'
  BY <1>19 DEF IInv, TypeOK, SubType, ArrayType, ClientType, DelivererType,
  FreshUnused, CopyInRange, ListedAlive, ReadersInArray, Readers, Delivering,
  Copying, EndList, Return
<1>20. ASSUME NEW s \in Subs, Expire(s)
      PROVE  (CopyInRange /\ ListedAlive /\ ReadersInArray)'
  BY <1>20 DEF IInv, TypeOK, SubType, ArrayType, ClientType, DelivererType,
  FreshUnused, CopyInRange, ListedAlive, ReadersInArray, Readers, Delivering,
  Copying, Expire
<1>21. ASSUME NEW s \in Subs, Delete(s)
      PROVE  (CopyInRange /\ ListedAlive /\ ReadersInArray)'
  BY <1>21 DEF IInv, TypeOK, SubType, ArrayType, ClientType, DelivererType,
  FreshUnused, CopyInRange, ListedAlive, ReadersInArray, Readers, Delivering,
  Copying, Delete
<1>22. ASSUME Clean
      PROVE  (CopyInRange /\ ListedAlive /\ ReadersInArray)'
  BY <1>22 DEF IInv, TypeOK, SubType, ArrayType, ClientType, DelivererType,
  FreshUnused, CopyInRange, ListedAlive, ReadersInArray, Readers, Delivering,
  Copying, Clean, Due
<1>23. ASSUME UseFreed
      PROVE  (CopyInRange /\ ListedAlive /\ ReadersInArray)'
  BY <1>23 DEF IInv, TypeOK, SubType, ArrayType, ClientType, DelivererType,
  FreshUnused, CopyInRange, ListedAlive, ReadersInArray, Readers, Delivering,
  Copying, UseFreed
<1> QED
  BY <1>1, <1>2, <1>3, <1>4, <1>5, <1>6, <1>7, <1>8, <1>9, <1>10, <1>11,
  <1>12, <1>13, <1>14, <1>15, <1>16, <1>17, <1>18, <1>19, <1>20, <1>21, <1>22,
  <1>23 DEF Next, Request, RequestStep, DeliveryStep

\* The invariant holds initially ...
LEMMA InitEstablishes == Init => IInv
<1> SUFFICES ASSUME Init PROVE IInv
  OBVIOUS
<1> USE DEF Subs, None, Before
<1>1. SubType /\ ArrayType
  BY ConstantsAssumption DEF ConstantsAssumption, Init, SubType, ArrayType
<1>2. EventsType
  <2>1. <<>> \in Seq(Event) /\ Len(<<>>) = 0
    OBVIOUS
  <2>2. /\ events = [s \in Subs |-> <<>>]
        /\ event_cursor = [s \in Subs |-> 0]
    BY DEF Init
  <2> QED
    BY <2>1, <2>2, ConstantsAssumption DEF ConstantsAssumption, EventsType
<1>3. DelivererType /\ ClientType
  BY ConstantsAssumption
  DEF ConstantsAssumption, Init, DelivererType, ClientType
<1>4. TypeOK
  BY <1>1, <1>2, <1>3 DEF Init, TypeOK
<1>5. FreshUnused /\ EventsWhenReady /\ InitializedOnce
  BY DEF Init, FreshUnused, EventsWhenReady, InitializedOnce
<1>6. CopyInRange /\ ListedAlive /\ ReadersInArray
  BY DEF Init, CopyInRange, ListedAlive, ReadersInArray
<1> QED BY <1>4, <1>5, <1>6 DEF IInv

\* ... and after a step that changes nothing ...
LEMMA StutterPreserves == IInv /\ UNCHANGED vars => IInv'
  BY DEF IInv, vars, subVars, arrayVars, delVars, cliVars, TypeOK, SubType,
         EventsType, ArrayType, DelivererType, ClientType, FreshUnused,
         EventsWhenReady, InitializedOnce, CopyInRange, ListedAlive,
         ReadersInArray, Readers, Delivering

\* ... and therefore in every state: the inductive invariant of the threads that
\* deliver, copy, list and create subscriptions.
THEOREM InvariantHolds == Spec => []IInv
<1>1. IInv /\ [Next]_vars => IInv'
  BY TypeStep, OwnershipStep, ArrayStep, StutterPreserves DEF IInv
<1> QED BY <1>1, InitEstablishes, PTL DEF Spec

-----------------------------------------------------------------------------
(* The theorems that follow from it.                                       *)

\* Every variable keeps its type, and no subscription keeps more events than
\* PAPPL_MAX_EVENTS, however they are delivered.
THEOREM TypeCorrect == Spec => []TypeOK
<1>1. IInv => TypeOK
  BY DEF IInv
<1> QED BY <1>1, InvariantHolds, PTL

\* A thread that delivers an event, or lists the subscriptions, never looks at
\* one that the main loop has freed.
THEOREM DeliveryAlwaysSafe == Spec => []DeliverySafe
<1>1. IInv => DeliverySafe
  <2> SUFFICES ASSUME IInv, NEW t \in Readers,
                      LET s == IF t \in Deliverers THEN dsub[t] ELSE csub[t] IN
                      s # None
               PROVE  LET s == IF t \in Deliverers THEN dsub[t] ELSE csub[t] IN
                      phase[s] \in {"published", "ready"}
    BY DEF DeliverySafe
  <2>1. CASE t \in Deliverers
    <3>1. dpc[t] = "loop"
      BY <2>1, ConstantsAssumption DEF ConstantsAssumption, Readers, Delivering
    <3> QED BY <2>1, <3>1 DEF IInv, ReadersInArray, ListedAlive
  <2>2. CASE t \notin Deliverers
    BY <2>2 DEF IInv, ReadersInArray, ListedAlive, Readers, Delivering
  <2> QED BY <2>1, <2>2
<1> QED BY <1>1, InvariantHolds, PTL

-----------------------------------------------------------------------------
(* The numbers of the events.                                              *)

\* Which steps change the events of a subscription or its last number.
LEMMA EventSteps ==
  Next => \/ UNCHANGED <<events, last_sequence>>
          \/ \E d \in Deliverers : Deliver(d)
          \/ \E c \in Clients : Initialize(c)
          \/ \E s \in Subs : Delete(s)
<1> USE DEF subVars
<1>1. ASSUME NEW d \in Deliverers, Raise(d) \/ EndDelivery(d)
      PROVE  UNCHANGED <<events, last_sequence>>
  BY <1>1 DEF Raise, EndDelivery
<1>2. ASSUME NEW c \in Clients, Request(c)
      PROVE  UNCHANGED <<events, last_sequence>>
  BY <1>2 DEF Request, Create, NotFound, List, Find, GetNotifications
<1>3. ASSUME NEW c \in Clients, RequestStep(c), ~Initialize(c)
      PROVE  UNCHANGED <<events, last_sequence>>
  <2>1. CASE Cancel(c) \/ Renew(c) \/ Scan(c) \/ Copy(c) \/ EndCopy(c)
    BY <2>1 DEF Cancel, Renew, Scan, Copy, EndCopy
  <2>2. CASE Wait(c) \/ Timeout(c) \/ LookAgain(c) \/ ListNext(c) \/ EndList(c)
    BY <2>2 DEF Wait, Timeout, LookAgain, ListNext, EndList
  <2> QED BY <1>3, <2>1, <2>2 DEF RequestStep
<1>4. ASSUME NEW s \in Subs, Expire(s)
      PROVE  UNCHANGED <<events, last_sequence>>
  BY <1>4 DEF Expire
<1>5. ASSUME Clean \/ UseFreed
      PROVE  UNCHANGED <<events, last_sequence>>
  BY <1>5 DEF Clean, UseFreed
<1> QED BY <1>1, <1>2, <1>3, <1>4, <1>5 DEF Next, DeliveryStep

\* The events of a subscription with the last number n are numbered without a gap.
Numbered(q, n) == \A i \in 1 .. Len(q) : q[i].num + Len(q) = n + i

\* Adding the next event and dropping the oldest keeps them so.
LEMMA KeptNumbered ==
  ASSUME NEW q \in Seq(Event), NEW n \in Nat, NEW x \in Nat, Numbered(q, n)
  PROVE  Numbered(Kept(q, [num |-> n + 1, event |-> x]), n + 1)
<1> DEFINE e == [num |-> n + 1, event |-> x]
           a == Append(q, e)
<1>1. a \in Seq(Event) /\ Len(a) = Len(q) + 1 /\ Len(q) \in Nat
  BY DEF Event
<1>2. \A i \in 1 .. Len(q) : a[i] = q[i]
  BY DEF Event
<1>3. a[Len(q) + 1].num = n + 1
  BY DEF Event
<1>4. \A i \in 1 .. Len(a) : a[i] \in Event
  BY <1>1
<1> HIDE DEF e
<1>5. Numbered(a, n + 1)
  <2> SUFFICES ASSUME NEW i \in 1 .. Len(a) PROVE a[i].num + Len(a) = n + 1 + i
    BY DEF Numbered
  <2>1. CASE i = Len(q) + 1
    BY <2>1, <1>1, <1>3
  <2>2. CASE i \in 1 .. Len(q)
    <3>1. a[i].num + Len(q) = n + i /\ a[i].num \in Nat
      BY <2>2, <1>1, <1>2, <1>4 DEF Numbered, Event
    <3> QED BY <3>1, <1>1, <2>2
  <2> QED BY <2>1, <2>2, <1>1
<1>6. Numbered(Tail(a), n + 1)
  <2>1. /\ Len(Tail(a)) = Len(q)
        /\ \A i \in 1 .. Len(q) : Tail(a)[i] = a[i + 1]
    BY <1>1
  <2> SUFFICES ASSUME NEW i \in 1 .. Len(q)
               PROVE  Tail(a)[i].num + Len(q) = n + 1 + i
    BY <2>1 DEF Numbered
  <2>2. a[i + 1].num + Len(a) = n + 1 + (i + 1)
    BY <1>1, <1>5 DEF Numbered
  <2>3. a[i + 1].num \in Nat
    BY <1>1, <1>4 DEF Event
  <2>4. Tail(a)[i] = a[i + 1] /\ Len(a) = Len(q) + 1 /\ Len(q) \in Nat
    BY <1>1, <2>1
  <2> HIDE DEF a
  <2> QED BY <2>2, <2>3, <2>4
<1> QED BY <1>5, <1>6 DEF Kept, a, e

\* However many threads deliver, the events a subscription keeps are numbered
\* without a gap and the newest has the last number.
THEOREM NumbersAlwaysConsecutive == Spec => []NumbersConsecutive
<1>1. Init => NumbersConsecutive
  BY DEF Init, NumbersConsecutive
<1>2. IInv /\ NumbersConsecutive /\ [Next]_vars => NumbersConsecutive'
  <2> SUFFICES ASSUME IInv, NumbersConsecutive, [Next]_vars
               PROVE  NumbersConsecutive'
    OBVIOUS
  <2>1. CASE UNCHANGED <<events, last_sequence>>
    BY <2>1 DEF NumbersConsecutive, Subs
  <2>2. ASSUME NEW d \in Deliverers, Deliver(d)
        PROVE  NumbersConsecutive'
    <3> DEFINE s == dsub[d]
               e == [num |-> last_sequence[s] + 1, event |-> devent[d]]
    <3>1. s \in Subs /\ devent[d] \in Nat /\ last_sequence[s] \in Nat
      BY <2>2, DeliverTo DEF IInv, TypeOK, SubType, DelivererType
    <3>2. events[s] \in Seq(Event) /\ Numbered(events[s], last_sequence[s])
      BY <3>1 DEF IInv, TypeOK, EventsType, NumbersConsecutive, Numbered
    <3>3. Numbered(Kept(events[s], e), last_sequence[s] + 1)
      BY <3>1, <3>2, KeptNumbered
    <3>4. \A t \in Subs \ {s} :
            events'[t] = events[t] /\ last_sequence'[t] = last_sequence[t]
      BY <2>2 DEF Deliver, IInv, TypeOK, SubType, EventsType
    <3>5. \/ events'[s] = events[s] /\ last_sequence'[s] = last_sequence[s]
          \/ events'[s] = <<>>
          \/ events'[s] = Kept(events[s], e) /\ last_sequence'[s] = last_sequence[s] + 1
      BY <2>2, <3>1 DEF Deliver, IInv, EventsWhenReady, TypeOK, SubType, EventsType
    <3>6. Numbered(events'[s], last_sequence'[s])
      BY <3>2, <3>3, <3>5 DEF Numbered
    <3> QED
      BY <3>4, <3>6 DEF NumbersConsecutive, Numbered, Subs
  <2>3. ASSUME NEW c \in Clients, Initialize(c)
        PROVE  NumbersConsecutive'
    BY <2>3 DEF Initialize, At, NumbersConsecutive, IInv, TypeOK, EventsType, Subs
  <2>4. ASSUME NEW s \in Subs, Delete(s)
        PROVE  NumbersConsecutive'
    BY <2>4 DEF Delete, NumbersConsecutive, IInv, TypeOK, EventsType, Subs
  <2>5. CASE UNCHANGED vars
    BY <2>1, <2>5 DEF vars, subVars
  <2> QED BY <2>1, <2>2, <2>3, <2>4, <2>5, EventSteps
<1> QED BY <1>1, <1>2, InvariantHolds, PTL DEF Spec

-----------------------------------------------------------------------------
(***************************************************************************)
(* A delivery, or an answer, whose iterator no other thread moves is       *)
(* complete.                                                               *)
(***************************************************************************)

(* The inductive invariant of a delivery.                                  *)

\* A thread no other has disturbed is the only one that delivers, and its turn
\* is where the iterator is.
AloneInLoop ==
  \A d \in Deliverers \cap alone :
    dpc[d] = "loop" /\ Readers = {d} /\ cursor = dsub[d]

\* What such a thread has passed has the event, or was not initialized when it
\* came by.
PassedServed ==
  \A d \in Deliverers \cap alone : \A s \in subscriptions :
    (s > dsub[d] \/ dsub[d] = None) =>
      \/ ~Wanted(s, d)
      \/ phase[s] = "published" /\ last_sequence[s] > 0
      \/ phase[s] = "ready" /\ (~Aligned(s) \/ Holds(s, devent[d]))

-----------------------------------------------------------------------------
(* What other threads may do meanwhile.                                    *)

\* A step that is not of the thread d and leaves it alone: the array and the
\* iterator stay, and at most a subscription is initialized or canceled.
Calm(d) ==
  /\ UNCHANGED <<delVars, cursor, subscriptions>>
  /\ d \in alone /\ Readers' = {d}
  /\ \A s \in subscriptions :
       /\ mask'[s] = mask[s] /\ (s \in is_canceled => s \in is_canceled')
       /\ last_sequence'[s] = last_sequence[s]
       /\ \/ /\ phase'[s] = phase[s] /\ events'[s] = events[s]
             /\ first_sequence'[s] = first_sequence[s]
          \/ /\ phase[s] = "published" /\ phase'[s] = "ready"
             /\ events'[s] = <<>> /\ first_sequence'[s] = 1

\* As long as a thread is left alone, a step is one of its own or calm.
LEMMA Undisturbed ==
  ASSUME IInv, AloneInLoop, Next, NEW d \in Deliverers, d \in alone'
  PROVE  (Raise(d) /\ Readers = {}) \/ (d \in alone /\ Deliver(d)) \/ Calm(d)
<1> DEFINE Goal == (Raise(d) /\ Readers = {}) \/ (d \in alone /\ Deliver(d)) \/ Calm(d)
<1> USE DEF Subs, None, Before, subVars, arrayVars, cliVars
<1>1. ASSUME NEW x \in Deliverers, Raise(x)
      PROVE  Goal
  BY <1>1 DEF AloneInLoop, Readers, Delivering, Raise
<1>2. ASSUME NEW x \in Deliverers, Deliver(x)
      PROVE  Goal
  BY <1>2 DEF AloneInLoop, Readers, Delivering, delVars, Deliver
<1>3. ASSUME NEW x \in Deliverers, EndDelivery(x)
      PROVE  Goal
  BY <1>3 DEF AloneInLoop, Readers, Delivering, EndDelivery
<1>4. ASSUME NEW c \in Clients, Create(c)
      PROVE  Goal
  BY <1>4, ConstantsAssumption DEF ConstantsAssumption, IInv, TypeOK, SubType,
  ClientType, AloneInLoop, Calm, Readers, Delivering, delVars, Create, Ask
<1>5. ASSUME NEW c \in Clients, NotFound(c)
      PROVE  Goal
  BY <1>5, ConstantsAssumption DEF ConstantsAssumption, IInv, TypeOK, SubType,
  ClientType, AloneInLoop, Calm, Readers, Delivering, delVars, NotFound, Ask,
  Missing, MovedTo
<1>6. ASSUME NEW c \in Clients, List(c)
      PROVE  Goal
  BY <1>6, ConstantsAssumption DEF ConstantsAssumption, IInv, TypeOK, SubType,
  ClientType, AloneInLoop, Calm, Readers, Delivering, delVars, List, Ask,
  First
<1>7. ASSUME NEW c \in Clients, NEW s \in Subs, NEW op \in {"cancel", "renew"},
             Find(c, s, op)
      PROVE  Goal
  BY <1>7, ConstantsAssumption DEF ConstantsAssumption, IInv, TypeOK, SubType,
  ClientType, AloneInLoop, Calm, Readers, Delivering, delVars, Find, Ask,
  Found, MovedTo
<1>8. ASSUME NEW c \in Clients, NEW s \in Subs,
             NEW n \in 0 .. last_sequence[s] + 1, NEW wait \in BOOLEAN,
             GetNotifications(c, s, n, wait)
      PROVE  Goal
  BY <1>8, ConstantsAssumption DEF ConstantsAssumption, IInv, TypeOK, SubType,
  ClientType, AloneInLoop, Calm, Readers, Delivering, delVars,
  GetNotifications, Ask, Found, MovedTo
<1>9. ASSUME NEW c \in Clients, Initialize(c)
      PROVE  Goal
  <2>1. \A s \in subscriptions :
          \/ /\ phase'[s] = phase[s] /\ events'[s] = events[s]
             /\ first_sequence'[s] = first_sequence[s]
          \/ /\ phase[s] = "published" /\ phase'[s] = "ready"
             /\ events'[s] = <<>> /\ first_sequence'[s] = 1
    <3>1. phase[csub[c]] = "published"
      BY <1>9 DEF IInv, InitializedOnce, Initialize, At
    <3> QED
      BY <1>9, <3>1
      DEF IInv, TypeOK, SubType, EventsType, ArrayType, Initialize, At
  <2>2. Readers' = Readers
    BY <1>9 DEF IInv, TypeOK, ClientType, Readers, Delivering, delVars,
                Initialize, At, Return
  <2> QED BY <1>9, <2>1, <2>2 DEF AloneInLoop, Calm, delVars, Initialize
<1>10. ASSUME NEW c \in Clients, Cancel(c)
      PROVE  Goal
  BY <1>10, ConstantsAssumption DEF ConstantsAssumption, IInv, TypeOK,
  SubType, ClientType, AloneInLoop, Calm, Readers, Delivering, delVars,
  Cancel, At, Return
<1>11. ASSUME NEW c \in Clients, Renew(c)
      PROVE  Goal
  BY <1>11, ConstantsAssumption DEF ConstantsAssumption, IInv, TypeOK,
  SubType, ClientType, AloneInLoop, Calm, Readers, Delivering, delVars, Renew,
  At, Return
<1>12. ASSUME NEW c \in Clients, Scan(c)
      PROVE  Goal
  BY <1>12, ConstantsAssumption DEF ConstantsAssumption, IInv, TypeOK,
  SubType, ClientType, AloneInLoop, Calm, Readers, Delivering, delVars, Scan,
  At, Empty, Return
<1>13. ASSUME NEW c \in Clients, Copy(c)
      PROVE  Goal
  BY <1>13, ConstantsAssumption DEF ConstantsAssumption, IInv, TypeOK,
  SubType, ClientType, AloneInLoop, Calm, Readers, Delivering, delVars, Copy,
  At
<1>14. ASSUME NEW c \in Clients, EndCopy(c)
      PROVE  Goal
  BY <1>14, ConstantsAssumption DEF ConstantsAssumption, IInv, TypeOK,
  SubType, ClientType, AloneInLoop, Calm, Readers, Delivering, delVars,
  EndCopy, At, Return, Empty
<1>15. ASSUME NEW c \in Clients, Wait(c)
      PROVE  Goal
  BY <1>15, ConstantsAssumption DEF ConstantsAssumption, IInv, TypeOK,
  SubType, ClientType, AloneInLoop, Calm, Readers, Delivering, delVars, Wait
<1>16. ASSUME NEW c \in Clients, Timeout(c)
      PROVE  Goal
  BY <1>16, ConstantsAssumption DEF ConstantsAssumption, IInv, TypeOK,
  SubType, ClientType, AloneInLoop, Calm, Readers, Delivering, delVars,
  Timeout
<1>17. ASSUME NEW c \in Clients, LookAgain(c)
      PROVE  Goal
  BY <1>17, ConstantsAssumption DEF ConstantsAssumption, IInv, TypeOK,
  SubType, ClientType, AloneInLoop, Calm, Readers, Delivering, delVars,
  LookAgain, Return, Found, Missing, MovedTo, WaitsNoMore
<1>18. ASSUME NEW c \in Clients, ListNext(c)
      PROVE  Goal
  BY <1>18, ConstantsAssumption DEF ConstantsAssumption, IInv, TypeOK,
  SubType, ClientType, AloneInLoop, Calm, Readers, Delivering, delVars,
  ListNext, NextAfter, First
<1>19. ASSUME NEW c \in Clients, EndList(c)
      PROVE  Goal
  BY <1>19, ConstantsAssumption DEF ConstantsAssumption, IInv, TypeOK,
  SubType, ClientType, AloneInLoop, Calm, Readers, Delivering, delVars,
  EndList, Return
<1>20. ASSUME NEW s \in Subs, Expire(s)
      PROVE  Goal
  BY <1>20, ConstantsAssumption DEF ConstantsAssumption, IInv, TypeOK,
  SubType, ClientType, AloneInLoop, Calm, Readers, Delivering, delVars, Expire
<1>21. ASSUME NEW s \in Subs, Delete(s)
      PROVE  Goal
  <2>1. \A t \in subscriptions :
          /\ phase'[t] = phase[t] /\ events'[t] = events[t]
          /\ first_sequence'[t] = first_sequence[t]
    BY <1>21 DEF IInv, TypeOK, SubType, EventsType, ArrayType, ListedAlive, Delete
  <2>2. Readers' = Readers
    BY <1>21 DEF Readers, Delivering, delVars, Delete
  <2> QED BY <1>21, <2>1, <2>2 DEF AloneInLoop, Calm, delVars, Delete
<1>22. ASSUME Clean
      PROVE  Goal
  BY <1>22, ConstantsAssumption DEF ConstantsAssumption, IInv, TypeOK,
  SubType, ClientType, AloneInLoop, Calm, Readers, Delivering, delVars, Clean,
  Due
<1>23. ASSUME UseFreed
      PROVE  Goal
  BY <1>23, ConstantsAssumption DEF ConstantsAssumption, IInv, TypeOK,
  SubType, ClientType, AloneInLoop, Calm, Readers, Delivering, delVars,
  UseFreed
<1> QED
  BY <1>1, <1>2, <1>3, <1>4, <1>5, <1>6, <1>7, <1>8, <1>9, <1>10, <1>11,
  <1>12, <1>13, <1>14, <1>15, <1>16, <1>17, <1>18, <1>19, <1>20, <1>21, <1>22,
  <1>23 DEF Next, Request, RequestStep, DeliveryStep

\* A thread stays the only one to deliver, and the iterator with it, as long as
\* it is left alone.
LEMMA AloneStep == IInv /\ AloneInLoop /\ Next => AloneInLoop'
<1> SUFFICES ASSUME IInv, AloneInLoop, Next, NEW d \in Deliverers, d \in alone'
             PROVE  dpc'[d] = "loop" /\ Readers' = {d} /\ cursor' = dsub'[d]
  BY DEF AloneInLoop
<1>1. CASE Raise(d) /\ Readers = {}
  <2>1. \A t \in Deliverers : dpc'[t] = "loop" <=> t = d
    BY <1>1 DEF IInv, TypeOK, DelivererType, Raise, Readers, Delivering
  <2>2. UNCHANGED cpc
    BY <1>1 DEF Raise, cliVars
  <2>3. Readers' = {d}
    BY <1>1, <2>1, <2>2 DEF Readers, Delivering
  <2>4. cursor' = dsub'[d]
    BY <1>1 DEF IInv, TypeOK, DelivererType, Raise, MoveOn
  <2> QED BY <2>1, <2>3, <2>4
<1>2. CASE d \in alone /\ Deliver(d)
  <2>1. dpc[d] = "loop" /\ Readers = {d} /\ UNCHANGED dpc
    BY <1>2 DEF AloneInLoop, Deliver
  <2>2. \A c \in Clients : cpc'[c] = "list" <=> cpc[c] = "list"
    BY <1>2 DEF IInv, TypeOK, ClientType, Deliver
  <2>3. Readers' = {d}
    BY <2>1, <2>2 DEF Readers, Delivering
  <2>4. cursor' = dsub'[d]
    BY <1>2 DEF IInv, TypeOK, DelivererType, Deliver, MoveOn
  <2> QED BY <2>1, <2>3, <2>4
<1>3. CASE Calm(d)
  BY <1>3 DEF AloneInLoop, Calm, delVars
<1> QED BY <1>1, <1>2, <1>3, Undisturbed

-----------------------------------------------------------------------------
(* What the thread has passed.                                             *)

\* The part of PassedServed for one thread and one subscription.
Served(d, s) ==
  \/ ~Wanted(s, d)
  \/ phase[s] = "published" /\ last_sequence[s] > 0
  \/ phase[s] = "ready" /\ (~Aligned(s) \/ Holds(s, devent[d]))

\* Initializing or canceling a subscription does not undo it.
LEMMA CalmServed ==
  ASSUME IInv, NEW d \in Deliverers, Calm(d), NEW s \in subscriptions,
         Served(d, s)
  PROVE  Served(d, s)'
<1>1. s \in Subs /\ last_sequence[s] \in Nat
  BY DEF IInv, TypeOK, SubType, ArrayType
<1>2. dkind'[d] = dkind[d] /\ devent'[d] = devent[d]
  BY DEF Calm, delVars
<1>3. CASE ~Wanted(s, d)
  BY <1>2, <1>3 DEF Calm, Served, Wanted
<1>4. CASE /\ phase'[s] = phase[s] /\ events'[s] = events[s]
           /\ first_sequence'[s] = first_sequence[s]
  BY <1>2, <1>4 DEF Calm, Served, Wanted, Aligned, Holds
<1>5. CASE /\ phase[s] = "published" /\ phase'[s] = "ready"
           /\ events'[s] = <<>> /\ first_sequence'[s] = 1
           /\ Wanted(s, d)
  <2>1. last_sequence'[s] = last_sequence[s] /\ last_sequence[s] > 0
    BY <1>5 DEF Served, Calm
  <2>2. ~Aligned(s)'
    BY <1>1, <1>5, <2>1 DEF Aligned
  <2> QED BY <1>5, <2>2 DEF Served
<1> QED BY <1>3, <1>4, <1>5 DEF Calm

\* What Kept keeps of the events includes the latest.
LEMMA KeptLatest ==
  ASSUME NEW q \in Seq(Event), NEW e \in Event
  PROVE  \E i \in 1 .. Len(Kept(q, e)) : Kept(q, e)[i] = e
<1> DEFINE a == Append(q, e)
<1>1. /\ a \in Seq(Event) /\ Len(a) = Len(q) + 1 /\ Len(q) \in Nat
      /\ a[Len(q) + 1] = e
  OBVIOUS
<1>2. CASE ~Overfull(a)
  <2>1. Kept(q, e) = a
    BY <1>2 DEF Kept
  <2> QED BY <1>1, <2>1
<1>3. CASE Overfull(a)
  <2>1. Kept(q, e) = Tail(a)
    BY <1>3 DEF Kept
  <2>2. Len(q) > 0
    <3>1. Len(q) + 1 > MaxEvents
      BY <1>1, <1>3 DEF Overfull
    <3> HIDE DEF a
    <3> QED BY <1>1, <3>1, ConstantsAssumption DEF ConstantsAssumption
  <2>3. Len(Tail(a)) = Len(q) /\ Tail(a)[Len(q)] = a[Len(q) + 1]
    BY <1>1, <2>2
  <2> QED BY <1>1, <2>1, <2>2, <2>3
<1> QED BY <1>2, <1>3

\* A turn serves the subscription whose turn it is, and disturbs no other.
LEMMA TurnServes ==
  ASSUME IInv, NEW d \in Deliverers, Deliver(d), NEW s \in subscriptions,
         s = dsub[d] \/ Served(d, s)
  PROVE  /\ Wanted(s, d)' = Wanted(s, d)
         /\ ~Wanted(s, d) \/ phase[s] \in {"published", "ready"}
         /\ (Wanted(s, d) /\ phase[s] = "published") => last_sequence'[s] > 0
         /\ (Wanted(s, d) /\ phase[s] = "ready") =>
              ~Aligned(s)' \/ Holds(s, devent[d])'
<1>1. s \in Subs /\ last_sequence[s] \in Nat /\ dsub[d] \in Subs
  BY DeliverTo DEF IInv, TypeOK, SubType, ArrayType
<1>2. UNCHANGED <<mask, is_canceled, dkind, devent, phase>>
  BY DEF Deliver
<1>3. phase[s] \in {"published", "ready"}
  BY DEF IInv, ListedAlive
<1>4. CASE s # dsub[d]
  <2>1. /\ last_sequence'[s] = last_sequence[s] /\ events'[s] = events[s]
        /\ first_sequence'[s] = first_sequence[s]
    BY <1>1, <1>4 DEF Deliver, IInv, TypeOK, SubType, EventsType
  <2> QED
    BY <1>2, <1>3, <1>4, <2>1 DEF Served, Wanted, Aligned, Holds
<1>5. CASE s = dsub[d] /\ Wanted(s, d)
  <2> DEFINE e == [num |-> last_sequence[s] + 1, event |-> devent[d]]
  <2>1. last_sequence'[s] = last_sequence[s] + 1
    BY <1>1, <1>5 DEF Deliver, IInv, TypeOK, SubType
  <2>2. ASSUME phase[s] = "ready" PROVE Holds(s, devent[d])'
    <3>1. events'[s] = Kept(events[s], e)
      <4>1. events' = [events EXCEPT ![s] = Kept(@, e)]
        BY <1>5, <2>2 DEF Deliver
      <4> HIDE DEF e
      <4> QED BY <1>1, <4>1 DEF IInv, TypeOK, EventsType
    <3>2. events[s] \in Seq(Event) /\ e \in Event
      BY <1>1, <1>5, DeliverTo DEF IInv, TypeOK, EventsType
    <3>3. PICK i \in 1 .. Len(Kept(events[s], e)) : Kept(events[s], e)[i] = e
      BY <3>2, KeptLatest
    <3> QED BY <1>2, <3>1, <3>3 DEF Holds
  <2> QED BY <1>1, <1>2, <1>3, <2>1, <2>2 DEF Wanted
<1>6. CASE s = dsub[d] /\ ~Wanted(s, d)
  BY <1>2, <1>6 DEF Wanted
<1> QED BY <1>4, <1>5, <1>6

\* Every step of an undisturbed thread, and those of the others, keep what it
\* has passed served.
LEMMA PassedStep ==
  ASSUME IInv, AloneInLoop, PassedServed, Next
  PROVE  PassedServed'
<1> SUFFICES ASSUME NEW d \in Deliverers, d \in alone',
                    NEW s \in subscriptions',
                    s > dsub'[d] \/ dsub'[d] = None
             PROVE  Served(d, s)'
  BY DEF PassedServed, Served
<1> USE DEF None
<1>1. CASE Raise(d) /\ Readers = {}
  <2>1. PICK t \in First(subscriptions) : dsub' = [dsub EXCEPT ![d] = t]
    BY <1>1 DEF Raise, MoveOn
  <2>2. subscriptions' = subscriptions /\ subscriptions \subseteq Nat \ {0}
    BY <1>1 DEF Raise, arrayVars, IInv, TypeOK, ArrayType, Subs
  <2>3. dsub'[d] = t
    BY <2>1 DEF IInv, TypeOK, DelivererType
  <2>4. t = None \/ s <= t
    BY <2>1, <2>2 DEF First
  <2>5. t = None => subscriptions = {}
    BY <2>1, <2>2 DEF First
  <2>6. s \in Nat /\ t \in Nat
    BY <2>1, <2>2 DEF First
  <2> QED BY <2>2, <2>3, <2>4, <2>5, <2>6
<1>2. CASE d \in alone /\ Deliver(d)
  <2>1. PICK t \in NextAfter(cursor) : dsub' = [dsub EXCEPT ![d] = t]
    BY <1>2 DEF Deliver, MoveOn
  <2>2. subscriptions' = subscriptions /\ subscriptions \subseteq Nat \ {0}
    BY <1>2 DEF Deliver, arrayVars, IInv, TypeOK, ArrayType, Subs
  <2>3. dsub'[d] = t /\ cursor = dsub[d] /\ dsub[d] \in subscriptions
    BY <1>2, <2>1, DeliverTo DEF AloneInLoop, IInv, TypeOK, DelivererType
  <2>4. s >= dsub[d]
    <3>1. t \in Nat
      <4>1. t \in subscriptions \/ t = 0
        BY <2>1, NextIn
      <4>2. CASE t \in subscriptions
        BY <2>2, <4>2
      <4>3. CASE t = 0
        BY <4>3
      <4> QED BY <4>1, <4>2, <4>3
    <3> s \in Nat /\ dsub[d] \in Nat
      BY <2>2, <2>3
    <3>2. s < dsub[d] => t \in subscriptions /\ s <= t /\ t < dsub[d]
      BY <2>1, <2>2, <2>3 DEF NextAfter, First
    <3> QED BY <2>2, <2>3, <3>1, <3>2
  <2>5. s = dsub[d] \/ Served(d, s)
    <3>1. s \in subscriptions /\ s \in Nat /\ dsub[d] \in Nat /\ d \in alone
      BY <1>2, <2>2, <2>3
    <3>2. s = dsub[d] \/ s > dsub[d]
      BY <2>4, <3>1
    <3> QED BY <3>1, <3>2 DEF PassedServed, Served
  <2>6. UNCHANGED phase /\ phase[s] \in {"published", "ready"}
    BY <1>2, <2>2 DEF Deliver, IInv, ListedAlive
  <2>7. /\ Wanted(s, d)' = Wanted(s, d)
        /\ (Wanted(s, d) /\ phase[s] = "published") => last_sequence'[s] > 0
        /\ (Wanted(s, d) /\ phase[s] = "ready") =>
             ~Aligned(s)' \/ Holds(s, devent[d])'
    BY <1>2, <2>2, <2>5, TurnServes
  <2> QED BY <2>6, <2>7 DEF Served
<1>3. CASE Calm(d)
  <2>1. s \in subscriptions /\ dsub'[d] = dsub[d] /\ d \in alone
    BY <1>3 DEF Calm, delVars
  <2>2. Served(d, s)
    BY <2>1 DEF PassedServed, Served
  <2> QED BY <1>3, <2>1, <2>2, CalmServed
<1> QED BY <1>1, <1>2, <1>3, Undisturbed

\* When its delivery ends, an event has reached every subscription it is for,
\* unless another thread moved the iterator of the array meanwhile or the
\* subscription was not initialized in time.
THEOREM DeliveryAlwaysComplete == Spec => []DeliveryComplete
<1> DEFINE Inv == AloneInLoop /\ PassedServed
<1>1. Init => Inv
  BY DEF Init, AloneInLoop, PassedServed
<1>2. IInv /\ Inv /\ [Next]_vars => Inv'
  <2>1. CASE UNCHANGED vars
    BY <2>1
    DEF vars, subVars, arrayVars, delVars, cliVars, AloneInLoop, PassedServed,
        Readers, Delivering, Wanted, Aligned, Holds
  <2> QED BY <2>1, AloneStep, PassedStep
<1>3. Inv => DeliveryComplete
  BY DEF PassedServed, DeliveryComplete, Delivering
<1> QED BY <1>1, <1>2, <1>3, InvariantHolds, PTL DEF Spec

-----------------------------------------------------------------------------
(* The inductive invariant of an answer.                                   *)

\* A client no other has disturbed is the only one to copy the events of its
\* subscription, and its turn is where the iterator is.
AloneCopying ==
  \A c \in Clients \cap alone :
    /\ cpc[c] = "copy" /\ Copying(csub[c]) = {c}
    /\ event_cursor[csub[c]] = cevent[c]

\* Only a client that copies has an answer.
NoAnswer == \A c \in Clients : cpc[c] # "copy" => canswer[c] = {}

\* The numbers of the events of s before the k-th, or of all when k is 0, from
\* the number n on.
NumbersBefore(s, n, k) ==
  {events[s][i].num : i \in {j \in 1 .. Len(events[s]) :
                               events[s][j].num >= n /\ (k = 0 \/ j < k)}}

\* So far such a client has copied what it had to, and the next event is one it
\* has to copy.
CopiedSoFar ==
  \A c \in Clients \cap alone :
    LET s == csub[c] IN
    (phase[s] # "ready" \/ Aligned(s)) =>
      /\ canswer[c] = NumbersBefore(s, casked[c], cevent[c])
      /\ cevent[c] # 0 => events[s][cevent[c]].num >= casked[c]

\* A step that leaves the client c and what it copies alone: at most its
\* subscription is initialized, which has no events then.
CalmAnswer(c) ==
  LET s == csub[c] IN
  /\ c \in alone
  /\ cpc'[c] = cpc[c] /\ csub'[c] = csub[c] /\ casked'[c] = casked[c]
  /\ cevent'[c] = cevent[c] /\ canswer'[c] = canswer[c]
  /\ Copying(s)' = {c} /\ event_cursor'[s] = event_cursor[s]
  /\ events'[s] = events[s] /\ last_sequence'[s] = last_sequence[s]
  /\ \/ phase'[s] = phase[s] /\ first_sequence'[s] = first_sequence[s]
     \/ phase[s] # "ready"

\* A step of a client that does not begin to copy the same events is one.
LEMMA OtherCopier ==
  ASSUME IInv, AloneCopying, NEW c \in Clients, c \in alone,
         NEW x \in Clients, x # c,
         \A b \in Clients \ {x} :
           /\ cpc'[b] = cpc[b] /\ csub'[b] = csub[b] /\ casked'[b] = casked[b]
           /\ cevent'[b] = cevent[b] /\ canswer'[b] = canswer[b],
         cpc'[x] = "copy" => csub'[x] # csub[c],
         event_cursor'[csub[c]] = event_cursor[csub[c]],
         events'[csub[c]] = events[csub[c]],
         last_sequence'[csub[c]] = last_sequence[csub[c]],
         \/ /\ phase'[csub[c]] = phase[csub[c]]
            /\ first_sequence'[csub[c]] = first_sequence[csub[c]]
         \/ phase[csub[c]] # "ready"
  PROVE  CalmAnswer(c)
<1>1. Copying(csub[c])' = {c}
  BY DEF AloneCopying, Copying
<1> QED BY <1>1 DEF CalmAnswer

\* As long as a client is left alone, a step is one of its own or calm.
LEMMA UndisturbedAnswer ==
  ASSUME IInv, AloneCopying, Next, NEW c \in Clients, c \in alone'
  PROVE  (Scan(c) /\ cpc'[c] = "copy") \/ (c \in alone /\ Copy(c)) \/ CalmAnswer(c)
<1> DEFINE Goal == \/ Scan(c) /\ cpc'[c] = "copy"
                   \/ c \in alone /\ Copy(c)
                   \/ CalmAnswer(c)
<1> USE DEF Subs, None, Before, subVars, arrayVars, cliVars, delVars
<1>1. ASSUME NEW d \in Deliverers, Raise(d)
      PROVE  Goal
  BY <1>1, ConstantsAssumption DEF ConstantsAssumption, IInv, TypeOK, SubType,
  EventsType, ClientType, CopyInRange, AloneCopying, CalmAnswer, Copying,
  Delivering, Raise, MoveOn, First
<1>2. ASSUME NEW d \in Deliverers, Deliver(d)
      PROVE  Goal
  <2>1. /\ c \in alone /\ cpc[c] = "copy" /\ Copying(csub[c]) = {c}
        /\ csub[c] \in Subs
    BY <1>2 DEF IInv, CopyInRange, AloneCopying, Deliver
  <2>2. /\ last_sequence'[csub[c]] = last_sequence[csub[c]]
        /\ events'[csub[c]] = events[csub[c]]
        /\ first_sequence'[csub[c]] = first_sequence[csub[c]]
    BY <1>2, <2>1 DEF IInv, TypeOK, SubType, EventsType, Deliver
  <2>3. \A b \in Clients : cpc'[b] = "copy" <=> cpc[b] = "copy"
    BY <1>2 DEF IInv, TypeOK, ClientType, Deliver
  <2>4. UNCHANGED <<csub, casked, cevent, canswer, event_cursor, phase>>
    BY <1>2 DEF Deliver
  <2>5. cpc'[c] = cpc[c] /\ Copying(csub[c])' = {c}
    BY <2>1, <2>3, <2>4 DEF Copying
  <2> QED BY <2>1, <2>2, <2>4, <2>5 DEF CalmAnswer
<1>3. ASSUME NEW d \in Deliverers, EndDelivery(d)
      PROVE  Goal
  BY <1>3, ConstantsAssumption DEF ConstantsAssumption, IInv, TypeOK, SubType,
  EventsType, ClientType, CopyInRange, AloneCopying, CalmAnswer, Copying,
  Delivering, EndDelivery
<1>4. ASSUME NEW x \in Clients, Create(x)
      PROVE  Goal
  <2>1. c \in alone /\ x # c /\ csub[c] \in Subs
    BY <1>4 DEF IInv, CopyInRange, AloneCopying, Copying, Create, Ask
  <2>2. \A b \in Clients \ {x} :
          /\ cpc'[b] = cpc[b] /\ csub'[b] = csub[b] /\ casked'[b] = casked[b]
          /\ cevent'[b] = cevent[b] /\ canswer'[b] = canswer[b]
    BY <1>4 DEF IInv, TypeOK, ClientType, Create, Ask
  <2>3. cpc'[x] # "copy"
    BY <1>4 DEF IInv, TypeOK, ClientType, Create, Ask
  <2>4. event_cursor'[csub[c]] = event_cursor[csub[c]]
    BY <1>4, <2>1 DEF IInv, TypeOK, EventsType, Create
  <2>5. /\ UNCHANGED <<events, last_sequence, first_sequence>>
        /\ phase'[csub[c]] = phase[csub[c]] \/ phase[csub[c]] # "ready"
    BY <1>4, <2>1 DEF IInv, TypeOK, SubType, ArrayType, FreshUnused, Create
  <2> QED BY <2>1, <2>2, <2>3, <2>4, <2>5, OtherCopier
<1>5. ASSUME NEW x \in Clients, NotFound(x)
      PROVE  Goal
  BY <1>5, ConstantsAssumption DEF ConstantsAssumption, IInv, TypeOK, SubType,
  EventsType, ClientType, CopyInRange, AloneCopying, CalmAnswer, Copying,
  Delivering, NotFound, Ask, Missing, MovedTo
<1>6. ASSUME NEW x \in Clients, List(x)
      PROVE  Goal
  <2>1. c \in alone /\ x # c /\ csub[c] \in Subs
    BY <1>6 DEF IInv, CopyInRange, AloneCopying, Copying, List, Ask
  <2>2. \A b \in Clients \ {x} :
          /\ cpc'[b] = cpc[b] /\ csub'[b] = csub[b] /\ casked'[b] = casked[b]
          /\ cevent'[b] = cevent[b] /\ canswer'[b] = canswer[b]
    BY <1>6 DEF IInv, TypeOK, ClientType, List, Ask
  <2>3. cpc'[x] # "copy"
    BY <1>6 DEF IInv, TypeOK, ClientType, List, Ask
  <2>4. event_cursor'[csub[c]] = event_cursor[csub[c]]
    BY <1>6, <2>1 DEF IInv, TypeOK, EventsType, List
  <2>5. UNCHANGED <<events, last_sequence, phase, first_sequence>>
    BY <1>6 DEF List
  <2> QED BY <2>1, <2>2, <2>3, <2>4, <2>5, OtherCopier
<1>7. ASSUME NEW x \in Clients, NEW s \in Subs, NEW op \in {"cancel", "renew"},
             Find(x, s, op)
      PROVE  Goal
  <2>1. c \in alone /\ x # c /\ csub[c] \in Subs
    BY <1>7 DEF IInv, CopyInRange, AloneCopying, Copying, Find, Ask, Found, MovedTo
  <2>2. \A b \in Clients \ {x} :
          /\ cpc'[b] = cpc[b] /\ csub'[b] = csub[b] /\ casked'[b] = casked[b]
          /\ cevent'[b] = cevent[b] /\ canswer'[b] = canswer[b]
    BY <1>7 DEF IInv, TypeOK, ClientType, Find, Ask, Found, MovedTo
  <2>3. cpc'[x] # "copy"
    BY <1>7 DEF IInv, TypeOK, ClientType, Find, Ask, Found, MovedTo
  <2>4. UNCHANGED <<event_cursor, events, last_sequence, phase, first_sequence>>
    BY <1>7 DEF Find
  <2> QED BY <2>1, <2>2, <2>3, <2>4, OtherCopier
<1>8. ASSUME NEW x \in Clients, NEW s \in Subs,
             NEW n \in 0 .. last_sequence[s] + 1, NEW wait \in BOOLEAN,
             GetNotifications(x, s, n, wait)
      PROVE  Goal
  <2>1. c \in alone /\ x # c /\ csub[c] \in Subs
    BY <1>8 DEF IInv, CopyInRange, AloneCopying, Copying, GetNotifications, Ask, Found, MovedTo
  <2>2. \A b \in Clients \ {x} :
          /\ cpc'[b] = cpc[b] /\ csub'[b] = csub[b] /\ casked'[b] = casked[b]
          /\ cevent'[b] = cevent[b] /\ canswer'[b] = canswer[b]
    BY <1>8 DEF IInv, TypeOK, ClientType, GetNotifications, Ask, Found, MovedTo
  <2>3. cpc'[x] # "copy"
    BY <1>8 DEF IInv, TypeOK, ClientType, GetNotifications, Ask, Found, MovedTo
  <2>4. UNCHANGED <<event_cursor, events, last_sequence, phase, first_sequence>>
    BY <1>8 DEF GetNotifications
  <2> QED BY <2>1, <2>2, <2>3, <2>4, OtherCopier
<1>9. ASSUME NEW x \in Clients, Initialize(x)
      PROVE  Goal
  <2>1. c \in alone /\ x # c /\ csub[c] \in Subs
    BY <1>9 DEF IInv, CopyInRange, AloneCopying, Copying, Initialize, At, Return
  <2>2. \A b \in Clients \ {x} :
          /\ cpc'[b] = cpc[b] /\ csub'[b] = csub[b] /\ casked'[b] = casked[b]
          /\ cevent'[b] = cevent[b] /\ canswer'[b] = canswer[b]
    BY <1>9 DEF IInv, TypeOK, ClientType, Initialize, At, Return
  <2>3. cpc'[x] # "copy"
    BY <1>9 DEF IInv, TypeOK, ClientType, Initialize, Return
  <2>4. event_cursor'[csub[c]] = event_cursor[csub[c]]
    BY <1>9 DEF Initialize
  <2>5. /\ UNCHANGED <<events, last_sequence>>
        /\ \/ /\ phase'[csub[c]] = phase[csub[c]]
              /\ first_sequence'[csub[c]] = first_sequence[csub[c]]
           \/ phase[csub[c]] # "ready"
    <3>1. phase[csub[x]] # "ready" /\ events[csub[x]] = <<>>
      BY <1>9 DEF IInv, InitializedOnce, EventsWhenReady, Initialize, At
    <3> QED
      BY <1>9, <2>1, <3>1
      DEF IInv, TypeOK, SubType, EventsType, Initialize, At
  <2> QED BY <2>1, <2>2, <2>3, <2>4, <2>5, OtherCopier
<1>10. ASSUME NEW x \in Clients, Cancel(x)
      PROVE  Goal
  <2>1. c \in alone /\ x # c /\ csub[c] \in Subs
    BY <1>10 DEF IInv, CopyInRange, AloneCopying, Copying, Cancel, At, Return
  <2>2. \A b \in Clients \ {x} :
          /\ cpc'[b] = cpc[b] /\ csub'[b] = csub[b] /\ casked'[b] = casked[b]
          /\ cevent'[b] = cevent[b] /\ canswer'[b] = canswer[b]
    BY <1>10 DEF IInv, TypeOK, ClientType, Cancel, At, Return
  <2>3. cpc'[x] # "copy"
    BY <1>10 DEF IInv, TypeOK, ClientType, Cancel, At, Return
  <2>4. UNCHANGED <<event_cursor, events, last_sequence, phase, first_sequence>>
    BY <1>10 DEF Cancel
  <2> QED BY <2>1, <2>2, <2>3, <2>4, OtherCopier
<1>11. ASSUME NEW x \in Clients, Renew(x)
      PROVE  Goal
  <2>1. c \in alone /\ x # c /\ csub[c] \in Subs
    BY <1>11 DEF IInv, CopyInRange, AloneCopying, Copying, Renew, At, Return
  <2>2. \A b \in Clients \ {x} :
          /\ cpc'[b] = cpc[b] /\ csub'[b] = csub[b] /\ casked'[b] = casked[b]
          /\ cevent'[b] = cevent[b] /\ canswer'[b] = canswer[b]
    BY <1>11 DEF IInv, TypeOK, ClientType, Renew, At, Return
  <2>3. cpc'[x] # "copy"
    BY <1>11 DEF IInv, TypeOK, ClientType, Renew, At, Return
  <2>4. UNCHANGED <<event_cursor, events, last_sequence, phase, first_sequence>>
    BY <1>11 DEF Renew
  <2> QED BY <2>1, <2>2, <2>3, <2>4, OtherCopier
<1>12. ASSUME NEW x \in Clients, Scan(x)
      PROVE  Goal
  <2>1. CASE x = c
    <3>1. c \notin alone
      BY <1>12, <2>1 DEF AloneCopying, Scan, At
    <3> QED BY <1>12, <2>1, <3>1 DEF IInv, TypeOK, ClientType, Scan, At
  <2>2. CASE x # c
    <3>1. c \in alone /\ csub[c] \in Subs /\ cpc[c] = "copy"
      BY <1>12, <2>2 DEF IInv, CopyInRange, AloneCopying, Scan
    <3>2. \A b \in Clients \ {x} :
            /\ cpc'[b] = cpc[b] /\ csub'[b] = csub[b] /\ casked'[b] = casked[b]
            /\ cevent'[b] = cevent[b] /\ canswer'[b] = canswer[b]
      BY <1>12 DEF IInv, TypeOK, ClientType, Scan, Empty, Return
    <3>3. UNCHANGED <<events, last_sequence, phase, first_sequence>>
      BY <1>12 DEF Scan
    <3>4. CASE UNCHANGED event_cursor /\ cpc'[x] # "copy"
      BY <2>2, <3>1, <3>2, <3>3, <3>4, OtherCopier
    <3>5. CASE ~(UNCHANGED event_cursor /\ cpc'[x] # "copy")
      <4>1. /\ \A t \in Subs \ {csub[x]} : event_cursor'[t] = event_cursor[t]
            /\ csub' = csub
            /\ alone' = IF Copying(csub[x]) = {} THEN alone \cup {x}
                                                ELSE alone \ Copying(csub[x])
        BY <1>12, <3>5
        DEF IInv, TypeOK, EventsType, ClientType, Scan, At, Empty, Return
      <4>2. csub[x] # csub[c]
        BY <3>1, <4>1 DEF Copying
      <4> QED BY <2>2, <3>1, <3>2, <3>3, <4>1, <4>2, OtherCopier
    <3> QED BY <3>4, <3>5
  <2> QED BY <2>1, <2>2
<1>13. ASSUME NEW x \in Clients, Copy(x)
      PROVE  Goal
  <2>1. c \in alone
    BY <1>13 DEF Copy
  <2>2. CASE x = c
    BY <1>13, <2>1, <2>2
  <2>3. CASE x # c
    <3>1. csub[c] \in Subs /\ csub[x] # csub[c]
      BY <1>13, <2>1, <2>3 DEF IInv, CopyInRange, AloneCopying, Copying, Copy, At
    <3>2. \A b \in Clients \ {x} :
            /\ cpc'[b] = cpc[b] /\ csub'[b] = csub[b] /\ casked'[b] = casked[b]
            /\ cevent'[b] = cevent[b] /\ canswer'[b] = canswer[b]
      BY <1>13 DEF IInv, TypeOK, ClientType, Copy
    <3>3. event_cursor'[csub[c]] = event_cursor[csub[c]] /\ csub' = csub
      BY <1>13, <3>1 DEF IInv, TypeOK, EventsType, Copy
    <3>4. UNCHANGED <<events, last_sequence, phase, first_sequence>>
      BY <1>13 DEF Copy
    <3> QED BY <2>1, <2>3, <3>1, <3>2, <3>3, <3>4, OtherCopier
  <2> QED BY <2>2, <2>3
<1>14. ASSUME NEW x \in Clients, EndCopy(x)
      PROVE  Goal
  <2>1. c \in alone /\ x # c /\ csub[c] \in Subs
    BY <1>14 DEF IInv, CopyInRange, AloneCopying, Copying, EndCopy, At, Empty, Return
  <2>2. \A b \in Clients \ {x} :
          /\ cpc'[b] = cpc[b] /\ csub'[b] = csub[b] /\ casked'[b] = casked[b]
          /\ cevent'[b] = cevent[b] /\ canswer'[b] = canswer[b]
    BY <1>14 DEF IInv, TypeOK, ClientType, EndCopy, At, Empty, Return
  <2>3. cpc'[x] # "copy"
    BY <1>14 DEF IInv, TypeOK, ClientType, EndCopy, Empty, Return
  <2>4. event_cursor'[csub[c]] = event_cursor[csub[c]]
    BY <1>14, <2>1 DEF IInv, TypeOK, EventsType, AloneCopying, Copying, EndCopy, At
  <2>5. UNCHANGED <<events, last_sequence, phase, first_sequence>>
    BY <1>14 DEF EndCopy
  <2> QED BY <2>1, <2>2, <2>3, <2>4, <2>5, OtherCopier
<1>15. ASSUME NEW x \in Clients, Wait(x)
      PROVE  Goal
  BY <1>15, ConstantsAssumption DEF ConstantsAssumption, IInv, TypeOK,
  SubType, EventsType, ClientType, CopyInRange, AloneCopying, CalmAnswer,
  Copying, Delivering, Wait
<1>16. ASSUME NEW x \in Clients, Timeout(x)
      PROVE  Goal
  BY <1>16, ConstantsAssumption DEF ConstantsAssumption, IInv, TypeOK,
  SubType, EventsType, ClientType, CopyInRange, AloneCopying, CalmAnswer,
  Copying, Delivering, Timeout
<1>17. ASSUME NEW x \in Clients, LookAgain(x)
      PROVE  Goal
  <2>1. c \in alone /\ x # c /\ csub[c] \in Subs
    BY <1>17 DEF IInv, CopyInRange, AloneCopying, Copying, LookAgain, Found, Missing, MovedTo, Return
  <2>2. \A b \in Clients \ {x} :
          /\ cpc'[b] = cpc[b] /\ csub'[b] = csub[b] /\ casked'[b] = casked[b]
          /\ cevent'[b] = cevent[b] /\ canswer'[b] = canswer[b]
    BY <1>17 DEF IInv, TypeOK, ClientType, LookAgain, Found, Missing, MovedTo, Return
  <2>3. cpc'[x] # "copy"
    BY <1>17 DEF IInv, TypeOK, ClientType, LookAgain, Found, Missing, MovedTo, Return
  <2>4. event_cursor'[csub[c]] = event_cursor[csub[c]]
    BY <1>17, <2>1 DEF IInv, TypeOK, EventsType, LookAgain
  <2>5. UNCHANGED <<events, last_sequence, phase, first_sequence>>
    BY <1>17 DEF LookAgain
  <2> QED BY <2>1, <2>2, <2>3, <2>4, <2>5, OtherCopier
<1>18. ASSUME NEW x \in Clients, ListNext(x)
      PROVE  Goal
  <2>1. c \in alone /\ x # c /\ csub[c] \in Subs
    BY <1>18 DEF IInv, CopyInRange, AloneCopying, Copying, ListNext
  <2>2. \A b \in Clients \ {x} :
          /\ cpc'[b] = cpc[b] /\ csub'[b] = csub[b] /\ casked'[b] = casked[b]
          /\ cevent'[b] = cevent[b] /\ canswer'[b] = canswer[b]
    BY <1>18 DEF IInv, TypeOK, ClientType, ListNext
  <2>3. cpc'[x] # "copy"
    BY <1>18 DEF IInv, TypeOK, ClientType, ListNext
  <2>4. event_cursor'[csub[c]] = event_cursor[csub[c]]
    BY <1>18, <2>1 DEF IInv, TypeOK, EventsType, ListNext
  <2>5. UNCHANGED <<events, last_sequence, phase, first_sequence>>
    BY <1>18 DEF ListNext
  <2> QED BY <2>1, <2>2, <2>3, <2>4, <2>5, OtherCopier
<1>19. ASSUME NEW x \in Clients, EndList(x)
      PROVE  Goal
  <2>1. c \in alone /\ x # c /\ csub[c] \in Subs
    BY <1>19 DEF IInv, CopyInRange, AloneCopying, Copying, EndList, Return
  <2>2. \A b \in Clients \ {x} :
          /\ cpc'[b] = cpc[b] /\ csub'[b] = csub[b] /\ casked'[b] = casked[b]
          /\ cevent'[b] = cevent[b] /\ canswer'[b] = canswer[b]
    BY <1>19 DEF IInv, TypeOK, ClientType, EndList, Return
  <2>3. cpc'[x] # "copy"
    BY <1>19 DEF IInv, TypeOK, ClientType, EndList, Return
  <2>4. UNCHANGED <<event_cursor, events, last_sequence, phase, first_sequence>>
    BY <1>19 DEF EndList
  <2> QED BY <2>1, <2>2, <2>3, <2>4, OtherCopier
<1>20. ASSUME NEW s \in Subs, Expire(s)
      PROVE  Goal
  BY <1>20, ConstantsAssumption DEF ConstantsAssumption, IInv, TypeOK,
  SubType, EventsType, ClientType, CopyInRange, AloneCopying, CalmAnswer,
  Copying, Delivering, Expire
<1>21. ASSUME NEW s \in Subs, Delete(s)
      PROVE  Goal
  BY <1>21, ConstantsAssumption DEF ConstantsAssumption, IInv, TypeOK,
  SubType, EventsType, ClientType, CopyInRange, AloneCopying, CalmAnswer,
  Copying, Delivering, Delete
<1>22. ASSUME Clean
      PROVE  Goal
  BY <1>22, ConstantsAssumption DEF ConstantsAssumption, IInv, TypeOK,
  SubType, EventsType, ClientType, CopyInRange, AloneCopying, CalmAnswer,
  Copying, Delivering, Clean, Due
<1>23. ASSUME UseFreed
      PROVE  Goal
  BY <1>23, ConstantsAssumption DEF ConstantsAssumption, IInv, TypeOK,
  SubType, EventsType, ClientType, CopyInRange, AloneCopying, CalmAnswer,
  Copying, Delivering, UseFreed
<1> QED
  BY <1>1, <1>2, <1>3, <1>4, <1>5, <1>6, <1>7, <1>8, <1>9, <1>10, <1>11,
  <1>12, <1>13, <1>14, <1>15, <1>16, <1>17, <1>18, <1>19, <1>20, <1>21, <1>22,
  <1>23 DEF Next, Request, RequestStep, DeliveryStep

\* A client that does not copy has no answer.
LEMMA NoAnswerStep == IInv /\ NoAnswer /\ Next => NoAnswer'
<1> SUFFICES ASSUME IInv, NoAnswer, Next PROVE NoAnswer'
  OBVIOUS
<1> USE DEF cliVars
<1>1. ASSUME NEW d \in Deliverers, Deliver(d)
      PROVE  NoAnswer'
  BY <1>1 DEF IInv, TypeOK, ClientType, NoAnswer, Deliver
<1>2. ASSUME NEW c \in Clients, Create(c)
      PROVE  NoAnswer'
  BY <1>2 DEF IInv, TypeOK, ClientType, NoAnswer, Ask, Create
<1>3. ASSUME NEW c \in Clients, List(c)
      PROVE  NoAnswer'
  BY <1>3 DEF IInv, TypeOK, ClientType, NoAnswer, Ask, List
<1>4. ASSUME NEW c \in Clients, NEW s \in Subs, NEW op \in {"cancel", "renew"},
             Find(c, s, op)
      PROVE  NoAnswer'
  BY <1>4 DEF IInv, TypeOK, ClientType, NoAnswer, Ask, Find
<1>5. ASSUME NEW c \in Clients, NEW s \in Subs,
             NEW n \in 0 .. last_sequence[s] + 1, NEW wait \in BOOLEAN,
             GetNotifications(c, s, n, wait)
      PROVE  NoAnswer'
  BY <1>5 DEF IInv, TypeOK, ClientType, NoAnswer, Ask, GetNotifications
<1>6. ASSUME NEW c \in Clients, Initialize(c)
      PROVE  NoAnswer'
  BY <1>6 DEF IInv, TypeOK, ClientType, NoAnswer, Initialize, At, Return
<1>7. ASSUME NEW c \in Clients, Cancel(c)
      PROVE  NoAnswer'
  BY <1>7 DEF IInv, TypeOK, ClientType, NoAnswer, Cancel, At, Return
<1>8. ASSUME NEW c \in Clients, Renew(c)
      PROVE  NoAnswer'
  BY <1>8 DEF IInv, TypeOK, ClientType, NoAnswer, Renew, At, Return
<1>9. ASSUME NEW c \in Clients, Scan(c)
      PROVE  NoAnswer'
  BY <1>9 DEF IInv, TypeOK, ClientType, NoAnswer, Scan, At, Empty, Return
<1>10. ASSUME NEW c \in Clients, Copy(c)
      PROVE  NoAnswer'
  BY <1>10 DEF IInv, TypeOK, ClientType, NoAnswer, Copy, At
<1>11. ASSUME NEW c \in Clients, EndCopy(c)
      PROVE  NoAnswer'
  BY <1>11 DEF IInv, TypeOK, ClientType, NoAnswer, EndCopy, At, Empty, Return
<1>12. ASSUME NEW c \in Clients, Wait(c)
      PROVE  NoAnswer'
  BY <1>12 DEF IInv, TypeOK, ClientType, NoAnswer, Wait
<1>13. ASSUME NEW c \in Clients, Timeout(c)
      PROVE  NoAnswer'
  BY <1>13 DEF IInv, TypeOK, ClientType, NoAnswer, Timeout
<1>14. ASSUME NEW c \in Clients, LookAgain(c)
      PROVE  NoAnswer'
  BY <1>14 DEF IInv, TypeOK, ClientType, NoAnswer, LookAgain, Return
<1>15. ASSUME NEW c \in Clients, ListNext(c)
      PROVE  NoAnswer'
  BY <1>15 DEF IInv, TypeOK, ClientType, NoAnswer, ListNext
<1>16. ASSUME NEW c \in Clients, EndList(c)
      PROVE  NoAnswer'
  BY <1>16 DEF IInv, TypeOK, ClientType, NoAnswer, EndList, Return
<1>17. CASE UNCHANGED cliVars
  BY <1>17 DEF NoAnswer
<1> QED
  BY <1>1, <1>2, <1>3, <1>4, <1>5, <1>6, <1>7, <1>8, <1>9, <1>10, <1>11,
  <1>12, <1>13, <1>14, <1>15, <1>16, <1>17 DEF Next, Request, RequestStep,
  DeliveryStep, Raise, EndDelivery, NotFound, Expire, Delete, Clean, UseFreed

\* A client stays the only one to copy, and the iterator with it, as long as it
\* is left alone.
LEMMA AloneCopyingStep == IInv /\ AloneCopying /\ Next => AloneCopying'
<1> SUFFICES ASSUME IInv, AloneCopying, Next, NEW c \in Clients, c \in alone'
             PROVE  /\ cpc'[c] = "copy" /\ Copying(csub[c])' = {c}
                    /\ event_cursor'[csub'[c]] = cevent'[c]
  BY DEF AloneCopying
<1>1. CASE Scan(c) /\ cpc'[c] = "copy"
  <2> DEFINE s == csub[c]
  <2>1. s \in Subs /\ cpc[c] # "copy"
    BY <1>1 DEF Scan, At
  <2>2. c \notin alone
    BY <2>1 DEF AloneCopying
  <2>3. PICK i : /\ cevent' = [cevent EXCEPT ![c] = i]
                 /\ event_cursor' = [event_cursor EXCEPT ![s] = i]
                 /\ alone' = IF Copying(s) = {} THEN alone \cup {c}
                                               ELSE alone \ Copying(s)
                 /\ cpc' = [cpc EXCEPT ![c] = "copy"] /\ csub' = csub
    BY <1>1 DEF IInv, TypeOK, ClientType, Scan, Empty, Return
  <2>4. Copying(s) = {}
    BY <2>2, <2>3
  <2>5. cevent'[c] = i /\ event_cursor'[s] = i
    BY <2>1, <2>3 DEF IInv, TypeOK, ClientType, EventsType
  <2>6. Copying(csub[c])' = {c}
    BY <2>3, <2>4 DEF Copying, IInv, TypeOK, ClientType
  <2> QED BY <1>1, <2>3, <2>5, <2>6
<1>2. CASE c \in alone /\ Copy(c)
  <2>1. csub[c] \in Subs /\ UNCHANGED <<cpc, csub>>
    BY <1>2 DEF Copy, At
  <2>2. event_cursor'[csub[c]] = cevent'[c]
    BY <1>2, <2>1 DEF IInv, TypeOK, ClientType, EventsType, Copy
  <2>3. Copying(csub[c])' = Copying(csub[c])
    BY <2>1 DEF Copying
  <2> QED BY <1>2, <2>1, <2>2, <2>3 DEF AloneCopying
<1>3. CASE CalmAnswer(c)
  <2>1. Copying(csub[c])' = {c}
    BY <1>3 DEF CalmAnswer, Copying
  <2> QED BY <1>3, <2>1 DEF AloneCopying, CalmAnswer
<1> QED BY <1>1, <1>2, <1>3, UndisturbedAnswer

\* The number of an event of a subscription without lost numbers.
LEMMA NumberAt ==
  ASSUME IInv, NumbersConsecutive, NEW s \in Subs, Aligned(s),
         NEW j \in 1 .. Len(events[s])
  PROVE  events[s][j].num + 1 = first_sequence[s] + j /\ events[s][j].num \in Nat
<1>1. /\ events[s] \in Seq(Event) /\ first_sequence[s] \in Nat
      /\ last_sequence[s] \in Nat
  BY DEF IInv, TypeOK, EventsType, SubType
<1>2. events[s][j] \in Event /\ Len(events[s]) \in Nat
  BY <1>1
<1>3. events[s][j].num \in Nat
  BY <1>2 DEF Event
<1>4. events[s][j].num + Len(events[s]) = last_sequence[s] + j
  BY DEF NumbersConsecutive
<1>5. first_sequence[s] + Len(events[s]) = last_sequence[s] + 1
  BY DEF Aligned
<1>6. j \in Nat
  BY <1>2
<1> DEFINE a == events[s][j].num
           b == Len(events[s])
           f == first_sequence[s]
           l == last_sequence[s]
<1>7. /\ a \in Nat /\ b \in Nat /\ f \in Nat /\ l \in Nat
      /\ a + b = l + j /\ f + b = l + 1
  BY <1>1, <1>2, <1>3, <1>4, <1>5
<1>8. a + 1 = f + j
  <2> HIDE DEF a, b, f, l
  <2> QED BY <1>6, <1>7
<1> QED BY <1>3, <1>8

\* Scan begins with the first event asked for.
LEMMA ScanStart ==
  ASSUME IInv, NumbersConsecutive, NoAnswer, NEW c \in Clients, Scan(c),
         cpc'[c] = "copy",
         phase[csub[c]] # "ready" \/ Aligned(csub[c])
  PROVE  /\ canswer'[c] = NumbersBefore(csub[c], casked[c], cevent'[c])
         /\ cevent'[c] # 0 => events[csub[c]][cevent'[c]].num >= casked[c]
<1> DEFINE s == csub[c]
           n == IF casked[c] < first_sequence[s] THEN first_sequence[s]
                                                 ELSE casked[c]
           i == IF Index(s, n) \in 1 .. Len(events[s]) THEN Index(s, n) ELSE 0
<1>1. s \in Subs /\ cpc[c] # "copy"
  BY DEF Scan, At
<1>2. n <= last_sequence[s] /\ cevent'[c] = i /\ canswer'[c] = canswer[c]
  <2>1. n > last_sequence[s] => cpc'[c] # "copy"
    BY DEF IInv, TypeOK, ClientType, Scan, Empty, Return
  <2>2. n \in Nat /\ last_sequence[s] \in Nat
    BY <1>1 DEF IInv, TypeOK, ClientType, SubType
  <2>3. ~(n > last_sequence[s])
    BY <2>1
  <2>4. cevent' = [cevent EXCEPT ![c] = i] /\ canswer' = canswer
    BY <2>3 DEF Scan
  <2>5. cevent'[c] = i
    BY <2>4 DEF IInv, TypeOK, ClientType
  <2> HIDE DEF n, i
  <2> QED BY <2>2, <2>3, <2>4, <2>5
<1>3. canswer'[c] = {}
  BY <1>1, <1>2 DEF NoAnswer
<1>4. CASE events[s] = <<>>
  <2>1. Len(events[s]) = 0
    BY <1>4
  <2>2. i = 0 /\ NumbersBefore(s, casked[c], i) = {}
    BY <2>1 DEF NumbersBefore
  <2> QED BY <1>2, <1>3, <2>2
<1>5. CASE events[s] # <<>>
  <2>1. Aligned(s)
    BY <1>1, <1>5 DEF IInv, EventsWhenReady
  <2>2. /\ first_sequence[s] \in Nat /\ last_sequence[s] \in Nat
        /\ casked[c] \in Nat /\ Len(events[s]) \in Nat
    BY <1>1 DEF IInv, TypeOK, SubType, EventsType, ClientType
  <2>3. first_sequence[s] + Len(events[s]) = last_sequence[s] + 1
    BY <2>1 DEF Aligned
  <2>4. /\ n \in Nat /\ casked[c] <= n /\ first_sequence[s] <= n
        /\ n = casked[c] \/ n = first_sequence[s]
    BY <2>2
  <2> HIDE DEF n
  <2>5. i \in 1 .. Len(events[s]) /\ i = n + 1 - first_sequence[s]
    <3> DEFINE f == first_sequence[s]
               l == last_sequence[s]
               len == Len(events[s])
    <3>1. /\ f \in Nat /\ l \in Nat /\ len \in Nat /\ n \in Nat
          /\ f + len = l + 1 /\ n <= l /\ f <= n
      BY <1>2, <2>2, <2>3, <2>4
    <3>2. n + 1 - f \in 1 .. len
      <4> HIDE DEF f, l, len
      <4> QED BY <3>1
    <3> QED BY <3>2 DEF Index
  <2> HIDE DEF i, s
  <2>6. events[s][i].num = n
    <3>1. i \in 1 .. Len(events[s]) /\ i \in Nat
      BY <2>2, <2>5
    <3>2. events[s][i].num + 1 = first_sequence[s] + i /\ events[s][i].num \in Nat
      BY <1>1, <2>1, <3>1, NumberAt
    <3>3. first_sequence[s] + i = n + 1
      BY <2>2, <2>4, <2>5
    <3> QED BY <2>4, <3>2, <3>3
  <2>7. NumbersBefore(s, casked[c], i) = {}
    <3> SUFFICES ASSUME NEW j \in 1 .. Len(events[s]),
                        events[s][j].num >= casked[c], i = 0 \/ j < i
                 PROVE  FALSE
      BY DEF NumbersBefore
    <3>1. events[s][j].num + 1 = first_sequence[s] + j /\ events[s][j].num \in Nat
      BY <1>1, <2>1, NumberAt
    <3>2. j \in Nat /\ j >= 1 /\ i >= 1 /\ i \in Nat
      BY <2>2, <2>4, <2>5
    <3>3. i + first_sequence[s] = n + 1
      BY <2>2, <2>4, <2>5
    <3>4. j < i
      BY <3>2
    <3>5. events[s][j].num < n
      BY <2>2, <2>4, <3>1, <3>2, <3>3, <3>4
    <3>6. CASE n = casked[c]
      BY <2>2, <2>4, <3>1, <3>5, <3>6
    <3>7. CASE n = first_sequence[s]
      BY <2>2, <3>2, <3>3, <3>4, <3>7
    <3> QED BY <2>4, <3>6, <3>7
  <2> QED BY <1>2, <1>3, <2>2, <2>4, <2>6, <2>7 DEF s, i
<1> QED BY <1>4, <1>5

\* Copy adds the next event to the answer.
LEMMA CopyNext ==
  ASSUME IInv, NumbersConsecutive, AloneCopying, CopiedSoFar, NEW c \in Clients,
         c \in alone, Copy(c), phase[csub[c]] # "ready" \/ Aligned(csub[c])
  PROVE  /\ canswer'[c] = NumbersBefore(csub[c], casked[c], cevent'[c])
         /\ cevent'[c] # 0 => events[csub[c]][cevent'[c]].num >= casked[c]
<1> DEFINE s == csub[c]
           k == cevent[c]
           i == IF event_cursor[s] \in 1 .. Len(events[s]) - 1
                THEN event_cursor[s] + 1 ELSE 0
<1>1. s \in Subs /\ k \in 1 .. Len(events[s]) /\ event_cursor[s] = k
  BY CopiedEvent DEF AloneCopying
<1>2. /\ canswer'[c] = canswer[c] \cup {events[s][k].num} /\ cevent'[c] = i
  BY DEF Copy, IInv, TypeOK, ClientType
<1>3. Len(events[s]) \in Nat /\ casked[c] \in Nat /\ first_sequence[s] \in Nat
  BY <1>1 DEF IInv, TypeOK, EventsType, ClientType, SubType
<1>4. Aligned(s)
  <2>1. events[s] # <<>>
    BY <1>1, <1>3
  <2> QED BY <1>1, <2>1 DEF IInv, EventsWhenReady
<1>5. /\ canswer[c] = NumbersBefore(s, casked[c], k)
      /\ events[s][k].num >= casked[c]
  <2>1. k # 0
    BY <1>1, <1>3
  <2> QED BY <1>4, <2>1 DEF CopiedSoFar
<1>6. \A j \in 1 .. Len(events[s]) :
        events[s][j].num \in Nat /\ events[s][j].num + 1 = first_sequence[s] + j
  BY <1>1, <1>4, NumberAt
<1>7. \/ k = Len(events[s]) /\ i = 0
      \/ k < Len(events[s]) /\ i = k + 1
  BY <1>1, <1>3
<1> HIDE DEF s, k, i
<1>8. \A j \in 1 .. Len(events[s]) : (i = 0 \/ j < i) <=> (j < k \/ j = k)
  <2>1. \A j \in 1 .. Len(events[s]) : j \in Nat /\ j <= Len(events[s]) /\ j >= 1
    BY <1>3
  <2>2. k \in Nat /\ k >= 1
    BY <1>1, <1>3
  <2> QED BY <1>3, <1>7, <2>1, <2>2
<1>9. NumbersBefore(s, casked[c], i)
        = NumbersBefore(s, casked[c], k) \cup {events[s][k].num}
  <2>1. k # 0
    BY <1>1, <1>3
  <2> DEFINE before == {j \in 1 .. Len(events[s]) :
                          events[s][j].num >= casked[c] /\ (k = 0 \/ j < k)}
             upto == {j \in 1 .. Len(events[s]) :
                        events[s][j].num >= casked[c] /\ (i = 0 \/ j < i)}
  <2>2. upto = before \cup {k}
    BY <1>1, <1>5, <1>8, <2>1
  <2>3. /\ NumbersBefore(s, casked[c], k) = {events[s][j].num : j \in before}
        /\ NumbersBefore(s, casked[c], i) = {events[s][j].num : j \in upto}
    BY DEF NumbersBefore
  <2> HIDE DEF before, upto
  <2> QED BY <2>2, <2>3
<1>10. i # 0 => events[s][i].num >= casked[c]
  <2> SUFFICES ASSUME i # 0 PROVE events[s][i].num >= casked[c]
    OBVIOUS
  <2>1. i = k + 1 /\ i \in 1 .. Len(events[s]) /\ k \in Nat
    BY <1>1, <1>3, <1>7
  <2>2. events[s][i].num \in Nat /\ events[s][i].num + 1 = first_sequence[s] + i
    BY <1>6, <2>1
  <2>3. events[s][k].num \in Nat /\ events[s][k].num + 1 = first_sequence[s] + k
    BY <1>1, <1>6
  <2> DEFINE x == events[s][i].num
             y == events[s][k].num
             f == first_sequence[s]
             n == casked[c]
  <2>4. /\ x \in Nat /\ y \in Nat /\ f \in Nat /\ n \in Nat
        /\ x + 1 = f + i /\ y + 1 = f + k /\ y >= n
    BY <1>3, <1>5, <2>2, <2>3
  <2> HIDE DEF x, y, f, n
  <2>5. x >= n
    BY <2>1, <2>4
  <2> QED BY <2>5 DEF x, n
<1> QED BY <1>2, <1>5, <1>9, <1>10 DEF s, k, i

\* Every step keeps the answer of an undisturbed client right.
LEMMA CopiedStep ==
  ASSUME IInv, NumbersConsecutive, NoAnswer, AloneCopying, CopiedSoFar, Next
  PROVE  CopiedSoFar'
<1> SUFFICES ASSUME NEW c \in Clients, c \in alone',
                    (phase[csub[c]] # "ready" \/ Aligned(csub[c]))'
             PROVE  (/\ canswer[c] = NumbersBefore(csub[c], casked[c], cevent[c])
                     /\ cevent[c] # 0 =>
                          events[csub[c]][cevent[c]].num >= casked[c])'
  BY DEF CopiedSoFar
<1>1. CASE Scan(c) /\ cpc'[c] = "copy"
  <2>1. UNCHANGED <<phase, first_sequence, last_sequence, events>>
    BY <1>1 DEF Scan, subVars
  <2>2. csub'[c] = csub[c] /\ casked'[c] = casked[c]
    BY <1>1 DEF IInv, TypeOK, ClientType, Scan, Empty, Return
  <2>3. phase[csub[c]] # "ready" \/ Aligned(csub[c])
    BY <2>1, <2>2 DEF Aligned
  <2>4. /\ canswer'[c] = NumbersBefore(csub[c], casked[c], cevent'[c])
        /\ cevent'[c] # 0 => events[csub[c]][cevent'[c]].num >= casked[c]
    BY <1>1, <2>3, ScanStart
  <2> QED BY <2>1, <2>2, <2>4 DEF NumbersBefore
<1>2. CASE c \in alone /\ Copy(c)
  <2>1. UNCHANGED <<phase, first_sequence, last_sequence, events, csub, casked>>
    BY <1>2 DEF Copy, subVars
  <2>2. phase[csub[c]] # "ready" \/ Aligned(csub[c])
    BY <2>1 DEF Aligned
  <2>3. /\ canswer'[c] = NumbersBefore(csub[c], casked[c], cevent'[c])
        /\ cevent'[c] # 0 => events[csub[c]][cevent'[c]].num >= casked[c]
    BY <1>2, <2>2, CopyNext
  <2> QED BY <2>1, <2>3 DEF NumbersBefore
<1>3. CASE CalmAnswer(c)
  <2>1. /\ csub'[c] = csub[c] /\ casked'[c] = casked[c] /\ cevent'[c] = cevent[c]
        /\ canswer'[c] = canswer[c] /\ events'[csub[c]] = events[csub[c]]
        /\ last_sequence'[csub[c]] = last_sequence[csub[c]] /\ c \in alone
    BY <1>3 DEF CalmAnswer
  <2>2. phase[csub[c]] # "ready" \/ Aligned(csub[c])
    BY <1>3, <2>1 DEF CalmAnswer, Aligned
  <2>3. /\ canswer[c] = NumbersBefore(csub[c], casked[c], cevent[c])
        /\ cevent[c] # 0 => events[csub[c]][cevent[c]].num >= casked[c]
    BY <2>1, <2>2 DEF CopiedSoFar
  <2> QED BY <2>1, <2>3 DEF NumbersBefore
<1> QED BY <1>1, <1>2, <1>3, UndisturbedAnswer

\* A Get-Notifications request is given all the events from the number it asked
\* for on that the subscription has, and no others, unless another client copied
\* at the same time or the subscription was not initialized in time.
THEOREM AnswerAlwaysComplete == Spec => []AnswerComplete
<1> DEFINE Inv == NoAnswer /\ AloneCopying /\ CopiedSoFar
<1>1. Init => Inv
  BY DEF Init, NoAnswer, AloneCopying, CopiedSoFar
<1>2. IInv /\ NumbersConsecutive /\ Inv /\ [Next]_vars => Inv'
  <2> SUFFICES ASSUME IInv, NumbersConsecutive, Inv, [Next]_vars PROVE Inv'
    OBVIOUS
  <2>1. CASE UNCHANGED vars
    BY <2>1
    DEF vars, subVars, arrayVars, delVars, cliVars, NoAnswer, AloneCopying,
        CopiedSoFar, Copying, Aligned, NumbersBefore
  <2>2. CASE Next
    BY <2>2, NoAnswerStep, AloneCopyingStep, CopiedStep
  <2> QED BY <2>1, <2>2
<1>3. Inv => AnswerComplete
  <2> SUFFICES ASSUME Inv, NEW c \in Clients \cap alone, cevent[c] = 0,
                      Aligned(csub[c])
               PROVE  canswer[c] = {events[csub[c]][i].num : i \in
                        {j \in 1 .. Len(events[csub[c]]) :
                           events[csub[c]][j].num >= casked[c]}}
    BY DEF AnswerComplete
  <2>1. canswer[c] = NumbersBefore(csub[c], casked[c], 0)
    BY DEF CopiedSoFar
  <2> QED BY <2>1 DEF NumbersBefore
<1> QED BY <1>1, <1>2, <1>3, InvariantHolds, NumbersAlwaysConsecutive, PTL DEF Spec

===========================================================================
