--------------------------- MODULE Subscriptions ---------------------------
(***************************************************************************)
(* The event subscriptions of a PAPPL system: threads that deliver events, *)
(* clients that create, cancel and renew subscriptions and fetch their     *)
(* events with Get-Notifications or list the subscriptions, and the main   *)
(* loop, which removes what is canceled or has expired.                    *)
(*                                                                         *)
(* Events are delivered under the system's lock for reading, so several    *)
(* threads deliver at once and share the iterator of the array of          *)
(* subscriptions; clients that look one up or list them move it, too. The  *)
(* events of a subscription are copied under its lock for reading, and     *)
(* clients share the iterator of that array in the same way. Pointers to   *)
(* subscriptions are used after the system's lock has been given up; an    *)
(* execution is followed up to the first use of one that has been freed.   *)
(***************************************************************************)
EXTENDS Naturals, Sequences, FiniteSets

CONSTANTS
  MaxSubs,           \* subscriptions in one execution (a bound of the model)
  MaxRaised,         \* events in one execution (a bound of the model)
  MaxRequests,       \* client requests in one execution (a bound)
  Kinds,             \* kinds of events: bits of "notify-events", for a
                     \* printer's or a job's subscription those it is about
  Deliverers,        \* threads that raise events
  Clients,           \* client threads
  MaxEvents,         \* PAPPL_MAX_EVENTS
  MaxSubscriptions   \* system->max_subscriptions, 0 for no limit

ASSUME ConstantsAssumption ==
  /\ MaxSubs \in Nat /\ MaxRaised \in Nat /\ MaxRequests \in Nat
  /\ MaxEvents \in Nat \ {0} /\ MaxSubscriptions \in Nat
  /\ Deliverers \cap Clients = {}

Subs == 1 .. MaxSubs           \* subscription_id values
None == 0                      \* the iterator is past the end of the array
Before == MaxSubs + 1          \* or before its start

VARIABLES
  phase,            \* none; published, in the array, with no events array
                    \* yet; ready; freed
  mask,             \* sub->mask
  is_canceled,      \* subscriptions with sub->is_canceled
  expired,          \* subscriptions whose sub->expire is past
  first_sequence,   \* sub->first_sequence
  last_sequence,    \* sub->last_sequence
  events,           \* sub->events: numbers and identities of events
  event_cursor,     \* iterator of sub->events, 0 past the end
  subscriptions,    \* system->subscriptions
  cursor,           \* its iterator
  next_subscription_id,        \* the last one given
  dpc, devent, dkind, dsub,    \* each deliverer: in its loop?, event, sub
  cpc, csub, casked, cwait,    \* each client: where it is, subscription,
  cevent, canswer,             \* number asked for, notify_wait, event, numbers
                               \* it has copied
  condemned,        \* subscriptions CleanSubscriptions is about to delete
  raised, requests, \* events raised, requests made
  alone,            \* threads in a loop whose iterator no other thread has
                    \* moved (history, not in the code)
  crashed           \* a freed subscription was used

subVars   == <<phase, mask, is_canceled, expired, first_sequence,
               last_sequence, events>>
arrayVars == <<subscriptions, next_subscription_id, condemned>>
delVars   == <<dpc, devent, dkind, dsub, raised>>
cliVars   == <<cpc, csub, casked, cwait, cevent, canswer>>
vars == <<subVars, event_cursor, arrayVars, cursor, delVars, cliVars,
          requests, alone, crashed>>

Init ==
  /\ phase = [s \in Subs |-> "none"] /\ mask = [s \in Subs |-> {}]
  /\ is_canceled = {} /\ expired = {}
  /\ first_sequence = [s \in Subs |-> 0]
  /\ last_sequence = [s \in Subs |-> 0]
  /\ events = [s \in Subs |-> <<>>]
  /\ event_cursor = [s \in Subs |-> 0]
  /\ subscriptions = {} /\ cursor = None /\ next_subscription_id = 0
  /\ dpc = [d \in Deliverers |-> "idle"]
  /\ devent = [d \in Deliverers |-> 0]
  /\ dkind = [d \in Deliverers |-> CHOOSE k \in Kinds : TRUE]
  /\ dsub = [d \in Deliverers |-> None]
  /\ cpc = [c \in Clients |-> "idle"] /\ csub = [c \in Clients |-> None]
  /\ casked = [c \in Clients |-> 0] /\ cwait = [c \in Clients |-> FALSE]
  /\ cevent = [c \in Clients |-> 0] /\ canswer = [c \in Clients |-> {}]
  /\ condemned = {} /\ raised = 0 /\ requests = 0
  /\ alone = {} /\ crashed = FALSE

-----------------------------------------------------------------------------
(* Locks and iterators.                                                    *)

\* Who holds the system's lock for reading, and that of a subscription.
Delivering == {d \in Deliverers : dpc[d] = "loop"}
Readers    == Delivering \cup {c \in Clients : cpc[c] = "list"}
Copying(s) == {c \in Clients : cpc[c] = "copy" /\ csub[c] = s}

\* What the iterator finds first in a part S of the array, which has the newest
\* subscription first, and what it finds after s. (Mutant: one is skipped.)
First(S) == IF S = {} THEN {None} ELSE {s \in S : \A t \in S : t <= s}
SkipAfter(s) == First({t \in subscriptions : t + 1 < s})
NextAfter(s) == First({t \in subscriptions : t < s})

\* The iterator is moved to one of S and the turn of d is for that one.
MoveOn(d, S) ==
  \E s \in S : cursor' = s /\ dsub' = [dsub EXCEPT ![d] = s]

\* papplSystemFindSubscription moves the array's iterator to what it finds, or
\* out of the array when it finds nothing. Where it is matters, and is recorded,
\* only while a thread is in its loop.
MovedTo(S) ==
  /\ cursor' \in IF Readers = {} THEN {None} ELSE S
  /\ alone' = alone \ Delivering
Found(s) == s \in subscriptions /\ MovedTo({s})
Missing  == MovedTo({None, Before})

-----------------------------------------------------------------------------
(* Delivering an event.                                                    *)

\* The lock is taken and the iterator set to the first subscription.
Raise(d) ==
  /\ dpc[d] = "idle" /\ raised < MaxRaised
  /\ raised' = raised + 1
  /\ \E k \in Kinds : dkind' = [dkind EXCEPT ![d] = k]
  /\ devent' = [devent EXCEPT ![d] = raised + 1]
  /\ MoveOn(d, First(subscriptions))
  /\ dpc' = [dpc EXCEPT ![d] = "loop"]
  /\ alone' = IF Readers = {} THEN alone \cup {d} ELSE alone \ Delivering
  /\ UNCHANGED <<subVars, event_cursor, arrayVars, cliVars, requests,
                 crashed>>

Wanted(s, d) == s \notin is_canceled /\ dkind[d] \in mask[s]

\* The number of events a subscription keeps. (Mutant: one more.)
OverfullByTwo(q) == Len(q) > MaxEvents + 1
Overfull(q)      == Len(q) > MaxEvents

\* One more event, numbered n: when there are too many the oldest goes.
\* (Mutant: the newest goes.)
KeptWithoutLatest(q, e) == IF Overfull(Append(q, e)) THEN q ELSE Append(q, e)
Kept(q, e) ==
  IF Overfull(Append(q, e)) THEN Tail(Append(q, e)) ELSE Append(q, e)

\* One turn of the loop: the event is added to the subscription and whoever
\* waits is woken, then the iterator moves on from where it is now. An event
\* for a subscription that has no events array yet is lost, its number used.
Deliver(d) ==
  LET s == dsub[d]
      e == [num |-> last_sequence[s] + 1, event |-> devent[d]]
  IN
  /\ dpc[d] = "loop" /\ s # None
  /\ IF Wanted(s, d)
     THEN /\ Copying(s) = {}
          /\ last_sequence' = [last_sequence EXCEPT ![s] = @ + 1]
          /\ IF phase[s] = "ready"
             THEN /\ events' = [events EXCEPT ![s] = Kept(@, e)]
                  /\ first_sequence' = [first_sequence EXCEPT ![s] =
                       IF Overfull(Append(events[s], e)) THEN @ + 1 ELSE @]
             ELSE UNCHANGED <<events, first_sequence>>
          /\ cpc' = [c \in Clients |->
                       IF cpc[c] = "waiting" THEN "again" ELSE cpc[c]]
     ELSE UNCHANGED <<last_sequence, events, first_sequence, cpc>>
  /\ MoveOn(d, NextAfter(cursor))
  /\ UNCHANGED <<phase, mask, is_canceled, expired, event_cursor, arrayVars,
                 dpc, devent, dkind, raised, csub, casked, cwait, cevent,
                 canswer, requests, alone, crashed>>

EndDelivery(d) ==
  /\ dpc[d] = "loop" /\ dsub[d] = None
  /\ dpc' = [dpc EXCEPT ![d] = "idle"]
  /\ devent' = [devent EXCEPT ![d] = 0]
  /\ cursor' = IF Readers = {d} THEN None ELSE cursor
  /\ alone' = alone \ {d}
  /\ UNCHANGED <<subVars, event_cursor, arrayVars, dkind, dsub, raised,
                 cliVars, requests, crashed>>

-----------------------------------------------------------------------------
(* Creating, canceling and renewing a subscription.                        *)

Ask(c) == cpc[c] = "idle" /\ requests < MaxRequests /\ requests' = requests + 1

\* papplSubscriptionCreate up to _papplSystemAddSubscription: the subscription
\* is in the array ...
Create(c) ==
  LET s == next_subscription_id + 1 IN
  /\ Ask(c) /\ s \in Subs
  /\ Readers = {}
  /\ MaxSubscriptions = 0 \/ Cardinality(subscriptions) < MaxSubscriptions
  /\ next_subscription_id' = s
  /\ subscriptions' = subscriptions \cup {s}
  /\ phase' = [phase EXCEPT ![s] = "published"]
  /\ \E m \in SUBSET Kinds \ {{}} : mask' = [mask EXCEPT ![s] = m]
  /\ cpc' = [cpc EXCEPT ![c] = "init"]
  /\ csub' = [csub EXCEPT ![c] = s]
  /\ UNCHANGED <<is_canceled, expired, first_sequence, last_sequence, events,
                 event_cursor, condemned, cursor, delVars, casked, cwait,
                 cevent, canswer, alone, crashed>>

At(c, pc) == cpc[c] = pc /\ csub[c] \in Subs /\ phase[csub[c]] # "freed"
Return(c) ==
  /\ cpc' = [cpc EXCEPT ![c] = "idle"]
  /\ csub' = [csub EXCEPT ![c] = None]
  /\ casked' = [casked EXCEPT ![c] = 0]
  /\ cwait' = [cwait EXCEPT ![c] = FALSE]
  /\ cevent' = [cevent EXCEPT ![c] = 0]
  /\ canswer' = [canswer EXCEPT ![c] = {}]

\* ... and the rest, without a lock: only now does it have an events array.
Initialize(c) ==
  /\ At(c, "init")
  /\ first_sequence' = [first_sequence EXCEPT ![csub[c]] = 1]
  /\ events' = [events EXCEPT ![csub[c]] = <<>>]
  /\ phase' = [phase EXCEPT ![csub[c]] = "ready"]
  /\ Return(c)
  /\ UNCHANGED <<mask, is_canceled, expired, last_sequence, event_cursor,
                 arrayVars, cursor, delVars, requests, alone, crashed>>

\* A request for a subscription that is not there.
NotFound(c) ==
  /\ Ask(c) /\ Missing
  /\ UNCHANGED <<subVars, event_cursor, arrayVars, delVars, cliVars, crashed>>

\* Cancel-Subscription and Renew-Subscription find the subscription ...
Find(c, s, op) ==
  /\ Ask(c) /\ Found(s)
  /\ cpc' = [cpc EXCEPT ![c] = op]
  /\ csub' = [csub EXCEPT ![c] = s]
  /\ UNCHANGED <<subVars, event_cursor, arrayVars, delVars, casked, cwait,
                 cevent, canswer, crashed>>

\* ... and use it when the system's lock has been given up.
Cancel(c) ==
  /\ At(c, "cancel")
  /\ is_canceled' = is_canceled \cup {csub[c]}
  /\ Return(c)
  /\ UNCHANGED <<phase, mask, expired, first_sequence, last_sequence, events,
                 event_cursor, arrayVars, cursor, delVars, requests, alone,
                 crashed>>

Renew(c) ==
  /\ At(c, "renew")
  /\ IF csub[c] \in is_canceled
     THEN UNCHANGED expired
     ELSE Copying(csub[c]) = {} /\ expired' = expired \ {csub[c]}
  /\ Return(c)
  /\ UNCHANGED <<phase, mask, is_canceled, first_sequence, last_sequence,
                 events, event_cursor, arrayVars, cursor, delVars, requests,
                 alone, crashed>>

\* The lease of a subscription runs out.
Expire(s) ==
  /\ phase[s] \in {"published", "ready"} /\ s \notin expired
  /\ expired' = expired \cup {s}
  /\ UNCHANGED <<phase, mask, is_canceled, first_sequence, last_sequence,
                 events, event_cursor, arrayVars, cursor, delVars, cliVars,
                 requests, alone, crashed>>

-----------------------------------------------------------------------------
(* Get-Subscriptions, which lists them under the system's lock.            *)

List(c) ==
  /\ Ask(c)
  /\ \E s \in First(subscriptions) : cursor' = s /\ csub' = [csub EXCEPT ![c] = s]
  /\ cpc' = [cpc EXCEPT ![c] = "list"]
  /\ alone' = alone \ Delivering
  /\ UNCHANGED <<subVars, event_cursor, arrayVars, delVars, casked, cwait,
                 cevent, canswer, crashed>>

ListNext(c) ==
  /\ cpc[c] = "list" /\ csub[c] # None
  /\ \E s \in NextAfter(cursor) :
       cursor' = s /\ csub' = [csub EXCEPT ![c] = s]
  /\ alone' = alone \ Delivering
  /\ UNCHANGED <<subVars, event_cursor, arrayVars, delVars, cpc, casked, cwait,
                 cevent, canswer, requests, crashed>>

\* The last subscription, or as many as the client wants, have been listed.
EndList(c) ==
  /\ cpc[c] = "list"
  /\ Return(c)
  /\ cursor' = IF Readers = {c} THEN None ELSE cursor
  /\ UNCHANGED <<subVars, event_cursor, arrayVars, delVars, requests, alone,
                 crashed>>

-----------------------------------------------------------------------------
(* Get-Notifications, for one subscription.                                *)

GetNotifications(c, s, n, wait) ==
  /\ Ask(c) /\ Found(s)
  /\ cpc' = [cpc EXCEPT ![c] = "scan"]
  /\ csub' = [csub EXCEPT ![c] = s]
  /\ casked' = [casked EXCEPT ![c] = n]
  /\ cwait' = [cwait EXCEPT ![c] = wait]
  /\ UNCHANGED <<subVars, event_cursor, arrayVars, delVars, cevent, canswer,
                 crashed>>

\* Without events the request waits, if it may, or is answered.
Empty(c) ==
  IF cwait[c]
  THEN /\ cpc' = [cpc EXCEPT ![c] = "unheard"]
       /\ UNCHANGED <<csub, casked, cwait, cevent, canswer>>
  ELSE Return(c)

\* The first event to copy. (Mutant: off by one.)
IndexTooHigh(s, n) == n + 2 - first_sequence[s]
Index(s, n)        == n + 1 - first_sequence[s]

\* The subscription's lock is taken and its iterator set to the first event
\* asked for.
Scan(c) ==
  LET s == csub[c]
      n == IF casked[c] < first_sequence[s] THEN first_sequence[s]
                                            ELSE casked[c]
      i == IF Index(s, n) \in 1 .. Len(events[s]) THEN Index(s, n) ELSE 0
  IN
  /\ At(c, "scan")
  /\ IF n > last_sequence[s]
     THEN Empty(c) /\ UNCHANGED <<event_cursor, alone>>
     ELSE /\ cpc' = [cpc EXCEPT ![c] = "copy"]
          /\ cevent' = [cevent EXCEPT ![c] = i]
          /\ event_cursor' = [event_cursor EXCEPT ![s] = i]
          /\ alone' = IF Copying(s) = {} THEN alone \cup {c}
                                         ELSE alone \ Copying(s)
          /\ UNCHANGED <<csub, casked, cwait, canswer>>
  /\ UNCHANGED <<subVars, arrayVars, cursor, delVars, requests, crashed>>

\* One event is copied, then the iterator moves on from where it is now.
Copy(c) ==
  LET s == csub[c]
      i == IF event_cursor[s] \in 1 .. Len(events[s]) - 1
           THEN event_cursor[s] + 1 ELSE 0
  IN
  /\ At(c, "copy") /\ cevent[c] # 0
  /\ canswer' = [canswer EXCEPT ![c] = @ \cup {events[s][cevent[c]].num}]
  /\ event_cursor' = [event_cursor EXCEPT ![s] = i]
  /\ cevent' = [cevent EXCEPT ![c] = i]
  /\ UNCHANGED <<subVars, arrayVars, cursor, delVars, cpc, csub, casked,
                 cwait, requests, alone, crashed>>

EndCopy(c) ==
  /\ At(c, "copy") /\ cevent[c] = 0
  /\ IF canswer[c] = {} THEN Empty(c) ELSE Return(c)
  /\ event_cursor' = [event_cursor EXCEPT ![csub[c]] =
                        IF Copying(csub[c]) = {c} THEN 0 ELSE @]
  /\ alone' = alone \ {c}
  /\ UNCHANGED <<subVars, arrayVars, cursor, delVars, requests, crashed>>

\* Until it waits, a client does not hear of events.
Wait(c) ==
  /\ cpc[c] = "unheard"
  /\ cpc' = [cpc EXCEPT ![c] = "waiting"]
  /\ UNCHANGED <<subVars, event_cursor, arrayVars, cursor, delVars, csub,
                 casked, cwait, cevent, canswer, requests, alone, crashed>>

\* After 30 seconds it has waited long enough.
Timeout(c) ==
  /\ cpc[c] = "waiting"
  /\ cpc' = [cpc EXCEPT ![c] = "again"]
  /\ UNCHANGED <<subVars, event_cursor, arrayVars, cursor, delVars, csub,
                 casked, cwait, cevent, canswer, requests, alone, crashed>>

\* A request waits once. (Mutant: as often as there is nothing.)
WaitsAgain(c)  == UNCHANGED cwait
WaitsNoMore(c) == cwait' = [cwait EXCEPT ![c] = FALSE]

\* The subscription is looked up again.
LookAgain(c) ==
  /\ cpc[c] = "again"
  /\ IF csub[c] \in subscriptions
     THEN /\ Found(csub[c])
          /\ cpc' = [cpc EXCEPT ![c] = "scan"]
          /\ WaitsNoMore(c)
          /\ UNCHANGED <<csub, casked, cevent, canswer>>
     ELSE Missing /\ Return(c)
  /\ UNCHANGED <<subVars, event_cursor, arrayVars, delVars, requests,
                 crashed>>

-----------------------------------------------------------------------------
(* _papplSystemCleanSubscriptions, from the main loop.                     *)

\* What is to be deleted. (Mutant: canceled subscriptions stay.)
DueExpired == subscriptions \cap expired
Due        == subscriptions \cap (is_canceled \cup expired)

\* (Mutant: the lock is not taken for writing.)
CleanShared ==
  /\ condemned = {} /\ Due # {}
  /\ condemned' = Due
  /\ subscriptions' = subscriptions \ Due
  /\ UNCHANGED <<subVars, event_cursor, next_subscription_id, cursor, delVars,
                 cliVars, requests, alone, crashed>>

\* They are taken out of the array, under the system's lock ...
Clean ==
  /\ condemned = {} /\ Due # {}
  /\ Readers = {}
  /\ condemned' = Due
  /\ subscriptions' = subscriptions \ Due
  /\ UNCHANGED <<subVars, event_cursor, next_subscription_id, cursor, delVars,
                 cliVars, requests, alone, crashed>>

\* ... and freed without it, under their own.
Delete(s) ==
  /\ s \in condemned /\ Copying(s) = {}
  /\ condemned' = condemned \ {s}
  /\ phase' = [phase EXCEPT ![s] = "freed"]
  /\ events' = [events EXCEPT ![s] = <<>>]
  /\ UNCHANGED <<mask, is_canceled, expired, first_sequence, last_sequence,
                 event_cursor, subscriptions, next_subscription_id, cursor,
                 delVars, cliVars, requests, alone, crashed>>

\* A client is about to use a subscription that has been freed.
UseFreed ==
  /\ \E c \in Clients :
       /\ cpc[c] \in {"init", "cancel", "renew", "scan", "copy"}
       /\ csub[c] \in Subs /\ phase[csub[c]] = "freed"
  /\ crashed' = TRUE
  /\ UNCHANGED <<subVars, event_cursor, arrayVars, cursor, delVars, cliVars,
                 requests, alone>>

-----------------------------------------------------------------------------
DeliveryStep(d) == Deliver(d) \/ EndDelivery(d)
RequestStep(c) ==
  \/ Initialize(c) \/ Cancel(c) \/ Renew(c) \/ Scan(c) \/ Copy(c)
  \/ EndCopy(c) \/ Wait(c) \/ Timeout(c) \/ LookAgain(c)
  \/ ListNext(c) \/ EndList(c)
Request(c) ==
  \/ Create(c) \/ NotFound(c) \/ List(c)
  \/ \E s \in Subs :
       \/ \E op \in {"cancel", "renew"} : Find(c, s, op)
       \/ \E n \in 0 .. last_sequence[s] + 1 : \E wait \in BOOLEAN :
            GetNotifications(c, s, n, wait)

Next ==
  /\ ~crashed
  /\ \/ \E d \in Deliverers : Raise(d) \/ DeliveryStep(d)
     \/ \E c \in Clients : Request(c) \/ RequestStep(c)
     \/ \E s \in Subs : Expire(s) \/ Delete(s)
     \/ Clean \/ UseFreed

Spec == Init /\ [][Next]_vars

\* Threads are scheduled, waiting ends after 30 seconds at the latest, the main
\* loop cleans every 10 seconds.
Fairness ==
  /\ \A d \in Deliverers : WF_vars(~crashed /\ DeliveryStep(d))
  /\ \A c \in Clients : WF_vars(~crashed /\ RequestStep(c))
  /\ WF_vars(~crashed /\ Clean)
  /\ \A s \in Subs : WF_vars(~crashed /\ Delete(s))
  /\ WF_vars(~crashed /\ UseFreed)

FairSpec == Spec /\ Fairness

-----------------------------------------------------------------------------
(* Properties.                                                             *)

Event == [num : Nat, event : Nat]

SubType ==
  /\ phase \in [Subs -> {"none", "published", "ready", "freed"}]
  /\ mask \in [Subs -> SUBSET Kinds]
  /\ is_canceled \in SUBSET Subs /\ expired \in SUBSET Subs
  /\ first_sequence \in [Subs -> Nat] /\ last_sequence \in [Subs -> Nat]
EventsType ==
  /\ events \in [Subs -> Seq(Event)]
  /\ \A s \in Subs : Len(events[s]) <= MaxEvents
  /\ event_cursor \in [Subs -> 0 .. MaxEvents]
ArrayType ==
  /\ subscriptions \in SUBSET Subs /\ cursor \in Subs \cup {None, Before}
  /\ next_subscription_id \in 0 .. MaxSubs /\ condemned \in SUBSET Subs
DelivererType ==
  /\ dpc \in [Deliverers -> {"idle", "loop"}]
  /\ devent \in [Deliverers -> Nat]
  /\ dsub \in [Deliverers -> Subs \cup {None}]
ClientType ==
  /\ cpc \in [Clients -> {"idle", "init", "cancel", "renew", "scan", "copy",
                          "unheard", "waiting", "again", "list"}]
  /\ csub \in [Clients -> Subs \cup {None}]
  /\ casked \in [Clients -> Nat] /\ cwait \in [Clients -> BOOLEAN]
  /\ cevent \in [Clients -> 0 .. MaxEvents]
  /\ canswer \in [Clients -> SUBSET Nat]

\* Every variable has its type; no subscription keeps more than MaxEvents.
TypeOK ==
  /\ SubType /\ EventsType /\ ArrayType /\ DelivererType /\ ClientType
  /\ raised \in Nat /\ requests \in Nat
  /\ alone \in SUBSET (Deliverers \cup Clients) /\ crashed \in BOOLEAN

\* The events of a subscription are numbered without a gap and the newest has
\* the last number, whichever threads delivered them and however many were
\* dropped.
NumbersConsecutive ==
  \A s \in Subs : \A i \in 1 .. Len(events[s]) :
    events[s][i].num + Len(events[s]) = last_sequence[s] + i

\* A subscription that no event reached before it was initialized.
Aligned(s) == first_sequence[s] + Len(events[s]) = last_sequence[s] + 1

\* A thread that delivers an event or lists the subscriptions never looks at a
\* freed one, though the main loop may be deleting some.
DeliverySafe ==
  \A t \in Readers :
    LET s == IF t \in Deliverers THEN dsub[t] ELSE csub[t] IN
    s # None => phase[s] \in {"published", "ready"}

Holds(s, e) == \E i \in 1 .. Len(events[s]) : events[s][i].event = e

\* An event has reached every subscription it is for when its delivery ends,
\* unless another thread moved the iterator or the subscription was not
\* initialized in time.
DeliveryComplete ==
  \A d \in Delivering \cap alone : dsub[d] = None =>
    \A s \in subscriptions :
      (phase[s] = "ready" /\ Aligned(s) /\ Wanted(s, d)) => Holds(s, devent[d])

\* A client is given all the events from the number it asked for on that the
\* subscription still has, and no others, unless another client copied at the
\* same time or the subscription was not initialized in time.
AnswerComplete ==
  \A c \in Clients \cap alone :
    (/\ cpc[c] = "copy" /\ cevent[c] = 0 /\ ~crashed
     /\ Aligned(csub[c])) =>
       canswer[c] = {events[csub[c]][i].num : i \in
                       {j \in 1 .. Len(events[csub[c]]) :
                          events[csub[c]][j].num >= casked[c]}}

\* A Get-Notifications request that waits is answered, events or not.
WaitEnds ==
  \A c \in Clients : (cpc[c] = "waiting") ~> (cpc[c] = "idle" \/ crashed)

\* A canceled subscription is removed.
CanceledGoes ==
  \A s \in Subs : (s \in is_canceled) ~> (phase[s] = "freed" \/ crashed)
=============================================================================
