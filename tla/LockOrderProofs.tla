--------------------------- MODULE LockOrderProofs ---------------------------
(***************************************************************************)
(* Any number of threads that keep to the order wait for each other for    *)
(* ever only if one of them writes the system's lock.                      *)
(***************************************************************************)
EXTENDS LockOrder, TLAPS

\* A section takes at least one lock.
LEMMA SectionType ==
  \A s \in Sections : s \in Seq(LockStep) /\ Len(s) > 0
<1> SUFFICES ASSUME NEW s \in Sections PROVE s \in Seq(LockStep) /\ Len(s) > 0
  OBVIOUS
<1>1. PICK r \in Scripts : s \in SectionsOf(r)
  BY DEF Sections
<1>2. r \in Seq(LockStep)
  BY ScriptsAssumption
<1>3. PICK i \in 1..(Len(r) + 1), j \in 1..(Len(r) + 1) :
        i < j /\ s = SubSeq(r, i, j - 1)
  <2> DEFINE starts == {i \in DOMAIN r : r[i].under = {}} \cup {Len(r) + 1}
  <2>1. starts \subseteq 1..(Len(r) + 1)
    BY <1>2
  <2>2. PICK q \in starts \X starts :
          q[1] < q[2] /\ s = SubSeq(r, q[1], q[2] - 1)
    BY <1>1 DEF SectionsOf
  <2>. QED
    BY <2>1, <2>2
<1>. QED
  BY <1>2, <1>3

\* A thread is at a step of the section it is in.
AtLock ==
  /\ script \in [Threads -> Sections \cup {None}]
  /\ at \in [Threads -> Nat]
  /\ \A t \in Threads :
       /\ Active(t) => at[t] \in DOMAIN script[t]
       /\ ~Active(t) => at[t] = 1

\* The invariant holds at the beginning and is kept: a section has a first step,
\* and who has taken a lock goes on to the next or ends.
THEOREM AlwaysAtLock == Spec => []AtLock
<1>1. Init => AtLock
  BY DEF Init, AtLock, Active
<1>2. AtLock /\ [Next]_vars => AtLock'
  <2> SUFFICES ASSUME AtLock, [Next]_vars PROVE AtLock'
    OBVIOUS
  <2>1. CASE UNCHANGED vars
    BY <2>1 DEF AtLock, vars, Active
  <2>2. ASSUME NEW t \in Threads, Begin(t) PROVE AtLock'
    <3>1. PICK s \in Sections : script' = [script EXCEPT ![t] = s]
      BY <2>2 DEF Begin
    <3>2. at' = at /\ at[t] = 1
      BY <2>2 DEF Begin, AtLock
    <3>3. 1 \in DOMAIN s
      BY SectionType
    <3>4. s # None
      BY SectionType DEF None
    <3>. QED
      BY <3>1, <3>2, <3>3, <3>4 DEF AtLock, Active
  <2>3. ASSUME NEW t \in Threads, Acquire(t) PROVE AtLock'
    <3>1. Active(t) /\ script[t] \in Sections
      BY <2>3 DEF Acquire, AtLock, Active
    <3>2. CASE /\ script' = [script EXCEPT ![t] = None]
               /\ at' = [at EXCEPT ![t] = 1]
      BY <3>2 DEF AtLock, Active
    <3>3. CASE /\ at[t] < Len(script[t])
               /\ at' = [at EXCEPT ![t] = @ + 1]
               /\ script' = script
      <4>1. script[t] \in Seq(LockStep)
        BY <3>1, SectionType
      <4>2. at[t] + 1 \in DOMAIN script[t]
        BY <3>1, <3>3, <4>1 DEF AtLock
      <4>. QED
        BY <3>1, <3>3, <4>2 DEF AtLock, Active
    <3>. QED
      BY <2>3, <3>2, <3>3 DEF Acquire
  <2>. QED
    BY <2>1, <2>2, <2>3 DEF Next
<1>. QED
  BY <1>1, <1>2, PTL DEF Spec

-----------------------------------------------------------------------------
(* The order is kept at every step.                                        *)

\* A thread that is at a step of a section in order takes its lock in order.
LEMMA OrderAtStep ==
  ASSUME SectionsInOrder, AtLock
  PROVE  AcquiresInOrder
<1> SUFFICES ASSUME NEW t \in Threads, Active(t), script[t] \notin Inverted,
                    NEW h \in Held(t)
             PROVE  MayFollow(h, Want(t))
  BY DEF AcquiresInOrder
<1>1. script[t] \in Sections \ Inverted
  BY DEF AtLock, Active
<1>2. at[t] \in DOMAIN script[t]
  BY DEF AtLock
<1>. QED
  BY <1>1, <1>2 DEF SectionsInOrder, InOrder, Held, Want

-----------------------------------------------------------------------------
(* A set of threads that wait for each other, none of which breaks the     *)
(* order or writes the system's lock, has one that waits for the lock of   *)
(* the highest rank: whoever holds it waits for a higher one.              *)

\* Ranks are numbers from 0 to 6.
LEMMA RankNat == \A l : Rank(l) \in 0..6
  BY DEF Rank

\* Of some threads one waits for a lock of the highest rank.
LEMMA HighestRank ==
  ASSUME NEW S \in SUBSET Threads, S # {}
  PROVE  \E t \in S : \A u \in S : Rank(Want(u).lock) <= Rank(Want(t).lock)
<1> DEFINE R(t) == Rank(Want(t).lock)
<1>1. \A t \in S : R(t) \in 0..6
  BY RankNat
<1> HIDE DEF R
<1>2. \E n \in 0..6 : /\ \E t \in S : R(t) = n
                     /\ \A m \in (n + 1)..6 : \A t \in S : R(t) # m
  <2>1. SUFFICES ASSUME \A n \in 0..6 :
                          (\A m \in (n + 1)..6 : \A t \in S : R(t) # m)
                            => \A t \in S : R(t) # n
                 PROVE  FALSE
    OBVIOUS
  <2>2. \A t \in S : R(t) # 6
    BY <2>1
  <2>3. \A t \in S : R(t) # 5
    BY <2>1, <2>2
  <2>4. \A t \in S : R(t) # 4
    BY <2>1, <2>2, <2>3
  <2>5. \A t \in S : R(t) # 3
    BY <2>1, <2>2, <2>3, <2>4
  <2>6. \A t \in S : R(t) # 2
    BY <2>1, <2>2, <2>3, <2>4, <2>5
  <2>7. \A t \in S : R(t) # 1
    BY <2>1, <2>2, <2>3, <2>4, <2>5, <2>6
  <2>8. \A t \in S : R(t) # 0
    BY <2>1, <2>2, <2>3, <2>4, <2>5, <2>6, <2>7
  <2>. QED
    BY <1>1, <2>2, <2>3, <2>4, <2>5, <2>6, <2>7, <2>8
<1>3. PICK n \in 0..6, t \in S :
        R(t) = n /\ \A m \in (n + 1)..6 : \A u \in S : R(u) # m
  BY <1>2
<1>4. \A u \in S : R(u) <= R(t)
  BY <1>1, <1>3
<1>. QED
  BY <1>4 DEF R

\* That one is blocked by none of the others.
LEMMA OrderedDeadlock ==
  ASSUME AcquiresInOrder
  PROVE  DeadlockCause
<1> SUFFICES ASSUME NEW S \in SUBSET Threads, Deadlocked(S),
                    \A t \in S : script[t] \notin Inverted /\ ~WritesSystem(t)
             PROVE  FALSE
  BY DEF DeadlockCause
<1>1. ASSUME NEW t \in S PROVE Want(t).lock # "system"
  <2> SUFFICES ASSUME Want(t).lock = "system" PROVE FALSE
    OBVIOUS
  <2>1. PICK u \in S : Blocks(u, t)
    BY DEF Deadlocked
  <2>2. ~WritesSystem(u) /\ ~WritesSystem(t)
    OBVIOUS
  <2>. QED
    BY <2>1, <2>2 DEF Blocks, HoldsAgainst, WaitsAgainst, WritesSystem
<1>2. ASSUME NEW t \in S, NEW u \in S, HoldsAgainst(u, t)
      PROVE  Rank(Want(t).lock) < Rank(Want(u).lock)
  <2>1. PICK h \in Held(u) : h.lock = Want(t).lock
    BY <1>2 DEF HoldsAgainst
  <2>2. MayFollow(h, Want(u))
    BY <1>2, <2>1 DEF AcquiresInOrder, HoldsAgainst
  <2>. QED
    BY <1>1, <2>1, <2>2 DEF MayFollow
<1>3. PICK t \in S : \A u \in S : Rank(Want(u).lock) <= Rank(Want(t).lock)
  BY HighestRank DEF Deadlocked
<1>4. PICK u \in S : Blocks(u, t)
  BY DEF Deadlocked
<1>5. CASE HoldsAgainst(u, t)
  BY <1>2, <1>3, <1>5, RankNat
<1>6. CASE WaitsAgainst(u, t)
  <2>1. PICK v \in S : Blocks(v, u)
    BY DEF Deadlocked
  <2>2. HoldsAgainst(v, u)
    BY <1>6, <2>1 DEF Blocks, WaitsAgainst
  <2>3. Want(u).lock = Want(t).lock
    BY <1>6 DEF WaitsAgainst
  <2>. QED
    BY <1>2, <1>3, <2>2, <2>3, RankNat
<1>. QED
  BY <1>4, <1>5, <1>6 DEF Blocks

-----------------------------------------------------------------------------
(* Two threads.                                                            *)

\* Who keeps to the order and does not read the system's lock twice holds
\* nothing against itself.
LEMMA NoSelfBlock ==
  ASSUME AcquiresInOrder, NEW t \in Threads, Active(t),
         script[t] \notin Inverted, ~ReadsTwice(t)
  PROVE  \A h \in Held(t) : h.lock # Want(t).lock
<1> SUFFICES ASSUME NEW h \in Held(t), h.lock = Want(t).lock PROVE FALSE
  OBVIOUS
<1>1. MayFollow(h, Want(t))
  BY DEF AcquiresInOrder
<1>2. CASE Want(t).lock = "system"
  BY <1>1, <1>2 DEF MayFollow, ReadsTwice
<1>3. CASE Want(t).lock # "system"
  <2>1. Rank(h.lock) < Rank(Want(t).lock)
    BY <1>1, <1>3 DEF MayFollow
  <2>2. Rank(h.lock) \in 0..6 /\ Rank(h.lock) = Rank(Want(t).lock)
    BY RankNat
  <2> QED BY <2>1, <2>2
<1> QED BY <1>2, <1>3

\* Neither of two such threads holds what the other wants.
LEMMA NoPairHolds ==
  ASSUME SystemWrittenLast, AtLock, AcquiresInOrder,
         NEW t \in Threads, NEW u \in Threads,
         script[t] \notin Inverted, script[u] \notin Inverted,
         ~ReadsTwice(t), ~ReadsTwice(u),
         HoldsAgainst(u, t), HoldsAgainst(t, u)
  PROVE  FALSE
<1>1. PICK h \in Held(u) : /\ h.lock = Want(t).lock
                           /\ h.mode = "write" \/ Want(t).mode = "write"
  BY DEF HoldsAgainst
<1>2. PICK g \in Held(t) : /\ g.lock = Want(u).lock
                           /\ g.mode = "write" \/ Want(u).mode = "write"
  BY DEF HoldsAgainst
<1>3. Active(t) /\ Active(u)
  BY DEF HoldsAgainst
<1>4. MayFollow(h, Want(u)) /\ MayFollow(g, Want(t))
  BY <1>3 DEF AcquiresInOrder
<1>5. /\ script[t] \in Sections \ Inverted /\ at[t] \in DOMAIN script[t]
      /\ script[u] \in Sections \ Inverted /\ at[u] \in DOMAIN script[u]
  BY <1>3 DEF AtLock, Active
<1>6. CASE Want(t).lock = "system"
  <2>1. h.lock = "system" /\ h.mode = "write"
    BY <1>1, <1>4, <1>6 DEF MayFollow
  <2> QED BY <1>2, <1>5, <1>6, <2>1 DEF SystemWrittenLast, Held, Want
<1>7. CASE Want(u).lock = "system"
  <2>1. g.lock = "system" /\ g.mode = "write"
    BY <1>2, <1>4, <1>7 DEF MayFollow
  <2> QED BY <1>1, <1>5, <1>7, <2>1 DEF SystemWrittenLast, Held, Want
<1>8. CASE Want(t).lock # "system" /\ Want(u).lock # "system"
  <2>1. /\ Rank(Want(t).lock) < Rank(Want(u).lock)
        /\ Rank(Want(u).lock) < Rank(Want(t).lock)
    BY <1>1, <1>2, <1>4, <1>8 DEF MayFollow
  <2> QED BY <2>1, RankNat
<1> QED BY <1>6, <1>7, <1>8

\* So two threads that wait for each other break a rule.
LEMMA OrderedPair ==
  ASSUME SystemWrittenLast, AtLock, AcquiresInOrder
  PROVE  PairCause
<1> SUFFICES ASSUME NEW t \in Threads, NEW u \in Threads, Deadlocked({t, u}),
                    script[t] \notin Inverted, script[u] \notin Inverted,
                    ~ReadsTwice(t), ~ReadsTwice(u)
             PROVE  FALSE
  BY DEF PairCause
<1>1. /\ Active(t) /\ (Blocks(t, t) \/ Blocks(u, t))
      /\ Active(u) /\ (Blocks(u, u) \/ Blocks(t, u))
  BY DEF Deadlocked
<1>2. /\ \A h \in Held(t) : h.lock # Want(t).lock
      /\ \A h \in Held(u) : h.lock # Want(u).lock
  BY <1>1, NoSelfBlock
<1>3. ~Blocks(t, t) /\ ~Blocks(u, u)
  BY <1>2 DEF Blocks, HoldsAgainst, WaitsAgainst
<1>4. CASE HoldsAgainst(u, t) /\ HoldsAgainst(t, u)
  BY <1>4, NoPairHolds
<1>5. CASE HoldsAgainst(u, t) /\ WaitsAgainst(t, u)
  BY <1>2, <1>5 DEF HoldsAgainst, WaitsAgainst
<1>6. CASE WaitsAgainst(u, t) /\ HoldsAgainst(t, u)
  BY <1>2, <1>6 DEF HoldsAgainst, WaitsAgainst
<1>7. CASE WaitsAgainst(u, t) /\ WaitsAgainst(t, u)
  BY <1>7 DEF WaitsAgainst
<1> QED BY <1>1, <1>3, <1>4, <1>5, <1>6, <1>7 DEF Blocks

-----------------------------------------------------------------------------
\* However many threads there are and whatever the scripts, if all sections but
\* the known ones take their locks in order, every thread does.
THEOREM LocksInOrder ==
  ASSUME SectionsInOrder
  PROVE  Spec => []AcquiresInOrder
<1>1. AtLock => AcquiresInOrder
  BY OrderAtStep
<1> QED BY <1>1, AlwaysAtLock, PTL

\* Then threads wait for each other for ever only through one of the known
\* sections or through a writer of the system's lock.
THEOREM DeadlockHasCause ==
  ASSUME SectionsInOrder
  PROVE  Spec => []DeadlockCause
<1>1. AcquiresInOrder => DeadlockCause
  BY OrderedDeadlock
<1> QED BY <1>1, LocksInOrder, PTL

\* And two threads, even with writers of the system's lock, only through one of
\* the known sections or one that reads the system's lock twice, if the locks
\* that are taken by those writers are none under which the system's is read.
THEOREM PairHasCause ==
  ASSUME SectionsInOrder, SystemWrittenLast
  PROVE  Spec => []PairCause
<1>1. AtLock /\ AcquiresInOrder => PairCause
  BY OrderedPair
<1> QED BY <1>1, AlwaysAtLock, LocksInOrder, PTL
=============================================================================
