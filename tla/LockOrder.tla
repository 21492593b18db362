------------------------------ MODULE LockOrder ------------------------------
(***************************************************************************)
(* Threads that take the locks of LockScripts. What can make them wait for *)
(* each other for ever?                                                    *)
(*                                                                         *)
(* A thread gives up a lock without waiting, so that what a script gives   *)
(* up after it has taken a lock is part of the step that takes it. One     *)
(* that holds no lock between two sections of a script may as well have    *)
(* ended it: threads go through sections, in any order.                    *)
(***************************************************************************)
EXTENDS Naturals, Sequences, LockScripts

CONSTANTS
  Threads,          \* threads of clients, of jobs, and the main loop
  Scripts,          \* the scripts that they go through
  Inverted,         \* the sections that are known not to keep to the order
  WriterPreference  \* a waiting writer keeps readers out

VARIABLES
  script,  \* each thread: the section it is in, None when it is in no one
  at       \* each thread: its next step there

vars == <<script, at>>

Modes     == {"read", "write"}
LockTaken == [lock : STRING, mode : Modes]
LockStep  == [lock : STRING, mode : Modes, under : SUBSET LockTaken]

ASSUME ScriptsAssumption == Scripts \subseteq Seq(LockStep)

\* From one step of s that takes a lock when no other is held to the next one.
SectionsOf(s) ==
  LET starts == {i \in DOMAIN s : s[i].under = {}} \cup {Len(s) + 1}
  IN {SubSeq(s, p[1], p[2] - 1) : p \in
        {q \in starts \X starts :
           q[1] < q[2] /\ ~\E k \in starts : q[1] < k /\ k < q[2]}}

Sections == UNION {SectionsOf(s) : s \in Scripts}

Init ==
  /\ script = [t \in Threads |-> None]
  /\ at = [t \in Threads |-> 1]

Active(t) == script[t] # None
Want(t)   == script[t][at[t]]
Held(t)   == Want(t).under

-----------------------------------------------------------------------------
(* cupsRWLockRead, cupsRWLockWrite and cupsMutexLock.                      *)

\* u holds what t wants.
HoldsAgainst(u, t) ==
  /\ Active(u) /\ Active(t)
  /\ \E h \in Held(u) : /\ h.lock = Want(t).lock
                        /\ h.mode = "write" \/ Want(t).mode = "write"

\* u waits to write what t wants to read.
WaitsAgainst(u, t) ==
  /\ WriterPreference
  /\ Active(u) /\ Active(t)
  /\ Want(u).lock = Want(t).lock
  /\ Want(u).mode = "write" /\ Want(t).mode = "read"
  /\ \E v \in Threads : HoldsAgainst(v, u)

Blocks(u, t) == HoldsAgainst(u, t) \/ WaitsAgainst(u, t)

Begin(t) ==
  /\ ~Active(t)
  /\ \E s \in Sections : script' = [script EXCEPT ![t] = s]
  /\ UNCHANGED at

\* t gets the lock that it wants, and gives up those that the next step is not
\* under.
Acquire(t) ==
  /\ Active(t)
  /\ ~\E u \in Threads : Blocks(u, t)
  /\ \/ /\ at[t] < Len(script[t])
        /\ at' = [at EXCEPT ![t] = @ + 1]
        /\ UNCHANGED script
     \/ /\ at[t] = Len(script[t])
        /\ script' = [script EXCEPT ![t] = None]
        /\ at' = [at EXCEPT ![t] = 1]

Next == \E t \in Threads : Begin(t) \/ Acquire(t)

Spec == Init /\ [][Next]_vars

-----------------------------------------------------------------------------
(* Properties.                                                             *)

\* The order that the functions keep to: the list of printers, the printer, its
\* output devices, the job or the device schemes, the subscription or the log, then
\* the locks under which no other is taken. The system's lock is in no order: it is
\* taken first by those that go through the printers, and last by those that raise
\* an event.
Rank(l) == CASE l = "system" -> 0 [] l = "printers" -> 1 [] l = "printer" -> 2
             [] l = "output" -> 3 [] l \in {"job", "device"} -> 4
             [] l \in {"subscription", "log"} -> 5 [] OTHER -> 6

\* The lock w may be taken by who holds h.
MayFollow(h, w) ==
  IF w.lock = "system"
  THEN w.mode = "read"
  ELSE h.lock = "system" \/ Rank(h.lock) < Rank(w.lock)

InOrder(s) == \A i \in DOMAIN s : \A h \in s[i].under : MayFollow(h, s[i])

\* Of the scripts: but for the known ones, each section keeps to the order.
SectionsInOrder == \A s \in Sections \ Inverted : InOrder(s)

\* Of the scripts: a lock that is taken with the system's held for writing is
\* none under which the system's lock is taken.
SystemWrittenLast ==
  \A s, r \in Sections \ Inverted :
    \A i \in DOMAIN s, k \in DOMAIN r :
      (/\ \E h \in s[i].under : h.lock = "system" /\ h.mode = "write"
       /\ \E h \in r[k].under : h.lock = s[i].lock)
        => r[k].lock # "system"

\* Every function but the two that are known takes its locks in that order, and
\* none takes the system's for writing with another one held.
AcquiresInOrder ==
  \A t \in Threads : Active(t) /\ script[t] \notin Inverted =>
    \A h \in Held(t) : MayFollow(h, Want(t))

Deadlocked(S) ==
  /\ S # {}
  /\ \A t \in S : Active(t) /\ \E u \in S : Blocks(u, t)

WritesSystem(t) ==
  \/ Want(t).lock = "system" /\ Want(t).mode = "write"
  \/ \E h \in Held(t) : h.lock = "system" /\ h.mode = "write"

\* Threads wait for each other only if one of them is in a function that breaks
\* the order (a document is submitted, or its copy fails) or writes the system's
\* lock: whoever saves the state or raises an event reads that lock when it
\* holds others, and a writer in between closes the circle.
DeadlockCause ==
  \A S \in SUBSET Threads : Deadlocked(S) =>
    \E t \in S : script[t] \in Inverted \/ WritesSystem(t)

\* Holds the system's lock for reading and asks for it again.
ReadsTwice(t) ==
  /\ Want(t).lock = "system" /\ Want(t).mode = "read"
  /\ \E h \in Held(t) : h.lock = "system"

\* A thread never waits for itself, and two wait for each other only if one of
\* them breaks the order or reads the system's lock twice, which those do that
\* go through the printers with it held and raise an event or localize a text.
PairCause ==
  \A t, u \in Threads : Deadlocked({t, u}) =>
    \E v \in {t, u} : script[v] \in Inverted \/ ReadsTwice(v)
=============================================================================
