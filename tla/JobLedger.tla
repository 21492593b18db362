----------------------------- MODULE JobLedger ------------------------------
(***************************************************************************)
(* What a printer promises about its list of jobs, without printing,       *)
(* threads or devices: a job is accepted once, under a number of its own   *)
(* and when there is room; it is active until it ends, then it is history; *)
(* only history is ever forgotten, except with the whole printer.          *)
(***************************************************************************)
EXTENDS Naturals, FiniteSets

CONSTANTS MaxJobs,    \* job numbers are 1 .. MaxJobs
          MaxActive   \* active jobs the printer takes, 0 for no limit

VARIABLES active, history, next, closed
ledger == <<active, history, next, closed>>

Init == active = {} /\ history = {} /\ next = 1 /\ closed = FALSE

Accept ==
  /\ ~closed /\ next \in 1 .. MaxJobs
  /\ MaxActive = 0 \/ Cardinality(active) < MaxActive
  /\ active' = active \cup {next} /\ next' = next + 1
  /\ UNCHANGED <<history, closed>>

\* Jobs end: one, or all of them when they are canceled together.
End(S) ==
  /\ S \subseteq active
  /\ active' = active \ S /\ history' = history \cup S
  /\ UNCHANGED <<next, closed>>

Forget(S) ==
  /\ S \subseteq history
  /\ history' = history \ S
  /\ UNCHANGED <<active, next, closed>>

Close ==
  /\ active' = {} /\ history' = {} /\ closed' = TRUE
  /\ UNCHANGED next

Next == \/ Accept \/ Close
        \/ \E S \in SUBSET active : End(S)
        \/ \E S \in SUBSET history : Forget(S)

Spec == Init /\ [][Next]_ledger
=============================================================================
