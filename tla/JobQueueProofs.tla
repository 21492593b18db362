--------------------------- MODULE JobQueueProofs ---------------------------
(***************************************************************************)
(* Proofs about JobQueue, for every number of jobs, threads and clients    *)
(* and every choice of the other constants.                                *)
(***************************************************************************)
EXTENDS JobQueue, FiniteSetTheorems, WellFoundedInduction, TLAPS

USE DEF Jobs, NoJob

-----------------------------------------------------------------------------
(* What the pieces of the critical sections do to the types.               *)

\* AddEntries and Put give functions on Jobs.
LEMMA AddEntriesType ==
  ASSUME ListType, NEW S
  PROVE  AddEntries(S) \in [Jobs -> Nat]
  BY DEF ListType, AddEntries

\* Put gives a function of the same type.
LEMMA PutType ==
  ASSUME NEW V, NEW f \in [Jobs -> V], NEW S, NEW v \in V
  PROVE  Put(f, S, v) \in [Jobs -> V]
  BY DEF Put

\* Spawn changes threads only, and keeps their types.
LEMMA SpawnType ==
  ASSUME TypeOK, NEW j \in Jobs, NEW pcs \in [Threads -> ThreadPcs],
         Spawn(j, pcs)
  PROVE  ThreadType' /\ crashed' \in BOOLEAN
  BY DEF TypeOK, ThreadType, PrinterType, Spawn, ThreadPcs, JobPcs

\* CheckJobs preserves the types of what it changes, if its caller does.
LEMMA CheckJobsType ==
  ASSUME TypeOK, NEW ready, NEW js \in [Jobs -> JobStates],
         NEW hs \in SUBSET Jobs, NEW pcs \in [Threads -> ThreadPcs],
         CheckJobs(ready, js, hs, pcs)
  PROVE  /\ job_state' \in [Jobs -> JobStates]
         /\ hold_specified' \in SUBSET Jobs
         /\ job_completed' \in [Jobs -> {"none", "recent", "old"}]
         /\ ListType' /\ ThreadType' /\ crashed' \in BOOLEAN
<1> DEFINE due == {j \in active_jobs : js[j] = "held"
                                       /\ hold_until[j] = "future"}
           runnable == due \cup {j \in active_jobs : js[j] = "pending"}
<1>1. CASE /\ job_state' = js /\ hold_specified' = hs /\ tpc' = pcs
           /\ UNCHANGED <<tjob, job_completed, listVars, crashed>>
  BY <1>1 DEF TypeOK, JobType, ListType, ThreadType, PrinterType, listVars
<1>2. ASSUME NEW j \in runnable,
             hold_specified' = IF j \in due THEN hs \ {j} ELSE hs,
             Spawn(j, pcs), job_state' = [js EXCEPT ![j] = "pending"],
             UNCHANGED <<job_completed, listVars>>
      PROVE  /\ job_state' \in [Jobs -> JobStates]
             /\ hold_specified' \in SUBSET Jobs
             /\ job_completed' \in [Jobs -> {"none", "recent", "old"}]
             /\ ListType' /\ ThreadType' /\ crashed' \in BOOLEAN
  <2>1. j \in Jobs
    BY DEF TypeOK, ListType
  <2>2. ThreadType' /\ crashed' \in BOOLEAN
    BY <1>2, <2>1, SpawnType
  <2> QED BY <1>2, <2>1, <2>2 DEF TypeOK, JobType, ListType, listVars, JobStates
<1>3. ASSUME NEW j \in runnable,
             hold_specified' = IF j \in due THEN hs \ {j} ELSE hs,
             job_state' = [js EXCEPT ![j] = "aborted"],
             job_completed' = [job_completed EXCEPT ![j] = "recent"],
             active_jobs' = active_jobs \ {j},
             completed_jobs' = AddEntries({j}),
             StampClean, tpc' = pcs, UNCHANGED <<tjob, crashed>>
      PROVE  /\ job_state' \in [Jobs -> JobStates]
             /\ hold_specified' \in SUBSET Jobs
             /\ job_completed' \in [Jobs -> {"none", "recent", "old"}]
             /\ ListType' /\ ThreadType' /\ crashed' \in BOOLEAN
  <2>1. completed_jobs' \in [Jobs -> Nat]
    BY <1>3, AddEntriesType DEF TypeOK
  <2> QED
    BY <1>3, <2>1 DEF TypeOK, JobType, ListType, ThreadType, PrinterType,
                      JobStates, StampClean
<1> QED BY <1>1, <1>2, <1>3 DEF CheckJobs

\* What the assumption on the constants says of two bounds and of holds.
LEMMA Bounds == MaxJobs \in Nat /\ MaxDocs \in Nat /\ MaxDocs > 0
  BY ConstantsAssumption DEF ConstantsAssumption

\* What a client may ask a job to be held until.
LEMMA HoldValues == \A h \in HoldOptions : h.until \in {"none", "future", "past"}
  BY ConstantsAssumption DEF ConstantsAssumption, HoldKinds

\* Cancel preserves the types of jobs and lists.
LEMMA CancelType ==
  ASSUME TypeOK, NEW S \in SUBSET Jobs, Cancel(S)
  PROVE  JobType' /\ ListType'
<1>1. completed_jobs' \in [Jobs -> Nat]
  BY AddEntriesType DEF TypeOK, Cancel
<1>2. active_jobs' \in SUBSET Jobs /\ clean_time' \in {"unset", "set", "due"}
  BY DEF TypeOK, ListType, Cancel, StampClean
<1> DEFINE ended == S \ Marked(S)
<1>3. /\ job_state' = Put(job_state, ended, "canceled")
      /\ job_completed' = Put(job_completed, ended, "recent")
      /\ num_documents' = Put(num_documents, ended, 0)
      /\ is_canceled' = is_canceled \cup Marked(S)
      /\ UNCHANGED <<fd_open, hold_until, hold_specified, next_job_id>>
  BY DEF Cancel
<1> HIDE DEF ended
<1>4. /\ job_state' \in [Jobs -> JobStates]
      /\ job_completed' \in [Jobs -> {"none", "recent", "old"}]
      /\ num_documents' \in [Jobs -> 0 .. MaxDocs]
  <2>1. {"canceled"} \subseteq JobStates /\ 0 \in 0 .. MaxDocs
    BY Bounds DEF JobStates
  <2> QED BY <1>3, <2>1, PutType DEF TypeOK, JobType
<1>5. JobType'
  BY <1>3, <1>4 DEF TypeOK, JobType, Marked
<1> QED BY <1>1, <1>2, <1>5 DEF ListType

\* So does creating a job, whose number was not used before.
LEMMA NewJobType ==
  ASSUME TypeOK, NEW hold \in HoldOptions, NewJob(hold)
  PROVE  JobType' /\ ListType' /\ next_job_id \in Jobs
<1> USE HoldValues, Bounds DEF TypeOK, JobType, ListType, NewJob
<1>1. next_job_id \in Jobs /\ next_job_id' \in 1 .. MaxJobs + 1
  OBVIOUS
<1>2. /\ job_state' \in [Jobs -> JobStates]
      /\ hold_until' \in [Jobs -> {"none", "future", "past"}]
  BY <1>1 DEF JobStates
<1>3. hold_specified' \in SUBSET Jobs /\ active_jobs' \in SUBSET Jobs
  BY <1>1
<1> QED BY <1>1, <1>2, <1>3

-----------------------------------------------------------------------------
(* Type correctness.                                                       *)

\* At first every variable has its type.
LEMMA TypeInit == Init => TypeOK
<1> SUFFICES ASSUME Init PROVE TypeOK
  OBVIOUS
<1>1. JobType
  BY Bounds DEF Init, JobType, JobStates
<1>2. ListType /\ PrinterType
  BY DEF Init, ListType, PrinterType
<1>3. ThreadType /\ ClientType
  BY DEF Init, ThreadType, ClientType, ThreadPcs, ClientPcs
<1> QED BY <1>1, <1>2, <1>3 DEF TypeOK

\* A step of a processing thread preserves the types.
LEMMA TypeThread ==
  ASSUME TypeOK, NEW t \in Threads
  PROVE  (ThreadStep(t)) => TypeOK'
<1> USE DEF jobVars, listVars, printerVars, deviceVars, flagVars,
   threadVars, clientVars, TypeOK, JobType, ListType, PrinterType,
   ThreadType, ClientType, JobStates, ClientPcs, ThreadPcs, JobPcs,
   PrinterPcs
<1>1. StartJob(t) => TypeOK'
  BY DEF StartJob, AcquireDevice, UnchangedByDevice, On, Step
<1>2. RetryDevice(t) => TypeOK'
  BY DEF RetryDevice, AcquireDevice, UnchangedByDevice, On, Step
<1>3. PrintDocuments(t) => TypeOK'
  BY DEF PrintDocuments, On, Step
<1>4. FinishJob(t) => TypeOK'
  <2> SUFFICES ASSUME FinishJob(t) PROVE TypeOK'
    OBVIOUS
  <2> DEFINE over == IF job_state'[tjob[t]] \in Terminal THEN {tjob[t]} ELSE {}
  <2>1. JobType'
    <3>1. job_state' \in [Jobs -> JobStates]
      BY DEF FinishJob, FinalState, On
    <3>2. tjob[t] \in Jobs
      BY DEF FinishJob, On
    <3>3. /\ job_completed' = Put(job_completed, over, "recent")
          /\ num_documents' \in {num_documents, Put(num_documents, over, 0)}
      BY <3>2 DEF FinishJob
    <3>4. /\ Put(job_completed, over, "recent")
               \in [Jobs -> {"none", "recent", "old"}]
          /\ Put(num_documents, over, 0) \in [Jobs -> 0 .. MaxDocs]
      BY Bounds DEF Put
    <3> QED BY <3>1, <3>3, <3>4 DEF FinishJob
  <2>2. ListType'
    BY AddEntriesType, Bounds DEF FinishJob, On, Step, Put, Terminal,
       StampClean
  <2>3. PrinterType'
    BY AddEntriesType, Bounds DEF FinishJob, On, Step, Put, Terminal,
       StampClean
  <2>4. ThreadType'
    BY AddEntriesType, Bounds DEF FinishJob, On, Step, Put, Terminal,
       StampClean
  <2>5. ClientType'
    BY AddEntriesType, Bounds DEF FinishJob, On, Step, Put, Terminal,
       StampClean
  <2> QED BY <2>1, <2>2, <2>3, <2>4, <2>5
<1>5. DecideTail(t) => TypeOK'
  BY DEF DecideTail, Step
<1>6. DeleteLast(t) => TypeOK'
  BY DEF DeleteLast, Step, FreePrinter
<1>7. CloseAfterJob(t) => TypeOK'
  BY DEF CloseAfterJob, Step
<1>8. CheckNext(t) => TypeOK'
  BY CheckJobsType DEF CheckNext
<1>9. ExitThread(t) => TypeOK'
  BY DEF ExitThread
<1> QED BY <1>1, <1>2, <1>3, <1>4, <1>5, <1>6, <1>7, <1>8, <1>9 DEF
   ThreadStep

\* A step of a client thread within a handler preserves the types.
LEMMA TypeClient ==
  ASSUME TypeOK, NEW c \in Clients
  PROVE  (ClientStep(c)) => TypeOK'
<1> USE DEF jobVars, listVars, printerVars, deviceVars, flagVars,
   threadVars, clientVars, TypeOK, JobType, ListType, PrinterType,
   ThreadType, ClientType, JobStates, ClientPcs, ThreadPcs, JobPcs,
   PrinterPcs
<1>1. OpenSpool(c) => TypeOK'
  BY DEF OpenSpool, At, Go
<1>2. CloseSpool(c) => TypeOK'
  BY DEF CloseSpool, At, Go
<1>3. AbortCopy(c) => TypeOK'
  <2> SUFFICES ASSUME AbortCopy(c) PROVE TypeOK'
    OBVIOUS
  <2>1. JobType'
    BY AddEntriesType DEF AbortCopy, At, Return, Abort, StampClean
  <2>2. ListType'
    BY AddEntriesType DEF AbortCopy, At, Return, Abort, StampClean
  <2>3. PrinterType'
    BY AddEntriesType DEF AbortCopy, At, Return, Abort, StampClean
  <2>4. ThreadType'
    BY AddEntriesType DEF AbortCopy, At, Return, Abort, StampClean
  <2>5. ClientType'
    BY AddEntriesType DEF AbortCopy, At, Return, Abort, StampClean
  <2> QED BY <2>1, <2>2, <2>3, <2>4, <2>5
<1>4. SubmitFile(c) => TypeOK'
  <2> SUFFICES ASSUME SubmitFile(c) PROVE TypeOK'
    OBVIOUS
  <2>1. JobType'
    <3>1. /\ num_documents[cjob[c]] + 1 \in 0 .. MaxDocs
          /\ num_documents' = [num_documents EXCEPT ![cjob[c]] = @ + 1]
      BY Bounds DEF SubmitFile, At, HasRoom
    <3>2. num_documents' \in [Jobs -> 0 .. MaxDocs]
      BY <3>1 DEF At
    <3>3. job_state' \in [Jobs -> JobStates]
      BY DEF SubmitFile
    <3> QED BY <3>2, <3>3 DEF SubmitFile
  <2>2. ListType'
    BY Bounds DEF SubmitFile, At, Go, Return
  <2>3. PrinterType'
    BY Bounds DEF SubmitFile, At, Go, Return
  <2>4. ThreadType'
    BY Bounds DEF SubmitFile, At, Go, Return
  <2>5. ClientType'
    <3>1. CASE Go(c, "check")
      BY <3>1 DEF Go
    <3>2. CASE Return(c)
      BY <3>2 DEF Return
    <3> QED BY <3>1, <3>2 DEF SubmitFile
  <2> QED BY <2>1, <2>2, <2>3, <2>4, <2>5
<1>5. RejectFile(c) => TypeOK'
  BY DEF RejectFile, At, Go
<1>6. UnlistFile(c) => TypeOK'
  <2> SUFFICES ASSUME UnlistFile(c) PROVE TypeOK'
    OBVIOUS
  <2>1. JobType'
    BY AddEntriesType DEF UnlistFile, At, Return, StampClean
  <2>2. ListType'
    BY AddEntriesType DEF UnlistFile, At, Return, StampClean
  <2>3. PrinterType'
    BY AddEntriesType DEF UnlistFile, At, Return, StampClean
  <2>4. ThreadType'
    BY AddEntriesType DEF UnlistFile, At, Return, StampClean
  <2>5. ClientType'
    BY AddEntriesType DEF UnlistFile, At, Return, StampClean
  <2> QED BY <2>1, <2>2, <2>3, <2>4, <2>5
<1>7. CheckAfter(c) => TypeOK'
  BY CheckJobsType DEF CheckAfter, Return
<1>8. CancelJob(c) => TypeOK'
  <2> SUFFICES ASSUME CancelJob(c) PROVE TypeOK'
    OBVIOUS
  <2>1. JobType'
    BY CancelType DEF CancelJob, At, Return
  <2>2. ListType'
    BY CancelType DEF CancelJob, At, Return
  <2>3. PrinterType'
    BY CancelType DEF CancelJob, At, Return
  <2>4. ThreadType'
    BY CancelType DEF CancelJob, At, Return
  <2>5. ClientType'
    BY CancelType DEF CancelJob, At, Return
  <2> QED BY <2>1, <2>2, <2>3, <2>4, <2>5
<1>9. DeleteNow(c) => TypeOK'
  BY DEF DeleteNow, FreePrinter, Return
<1>10. MarkDeleted(c) => TypeOK'
  BY DEF MarkDeleted, Go
<1> QED BY <1>1, <1>2, <1>3, <1>4, <1>5, <1>6, <1>7, <1>8, <1>9, <1>10 DEF
   ClientStep

\* A step that begins a handler preserves the types.
LEMMA TypeClientRequest ==
  ASSUME TypeOK, NEW c \in Clients
  PROVE  (ClientRequest(c)) => TypeOK'
<1> USE DEF jobVars, listVars, printerVars, deviceVars, flagVars,
   threadVars, clientVars, TypeOK, JobType, ListType, PrinterType,
   ThreadType, ClientType, JobStates, ClientPcs, ThreadPcs, JobPcs,
   PrinterPcs
<1>1. PrintJob(c) => TypeOK'
  <2> SUFFICES ASSUME PrintJob(c) PROVE TypeOK'
    OBVIOUS
  <2>1. JobType'
    BY NewJobType DEF PrintJob, Enter
  <2>2. ListType'
    BY NewJobType DEF PrintJob, Enter
  <2>3. PrinterType'
    BY NewJobType DEF PrintJob, Enter
  <2>4. ThreadType'
    BY NewJobType DEF PrintJob, Enter
  <2>5. ClientType'
    BY NewJobType DEF PrintJob, Enter
  <2> QED BY <2>1, <2>2, <2>3, <2>4, <2>5
<1>2. PrintFile(c) => TypeOK'
  <2> SUFFICES ASSUME PrintFile(c) PROVE TypeOK'
    OBVIOUS
  <2>1. JobType'
    BY NewJobType DEF PrintFile, Enter
  <2>2. ListType'
    BY NewJobType DEF PrintFile, Enter
  <2>3. PrinterType'
    BY NewJobType DEF PrintFile, Enter
  <2>4. ThreadType'
    BY NewJobType DEF PrintFile, Enter
  <2>5. ClientType'
    BY NewJobType DEF PrintFile, Enter
  <2> QED BY <2>1, <2>2, <2>3, <2>4, <2>5
<1>3. DeletePrinter(c) => TypeOK'
  BY DEF DeletePrinter, Enter
<1>4. (\E j \in Jobs : SendDocument(c, j)) => TypeOK'
  BY DEF SendDocument, Enter
<1>5. (\E j \in Jobs : CancelRequest(c, j)) => TypeOK'
  BY DEF CancelRequest, Enter
<1>6. (\E j \in Jobs : ResumeJob(c, j)) => TypeOK'
  BY DEF ResumeJob, Enter
<1> QED BY <1>1, <1>2, <1>3, <1>4, <1>5, <1>6 DEF ClientRequest

\* A request of one section preserves the types.
LEMMA TypeRequest ==
  ASSUME TypeOK
  PROVE  (Request) => TypeOK'
<1> USE DEF jobVars, listVars, printerVars, deviceVars, flagVars,
   threadVars, clientVars, TypeOK, JobType, ListType, PrinterType,
   ThreadType, ClientType, JobStates, ClientPcs, ThreadPcs, JobPcs,
   PrinterPcs
<1>1. CreateJob => TypeOK'
  BY NewJobType DEF CreateJob
<1>2. CancelAllJobs => TypeOK'
  <2> SUFFICES ASSUME CancelAllJobs PROVE TypeOK'
    OBVIOUS
  <2>1. JobType'
    BY CancelType DEF CancelAllJobs
  <2>2. ListType'
    BY CancelType DEF CancelAllJobs
  <2>3. PrinterType'
    BY CancelType DEF CancelAllJobs
  <2>4. ThreadType'
    BY CancelType DEF CancelAllJobs
  <2>5. ClientType'
    BY CancelType DEF CancelAllJobs
  <2> QED BY <2>1, <2>2, <2>3, <2>4, <2>5
<1>3. Pause => TypeOK'
  BY DEF Pause
<1>4. Resume => TypeOK'
  <2> SUFFICES ASSUME Resume PROVE TypeOK'
    OBVIOUS
  <2>1. JobType'
    BY CheckJobsType DEF Resume
  <2>2. ListType'
    BY CheckJobsType DEF Resume
  <2>3. PrinterType'
    BY CheckJobsType DEF Resume
  <2>4. ThreadType'
    BY CheckJobsType DEF Resume
  <2>5. ClientType'
    BY CheckJobsType DEF Resume
  <2> QED BY <2>1, <2>2, <2>3, <2>4, <2>5
<1>5. HoldNewJobs => TypeOK'
  BY DEF HoldNewJobs
<1>6. ReleaseHeldNewJobs => TypeOK'
  BY CheckJobsType, PutType DEF ReleaseHeldNewJobs
<1>7. OpenDevice => TypeOK'
  BY DEF OpenDevice
<1>8. CloseDevice => TypeOK'
  <2> SUFFICES ASSUME CloseDevice PROVE TypeOK'
    OBVIOUS
  <2>1. JobType'
    BY CheckJobsType DEF CloseDevice
  <2>2. ListType'
    BY CheckJobsType DEF CloseDevice
  <2>3. PrinterType'
    BY CheckJobsType DEF CloseDevice
  <2>4. ThreadType'
    BY CheckJobsType DEF CloseDevice
  <2>5. ClientType'
    BY CheckJobsType DEF CloseDevice
  <2> QED BY <2>1, <2>2, <2>3, <2>4, <2>5
<1>9. StopSystem => TypeOK'
  BY DEF StopSystem
<1>10. (\E j \in Jobs : SendNothing(j)) => TypeOK'
  BY DEF SendNothing
<1>11. (\E j \in Jobs : WebCancel(j)) => TypeOK'
  BY CancelType DEF WebCancel
<1>12. (\E j \in Jobs : HoldJob(j)) => TypeOK'
  BY HoldValues DEF HoldJob
<1>13. (\E j \in Jobs : ReleaseJob(j)) => TypeOK'
  BY CheckJobsType DEF ReleaseJob
<1>14. (\E j \in Jobs : SuspendJob(j)) => TypeOK'
  BY DEF SuspendJob
<1> QED BY <1>1, <1>2, <1>3, <1>4, <1>5, <1>6, <1>7, <1>8, <1>9, <1>10,
   <1>11, <1>12, <1>13, <1>14 DEF Request

\* So do the passing of time, cleaning and the use of freed memory.
LEMMA TypeSystem ==
  ASSUME TypeOK
  PROVE  ((\E j \in Jobs : HoldTimeArrives(j)) \/ MinutePasses \/ CleanJobs \/ UseFreed) => TypeOK'
<1> USE DEF jobVars, listVars, printerVars, deviceVars, flagVars,
   threadVars, clientVars, TypeOK, JobType, ListType, PrinterType,
   ThreadType, ClientType, JobStates, ClientPcs, ThreadPcs, JobPcs,
   PrinterPcs
<1>1. (\E j \in Jobs : HoldTimeArrives(j)) => TypeOK'
  BY DEF HoldTimeArrives
<1>2. MinutePasses => TypeOK'
  BY DEF MinutePasses
<1>3. CleanJobs => TypeOK'
  <2> SUFFICES ASSUME CleanJobs PROVE TypeOK'
    OBVIOUS
  <2>1. JobType'
    <3>1. 0 \in 0 .. MaxDocs
      BY Bounds
    <3>2. /\ Put(job_state, Purged, "freed") \in [Jobs -> JobStates]
          /\ Put(num_documents, Stripped, 0) \in [Jobs -> 0 .. MaxDocs]
      BY <3>1 DEF Put
    <3> QED BY <3>2 DEF CleanJobs
  <2>2. ListType'
    BY DEF CleanJobs, Put, Purged, Listed, Stripped
  <2>3. PrinterType'
    BY DEF CleanJobs, Put, Purged, Listed, Stripped
  <2>4. ThreadType'
    BY DEF CleanJobs, Put, Purged, Listed, Stripped
  <2>5. ClientType'
    BY DEF CleanJobs, Put, Purged, Listed, Stripped
  <2> QED BY <2>1, <2>2, <2>3, <2>4, <2>5
<1>4. UseFreed => TypeOK'
  BY DEF UseFreed
<1> QED BY <1>1, <1>2, <1>3, <1>4

\* So does every step.
LEMMA TypeStep ==
  ASSUME TypeOK, [Next]_vars
  PROVE  TypeOK'
<1>1. Next => TypeOK'
  BY TypeThread, TypeClient, TypeClientRequest, TypeRequest, TypeSystem
     DEF Next
<1>2. UNCHANGED vars => TypeOK'
  BY DEF TypeOK, JobType, ListType, PrinterType, ThreadType, ClientType,
         vars, jobVars, listVars, printerVars, deviceVars, flagVars,
         threadVars, clientVars
<1> QED BY <1>1, <1>2

\* Every variable keeps its type, whatever the requests and interleavings.
THEOREM TypeCorrect == Spec => []TypeOK
<1>1. TypeOK /\ [Next]_vars => TypeOK'
  BY TypeStep
<1> QED BY <1>1, TypeInit, PTL DEF Spec

-----------------------------------------------------------------------------
(***************************************************************************)
(* The lists of a printer: a job that exists is in one list and one only,  *)
(* and the printer keeps the promises of JobLedger. Both follow from what  *)
(* a step can do to the lists: move existing jobs from the active ones to  *)
(* the completed ones, add a new job, take old jobs out, or free all.      *)
(***************************************************************************)

\* Numbers that have not been given have no job.
Fresh == \A j \in Jobs : j >= next_job_id => job_state[j] = "none"

\* ListsAgree in its two halves: what is in a list exists, and is in one only;
\* what exists is in a list.
ListedExist ==
  ~crashed => \A j \in Jobs :
    /\ j \in active_jobs \/ completed_jobs[j] > 0 => Exists(j)
    /\ ~(j \in active_jobs /\ completed_jobs[j] > 0)
NoneUnlisted ==
  ~crashed => \A j \in Jobs :
    Exists(j) => j \in active_jobs \/ completed_jobs[j] > 0

QueueInv == TypeOK /\ ListedExist /\ Fresh
ListInv  == QueueInv /\ NoneUnlisted

\* No job is created or freed, and the existing jobs of S are moved.
MoveJobs(S) ==
  /\ S \subseteq Jobs /\ \A j \in S : Exists(j)
  /\ active_jobs' = active_jobs \ S
  /\ completed_jobs' = AddEntries(S)
  /\ \A j \in Jobs : \/ job_state'[j] = job_state[j]
                     \/ Exists(j) /\ job_state'[j] \notin {"none", "freed"}
  /\ UNCHANGED <<next_job_id, printer_freed>>

-----------------------------------------------------------------------------
(* What a step can do to the lists.                                        *)

\* Adding no entries changes nothing.
LEMMA AddNone ==
  ASSUME ListType PROVE AddEntries({}) = completed_jobs
  BY DEF ListType, AddEntries

\* A step that leaves the lists alone moves no jobs.
LEMMA MoveNone ==
  ASSUME TypeOK, UNCHANGED <<active_jobs, completed_jobs, next_job_id,
                             printer_freed>>,
         \A j \in Jobs : \/ job_state'[j] = job_state[j]
                         \/ Exists(j) /\ job_state'[j] \notin {"none", "freed"}
  PROVE  \E S : MoveJobs(S)
<1>1. MoveJobs({})
  BY AddNone DEF MoveJobs, TypeOK
<1> QED BY <1>1

\* CheckJobs moves the job it cannot start, if any.
LEMMA CheckJobsMoves ==
  ASSUME QueueInv, ~crashed, NEW ready, NEW js \in [Jobs -> JobStates],
         NEW hs, NEW pcs, CheckJobs(ready, js, hs, pcs),
         \A j \in Jobs : \/ js[j] = job_state[j]
                         \/ Exists(j) /\ js[j] \notin {"none", "freed"},
         UNCHANGED <<next_job_id, printer_freed>>
  PROVE  \E S : MoveJobs(S)
<1> DEFINE due == {j \in active_jobs : js[j] = "held"
                                       /\ hold_until[j] = "future"}
           runnable == due \cup {j \in active_jobs : js[j] = "pending"}
<1>1. \A j \in runnable : j \in Jobs /\ Exists(j)
  BY DEF QueueInv, TypeOK, ListType, ListedExist
<1>2. CASE job_state' = js /\ UNCHANGED listVars
  BY <1>2, MoveNone DEF QueueInv, listVars
<1>3. ASSUME NEW j \in runnable, job_state' = [js EXCEPT ![j] = "pending"],
             UNCHANGED listVars
      PROVE  \E S : MoveJobs(S)
  BY <1>1, <1>3, MoveNone DEF QueueInv, listVars
<1>4. ASSUME NEW j \in runnable, job_state' = [js EXCEPT ![j] = "aborted"],
             active_jobs' = active_jobs \ {j},
             completed_jobs' = AddEntries({j})
      PROVE  \E S : MoveJobs(S)
  <2>1. MoveJobs({j})
    BY <1>1, <1>4 DEF MoveJobs
  <2> QED BY <2>1
<1> QED BY <1>2, <1>3, <1>4 DEF CheckJobs

\* Cancel moves the jobs it ends.
LEMMA CancelMoves ==
  ASSUME QueueInv, NEW S \in SUBSET Jobs, \A j \in S : Exists(j), Cancel(S),
         UNCHANGED printer_freed
  PROVE  \E R : MoveJobs(R)
<1> DEFINE ended == S \ Marked(S)
<1>1. MoveJobs(ended)
  BY DEF Cancel, MoveJobs, Put, QueueInv, TypeOK, JobType
<1> QED BY <1>1

\* A step of a processing thread moves jobs or frees the printer.
LEMMA ThreadMoves ==
  ASSUME QueueInv, ~crashed, NEW t \in Threads, ThreadStep(t)
  PROVE  FreePrinter \/ \E S : MoveJobs(S)
<1> USE DEF QueueInv, TypeOK, JobType, listVars, jobVars, flagVars, On, Exists
<1>1. CASE StartJob(t) \/ RetryDevice(t)
  BY <1>1, MoveNone DEF StartJob, RetryDevice, AcquireDevice,
     UnchangedByDevice
<1>2. CASE PrintDocuments(t)
  BY <1>2, MoveNone DEF PrintDocuments
<1>3. CASE FinishJob(t)
  <2>1. MoveJobs({tjob[t]})
    BY <1>3 DEF FinishJob, FinalState, MoveJobs
  <2> QED BY <2>1
<1>4. CASE DecideTail(t) \/ CloseAfterJob(t) \/ ExitThread(t)
  BY <1>4, MoveNone DEF DecideTail, CloseAfterJob, ExitThread
<1>5. CASE DeleteLast(t)
  BY <1>5 DEF DeleteLast
<1>6. CASE CheckNext(t)
  BY <1>6, CheckJobsMoves DEF CheckNext
<1> QED BY <1>1, <1>2, <1>3, <1>4, <1>5, <1>6 DEF ThreadStep

\* So does a step of a client within a handler.
LEMMA ClientMoves ==
  ASSUME QueueInv, ~crashed, NEW c \in Clients, ClientStep(c)
  PROVE  FreePrinter \/ \E S : MoveJobs(S)
<1> USE DEF QueueInv, TypeOK, JobType, listVars, jobVars, flagVars, At, Exists
<1>1. CASE OpenSpool(c) \/ CloseSpool(c) \/ MarkDeleted(c)
  BY <1>1, MoveNone DEF OpenSpool, CloseSpool, MarkDeleted
<1>6. CASE SubmitFile(c) \/ RejectFile(c)
  <2>1. UNCHANGED <<active_jobs, completed_jobs, next_job_id, printer_freed>>
    BY <1>6 DEF SubmitFile, RejectFile
  <2>2. /\ At(c, "submit")
        /\ job_state' \in {job_state, [job_state EXCEPT ![cjob[c]] = "pending"],
                          [job_state EXCEPT ![cjob[c]] = "aborted"]}
    BY <1>6 DEF SubmitFile, RejectFile
  <2>3. \A j \in Jobs : \/ job_state'[j] = job_state[j]
                        \/ Exists(j) /\ job_state'[j] \notin {"none", "freed"}
    BY <2>2
  <2> QED BY <2>1, <2>3, MoveNone
<1>2. CASE AbortCopy(c) \/ UnlistFile(c)
  <2>1. MoveJobs({cjob[c]})
    BY <1>2 DEF AbortCopy, Abort, UnlistFile, MoveJobs
  <2> QED BY <2>1
<1>3. CASE CheckAfter(c)
  BY <1>3, CheckJobsMoves DEF CheckAfter
<1>4. CASE CancelJob(c)
  BY <1>4, CancelMoves DEF CancelJob
<1>5. CASE DeleteNow(c)
  BY <1>5 DEF DeleteNow
<1> QED BY <1>1, <1>2, <1>3, <1>4, <1>5, <1>6 DEF ClientStep

\* A step that begins a handler moves no job or creates one.
LEMMA ClientRequestMoves ==
  ASSUME QueueInv, ~crashed, NEW c \in Clients, ClientRequest(c)
  PROVE  \/ \E S : MoveJobs(S)
         \/ ~printer_freed /\ UNCHANGED <<printer_freed, crashed>>
            /\ \E hold \in HoldOptions : NewJob(hold)
<1> USE DEF QueueInv, TypeOK, JobType, listVars, jobVars, flagVars, Exists, May
<1>1. CASE PrintJob(c) \/ PrintFile(c)
  BY <1>1 DEF PrintJob, PrintFile
<1>2. CASE DeletePrinter(c)
  BY <1>2, MoveNone DEF DeletePrinter
<1>3. CASE \E j \in Jobs : SendDocument(c, j) \/ CancelRequest(c, j)
  BY <1>3, MoveNone DEF SendDocument, CancelRequest
<1>4. CASE \E j \in Jobs : ResumeJob(c, j)
  BY <1>4, MoveNone DEF ResumeJob
<1> QED BY <1>1, <1>2, <1>3, <1>4 DEF ClientRequest

\* A request of one section moves jobs or creates one.
LEMMA RequestMoves ==
  ASSUME QueueInv, ~crashed, Request
  PROVE  \/ \E S : MoveJobs(S)
         \/ ~printer_freed /\ UNCHANGED <<printer_freed, crashed>>
            /\ \E hold \in HoldOptions : NewJob(hold)
<1> USE DEF QueueInv, TypeOK, JobType, listVars, jobVars, flagVars, Exists, May
<1>1. CASE CreateJob
  BY <1>1 DEF CreateJob
<1>2. CASE CancelAllJobs
  <2>1. active_jobs \in SUBSET Jobs /\ \A j \in active_jobs : Exists(j)
    BY DEF ListType, ListedExist
  <2> QED BY <1>2, <2>1, CancelMoves DEF CancelAllJobs
<1>3. CASE Pause \/ HoldNewJobs \/ OpenDevice \/ StopSystem
  BY <1>3, MoveNone DEF Pause, HoldNewJobs, OpenDevice, StopSystem
<1>4. CASE Resume \/ CloseDevice
  BY <1>4, CheckJobsMoves DEF Resume, CloseDevice
<1>5. CASE ReleaseHeldNewJobs
  <2> DEFINE released == {j \in active_jobs \ hold_specified :
                            job_state[j] = "held" /\ hold_until[j] = "none"}
             js == Put(job_state, released, "pending")
  <2>1. js \in [Jobs -> JobStates]
    BY DEF Put, JobStates
  <2>2. \A j \in Jobs : \/ js[j] = job_state[j]
                        \/ Exists(j) /\ js[j] \notin {"none", "freed"}
    BY DEF Put
  <2> QED BY <1>5, <2>1, <2>2, CheckJobsMoves DEF ReleaseHeldNewJobs
<1>6. CASE \E j \in Jobs : SendNothing(j) \/ HoldJob(j) \/ SuspendJob(j)
  BY <1>6, MoveNone DEF SendNothing, HoldJob, SuspendJob, Before
<1>7. CASE \E j \in Jobs : WebCancel(j)
  BY <1>7, CancelMoves DEF WebCancel
<1>8. ASSUME NEW j \in Jobs, ReleaseJob(j) PROVE \E S : MoveJobs(S)
  <2>1. CASE job_state[j] = "held"
    <3> DEFINE js == [job_state EXCEPT ![j] = "pending"]
    <3>1. js \in [Jobs -> JobStates]
      BY DEF JobStates
    <3>2. \A k \in Jobs : \/ js[k] = job_state[k]
                          \/ Exists(k) /\ js[k] \notin {"none", "freed"}
      BY <2>1
    <3>3. CheckJobs(Ready, js, hold_specified \ {j}, tpc)
      BY <1>8, <2>1 DEF ReleaseJob
    <3> HIDE DEF js
    <3> QED BY <1>8, <3>1, <3>2, <3>3, CheckJobsMoves DEF ReleaseJob
  <2>2. CASE job_state[j] # "held"
    BY <1>8, <2>2, CheckJobsMoves DEF ReleaseJob
  <2> QED BY <2>1, <2>2
<1> QED BY <1>1, <1>2, <1>3, <1>4, <1>5, <1>6, <1>7, <1>8 DEF Request

\* Time moves no job.
LEMMA SystemMoves ==
  ASSUME QueueInv, ~crashed,
         (\E j \in Jobs : HoldTimeArrives(j)) \/ MinutePasses
  PROVE  \E S : MoveJobs(S)
  BY MoveNone DEF HoldTimeArrives, MinutePasses, QueueInv, jobVars, listVars,
                  flagVars

\* Every step, seen from the lists.
LEMMA StepKinds ==
  ASSUME QueueInv, Next
  PROVE  \/ \E S : MoveJobs(S)
         \/ /\ ~printer_freed /\ UNCHANGED <<printer_freed, crashed>>
            /\ \E hold \in HoldOptions : NewJob(hold)
         \/ FreePrinter
         \/ CleanJobs
         \/ crashed' /\ UNCHANGED <<active_jobs, completed_jobs, job_state,
                                   next_job_id, printer_freed>>
<1>1. CASE UseFreed
  BY <1>1 DEF UseFreed, listVars, jobVars, flagVars
<1> QED BY <1>1, ThreadMoves, ClientMoves, ClientRequestMoves, RequestMoves,
           SystemMoves DEF Next

-----------------------------------------------------------------------------
(* The invariant.                                                          *)

\* At first there are no jobs and both lists are empty.
LEMMA ListInit == Init => ListInv
<1> SUFFICES ASSUME Init PROVE ListInv
  OBVIOUS
<1>1. ListedExist /\ NoneUnlisted /\ Fresh
  BY DEF Init, ListedExist, NoneUnlisted, Exists, Fresh
<1> QED BY <1>1, TypeInit DEF ListInv, QueueInv

\* The two halves are ListsAgree.
LEMMA Halves ==
  ASSUME ListedExist, NoneUnlisted PROVE ListsAgree
  BY DEF ListsAgree, ListedExist, NoneUnlisted

\* Moving jobs that exist keeps every one of them in one list.
LEMMA MoveAgrees ==
  ASSUME QueueInv, ~crashed, NEW S, MoveJobs(S)
  PROVE  ListedExist' /\ Fresh' /\ (NoneUnlisted => NoneUnlisted')
<1>1. ASSUME NEW j \in Jobs
      PROVE  /\ Exists(j)' <=> Exists(j)
             /\ completed_jobs'[j] > 0 <=> (completed_jobs[j] > 0 \/ j \in S)
             /\ j \in active_jobs' <=> j \in active_jobs /\ j \notin S
  <2>1. completed_jobs'[j] = completed_jobs[j] + (IF j \in S THEN 1 ELSE 0)
    BY DEF MoveJobs, AddEntries
  <2>2. completed_jobs[j] \in Nat
    BY DEF QueueInv, TypeOK, ListType
  <2> QED BY <2>1, <2>2 DEF MoveJobs, Exists
<1>2. Fresh'
  BY DEF MoveJobs, Fresh, QueueInv, Exists
<1> QED BY <1>1, <1>2 DEF ListedExist, NoneUnlisted, MoveJobs, QueueInv

\* The number of a new job had no job.
LEMMA FreshNumber ==
  ASSUME QueueInv, NEW hold \in HoldOptions, NewJob(hold)
  PROVE  next_job_id \in Jobs /\ job_state[next_job_id] = "none"
<1>1. next_job_id \in Jobs
  BY DEF NewJob
<1>2. next_job_id >= next_job_id
  BY <1>1, Bounds DEF Jobs
<1> QED BY <1>1, <1>2 DEF Fresh, QueueInv

\* A new job is active, and its number is not given again.
LEMMA NewJobAgrees ==
  ASSUME QueueInv, ~crashed, NEW hold \in HoldOptions, NewJob(hold)
  PROVE  ListedExist' /\ Fresh' /\ (NoneUnlisted => NoneUnlisted')
<1>1. next_job_id \in Jobs /\ job_state[next_job_id] = "none"
  BY FreshNumber
<1>2. ASSUME NEW j \in Jobs
      PROVE  job_state'[j] = IF j = next_job_id THEN "held" ELSE job_state[j]
  BY <1>1 DEF NewJob, QueueInv, TypeOK, JobType
<1>3. /\ completed_jobs' = completed_jobs
      /\ active_jobs' = active_jobs \cup {next_job_id}
  BY DEF NewJob
<1>4. ListedExist' /\ (NoneUnlisted => NoneUnlisted')
  BY <1>1, <1>2, <1>3 DEF QueueInv, ListedExist, NoneUnlisted, Exists
<1>5. Fresh'
  BY <1>1, Bounds DEF NewJob, Fresh, QueueInv, TypeOK, JobType
<1> QED BY <1>4, <1>5

\* With the printer all jobs are freed and both lists emptied.
LEMMA FreeAgrees ==
  ASSUME QueueInv, FreePrinter
  PROVE  ListedExist' /\ Fresh' /\ NoneUnlisted'
  BY DEF FreePrinter, ListedExist, NoneUnlisted, Fresh, QueueInv, Exists

\* Cleaning frees a job with its last entry, or crashes.
LEMMA CleanAgrees ==
  ASSUME QueueInv, ~crashed, CleanJobs
  PROVE  ListedExist' /\ Fresh' /\ (NoneUnlisted => NoneUnlisted')
<1>1. ASSUME NEW j \in Jobs, ~crashed'
      PROVE  /\ j \in active_jobs' <=> j \in active_jobs
             /\ IF j \in Purged
                THEN /\ completed_jobs[j] > 0 /\ completed_jobs'[j] = 0
                     /\ job_state'[j] = "freed"
                ELSE /\ completed_jobs'[j] = completed_jobs[j]
                     /\ job_state'[j] = job_state[j]
  <2>1. completed_jobs[j] \in Nat
    BY DEF QueueInv, TypeOK, ListType
  <2>2. CASE j \in Purged
    <3>1. completed_jobs[j] = 1
      BY <1>1, <2>1, <2>2 DEF CleanJobs, Purged, Listed
    <3> QED BY <2>2, <3>1 DEF CleanJobs, Put
  <2>3. CASE j \notin Purged
    <3>1. completed_jobs'[j] = completed_jobs[j] - 0
          /\ job_state'[j] = job_state[j] /\ active_jobs' = active_jobs
      BY <2>3 DEF CleanJobs, Put
    <3> QED BY <2>1, <2>3, <3>1
  <2> QED BY <2>2, <2>3
<1>2. ListedExist' /\ (NoneUnlisted => NoneUnlisted')
  BY <1>1 DEF QueueInv, ListedExist, NoneUnlisted, Exists
<1>3. Fresh'
  <2>1. \A j \in Purged : job_state[j] # "none"
    BY DEF Purged, Listed, QueueInv, ListedExist, Exists
  <2> QED BY <2>1 DEF CleanJobs, Put, Fresh, QueueInv
<1> QED BY <1>2, <1>3

\* So do all steps.
LEMMA QueueInvStep ==
  ASSUME QueueInv, [Next]_vars
  PROVE  QueueInv' /\ (NoneUnlisted => NoneUnlisted')
<1>1. TypeOK'
  BY TypeStep DEF QueueInv
<1>2. CASE Next
  <2>1. ~crashed
    BY <1>2 DEF Next
  <2>2. CASE crashed' /\ UNCHANGED <<active_jobs, completed_jobs, job_state,
                                   next_job_id, printer_freed>>
    BY <1>1, <2>2 DEF QueueInv, ListedExist, NoneUnlisted, Fresh
  <2> QED BY <1>1, <1>2, <2>1, <2>2, StepKinds, MoveAgrees, NewJobAgrees,
             FreeAgrees, CleanAgrees DEF QueueInv
<1>3. CASE UNCHANGED vars
  BY <1>1, <1>3 DEF vars, jobVars, listVars, QueueInv, ListedExist,
                    NoneUnlisted, Fresh, Exists
<1> QED BY <1>2, <1>3

\* In particular they keep every job in a list.
LEMMA ListStep ==
  ASSUME ListInv, [Next]_vars
  PROVE  ListInv'
  BY QueueInvStep DEF ListInv

\* A job that exists is in exactly one of active_jobs and completed_jobs
\* (_papplJobCreate, _papplJobCancelNoLock, finish_job, abort_job and
\* _papplPrinterCleanJobsNoLock, in any order).
THEOREM ListsAlwaysAgree == Spec => []ListsAgree
<1>1. ListInv /\ [Next]_vars => ListInv'
  BY ListStep
<1>2. ListInv => ListsAgree
  BY Halves DEF ListInv, QueueInv
<1> QED BY <1>1, <1>2, ListInit, PTL DEF Spec

-----------------------------------------------------------------------------
(* The refinement.                                                         *)

History == {j \in Listed : job_state[j] # "freed"}

\* A move is a set of active jobs that end, and perhaps old entries again.
LEMMA MoveRefines ==
  ASSUME ListInv, ~crashed, NEW S, MoveJobs(S)
  PROVE  Ledger!End(S \cap active_jobs)
<1>1. active_jobs' = active_jobs \ (S \cap active_jobs)
  BY DEF MoveJobs
<1>2. ASSUME NEW j \in Jobs
      PROVE  j \in History' <=> j \in History \cup (S \cap active_jobs)
  <2>1. completed_jobs'[j] = completed_jobs[j] + (IF j \in S THEN 1 ELSE 0)
    BY DEF MoveJobs, AddEntries
  <2>2. completed_jobs[j] \in Nat
    BY DEF ListInv, QueueInv, TypeOK, ListType
  <2> QED BY <2>1, <2>2 DEF MoveJobs, History, Listed, ListInv, QueueInv,
                            ListedExist, NoneUnlisted, Exists
<1>3. History' \subseteq Jobs /\ History \subseteq Jobs
      /\ active_jobs \subseteq Jobs
  BY DEF History, Listed, ListInv, QueueInv, TypeOK, ListType
<1>4. History' = History \cup (S \cap active_jobs)
  BY <1>2, <1>3
<1> QED BY <1>1, <1>4 DEF Ledger!End, History, MoveJobs

\* The two modules count alike.
LEMMA SameCardinality == \A S : Ledger!Cardinality(S) = Cardinality(S)
  BY DEF Ledger!Cardinality, Cardinality

\* Every step is one of the ledger's, or changes nothing it sees.
LEMMA StepRefines ==
  ASSUME ListInv, [Next]_vars
  PROVE  [Ledger!Next]_(Ledger!ledger)
<1> USE DEF Ledger!Next, Ledger!ledger
<1>1. CASE Next
  <2>1. ~crashed
    BY <1>1 DEF Next
  <2>2. ASSUME NEW S, MoveJobs(S) PROVE Ledger!Next
    <3>1. Ledger!End(S \cap active_jobs)
      BY <2>1, <2>2, MoveRefines
    <3>2. S \cap active_jobs \in SUBSET active_jobs
      OBVIOUS
    <3> QED BY <3>1, <3>2 DEF Ledger!End
  <2>3. ASSUME ~printer_freed, UNCHANGED printer_freed,
               NEW hold \in HoldOptions, NewJob(hold)
        PROVE  Ledger!Next
    <3>1. next_job_id \in Jobs /\ job_state[next_job_id] = "none"
      BY <2>3, FreshNumber DEF ListInv
    <3>2. UNCHANGED History
      <4>1. Listed' = Listed /\ next_job_id \notin Listed
        BY <2>1, <2>3, <3>1 DEF NewJob, Listed, ListInv, QueueInv,
                                  ListedExist, Exists
      <4> QED BY <2>3, <4>1 DEF NewJob, History, ListInv, QueueInv, TypeOK, JobType, Listed
    <3>3. next_job_id \in 1 .. MaxJobs
          /\ (MaxActive = 0 \/ Cardinality(active_jobs) < MaxActive)
          /\ active_jobs' = active_jobs \cup {next_job_id}
          /\ next_job_id' = next_job_id + 1
      BY <2>3, <3>1 DEF NewJob, MayAccept, Jobs
    <3>4. Ledger!Accept
      BY <2>3, <3>2, <3>3, SameCardinality DEF Ledger!Accept, History
    <3> QED BY <3>4
  <2>4. ASSUME FreePrinter PROVE Ledger!Next
    <3>1. History' = {}
      BY <2>4 DEF FreePrinter, History, Listed
    <3> QED BY <2>4, <3>1 DEF Ledger!Close, FreePrinter, History
  <2>5. ASSUME CleanJobs PROVE Ledger!Next
    <3>1. History' = History \ Purged /\ Purged \subseteq Listed
      <4>1. ASSUME NEW j \in Jobs
            PROVE  j \in History' <=> j \in History \ Purged
        <5>1. completed_jobs[j] \in Nat
          BY DEF ListInv, QueueInv, TypeOK, ListType
        <5>2. CASE j \in Purged
          BY <2>5, <5>2 DEF CleanJobs, Put, History
        <5>3. CASE j \notin Purged
          BY <2>5, <5>1, <5>3 DEF CleanJobs, Put, History, Listed
        <5> QED BY <5>2, <5>3
      <4> QED BY <4>1 DEF History, Listed, Purged
    <3>2. History' = History \ (History \cap Purged)
          /\ UNCHANGED <<active_jobs, next_job_id, printer_freed>>
      BY <2>5, <3>1 DEF CleanJobs, flagVars
    <3>3. Ledger!Forget(History \cap Purged)
      BY <3>2 DEF Ledger!Forget, History
    <3>4. History \cap Purged \in SUBSET History
      OBVIOUS
    <3> QED BY <3>3, <3>4 DEF History, Ledger!Forget
  <2>6. CASE crashed' /\ UNCHANGED <<active_jobs, completed_jobs, job_state,
                                   next_job_id, printer_freed>>
    BY <2>6 DEF Listed
  <2> QED BY <1>1, <2>2, <2>3, <2>4, <2>5, <2>6, StepKinds DEF ListInv
<1>2. CASE UNCHANGED vars
  BY <1>2 DEF vars, jobVars, listVars, flagVars, Listed
<1> QED BY <1>1, <1>2

\* The printer's lists implement JobLedger: a job is accepted once, ends once
\* and only then may be forgotten.
THEOREM QueueImplementsLedger == Spec => LedgerSpec
<1>1. Init => Ledger!Init
  BY DEF Init, Ledger!Init, Listed
<1>2. ListInv /\ [Next]_vars => ListInv'
  BY ListStep
<1>3. ListInv /\ [Next]_vars => [Ledger!Next]_(Ledger!ledger)
  BY StepRefines
<1> QED BY <1>1, <1>2, <1>3, ListInit, PTL
        DEF Spec, LedgerSpec, Ledger!Spec

-----------------------------------------------------------------------------
(* What papplPrinterCleanJobs leaves in the history.                       *)

\* A set of jobs that is not empty has a largest one: the one with the fewest
\* above it.
LEMMA Largest ==
  ASSUME NEW B \in SUBSET Jobs, B # {}
  PROVE  \E b \in B : \A k \in B : k <= b
<1> DEFINE above(k) == {m \in Jobs : m > k}
           T == {above(k) : k \in B}
<1>1. \A k \in B : above(k) \in FiniteSubsetsOf(Jobs)
  <2>1. IsFiniteSet(1 .. MaxJobs)
    BY FS_Interval, Bounds
  <2>2. \A k \in B : above(k) \in SUBSET Jobs
    OBVIOUS
  <2>3. \A k \in B : IsFiniteSet(above(k))
    BY <2>1, <2>2, FS_Subset DEF Jobs
  <2> QED BY <2>2, <2>3 DEF FiniteSubsetsOf
<1>2. T \subseteq FiniteSubsetsOf(Jobs) /\ T # {}
  BY <1>1
<1>3. \E x \in T : \A y \in T : <<y, x>> \notin StrictSubsetOrdering(Jobs)
  BY <1>2, FS_StrictSubsetOrderingWellFounded, WFMin
<1>4. PICK b \in B : \A k \in B : <<above(k), above(b)>> \notin StrictSubsetOrdering(Jobs)
  BY <1>3
<1>5. ASSUME NEW k \in B, k > b PROVE FALSE
  <2>1. \A m \in Jobs : m \in Nat
    BY Bounds DEF Jobs
  <2>2. above(k) \subseteq above(b)
    BY <1>5, <2>1
  <2>3. k \in above(b) /\ k \notin above(k)
    BY <1>5, <2>1
  <2>4. above(k) \in SUBSET Jobs /\ above(b) \in SUBSET Jobs
    OBVIOUS
  <2> HIDE DEF above
  <2> QED BY <1>4, <2>2, <2>3, <2>4 DEF StrictSubsetOrdering
<1>6. \A k \in B : k <= b
  BY <1>5, Bounds DEF Jobs
<1> QED BY <1>6

\* The entries of the history are finitely many, and every entry counts.
LEMMA EntriesFinite ==
  ASSUME TypeOK
  PROVE  /\ IsFiniteSet(Entries) /\ Cardinality(Entries) \in Nat
         /\ \A S \in SUBSET Jobs : IsFiniteSet(S) /\ Cardinality(S) \in Nat
<1>1. IsFiniteSet(1 .. MaxJobs)
  BY FS_Interval, Bounds
<1>2. \A S \in SUBSET Jobs : IsFiniteSet(S) /\ Cardinality(S) \in Nat
  BY <1>1, FS_Subset, FS_CardinalityType DEF Jobs
<1> DEFINE Of(j) == {j} \X (1 .. completed_jobs[j])
           All == {Of(j) : j \in Jobs}
<1>3. \A j \in Jobs : IsFiniteSet(Of(j))
  <2> TAKE j \in Jobs
  <2>1. completed_jobs[j] \in Nat
    BY DEF TypeOK, ListType
  <2>2. IsFiniteSet(1 .. completed_jobs[j])
    BY <2>1, FS_Interval
  <2>3. IsFiniteSet({j})
    BY FS_Singleton
  <2> QED BY <2>2, <2>3, FS_Product
<1>4. IsFiniteSet(All)
  <2> DEFINE F == [j \in Jobs |-> Of(j)]
  <2>1. F \in Surjection(Jobs, All)
    BY DEF Surjection
  <2>2. IsFiniteSet(Jobs)
    BY <1>2
  <2> HIDE DEF F, All
  <2> QED BY <2>1, <2>2, FS_Surjection
<1>5. \A T \in All : IsFiniteSet(T)
  BY <1>3
<1>6. IsFiniteSet(UNION All)
  <2> HIDE DEF All
  <2> QED BY <1>4, <1>5, FS_UNION
<1>7. Entries = UNION All
  BY DEF Entries
<1> HIDE DEF All
<1> QED BY <1>2, <1>6, <1>7, FS_CardinalityType

\* Taking out jobs that have one entry each leaves as many entries less.
LEMMA EntriesLeft ==
  ASSUME TypeOK, NEW P \in SUBSET Jobs,
         \A j \in P : completed_jobs[j] = 1,
         completed_jobs' = [j \in Jobs |-> completed_jobs[j] - (IF j \in P THEN 1 ELSE 0)]
  PROVE  Cardinality(Entries') = Cardinality(Entries) - Cardinality(P)
<1> DEFINE Gone == {<<j, 1>> : j \in P}
           F == [j \in P |-> <<j, 1>>]
<1>1. \A j \in Jobs : completed_jobs[j] \in Nat
  BY DEF TypeOK, ListType
<1>2. \A j \in Jobs : 1 .. completed_jobs'[j] = IF j \in P THEN {} ELSE 1 .. completed_jobs[j]
  BY <1>1
<1>3. Entries' = Entries \ Gone
  <2>1. ASSUME NEW e \in Entries' PROVE e \in Entries \ Gone
    <3>1. PICK j \in Jobs : e \in {j} \X (1 .. completed_jobs'[j])
      BY DEF Entries
    <3>2. j \notin P /\ e \in {j} \X (1 .. completed_jobs[j])
      BY <1>2, <3>1
    <3>3. e \in Entries
      BY <3>2 DEF Entries
    <3>4. e \notin Gone
      BY <3>2
    <3> QED BY <3>3, <3>4
  <2>2. ASSUME NEW e \in Entries \ Gone PROVE e \in Entries'
    <3>1. PICK j \in Jobs : e \in {j} \X (1 .. completed_jobs[j])
      BY DEF Entries
    <3>2. CASE j \in P
      <4>1. 1 .. completed_jobs[j] = {1}
        BY <3>2
      <4>2. e = <<j, 1>>
        BY <3>1, <4>1
      <4> QED BY <2>2, <3>2, <4>2
    <3>3. CASE j \notin P
      <4>1. e \in {j} \X (1 .. completed_jobs'[j])
        BY <1>2, <3>1, <3>3
      <4> QED BY <4>1 DEF Entries
    <3> QED BY <3>2, <3>3
  <2> QED BY <2>1, <2>2
<1>4. Gone \subseteq Entries
  <2> SUFFICES ASSUME NEW j \in P PROVE <<j, 1>> \in Entries
    OBVIOUS
  <2>1. <<j, 1>> \in {j} \X (1 .. completed_jobs[j])
    BY <1>1
  <2> QED BY <2>1 DEF Entries
<1>5. IsFiniteSet(P) /\ IsFiniteSet(Entries)
  BY EntriesFinite
<1>6. Cardinality(Gone) = Cardinality(P)
  <2>1. F \in Bijection(P, Gone)
    <3>1. F \in [P -> Gone] /\ \A x, y \in P : F[x] = F[y] => x = y
      OBVIOUS
    <3>2. \A y \in Gone : \E x \in P : F[x] = y
      OBVIOUS
    <3> HIDE DEF F, Gone
    <3> QED BY <3>1, <3>2 DEF Bijection, Injection, Surjection, IsInjective
  <2> HIDE DEF F, Gone
  <2> QED BY <1>5, <2>1, FS_Bijection DEF ExistsBijection
<1>7. Cardinality(Entries \ Gone) = Cardinality(Entries) - Cardinality(Entries \cap Gone)
  <2> HIDE DEF Gone
  <2> QED BY <1>5, FS_Difference
<1>8. Entries \cap Gone = Gone
  BY <1>4
<1> QED BY <1>3, <1>6, <1>7, <1>8

\* Where jobs are preserved, an old job that the walk leaves in is one at which
\* enough had been taken out.
LEMMA EnoughPurged ==
  ASSUME TypeOK, MaxPreserved > 0, MaxCompleted > 0,
         NEW j \in Listed, Old(j), j \notin Purged
  PROVE  Cardinality(Entries) <= Cardinality(Purged) + MaxCompleted
<1> DEFINE Spared == {k \in Listed \ Purged : Old(k)}
           newer(b) == {k \in {m \in Listed : m > b} : Old(k)}
<1>1. Listed \subseteq Jobs /\ Purged \subseteq Jobs /\ \A k \in Jobs : k \in Nat
  BY Bounds DEF Listed, Purged
<1>2. PICK b \in Spared : \A k \in Spared : k <= b
  <2>1. Spared \in SUBSET Jobs /\ Spared # {}
    BY <1>1
  <2> QED BY <2>1, Largest
<1>3. newer(b) \subseteq Purged
  <2> SUFFICES ASSUME NEW k \in Listed, k > b, Old(k), k \notin Purged PROVE FALSE
    OBVIOUS
  <2>1. k <= b
    BY <1>2
  <2> QED BY <1>1, <1>2, <2>1
<1>4. ~OverLimit(Cardinality(newer(b)))
  BY <1>2 DEF Purged
<1>5. /\ IsFiniteSet(Purged) /\ Cardinality(Purged) \in Nat
      /\ Cardinality(newer(b)) \in Nat /\ Cardinality(Entries) \in Nat
  BY <1>1, EntriesFinite
<1>6. Cardinality(newer(b)) <= Cardinality(Purged)
  <2> HIDE DEF newer
  <2> QED BY <1>3, <1>5, FS_Subset
<1>7. MaxCompleted \in Nat
  BY ConstantsAssumption DEF ConstantsAssumption
<1> HIDE DEF newer
<1> QED BY <1>4, <1>5, <1>6, <1>7 DEF OverLimit

\* clean_time is reset by the cleaning only.
LEMMA OnlyCleaningResets ==
  ASSUME [Next]_vars, clean_time = "due", clean_time' = "unset"
  PROVE  CleanJobs
<1> USE DEF listVars, StampClean
<1>1. ASSUME NEW t \in Threads, ThreadStep(t) PROVE FALSE
  BY <1>1 DEF ThreadStep, StartJob, RetryDevice, PrintDocuments, FinishJob, DecideTail,
         DeleteLast, CloseAfterJob, CheckNext, ExitThread, AcquireDevice,
         UnchangedByDevice, CheckJobs, Cancel, FreePrinter
<1>2. ASSUME NEW c \in Clients, ClientStep(c) PROVE FALSE
  <2> USE DEF CheckJobs, Cancel, Abort, FreePrinter
  <2>1. OpenSpool(c) \/ CloseSpool(c) \/ AbortCopy(c) => FALSE
    BY DEF OpenSpool, CloseSpool, AbortCopy
  <2>2. SubmitFile(c) \/ RejectFile(c) \/ UnlistFile(c) => FALSE
    BY DEF SubmitFile, RejectFile, UnlistFile
  <2>3. CheckAfter(c) \/ CancelJob(c) => FALSE
    BY DEF CheckAfter, CancelJob
  <2>4. MarkDeleted(c) \/ DeleteNow(c) => FALSE
    BY DEF MarkDeleted, DeleteNow
  <2> QED BY <1>2, <2>1, <2>2, <2>3, <2>4 DEF ClientStep
<1>3. ASSUME NEW c \in Clients, ClientRequest(c) PROVE FALSE
  BY <1>3 DEF ClientRequest, PrintJob, PrintFile, DeletePrinter, SendDocument,
         CancelRequest, ResumeJob, NewJob, CheckJobs
<1>4. ASSUME Request PROVE FALSE
  BY <1>4 DEF Request, CreateJob, CancelAllJobs, Pause, Resume, HoldNewJobs,
         ReleaseHeldNewJobs, OpenDevice, CloseDevice, StopSystem, SendNothing, WebCancel,
         HoldJob, ReleaseJob, SuspendJob, NewJob, CheckJobs, Cancel
<1>5. ASSUME (\E j \in Jobs : HoldTimeArrives(j)) \/ MinutePasses \/ UseFreed PROVE FALSE
  BY <1>5 DEF HoldTimeArrives, MinutePasses, UseFreed
<1>6. ASSUME UNCHANGED vars PROVE FALSE
  BY <1>6 DEF vars
<1> QED BY <1>1, <1>2, <1>3, <1>4, <1>5, <1>6 DEF Next

\* Of a printer that preserves jobs the history is trimmed by every cleaning: if
\* it is still over its limit, no old job is left in it.
THEOREM HistoryIsTrimmed == MaxPreserved > 0 /\ Spec => HistoryTrimmed
<1>1. ASSUME MaxPreserved > 0, TypeOK, [Next]_vars,
             clean_time = "due", clean_time' = "unset", ~crashed',
             MaxCompleted # 0,
             NEW j \in Jobs, (j \in Listed /\ Old(j))'
      PROVE  Cardinality(Entries') <= MaxCompleted
  <2>1. CleanJobs
    BY <1>1, OnlyCleaningResets
  <2>2. MaxCompleted \in Nat
    BY ConstantsAssumption DEF ConstantsAssumption
  <2>3. Purged \in SUBSET Jobs /\ \A k \in Purged : completed_jobs[k] = 1
    <3>1. \A k \in Purged : k \in Jobs /\ completed_jobs[k] > 0 /\ ~(completed_jobs[k] > 1)
      BY <1>1, <2>1 DEF CleanJobs, Purged, Listed
    <3>2. \A k \in Jobs : completed_jobs[k] \in Nat
      BY <1>1 DEF TypeOK, ListType
    <3> QED BY <3>1, <3>2
  <2>4. Cardinality(Entries') = Cardinality(Entries) - Cardinality(Purged)
    BY <1>1, <2>1, <2>3, EntriesLeft DEF CleanJobs
  <2>5. j \notin Purged /\ j \in Listed /\ Old(j)
    <3>1. completed_jobs'[j] > 0 /\ job_completed'[j] = "old"
      BY <1>1 DEF Listed, Old
    <3>2. /\ completed_jobs'[j] = completed_jobs[j] - (IF j \in Purged THEN 1 ELSE 0)
          /\ job_completed' = job_completed
      BY <2>1 DEF CleanJobs
    <3>3. completed_jobs[j] \in Nat
      BY <1>1 DEF TypeOK, ListType
    <3>4. j \notin Purged
      BY <2>3, <3>1, <3>2
    <3> QED BY <3>1, <3>2, <3>3, <3>4 DEF Listed, Old
  <2>6. Cardinality(Entries) <= Cardinality(Purged) + MaxCompleted
    BY <1>1, <2>2, <2>5, EnoughPurged
  <2>7. Cardinality(Entries) \in Nat /\ Cardinality(Purged) \in Nat
    BY <1>1, <2>3, EntriesFinite
  <2> QED BY <2>2, <2>4, <2>6, <2>7
<1>2. MaxPreserved > 0 /\ TypeOK /\ [Next]_vars =>
        [clean_time = "due" /\ clean_time' = "unset" /\ ~crashed' =>
          \/ MaxCompleted = 0 \/ Cardinality(Entries') <= MaxCompleted
          \/ ~ \E j \in Jobs : (j \in Listed /\ Old(j))' ]_vars
  BY <1>1
<1>3. CASE MaxPreserved > 0
  BY <1>2, <1>3, TypeCorrect, PTL DEF Spec, HistoryTrimmed
<1> QED BY <1>3
=============================================================================
