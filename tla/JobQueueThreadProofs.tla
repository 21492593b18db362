------------------------ MODULE JobQueueThreadProofs ------------------------
(***************************************************************************)
(* The threads of a printer: whatever keeps the queue from going on has a  *)
(* thread behind it, and a pending job that could be printed has somebody  *)
(* who will look at it. Only a thread's own steps take its place in the    *)
(* printer; every other step leaves the threads that print alone.          *)
(***************************************************************************)
EXTENDS JobQueueProofs

ThreadInv == TypeOK /\ BusyHasThread /\ ProcessingHasThread

\* What a step of anybody but a printing thread does: no thread at work is
\* moved, nothing becomes busy, only a busy printer is asked to stop.
Quiet ==
  /\ \A t \in Threads : tpc[t] \notin {"idle", "exit"} =>
                          tpc'[t] = tpc[t] /\ tjob'[t] = tjob[t]
  /\ processing_job' = processing_job
  /\ is_stopped' => is_stopped \/ processing_job # NoJob
  /\ printer_state' = "processing" => printer_state = "processing"
  /\ \A j \in Jobs : job_state'[j] = "processing" => job_state[j] = "processing"

-----------------------------------------------------------------------------
(* Steps of clients, of the main loop and of time are quiet.               *)

\* A check of the queue starts idle threads and makes no job processing.
LEMMA CheckJobsQuiet ==
  ASSUME TypeOK, NEW ready, NEW js \in [Jobs -> JobStates], NEW hs,
         NEW pcs \in [Threads -> ThreadPcs], CheckJobs(ready, js, hs, pcs)
  PROVE  /\ \A t \in Threads : pcs[t] # "idle" =>
                                 tpc'[t] = pcs[t] /\ tjob'[t] = tjob[t]
         /\ \A j \in Jobs : job_state'[j] = "processing" => js[j] = "processing"
  BY DEF CheckJobs, Spawn, TypeOK, ThreadType

\* A quiet step keeps the threads' invariant.
LEMMA QuietKeeps ==
  ASSUME ThreadInv, Quiet PROVE BusyHasThread' /\ ProcessingHasThread'
<1>1. ASSUME NEW t \in Threads, Committed(t)
      PROVE  Committed(t)' /\ tjob'[t] = tjob[t] /\ tpc'[t] = tpc[t]
  BY <1>1 DEF Quiet, Committed
<1>2. ProcessingHasThread'
  BY <1>1 DEF Quiet, ThreadInv, ProcessingHasThread
<1>3. BusyHasThread'
  BY <1>1 DEF Quiet, ThreadInv, BusyHasThread, Committed
<1> QED BY <1>2, <1>3

\* Steps of clients are quiet.
LEMMA ClientQuiet ==
  ASSUME TypeOK, NEW c \in Clients, ClientStep(c)
  PROVE  Quiet
<1> USE DEF TypeOK, JobType, jobVars, threadVars, printerVars, Quiet
<1>1. CASE OpenSpool(c) \/ CloseSpool(c) \/ UnlistFile(c)
  BY <1>1 DEF OpenSpool, CloseSpool, UnlistFile
<1>2. CASE AbortCopy(c) \/ SubmitFile(c) \/ RejectFile(c)
  BY <1>2 DEF AbortCopy, Abort, SubmitFile, RejectFile
<1>3. CASE CheckAfter(c)
  BY <1>3, CheckJobsQuiet DEF CheckAfter, ThreadType
<1>4. CASE CancelJob(c)
  BY <1>4 DEF CancelJob, Cancel, Put
<1>5. CASE MarkDeleted(c) \/ DeleteNow(c)
  BY <1>5 DEF MarkDeleted, DeleteNow, FreePrinter
<1> QED BY <1>1, <1>2, <1>3, <1>4, <1>5 DEF ClientStep

\* A new job is held.
LEMMA NewJobQuiet ==
  ASSUME TypeOK, NEW hold \in HoldOptions, NewJob(hold)
  PROVE  \A j \in Jobs : job_state'[j] = "processing"
                           => job_state[j] = "processing"
  BY DEF NewJob, TypeOK, JobType

\* Canceling makes no job processing, whether it ends jobs or marks them.
LEMMA CancelQuiet ==
  ASSUME TypeOK, NEW S, Cancel(S)
  PROVE  \A j \in Jobs : job_state'[j] = "processing"
                           => job_state[j] = "processing"
  BY DEF Cancel, Put

\* So are the steps that begin a handler,
LEMMA ClientRequestQuiet ==
  ASSUME TypeOK, NEW c \in Clients, ClientRequest(c)
  PROVE  Quiet
<1> USE DEF TypeOK, JobType, jobVars, threadVars, printerVars, Quiet
<1>1. CASE PrintJob(c) \/ PrintFile(c)
  <2>1. PICK hold \in HoldOptions : NewJob(hold)
    BY <1>1 DEF PrintJob, PrintFile
  <2>2. \A j \in Jobs : job_state'[j] = "processing"
                          => job_state[j] = "processing"
    BY <2>1, NewJobQuiet
  <2>3. UNCHANGED <<tpc, tjob, processing_job, is_stopped, printer_state>>
    BY <1>1 DEF PrintJob, PrintFile
  <2> QED BY <2>2, <2>3
<1>2. CASE DeletePrinter(c)
  BY <1>2 DEF DeletePrinter
<1>3. CASE \E j \in Jobs : SendDocument(c, j) \/ CancelRequest(c, j)
  <2>1. UNCHANGED <<tpc, tjob, processing_job, is_stopped, printer_state,
                    job_state>>
    BY <1>3 DEF SendDocument, CancelRequest
  <2> QED BY <2>1
<1>4. CASE \E j \in Jobs : ResumeJob(c, j)
  BY <1>4 DEF ResumeJob
<1> QED BY <1>1, <1>2, <1>3, <1>4 DEF ClientRequest

\* requests of one section,
LEMMA RequestQuiet ==
  ASSUME TypeOK, Request
  PROVE  Quiet
<1> USE DEF TypeOK, JobType, ThreadType, jobVars, threadVars, printerVars,
            Quiet
<1>1. CASE CreateJob
  BY <1>1, NewJobQuiet DEF CreateJob
<1>2. CASE CancelAllJobs \/ \E j \in Jobs : WebCancel(j)
  <2>1. \E S : Cancel(S)
    BY <1>2 DEF CancelAllJobs, WebCancel
  <2>2. UNCHANGED <<tpc, tjob, processing_job, is_stopped, printer_state>>
    BY <1>2 DEF CancelAllJobs, WebCancel
  <2> QED BY <2>1, <2>2, CancelQuiet
<1>3. CASE Pause \/ HoldNewJobs \/ OpenDevice \/ StopSystem
  BY <1>3 DEF Pause, HoldNewJobs, OpenDevice, StopSystem
<1>4. CASE Resume \/ CloseDevice
  <2>1. \E ready : CheckJobs(ready, job_state, hold_specified, tpc)
    BY <1>4 DEF Resume, CloseDevice
  <2>2. /\ \A t \in Threads : tpc[t] # "idle" =>
                                tpc'[t] = tpc[t] /\ tjob'[t] = tjob[t]
        /\ \A j \in Jobs : job_state'[j] = "processing"
                             => job_state[j] = "processing"
    BY <2>1, CheckJobsQuiet
  <2>3. /\ processing_job' = processing_job
        /\ is_stopped' => is_stopped
        /\ printer_state' = "processing" => printer_state = "processing"
    <3>1. CASE Resume
      BY <3>1 DEF Resume
    <3>2. CASE CloseDevice
      BY <3>2 DEF CloseDevice
    <3> QED BY <1>4, <3>1, <3>2
  <2> QED BY <2>2, <2>3
<1>5. CASE ReleaseHeldNewJobs
  <2> DEFINE released == {j \in active_jobs \ hold_specified :
                            job_state[j] = "held" /\ hold_until[j] = "none"}
             js == Put(job_state, released, "pending")
  <2>1. js \in [Jobs -> JobStates]
    BY DEF Put, JobStates
  <2>2. \A j \in Jobs : js[j] = "processing" => job_state[j] = "processing"
    BY DEF Put
  <2>3. CheckJobs(Ready /\ released # {}, js, hold_specified, tpc)
    BY <1>5 DEF ReleaseHeldNewJobs
  <2> HIDE DEF js, released
  <2> QED BY <1>5, <2>1, <2>2, <2>3, CheckJobsQuiet DEF ReleaseHeldNewJobs
<1>6. CASE \E j \in Jobs : SendNothing(j) \/ HoldJob(j) \/ SuspendJob(j)
  BY <1>6 DEF SendNothing, HoldJob, SuspendJob
<1>7. ASSUME NEW j \in Jobs, ReleaseJob(j) PROVE Quiet
  <2> DEFINE js == IF job_state[j] = "held"
                   THEN [job_state EXCEPT ![j] = "pending"] ELSE job_state
             hs == IF job_state[j] = "held" THEN hold_specified \ {j}
                                            ELSE hold_specified
  <2>1. js \in [Jobs -> JobStates]
    BY DEF JobStates
  <2>2. \A k \in Jobs : js[k] = "processing" => job_state[k] = "processing"
    OBVIOUS
  <2>3. CheckJobs(Ready, js, hs, tpc)
    BY <1>7 DEF ReleaseJob
  <2> HIDE DEF js, hs
  <2> QED BY <1>7, <2>1, <2>2, <2>3, CheckJobsQuiet DEF ReleaseJob
<1> QED BY <1>1, <1>2, <1>3, <1>4, <1>5, <1>6, <1>7 DEF Request

\* and the steps of time and of the main loop.
LEMMA SystemQuiet ==
  ASSUME TypeOK,
         \/ \E j \in Jobs : HoldTimeArrives(j)
         \/ MinutePasses \/ CleanJobs \/ UseFreed
  PROVE  Quiet
<1>1. UNCHANGED <<tpc, tjob, processing_job, is_stopped, printer_state>>
  BY DEF HoldTimeArrives, MinutePasses, CleanJobs, UseFreed, threadVars,
         printerVars
<1>2. \A j \in Jobs : job_state'[j] \in {job_state[j], "freed"}
  BY DEF HoldTimeArrives, MinutePasses, CleanJobs, UseFreed, jobVars, Put
<1> QED BY <1>1, <1>2 DEF Quiet

-----------------------------------------------------------------------------
(* Steps of a thread.                                                      *)

\* The other threads stay where they are, unless they were idle.
LEMMA OthersStay ==
  ASSUME TypeOK, NEW t \in Threads, ThreadStep(t)
  PROVE  \A u \in Threads \ {t} : tpc[u] # "idle" =>
                                    tpc'[u] = tpc[u] /\ tjob'[u] = tjob[u]
<1> USE DEF TypeOK, JobType, ThreadType, Step
<1>1. CASE StartJob(t) \/ RetryDevice(t)
  BY <1>1 DEF StartJob, RetryDevice, AcquireDevice
<1>2. CASE PrintDocuments(t) \/ FinishJob(t) \/ DecideTail(t)
           \/ DeleteLast(t) \/ CloseAfterJob(t)
  BY <1>2 DEF PrintDocuments, FinishJob, DecideTail, DeleteLast, CloseAfterJob
<1>3. CASE CheckNext(t)
  <2> DEFINE pcs == [tpc EXCEPT ![t] = "exit"]
  <2>1. pcs \in [Threads -> ThreadPcs] /\ \A u \in Threads \ {t} : pcs[u] = tpc[u]
    BY DEF ThreadPcs
  <2>2. CheckJobs(Ready, job_state, hold_specified, pcs)
    BY <1>3 DEF CheckNext
  <2> HIDE DEF pcs
  <2> QED BY <2>1, <2>2, CheckJobsQuiet
<1>4. CASE ExitThread(t)
  BY <1>4 DEF ExitThread
<1> QED BY <1>1, <1>2, <1>3, <1>4 DEF ThreadStep

\* A thread that takes or tries the device ends up committed to its job.
LEMMA DeviceKeeps ==
  ASSUME ThreadInv, NEW t \in Threads, StartJob(t) \/ RetryDevice(t)
  PROVE  BusyHasThread' /\ ProcessingHasThread'
<1>1. /\ tjob' = tjob /\ tjob[t] \in Jobs
      /\ tpc'[t] \in {"wait_use", "wait_open", "print", "finish"}
      /\ \A u \in Threads \ {t} : tpc'[u] = tpc[u]
      /\ tpc[t] \notin {"print", "finish"}
  BY DEF StartJob, RetryDevice, AcquireDevice, Step, On, ThreadInv, TypeOK,
         ThreadType
<1>2. \A u \in Threads : Committed(u) => Committed(u)' /\ tjob'[u] = tjob[u]
  BY <1>1 DEF Committed
<1>3. Committed(t)' /\ tjob'[t] = tjob[t]
  BY <1>1 DEF Committed
<1>4. processing_job' \in {processing_job, tjob[t]}
      /\ (processing_job # NoJob => processing_job' # NoJob)
  BY <1>1, Bounds DEF StartJob, RetryDevice, Jobs, NoJob
<1>5. is_stopped' = is_stopped
  BY DEF StartJob, RetryDevice, UnchangedByDevice
<1>6. printer_state' = "processing" =>
        printer_state = "processing" \/ tpc'[t] = "print"
  BY DEF StartJob, RetryDevice, AcquireDevice, Step, ThreadInv, TypeOK,
         ThreadType
<1>7. \A j \in Jobs : job_state'[j] = "processing" =>
                        job_state[j] = "processing" \/ j = tjob[t]
  BY <1>1 DEF StartJob, RetryDevice, AcquireDevice, ThreadInv, TypeOK, JobType
<1>8. ProcessingHasThread'
  BY <1>2, <1>3, <1>7 DEF ThreadInv, ProcessingHasThread
<1>9. (processing_job # NoJob =>
         \E u \in Threads : Committed(u) /\ tjob[u] = processing_job)'
  BY <1>2, <1>3, <1>4 DEF ThreadInv, BusyHasThread
<1>10. (printer_state = "processing" =>
         \E u \in Threads : tpc[u] \in {"print", "finish"})'
  BY <1>1, <1>6 DEF ThreadInv, BusyHasThread
<1> QED BY <1>4, <1>5, <1>8, <1>9, <1>10 DEF ThreadInv, BusyHasThread

\* Steps of threads keep their invariant.
LEMMA ThreadKeeps ==
  ASSUME ThreadInv, NEW t \in Threads, ThreadStep(t)
  PROVE  BusyHasThread' /\ ProcessingHasThread'
<1> USE DEF ThreadInv, TypeOK, JobType, ThreadType
<1>1. CASE StartJob(t) \/ RetryDevice(t)
  BY <1>1, DeviceKeeps
<1>2. CASE PrintDocuments(t)
  <2>1. /\ tpc[t] = "print" /\ tpc'[t] = "finish" /\ tjob' = tjob
        /\ \A u \in Threads \ {t} : tpc'[u] = tpc[u]
        /\ UNCHANGED <<processing_job, is_stopped, printer_state>>
        /\ \A j \in Jobs : job_state'[j] = "processing"
                             => job_state[j] = "processing"
    BY <1>2 DEF PrintDocuments, Step, On, printerVars
  <2> QED BY <2>1 DEF BusyHasThread, ProcessingHasThread, Committed
<1>3. CASE FinishJob(t)
  <2>1. /\ tpc[t] = "finish" /\ tjob' = tjob
        /\ processing_job' = NoJob /\ ~is_stopped'
        /\ printer_state' # "processing"
    BY <1>3 DEF FinishJob, Step, On
  <2>2. \A j \in Jobs : job_state'[j] = "processing"
                          => job_state[j] = "processing" /\ j # tjob[t]
    BY <1>3 DEF FinishJob, FinalState, On
  <2>3. \A u \in Threads : Committed(u) /\ u # t => Committed(u)'
    BY <1>3, OthersStay DEF Committed, ThreadStep
  <2> QED BY <2>1, <2>2, <2>3 DEF BusyHasThread, ProcessingHasThread
<1>4. CASE DecideTail(t) \/ DeleteLast(t) \/ CloseAfterJob(t)
           \/ CheckNext(t) \/ ExitThread(t)
  <2>1. ~Committed(t)
    BY <1>4 DEF DecideTail, DeleteLast, CloseAfterJob, CheckNext, ExitThread,
                Committed
  <2>2. \A u \in Threads : Committed(u) =>
          Committed(u)' /\ tpc'[u] = tpc[u] /\ tjob'[u] = tjob[u]
    BY <1>4, <2>1, OthersStay DEF Committed, ThreadStep
  <2>3. UNCHANGED <<processing_job, is_stopped, printer_state>>
    BY <1>4 DEF DecideTail, DeleteLast, FreePrinter, CloseAfterJob, CheckNext,
                ExitThread, printerVars
  <2>4. \A j \in Jobs : job_state'[j] = "processing"
                          => job_state[j] = "processing"
    <3>1. CASE CheckNext(t)
      <4> DEFINE pcs == [tpc EXCEPT ![t] = "exit"]
      <4>1. pcs \in [Threads -> ThreadPcs]
        BY DEF ThreadPcs
      <4>2. CheckJobs(Ready, job_state, hold_specified, pcs)
        BY <3>1 DEF CheckNext
      <4>3. job_state \in [Jobs -> JobStates]
        OBVIOUS
      <4> HIDE DEF pcs
      <4> QED BY <4>1, <4>2, <4>3, CheckJobsQuiet
    <3>2. CASE ~CheckNext(t)
      BY <1>4, <3>2 DEF DecideTail, DeleteLast, FreePrinter, CloseAfterJob,
                        ExitThread, jobVars
    <3> QED BY <3>1, <3>2
  <2> QED BY <2>2, <2>3, <2>4 DEF BusyHasThread, ProcessingHasThread,
                                  Committed
<1> QED BY <1>1, <1>2, <1>3, <1>4 DEF ThreadStep

\* So do all steps.
LEMMA ThreadInvStep ==
  ASSUME ThreadInv, [Next]_vars
  PROVE  BusyHasThread' /\ ProcessingHasThread'
<1>1. CASE Next
  BY <1>1, ThreadKeeps, QuietKeeps, ClientQuiet, ClientRequestQuiet,
     RequestQuiet, SystemQuiet DEF Next, ThreadInv
<1>2. CASE UNCHANGED vars
  BY <1>2 DEF vars, jobVars, printerVars, threadVars, ThreadInv,
              BusyHasThread, ProcessingHasThread, Committed
<1> QED BY <1>1, <1>2

\* The threads' invariant, in every state.
LEMMA ThreadInvHolds == Spec => []ThreadInv
<1>1. Init => BusyHasThread /\ ProcessingHasThread
  BY DEF Init, BusyHasThread, ProcessingHasThread
<1>2. ThreadInv /\ TypeOK' /\ [Next]_vars => ThreadInv'
  BY ThreadInvStep DEF ThreadInv
<1>3. Init => ThreadInv
  BY <1>1, TypeInit DEF ThreadInv
<1> QED BY <1>2, <1>3, TypeCorrect, PTL DEF Spec

\* A processing_job, a stop request and the processing state of the printer
\* always have a thread that will take them back (start_job, finish_job and
\* papplPrinterPause, in any order).
THEOREM BusyAlwaysHasThread == Spec => []BusyHasThread
<1>1. ThreadInv => BusyHasThread
  BY DEF ThreadInv
<1> QED BY <1>1, ThreadInvHolds, PTL

\* No job stays in the processing state without a thread committed to it.
THEOREM ProcessingAlwaysHasThread == Spec => []ProcessingHasThread
<1>1. ThreadInv => ProcessingHasThread
  BY DEF ThreadInv
<1> QED BY <1>1, ThreadInvHolds, PTL
-----------------------------------------------------------------------------
(***************************************************************************)
(* A pending job that could be printed is never forgotten. The queue is    *)
(* checked at the end of the very section that makes it printable, or by   *)
(* the thread or the client whose step did, before it is done; every other *)
(* step leaves whoever was going to check it alone.                        *)
(***************************************************************************)

\* Somebody is going to look at the queue.
Working(t) == tpc[t] \notin {"idle", "exit"}
Attended == \/ \E t \in Threads : Working(t)
            \/ \E c \in Clients : cpc[c] = "check"

\* A step that dismisses nobody, makes no job pending and does not make a
\* printer ready.
Calm ==
  /\ Attended => Attended'
  /\ Ready' => Ready
  /\ \A j \in active_jobs' :
       job_state'[j] = "pending" => j \in active_jobs /\ job_state[j] = "pending"

\* A step after which no job is forgotten, whatever the state before it.
Safe == crashed' \/ ~Ready' \/ Attended'

-----------------------------------------------------------------------------
\* Calm and safe steps keep the property.
LEMMA CalmKeeps ==
  ASSUME NoStrandedJob, ~crashed, Calm PROVE NoStrandedJob'
  BY DEF NoStrandedJob, Calm, Attended, Working

\* A safe step strands no job.
LEMMA SafeKeeps ==
  ASSUME Safe PROVE NoStrandedJob'
  BY DEF NoStrandedJob, Safe, Attended, Working

\* A check of a printer that is ready finds every pending job, or starts a
\* thread.
LEMMA CheckJobsKeeps ==
  ASSUME TypeOK, NEW ready, NEW js \in [Jobs -> JobStates], NEW hs,
         NEW pcs \in [Threads -> ThreadPcs], CheckJobs(ready, js, hs, pcs),
         Ready' => ready
  PROVE  NoStrandedJob'
<1> DEFINE due == {j \in active_jobs : js[j] = "held"
                                       /\ hold_until[j] = "future"}
           runnable == due \cup {j \in active_jobs : js[j] = "pending"}
<1>1. CASE (~ready \/ runnable = {}) /\ job_state' = js /\ UNCHANGED listVars
  <2>1. CASE ~ready
    BY <2>1 DEF NoStrandedJob
  <2>2. CASE runnable = {}
    <3>1. \A j \in active_jobs' : job_state'[j] # "pending"
      BY <1>1, <2>2 DEF listVars
    <3> QED BY <3>1 DEF NoStrandedJob
  <2> QED BY <1>1, <2>1, <2>2
<1>2. ASSUME NEW j \in runnable, Spawn(j, pcs) PROVE NoStrandedJob'
  <2>1. crashed' \/ \E t \in Threads : tpc'[t] = "start"
    BY <1>2 DEF Spawn
  <2>2. Safe
    BY <2>1 DEF Safe, Attended, Working
  <2> QED BY <2>2, SafeKeeps
<1>3. CASE SpawnMayFail
  BY <1>3 DEF NoStrandedJob
<1> QED BY <1>1, <1>2, <1>3 DEF CheckJobs

\* A step that changes neither the queue nor what makes the printer ready.
LEMMA NothingNew ==
  ASSUME Attended => Attended',
         UNCHANGED <<active_jobs, job_state, device_in_use, processing_job,
                     printer_state, is_stopped, is_deleted>>
  PROVE  Calm
  BY DEF Calm, Ready, CanProcess

\* A step of a client that leaves the threads alone, if it is not the end of
\* a check, dismisses nobody.
LEMMA StillAttended ==
  ASSUME UNCHANGED tpc, \A c \in Clients : cpc[c] = "check" => cpc'[c] = "check"
  PROVE  Attended => Attended'
  BY DEF Attended, Working

-----------------------------------------------------------------------------
(* One lemma for every kind of step.                                       *)

\* A step of a thread strands no job: it ends after it has checked.
LEMMA ThreadPending ==
  ASSUME TypeOK, NoStrandedJob, ~crashed, NEW t \in Threads, ThreadStep(t)
  PROVE  NoStrandedJob'
<1> USE DEF TypeOK, ThreadType, Step, On
<1>1. CASE \/ StartJob(t) \/ RetryDevice(t) \/ PrintDocuments(t)
           \/ FinishJob(t) \/ DecideTail(t) \/ CloseAfterJob(t)
  <2>1. tpc'[t] \notin {"idle", "exit"}
    BY <1>1 DEF StartJob, RetryDevice, AcquireDevice, PrintDocuments,
                FinishJob, DecideTail, CloseAfterJob
  <2>2. Safe
    BY <2>1 DEF Safe, Attended, Working
  <2> QED BY <2>2, SafeKeeps
<1>2. CASE DeleteLast(t)
  <2>1. Safe
    BY <1>2 DEF DeleteLast, FreePrinter, Safe, Ready, CanProcess
  <2> QED BY <2>1, SafeKeeps
<1>3. CASE CheckNext(t)
  <2> DEFINE pcs == [tpc EXCEPT ![t] = "exit"]
  <2>1. pcs \in [Threads -> ThreadPcs]
    BY DEF ThreadPcs
  <2>2. CheckJobs(Ready, job_state, hold_specified, pcs)
    BY <1>3 DEF CheckNext
  <2>3. Ready' => Ready
    BY <1>3 DEF CheckNext, Ready, CanProcess, printerVars, deviceVars, flagVars
  <2> HIDE DEF pcs
  <2> QED BY <2>1, <2>2, <2>3, CheckJobsKeeps DEF JobType
<1>4. CASE ExitThread(t)
  <2>1. tpc[t] = "exit" /\ \A u \in Threads \ {t} : tpc'[u] = tpc[u]
    BY <1>4 DEF ExitThread
  <2>2. Attended => Attended'
    BY <1>4, <2>1 DEF Attended, Working, ExitThread, clientVars
  <2>3. Calm
    BY <1>4, <2>2, NothingNew DEF ExitThread, jobVars, listVars, printerVars,
                                  deviceVars, flagVars
  <2> QED BY <2>3, CalmKeeps
<1> QED BY <1>1, <1>2, <1>3, <1>4 DEF ThreadStep

\* A step of a client strands none: the client checks after it.
LEMMA ClientPending ==
  ASSUME TypeOK, NoStrandedJob, ~crashed, NEW c \in Clients, ClientStep(c)
  PROVE  NoStrandedJob'
<1> USE DEF TypeOK, JobType, ClientType, ThreadType, At, Go, Return
<1>1. CASE OpenSpool(c) \/ CloseSpool(c) \/ AbortCopy(c) \/ RejectFile(c)
           \/ UnlistFile(c) \/ CancelJob(c)
  <2>1. UNCHANGED tpc /\ \A d \in Clients : cpc[d] = "check" => cpc'[d] = "check"
    BY <1>1 DEF OpenSpool, CloseSpool, AbortCopy, RejectFile, UnlistFile,
                CancelJob, threadVars
  <2>2. \A j \in active_jobs' : job_state'[j] = "pending"
                            => j \in active_jobs /\ job_state[j] = "pending"
    <3>1. CASE OpenSpool(c) \/ CloseSpool(c) \/ RejectFile(c) \/ UnlistFile(c)
      BY <3>1 DEF OpenSpool, CloseSpool, RejectFile, UnlistFile, listVars,
                  jobVars, ListType
    <3>2. CASE AbortCopy(c)
      BY <3>2 DEF AbortCopy, Abort, ListType
    <3>3. CASE CancelJob(c)
      BY <3>3 DEF CancelJob, Cancel, Put, ListType
    <3> QED BY <1>1, <3>1, <3>2, <3>3
  <2>3. Ready' => Ready
    BY <1>1 DEF OpenSpool, CloseSpool, AbortCopy, RejectFile, UnlistFile,
                CancelJob, printerVars, deviceVars, flagVars, Ready, CanProcess
  <2>4. Calm
    BY <2>1, <2>2, <2>3, StillAttended DEF Calm
  <2> QED BY <2>4, CalmKeeps
<1>2. CASE SubmitFile(c)
  <2>1. CASE cpc'[c] = "check"
    BY <2>1, SafeKeeps DEF Safe, Attended
  <2>2. CASE cpc'[c] # "check"
    <3>1. UNCHANGED <<tpc, job_state, active_jobs>>
          /\ \A d \in Clients : cpc[d] = "check" => cpc'[d] = "check"
      BY <1>2, <2>2 DEF SubmitFile, threadVars, listVars
    <3>2. Calm
      BY <1>2, <3>1, StillAttended, NothingNew
         DEF SubmitFile, printerVars, deviceVars, flagVars
    <3> QED BY <3>2, CalmKeeps
  <2> QED BY <2>1, <2>2
<1>3. CASE CheckAfter(c)
  <2>1. CheckJobs(Ready, job_state, hold_specified, tpc)
    BY <1>3 DEF CheckAfter
  <2>2. Ready' => Ready
    BY <1>3 DEF CheckAfter, Ready, CanProcess, printerVars, deviceVars, flagVars
  <2> QED BY <2>1, <2>2, CheckJobsKeeps
<1>4. CASE MarkDeleted(c) \/ DeleteNow(c)
  <2>1. Safe
    BY <1>4 DEF MarkDeleted, DeleteNow, FreePrinter, Safe, Ready,
                CanProcess
  <2> QED BY <2>1, SafeKeeps
<1> QED BY <1>1, <1>2, <1>3, <1>4 DEF ClientStep

\* A new job is held, the others stay what they are.
LEMMA NewJobPending ==
  ASSUME TypeOK, NEW hold \in HoldOptions, NewJob(hold)
  PROVE  \A j \in active_jobs' : job_state'[j] = "pending"
                             => j \in active_jobs /\ job_state[j] = "pending"
  BY DEF NewJob, TypeOK, JobType, ListType

\* A step that begins a handler strands none.
LEMMA ClientRequestPending ==
  ASSUME TypeOK, NoStrandedJob, ~crashed, NEW c \in Clients, ClientRequest(c)
  PROVE  NoStrandedJob'
<1> USE DEF TypeOK, JobType, ClientType, Enter
<1>1. CASE PrintJob(c) \/ PrintFile(c)
  <2>1. PICK hold \in HoldOptions : NewJob(hold)
    BY <1>1 DEF PrintJob, PrintFile
  <2>2. UNCHANGED tpc /\ \A d \in Clients : cpc[d] = "check" => cpc'[d] = "check"
    BY <1>1 DEF PrintJob, PrintFile, threadVars
  <2>3. Ready' => Ready
    BY <1>1 DEF PrintJob, PrintFile, printerVars, deviceVars, flagVars, Ready,
                CanProcess
  <2>4. Calm
    BY <2>1, <2>2, <2>3, NewJobPending, StillAttended DEF Calm
  <2> QED BY <2>4, CalmKeeps
<1>2. CASE DeletePrinter(c)
  <2>1. CASE processing_job = NoJob
    <3>1. UNCHANGED <<tpc, active_jobs, job_state, device_in_use,
                      processing_job, printer_state, is_stopped, is_deleted>>
          /\ \A d \in Clients : cpc[d] = "check" => cpc'[d] = "check"
      BY <1>2, <2>1 DEF DeletePrinter, jobVars, listVars, printerVars,
                        deviceVars, threadVars
    <3>2. Calm
      BY <3>1, StillAttended, NothingNew
    <3> QED BY <3>2, CalmKeeps
  <2>2. CASE processing_job # NoJob
    <3>1. Safe
      BY <1>2, <2>2 DEF DeletePrinter, Safe, Ready, CanProcess
    <3> QED BY <3>1, SafeKeeps
  <2> QED BY <2>1, <2>2
<1>3. ASSUME NEW j \in Jobs, SendDocument(c, j) \/ CancelRequest(c, j)
      PROVE  NoStrandedJob'
  <2>1. UNCHANGED <<tpc, active_jobs, job_state, device_in_use,
                    processing_job, printer_state, is_stopped, is_deleted>>
    BY <1>3 DEF SendDocument, CancelRequest, jobVars, listVars, printerVars,
                deviceVars, flagVars, threadVars
  <2>2. \A d \in Clients : cpc[d] = "check" => cpc'[d] = "check"
    BY <1>3 DEF SendDocument, CancelRequest
  <2>3. Calm
    BY <2>1, <2>2, StillAttended, NothingNew
  <2> QED BY <2>3, CalmKeeps
<1>4. CASE \E j \in Jobs : ResumeJob(c, j)
  <2>1. Safe
    BY <1>4 DEF ResumeJob, Safe, Attended
  <2> QED BY <2>1, SafeKeeps
<1> QED BY <1>1, <1>2, <1>3, <1>4 DEF ClientRequest

\* Requests of one section leave clients alone, and start threads at most.
LEMMA RequestDismissesNobody ==
  ASSUME TypeOK, Request PROVE Attended => Attended'
<1>1. \A t \in Threads : Working(t) => Working(t)'
  BY RequestQuiet DEF Quiet, Working
<1>2. UNCHANGED cpc
  BY DEF Request, CreateJob, CancelAllJobs, Pause, Resume, HoldNewJobs,
         ReleaseHeldNewJobs, OpenDevice, CloseDevice, StopSystem, SendNothing,
         WebCancel, HoldJob, ReleaseJob, SuspendJob, clientVars
<1> QED BY <1>1, <1>2 DEF Attended

\* A request of one section checks where it makes a job pending.
LEMMA RequestPending ==
  ASSUME TypeOK, NoStrandedJob, ~crashed, Request
  PROVE  NoStrandedJob'
<1> USE RequestDismissesNobody DEF TypeOK, JobType, ThreadType
<1>1. CASE CreateJob
  <2>1. PICK hold \in HoldOptions : NewJob(hold)
    BY <1>1 DEF CreateJob
  <2>2. Ready' => Ready
    BY <1>1 DEF CreateJob, printerVars, deviceVars, flagVars, Ready, CanProcess
  <2>3. Calm
    BY <2>1, <2>2, NewJobPending DEF Calm
  <2> QED BY <2>3, CalmKeeps
<1>2. CASE CancelAllJobs \/ \E j \in Jobs : WebCancel(j)
  <2>1. PICK S : Cancel(S)
    BY <1>2 DEF CancelAllJobs, WebCancel
  <2>2. Ready' => Ready
    BY <1>2 DEF CancelAllJobs, WebCancel, printerVars, deviceVars, flagVars,
                Ready, CanProcess
  <2>3. \A j \in active_jobs' : job_state'[j] = "pending"
                            => j \in active_jobs /\ job_state[j] = "pending"
    BY <2>1 DEF Cancel, Put, ListType
  <2>4. Calm
    BY <2>2, <2>3 DEF Calm
  <2> QED BY <2>4, CalmKeeps
<1>3. CASE Pause \/ HoldNewJobs \/ OpenDevice \/ StopSystem
  <2>1. UNCHANGED <<active_jobs, job_state>>
    BY <1>3 DEF Pause, HoldNewJobs, OpenDevice, StopSystem, jobVars, listVars
  <2>2. Ready' => Ready
    <3>1. CASE Pause
      BY <3>1 DEF Pause, Ready, CanProcess, deviceVars, flagVars
    <3>2. CASE HoldNewJobs \/ OpenDevice \/ StopSystem
      BY <3>2 DEF HoldNewJobs, OpenDevice, StopSystem, printerVars,
                  deviceVars, flagVars, Ready, CanProcess
    <3> QED BY <1>3, <3>1, <3>2
  <2>3. Calm
    BY <2>1, <2>2 DEF Calm
  <2> QED BY <2>3, CalmKeeps
<1>4. CASE Resume
  <2>1. CheckJobs(CanProcess(device_in_use, processing_job, "idle", FALSE),
                  job_state, hold_specified, tpc)
    BY <1>4 DEF Resume
  <2>2. Ready' => CanProcess(device_in_use, processing_job, "idle", FALSE)
    BY <1>4 DEF Resume, Ready, CanProcess, deviceVars, flagVars
  <2> QED BY <2>1, <2>2, CheckJobsKeeps
<1>5. CASE CloseDevice
  <2>1. CheckJobs(CanProcess(FALSE, processing_job, printer_state, is_stopped),
                  job_state, hold_specified, tpc)
    BY <1>5 DEF CloseDevice
  <2>2. Ready' => CanProcess(FALSE, processing_job, printer_state, is_stopped)
    BY <1>5 DEF CloseDevice, Ready, CanProcess, printerVars, flagVars
  <2> QED BY <2>1, <2>2, CheckJobsKeeps
<1>6. CASE ReleaseHeldNewJobs
  <2> DEFINE released == {j \in active_jobs \ hold_specified :
                            job_state[j] = "held" /\ hold_until[j] = "none"}
             js == Put(job_state, released, "pending")
  <2>1. js \in [Jobs -> JobStates]
    BY DEF Put, JobStates
  <2>2. CheckJobs(Ready /\ released # {}, js, hold_specified, tpc)
    BY <1>6 DEF ReleaseHeldNewJobs
  <2>3. Ready' => Ready
    BY <1>6 DEF ReleaseHeldNewJobs, printerVars, deviceVars, Ready, CanProcess
  <2>4. CASE released = {}
    <3>1. js = job_state
      BY <2>4 DEF Put
    <3>2. job_state' = job_state /\ active_jobs' = active_jobs
      BY <2>2, <2>4, <3>1 DEF CheckJobs, listVars
    <3>3. Calm
      BY <1>6, <2>3, <3>2 DEF Calm
    <3> QED BY <3>3, CalmKeeps
  <2>5. CASE released # {}
    <3> HIDE DEF js, released
    <3> QED BY <2>1, <2>2, <2>3, <2>5, CheckJobsKeeps
  <2> QED BY <2>4, <2>5
<1>7. CASE \E j \in Jobs : SendNothing(j) \/ HoldJob(j) \/ SuspendJob(j)
  <2>1. /\ UNCHANGED active_jobs
        /\ \A j \in Jobs : job_state'[j] = "pending" => job_state[j] = "pending"
    BY <1>7 DEF SendNothing, HoldJob, SuspendJob, listVars
  <2>2. Ready' => Ready
    BY <1>7 DEF SendNothing, HoldJob, SuspendJob, printerVars, deviceVars,
                flagVars, Ready, CanProcess
  <2>3. Calm
    BY <2>1, <2>2 DEF Calm, ListType
  <2> QED BY <2>3, CalmKeeps
<1>8. ASSUME NEW j \in Jobs, ReleaseJob(j) PROVE NoStrandedJob'
  <2> DEFINE js == IF job_state[j] = "held"
                   THEN [job_state EXCEPT ![j] = "pending"] ELSE job_state
             hs == IF job_state[j] = "held" THEN hold_specified \ {j}
                                            ELSE hold_specified
  <2>1. js \in [Jobs -> JobStates]
    BY DEF JobStates
  <2>2. CheckJobs(Ready, js, hs, tpc)
    BY <1>8 DEF ReleaseJob
  <2>3. Ready' => Ready
    BY <1>8 DEF ReleaseJob, Ready, CanProcess, printerVars, deviceVars, flagVars
  <2> HIDE DEF js, hs
  <2> QED BY <2>1, <2>2, <2>3, CheckJobsKeeps
<1> QED BY <1>1, <1>2, <1>3, <1>4, <1>5, <1>6, <1>7, <1>8 DEF Request

\* Nor does time strand a job, or the cleaning.
LEMMA SystemPending ==
  ASSUME TypeOK, NoStrandedJob, ~crashed,
         \/ \E j \in Jobs : HoldTimeArrives(j)
         \/ MinutePasses \/ CleanJobs \/ UseFreed
  PROVE  NoStrandedJob'
<1>1. UNCHANGED <<tpc, cpc, active_jobs, device_in_use, processing_job,
                  printer_state, is_stopped, is_deleted>>
  BY DEF HoldTimeArrives, MinutePasses, CleanJobs, UseFreed, threadVars,
         clientVars, listVars, deviceVars, printerVars, flagVars
<1>2. \A j \in Jobs : job_state'[j] \in {job_state[j], "freed"}
  BY DEF HoldTimeArrives, MinutePasses, CleanJobs, UseFreed, jobVars, Put
<1>3. Calm
  BY <1>1, <1>2 DEF Calm, Attended, Working, Ready, CanProcess, TypeOK, ListType
<1> QED BY <1>3, CalmKeeps

-----------------------------------------------------------------------------
\* No step does.
LEMMA PendingStep ==
  ASSUME TypeOK, NoStrandedJob, [Next]_vars
  PROVE  NoStrandedJob'
<1>1. CASE Next
  BY <1>1, ThreadPending, ClientPending, ClientRequestPending, RequestPending,
     SystemPending DEF Next
<1>2. CASE UNCHANGED vars
  BY <1>2 DEF vars, jobVars, listVars, printerVars, deviceVars, flagVars,
              threadVars, clientVars, NoStrandedJob, Ready, CanProcess
<1> QED BY <1>1, <1>2

\* A pending job of a printer that could print always has a live thread, or a
\* client about to check the queue, that will start it (every caller of
\* _papplPrinterCheckJobsNoLock, and the sections between them).
THEOREM NoJobStranded == Spec => []NoStrandedJob
<1>1. Init => NoStrandedJob
  BY DEF Init, NoStrandedJob
<1>2. TypeOK /\ NoStrandedJob /\ [Next]_vars => NoStrandedJob'
  BY PendingStep
<1> QED BY <1>1, <1>2, TypeCorrect, PTL DEF Spec
=============================================================================
