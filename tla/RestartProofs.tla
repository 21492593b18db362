---------------------------- MODULE RestartProofs ----------------------------
(***************************************************************************)
(* Proofs about Restart, for all constants: what is on disk can be loaded, *)
(* and what is loaded was there to be printed.                             *)
(*                                                                         *)
(* The invariant relates three kinds of files to the queue, across every   *)
(* step of the queue, of the save and of the process's end. Of the queue's *)
(* own steps it needs a few facts only (StepFacts); of its lists only that *)
(* what is in a list exists: a job may be loaded into none.                *)
(***************************************************************************)
EXTENDS Restart, JobQueueProofs

-----------------------------------------------------------------------------
(* The inductive invariant.                                                *)

FileOK ==
  /\ loop \in {"idle", "open", "jobs", "closing", "ended", "killed"}
  /\ left \subseteq Jobs /\ unmarked \subseteq Jobs
  /\ attrs \subseteq Jobs /\ spool \subseteq Jobs
  /\ state_file \in FileType
  /\ {dirty, missed} \subseteq BOOLEAN /\ restarts \in Nat

\* What the file says of a job that it has documents and is to be printed.
Printable(j) == /\ state_file.jobs[j].docs > 0
                /\ state_file.jobs[j].state \in Unfinished

\* The numbers in the file are below its next number, and that is not above
\* the printer's; so are those of the jobs that remain to be written.
FileNumbers ==
  /\ state_file.next <= next_job_id
  /\ \A j \in Jobs : Recorded(j) => j < state_file.next
  /\ loop = "jobs" => \A j \in left : j < state_file.next

\* A job is written while it exists.
FileLive ==
  /\ \A j \in Jobs :
       Recorded(j) => state_file.jobs[j].state \notin {"none", "freed"}
  /\ loop = "jobs" => \A j \in left : Exists(j)

\* An active job that the file would have printed has its attributes on disk;
\* any job has, where they are removed with no document.
FileAttrs ==
  \A j \in Jobs : Printable(j) =>
    j \in attrs \/ (~MultiDocument /\ j \notin active_jobs)

\* A job whose documents the file has, and the disk, has them in memory, unless
\* its number has been given up by a restart.
FileSpool ==
  \A j \in spool : state_file.jobs[j].docs > 0 =>
    num_documents[j] > 0 \/ job_state[j] = "none"

\* What is not in the file yet will be, or need not.
Unsaved(j) ==
  \/ j \in unmarked \/ dirty \/ missed \/ ~is_running \/ Down \/ crashed
  \/ loop = "open" \/ (loop = "jobs" /\ j \in left)
FileComplete ==
  \A j \in Jobs :
    /\ Exists(j) => Recorded(j) \/ Unsaved(j)
    /\ job_state[j] = "completed" =>
         state_file.jobs[j].state = "completed" \/ Unsaved(j)

\* A job that was completed is not marked as canceled.
CompletedNotCanceled ==
  \A j \in Jobs : job_state[j] = "completed" => j \notin is_canceled

FileInv ==
  /\ QueueInv /\ FileOK
  /\ FileNumbers /\ FileLive /\ FileAttrs /\ FileSpool
  /\ FileComplete /\ CompletedNotCanceled

-----------------------------------------------------------------------------
(* Where no document is sent for a job that may have been canceled since.  *)

OneSender == MultiDocument \/ "send-document" \notin Requests

\* A client within the handler that created its job.
Uploading(c) == cpc[c] \in {"copy", "receive", "submit"}

\* Only it has that job, which has no documents yet, in the file either.
UploadsFirst ==
  "send-document" \notin Requests =>
  /\ \A j \in Jobs : job_state[j] = "none" => num_documents[j] = 0
  /\ \A c \in Clients : Uploading(c) =>
       /\ cjob[c] \in Jobs /\ cjob[c] < next_job_id
       /\ num_documents[cjob[c]] = 0
       /\ state_file.jobs[cjob[c]].docs = 0
  /\ \A b, c \in Clients :
       b # c /\ Uploading(b) /\ Uploading(c) => cjob[b] # cjob[c]

\* So the attributes of what the file would have printed are there.
AttrsKept == \A j \in spool : Printable(j) => j \in attrs

SenderInv == FileInv /\ UploadsFirst /\ AttrsKept /\ NoneUnlisted

-----------------------------------------------------------------------------
(* What a step of the queue does to jobs that are in the file.             *)

StepFacts ==
  \* Only a thread's last section completes a job; none completed is marked.
  /\ \A t \in Threads : tpc[t] = "finish" /\ tpc'[t] = "tail" => tjob[t] \in Jobs
  /\ \A j \in Jobs : job_state'[j] = "completed" =>
       \/ job_state[j] = "completed" /\ (j \in is_canceled' => j \in is_canceled)
       \/ j \in Ended /\ j \notin is_canceled'
  \* A job that loses its documents is not active any more.
  /\ \A j \in active_jobs' : num_documents[j] > 0 =>
       num_documents'[j] > 0 /\ job_state'[j] # "freed"
  /\ is_running' => is_running

\* Of a client that uploads a document, or begins to, and of the documents.
UploadFacts ==
  /\ \A j \in Jobs : num_documents'[j] > num_documents[j] =>
       /\ Exists(j)
       /\ \E c \in Clients : cpc[c] = "submit" /\ cjob[c] = j /\ ~Uploading(c)'
  /\ "send-document" \notin Requests =>
       \A c \in Clients : Uploading(c)' =>
         \/ Uploading(c) /\ cjob'[c] = cjob[c]
         \/ /\ cjob'[c] = next_job_id /\ next_job_id' # next_job_id
            /\ \A b \in Clients : b # c => cpc'[b] = cpc[b] /\ cjob'[b] = cjob[b]

\* Steps that cancel nothing, take no documents away and end no thread's job.
Plain ==
  /\ UNCHANGED <<is_running, is_canceled>>
  /\ \A j \in Jobs : num_documents'[j] = num_documents[j]
  /\ \A t \in Threads : tpc'[t] = "tail" => tpc[t] # "finish"
  /\ \A j \in Jobs : job_state'[j] # job_state[j] =>
       job_state'[j] \in {"held", "pending", "processing", "stopped", "aborted"}
  /\ \A j \in active_jobs' : j \in active_jobs \/ (j \in Jobs /\ job_state'[j] = "held")

\* A step that begins no upload.
NoUpload ==
  \A c \in Clients : Uploading(c)' => Uploading(c) /\ cjob'[c] = cjob[c]

\* A plain step has the facts.
LEMMA PlainFacts ==
  ASSUME QueueInv, ~crashed, Plain
  PROVE  StepFacts
<1>1. \A j \in active_jobs' : job_state'[j] # "freed"
  BY DEF QueueInv, ListedExist, Exists, TypeOK, ListType, Plain
<1>2. active_jobs' \subseteq Jobs
  BY DEF QueueInv, TypeOK, ListType, Plain
<1> QED BY <1>1, <1>2 DEF Plain, StepFacts

\* One that begins no upload has the facts of uploads.
LEMMA PlainUploads ==
  ASSUME QueueInv, Plain, NoUpload
  PROVE  UploadFacts
<1>1. \A j \in Jobs : num_documents[j] \in Nat
  BY Bounds DEF QueueInv, TypeOK, JobType
<1> QED BY <1>1 DEF Plain, NoUpload, UploadFacts

\* CheckJobs is plain if what its caller has changed is.
LEMMA CheckPlain ==
  ASSUME TypeOK, NEW ready, NEW js \in [Jobs -> JobStates], NEW hs,
         NEW pcs \in [Threads -> ThreadPcs], CheckJobs(ready, js, hs, pcs),
         \A j \in Jobs : js[j] # job_state[j] =>
           js[j] \in {"held", "pending", "processing", "stopped", "aborted"},
         \A t \in Threads : pcs[t] = "tail" => tpc[t] # "finish"
  PROVE  /\ \A t \in Threads : tpc'[t] = "tail" => tpc[t] # "finish"
         /\ \A j \in Jobs : job_state'[j] # job_state[j] =>
              job_state'[j] \in {"held", "pending", "processing", "stopped", "aborted"}
         /\ active_jobs' \subseteq active_jobs
<1> DEFINE due == {j \in active_jobs : js[j] = "held"
                                       /\ hold_until[j] = "future"}
           runnable == due \cup {j \in active_jobs : js[j] = "pending"}
<1>1. \A j \in runnable : j \in Jobs
  BY DEF TypeOK, ListType
<1>2. CASE job_state' = js /\ tpc' = pcs /\ UNCHANGED listVars
  BY <1>2 DEF listVars
<1>3. ASSUME NEW j \in runnable, Spawn(j, pcs),
             job_state' = [js EXCEPT ![j] = "pending"], UNCHANGED listVars
      PROVE  /\ \A t \in Threads : tpc'[t] = "tail" => tpc[t] # "finish"
             /\ \A k \in Jobs : job_state'[k] # job_state[k] =>
                  job_state'[k] \in {"held", "pending", "processing", "stopped", "aborted"}
             /\ active_jobs' \subseteq active_jobs
  BY <1>3 DEF Spawn, listVars
<1>4. ASSUME NEW j \in runnable, job_state' = [js EXCEPT ![j] = "aborted"],
             active_jobs' = active_jobs \ {j}, tpc' = pcs
      PROVE  /\ \A t \in Threads : tpc'[t] = "tail" => tpc[t] # "finish"
             /\ \A k \in Jobs : job_state'[k] # job_state[k] =>
                  job_state'[k] \in {"held", "pending", "processing", "stopped", "aborted"}
             /\ active_jobs' \subseteq active_jobs
  BY <1>4
<1> QED BY <1>2, <1>3, <1>4 DEF CheckJobs

\* Cancel ends jobs, which are not active then, and marks others.
LEMMA CancelFacts ==
  ASSUME QueueInv, ~crashed, NEW S \in SUBSET Jobs, \A j \in S : Exists(j),
         Cancel(S), UNCHANGED <<is_running, tpc>>
  PROVE  /\ StepFacts
         /\ \A j \in Jobs : num_documents'[j] \in {0, num_documents[j]}
<1> DEFINE ended == S \ Marked(S)
<1>1. \A j \in Jobs :
        /\ job_state'[j] = IF j \in ended THEN "canceled" ELSE job_state[j]
        /\ num_documents'[j] = IF j \in ended THEN 0 ELSE num_documents[j]
  BY DEF Cancel, Put
<1>2. active_jobs' = active_jobs \ ended /\ active_jobs \subseteq Jobs
      /\ is_canceled' = is_canceled \cup Marked(S)
  BY DEF Cancel, QueueInv, TypeOK, ListType
<1>3. \A j \in Marked(S) : job_state[j] # "completed"
  BY DEF Marked
<1>4. \A j \in active_jobs : job_state[j] # "freed"
  BY DEF QueueInv, ListedExist, Exists, TypeOK, ListType
<1> QED BY <1>1, <1>2, <1>3, <1>4 DEF StepFacts

\* The steps of a processing thread. Its last section, FinishJob, is the only
\* one that completes a job.
LEMMA ThreadFacts ==
  ASSUME QueueInv, ~crashed, NEW t \in Threads, ThreadStep(t)
  PROVE  StepFacts /\ UploadFacts
<1> USE DEF QueueInv, TypeOK, JobType, ThreadType, ListType, listVars, jobVars,
            flagVars, clientVars, On, Step, NoUpload, Uploading
<1>1. CASE StartJob(t) \/ RetryDevice(t)
  <2>1. Plain
    BY <1>1 DEF StartJob, RetryDevice, AcquireDevice, UnchangedByDevice, Plain
  <2>2. NoUpload
    BY <1>1 DEF StartJob, RetryDevice, UnchangedByDevice
  <2> QED BY <2>1, <2>2, PlainFacts, PlainUploads
<1>2. CASE PrintDocuments(t)
  <2>1. Plain /\ NoUpload
    BY <1>2 DEF PrintDocuments, Plain
  <2> QED BY <2>1, PlainFacts, PlainUploads
<1>3. CASE FinishJob(t)
  <2>1. tjob[t] \in Jobs /\ tpc[t] = "finish" /\ tpc'[t] = "tail"
    BY <1>3 DEF FinishJob
  <2>2. \A j \in Jobs : job_state'[j] = IF j = tjob[t] THEN FinalState(j) ELSE job_state[j]
    BY <1>3 DEF FinishJob
  <2>3. /\ active_jobs' = active_jobs \ {tjob[t]}
        /\ UNCHANGED <<is_canceled, is_running, clientVars, next_job_id>>
    BY <1>3 DEF FinishJob
  <2>9. \A j \in Jobs : \/ num_documents'[j] = num_documents[j]
                        \/ j = tjob[t] /\ num_documents'[j] = 0
    <3> DEFINE over == IF FinalState(tjob[t]) \in Terminal THEN {tjob[t]} ELSE {}
    <3>1. \/ num_documents' = num_documents
          \/ num_documents' = Put(num_documents, over, 0)
      BY <1>3 DEF FinishJob
    <3>2. \A j \in Jobs : j \in over => j = tjob[t]
      OBVIOUS
    <3> HIDE DEF over
    <3> QED BY <3>1, <3>2 DEF Put
  <2>10. FinalState(tjob[t]) = "completed" => tjob[t] \notin is_canceled
    BY DEF FinalState
  <2>4. tjob[t] \in Ended
    BY <2>1 DEF Ended
  <2>5. \A j \in active_jobs : job_state[j] # "freed"
    BY DEF ListedExist, Exists
  <2>6. \A u \in Threads : tpc[u] = "finish" /\ tpc'[u] = "tail" => tjob[u] \in Jobs
    BY <1>3 DEF FinishJob
  <2>7. StepFacts
    BY <2>1, <2>2, <2>3, <2>4, <2>5, <2>6, <2>9, <2>10 DEF StepFacts
  <2>8. \A j \in Jobs : num_documents[j] \in Nat
    BY Bounds
  <2> QED BY <2>3, <2>7, <2>8, <2>9 DEF UploadFacts
<1>4. CASE DecideTail(t) \/ CloseAfterJob(t) \/ ExitThread(t)
  <2>1. Plain /\ NoUpload
    BY <1>4 DEF DecideTail, CloseAfterJob, ExitThread, Plain
  <2> QED BY <2>1, PlainFacts, PlainUploads
<1>5. CASE DeleteLast(t)
  <2>1. \A j \in Jobs : num_documents[j] \in Nat
    BY Bounds
  <2>2. /\ job_state' = [j \in Jobs |-> IF Exists(j) THEN "freed" ELSE job_state[j]]
        /\ active_jobs' = {}
        /\ UNCHANGED <<is_canceled, num_documents, is_running, clientVars>>
    BY <1>5 DEF DeleteLast, FreePrinter
  <2>3. \A j \in Jobs : job_state'[j] # "completed"
    BY <2>2 DEF Exists
  <2>4. \A u \in Threads : tpc'[u] = "tail" => tpc[u] # "finish"
    BY <1>5 DEF DeleteLast
  <2>5. StepFacts
    BY <2>2, <2>3, <2>4 DEF StepFacts
  <2>6. UploadFacts
    BY <2>1, <2>2 DEF UploadFacts
  <2> QED BY <2>5, <2>6
<1>6. CASE CheckNext(t)
  <2> DEFINE pcs == [tpc EXCEPT ![t] = "exit"]
  <2>3. pcs \in [Threads -> ThreadPcs]
    BY DEF ThreadPcs
  <2>4. \A u \in Threads : pcs[u] = "tail" => tpc[u] # "finish"
    OBVIOUS
  <2>5. CheckJobs(Ready, job_state, hold_specified, pcs)
        /\ UNCHANGED <<is_canceled, num_documents, is_running>>
    BY <1>6 DEF CheckNext
  <2> HIDE DEF pcs
  <2>1. Plain
    BY <2>3, <2>4, <2>5, CheckPlain DEF Plain
  <2>2. NoUpload
    BY <1>6 DEF CheckNext
  <2> QED BY <2>1, <2>2, PlainFacts, PlainUploads
<1> QED BY <1>1, <1>2, <1>3, <1>4, <1>5, <1>6 DEF ThreadStep

\* The steps of a client within a handler. SubmitFile is the only one that
\* adds a document.
LEMMA ClientFacts ==
  ASSUME QueueInv, ~crashed, NEW c \in Clients, ClientStep(c)
  PROVE  StepFacts /\ UploadFacts
<1> USE DEF QueueInv, TypeOK, JobType, ClientType, ListType, listVars, jobVars,
            flagVars, threadVars, At, Go, Return, NoUpload, Uploading
<1>1. CASE OpenSpool(c) \/ CloseSpool(c)
  <2>1. Plain /\ NoUpload
    BY <1>1 DEF OpenSpool, CloseSpool, Plain
  <2> QED BY <2>1, PlainFacts, PlainUploads
<1>2. CASE AbortCopy(c)
  <2>1. Plain /\ NoUpload
    BY <1>2 DEF AbortCopy, Abort, Plain
  <2> QED BY <2>1, PlainFacts, PlainUploads
<1>3. CASE SubmitFile(c)
  <2>1. /\ cpc[c] = "submit" /\ cjob[c] \in Jobs /\ Exists(cjob[c])
        /\ cpc'[c] \in {"check", "idle"}
        /\ \A b \in Clients : b # c => cpc'[b] = cpc[b] /\ cjob'[b] = cjob[b]
    BY <1>3 DEF SubmitFile
  <2>2. /\ \A j \in Jobs : j # cjob[c] => /\ num_documents'[j] = num_documents[j]
                                          /\ job_state'[j] = job_state[j]
        /\ num_documents'[cjob[c]] = num_documents[cjob[c]] + 1
        /\ job_state'[cjob[c]] \in {"pending", job_state[cjob[c]]}
        /\ UNCHANGED <<is_canceled, is_running, tpc, active_jobs>>
    BY <1>3 DEF SubmitFile
  <2>3. \A j \in Jobs : num_documents[j] \in Nat
    BY Bounds
  <2>4. \A j \in active_jobs : j \in Jobs /\ job_state[j] # "freed"
    BY DEF ListedExist, Exists
  <2>5. StepFacts
    BY <2>1, <2>2, <2>3, <2>4 DEF StepFacts
  <2>6. UploadFacts
    BY <2>1, <2>2, <2>3 DEF UploadFacts
  <2> QED BY <2>5, <2>6
<1>4. CASE RejectFile(c) \/ UnlistFile(c) \/ MarkDeleted(c)
  <2>1. Plain /\ NoUpload
    BY <1>4 DEF RejectFile, UnlistFile, MarkDeleted, Plain
  <2> QED BY <2>1, PlainFacts, PlainUploads
<1>5. CASE CheckAfter(c)
  <2>1. /\ CheckJobs(Ready, job_state, hold_specified, tpc)
        /\ UNCHANGED <<is_canceled, num_documents, is_running>>
    BY <1>5 DEF CheckAfter
  <2>2. \A t \in Threads : tpc[t] = "tail" => tpc[t] # "finish"
    OBVIOUS
  <2>3. Plain
    BY <2>1, <2>2, CheckPlain DEF Plain, ThreadType
  <2>4. NoUpload
    BY <1>5 DEF CheckAfter
  <2> QED BY <2>3, <2>4, PlainFacts, PlainUploads
<1>6. CASE CancelJob(c)
  <2>1. StepFacts /\ \A j \in Jobs : num_documents'[j] \in {0, num_documents[j]}
    BY <1>6, CancelFacts DEF CancelJob
  <2>2. \A j \in Jobs : num_documents[j] \in Nat
    BY Bounds
  <2>3. NoUpload
    BY <1>6 DEF CancelJob
  <2> QED BY <2>1, <2>2, <2>3 DEF UploadFacts
<1>7. CASE DeleteNow(c)
  <2>1. /\ job_state' = [j \in Jobs |-> IF Exists(j) THEN "freed" ELSE job_state[j]]
        /\ active_jobs' = {} /\ UNCHANGED <<is_canceled, num_documents, is_running, tpc>>
    BY <1>7 DEF DeleteNow, FreePrinter
  <2>2. StepFacts
    BY <2>1 DEF StepFacts, Exists
  <2>3. NoUpload /\ \A j \in Jobs : num_documents[j] \in Nat
    BY <1>7, Bounds DEF DeleteNow
  <2> QED BY <2>1, <2>2, <2>3 DEF UploadFacts
<1> QED BY <1>1, <1>2, <1>3, <1>4, <1>5, <1>6, <1>7 DEF ClientStep

\* The steps that begin a handler. Print-Job begins an upload for the job it
\* creates, Send-Document for one that exists.
LEMMA ClientRequestFacts ==
  ASSUME QueueInv, ~crashed, NEW c \in Clients, ClientRequest(c)
  PROVE  StepFacts /\ UploadFacts
<1> USE DEF QueueInv, TypeOK, JobType, ClientType, ListType, listVars, jobVars,
            flagVars, threadVars, Enter, NoUpload, Uploading, May
<1>1. ~PrintFile(c) /\ ~DeletePrinter(c)
  BY RestartAssumption DEF PrintFile, DeletePrinter, RestartAssumption
<1>2. CASE PrintJob(c)
  <2>1. PICK hold \in HoldOptions : NewJob(hold)
    BY <1>2 DEF PrintJob
  <2>2. next_job_id \in Jobs
    BY <2>1, FreshNumber
  <2>3. next_job_id' = next_job_id + 1
    BY <2>1 DEF NewJob
  <2>4. Plain
    BY <1>2, <2>1, <2>2 DEF PrintJob, NewJob, Plain
  <2>5. next_job_id' # next_job_id
    BY <2>2, <2>3, Bounds DEF Jobs
  <2>6. \A j \in Jobs : num_documents[j] \in Nat
    BY Bounds
  <2>7. /\ cpc'[c] = "copy" /\ cjob'[c] = next_job_id
        /\ \A b \in Clients : b # c => cpc'[b] = cpc[b] /\ cjob'[b] = cjob[b]
    BY <1>2 DEF PrintJob
  <2>8. UploadFacts
    BY <2>4, <2>5, <2>6, <2>7 DEF UploadFacts, Plain
  <2> QED BY <2>4, <2>8, PlainFacts
<1>3. CASE \E j \in Jobs : SendDocument(c, j)
  <2>1. Plain /\ "send-document" \in Requests
    BY <1>3 DEF SendDocument, Plain
  <2>2. \A j \in Jobs : num_documents[j] \in Nat
    BY Bounds
  <2> QED BY <2>1, <2>2, PlainFacts DEF UploadFacts, Plain
<1>4. CASE \E j \in Jobs : CancelRequest(c, j) \/ ResumeJob(c, j)
  <2>1. Plain /\ NoUpload
    BY <1>4 DEF CancelRequest, ResumeJob, Plain
  <2> QED BY <2>1, PlainFacts, PlainUploads
<1> QED BY <1>1, <1>2, <1>3, <1>4 DEF ClientRequest

\* The requests of one section begin no upload.
LEMMA RequestFacts ==
  ASSUME QueueInv, ~crashed, Request
  PROVE  StepFacts /\ UploadFacts
<1> USE DEF QueueInv, TypeOK, JobType, ListType, listVars, jobVars, flagVars,
            threadVars, clientVars, May
<1>1. NoUpload
  BY DEF Request, CreateJob, CancelAllJobs, Pause, Resume, HoldNewJobs,
         ReleaseHeldNewJobs, OpenDevice, CloseDevice, StopSystem, SendNothing,
         WebCancel, HoldJob, ReleaseJob, SuspendJob, NoUpload, Uploading
<1>2. \A t \in Threads : tpc[t] = "tail" => tpc[t] # "finish"
  OBVIOUS
<1>3. CASE CreateJob
  <2>1. PICK hold \in HoldOptions : NewJob(hold)
    BY <1>3 DEF CreateJob
  <2>2. next_job_id \in Jobs
    BY <2>1, FreshNumber
  <2>3. Plain
    BY <1>3, <2>1, <2>2 DEF CreateJob, NewJob, Plain
  <2> QED BY <1>1, <2>3, PlainFacts, PlainUploads
<1>4. CASE CancelAllJobs \/ \E j \in Jobs : WebCancel(j)
  <2>1. \A j \in active_jobs : Exists(j)
    BY DEF ListedExist
  <2>2. StepFacts /\ \A j \in Jobs : num_documents'[j] \in {0, num_documents[j]}
    BY <1>4, <2>1, CancelFacts DEF CancelAllJobs, WebCancel
  <2>3. \A j \in Jobs : num_documents[j] \in Nat
    BY Bounds
  <2> QED BY <1>1, <2>2, <2>3 DEF UploadFacts, NoUpload
<1>5. CASE Pause \/ HoldNewJobs \/ OpenDevice
  <2>1. Plain
    BY <1>5 DEF Pause, HoldNewJobs, OpenDevice, Plain
  <2> QED BY <1>1, <2>1, PlainFacts, PlainUploads
<1>6. CASE Resume \/ CloseDevice
  <2>1. Plain
    BY <1>2, <1>6, CheckPlain DEF Resume, CloseDevice, Plain, ThreadType
  <2> QED BY <1>1, <2>1, PlainFacts, PlainUploads
<1>7. CASE ReleaseHeldNewJobs
  <2> DEFINE released == {j \in active_jobs \ hold_specified :
                            job_state[j] = "held" /\ hold_until[j] = "none"}
             js == Put(job_state, released, "pending")
  <2>1. js \in [Jobs -> JobStates]
    BY DEF Put, JobStates
  <2>2. \A j \in Jobs : js[j] # job_state[j] =>
          js[j] \in {"held", "pending", "processing", "stopped", "aborted"}
    BY DEF Put
  <2>3. CheckJobs(Ready /\ released # {}, js, hold_specified, tpc)
    BY <1>7 DEF ReleaseHeldNewJobs
  <2>4. UNCHANGED <<is_canceled, num_documents, is_running>>
    BY <1>7 DEF ReleaseHeldNewJobs
  <2> HIDE DEF js, released
  <2>5. Plain
    BY <1>2, <2>1, <2>2, <2>3, <2>4, CheckPlain DEF Plain, ThreadType
  <2> QED BY <1>1, <2>5, PlainFacts, PlainUploads
<1>8. CASE StopSystem
  <2>1. /\ UNCHANGED <<job_state, is_canceled, num_documents, active_jobs, tpc>>
        /\ ~is_running'
    BY <1>8 DEF StopSystem
  <2>2. \A j \in active_jobs : job_state[j] # "freed"
    BY DEF ListedExist, Exists
  <2>3. \A j \in Jobs : num_documents[j] \in Nat
    BY Bounds
  <2>4. \A t \in Threads : ~(tpc[t] = "finish" /\ tpc'[t] = "tail")
    BY <2>1
  <2>5. StepFacts
    BY <2>1, <2>2, <2>4 DEF StepFacts
  <2> QED BY <1>1, <2>1, <2>3, <2>5 DEF UploadFacts, NoUpload
<1>9. CASE \E j \in Jobs : SendNothing(j) \/ HoldJob(j) \/ SuspendJob(j)
  <2>1. Plain
    BY <1>9 DEF SendNothing, HoldJob, SuspendJob, Plain
  <2> QED BY <1>1, <2>1, PlainFacts, PlainUploads
<1>10. ASSUME NEW j \in Jobs, ReleaseJob(j) PROVE Plain
  <2> DEFINE js == IF job_state[j] = "held"
                   THEN [job_state EXCEPT ![j] = "pending"] ELSE job_state
             hs == IF job_state[j] = "held" THEN hold_specified \ {j}
                                            ELSE hold_specified
  <2>1. js \in [Jobs -> JobStates]
    BY DEF JobStates
  <2>2. CheckJobs(Ready, js, hs, tpc)
        /\ UNCHANGED <<is_canceled, num_documents, is_running>>
    BY <1>10 DEF ReleaseJob
  <2>3. \A k \in Jobs : js[k] # job_state[k] =>
          js[k] \in {"held", "pending", "processing", "stopped", "aborted"}
    OBVIOUS
  <2> HIDE DEF js, hs
  <2> QED BY <1>2, <2>1, <2>2, <2>3, CheckPlain DEF Plain, ThreadType
<1> QED BY <1>1, <1>3, <1>4, <1>5, <1>6, <1>7, <1>8, <1>9, <1>10, PlainFacts,
           PlainUploads DEF Request

\* Cleaning, and the passing of time.
LEMMA SystemFacts ==
  ASSUME QueueInv, ~crashed,
         \/ \E j \in Jobs : HoldTimeArrives(j)
         \/ MinutePasses \/ CleanJobs \/ UseFreed
  PROVE  StepFacts /\ UploadFacts
<1> USE DEF QueueInv, TypeOK, JobType, ListType, listVars, jobVars, flagVars,
            threadVars, clientVars
<1>1. CASE CleanJobs
  <2>1. \A j \in Jobs :
          /\ job_state'[j] = IF j \in Purged THEN "freed" ELSE job_state[j]
          /\ num_documents'[j] = IF j \in Stripped THEN 0 ELSE num_documents[j]
    BY <1>1 DEF CleanJobs, Put
  <2>2. UNCHANGED <<is_canceled, is_running, active_jobs, tpc, cpc, cjob>>
    BY <1>1 DEF CleanJobs
  <2>3. \A j \in active_jobs : /\ j \notin Purged /\ j \notin Stripped
                               /\ job_state[j] # "freed"
    BY DEF Purged, Stripped, Listed, ListedExist, Exists
  <2>4. \A j \in Jobs : num_documents[j] \in Nat
    BY Bounds
  <2>5. StepFacts
    BY <2>1, <2>2, <2>3 DEF StepFacts
  <2> QED BY <2>1, <2>2, <2>4, <2>5 DEF UploadFacts, Uploading
<1>2. CASE (\E j \in Jobs : HoldTimeArrives(j)) \/ MinutePasses \/ UseFreed
  <2>1. Plain /\ NoUpload
    BY <1>2 DEF HoldTimeArrives, MinutePasses, UseFreed, Plain, NoUpload,
                Uploading
  <2> QED BY <2>1, PlainFacts, PlainUploads
<1> QED BY <1>1, <1>2

\* All steps of the queue.
LEMMA NextFacts ==
  ASSUME QueueInv, Next
  PROVE  StepFacts /\ UploadFacts
  BY ThreadFacts, ClientFacts, ClientRequestFacts, RequestFacts, SystemFacts
     DEF Next

\* What a step does to numbers and to the jobs that exist: at most one job is
\* new, with the next number.
NewNumber(j) == j = next_job_id /\ next_job_id' # next_job_id
NumberFacts ==
  /\ \/ next_job_id' = next_job_id
     \/ /\ next_job_id \in Jobs /\ next_job_id' = next_job_id + 1
        /\ job_state[next_job_id] = "none"
  /\ \A j \in Jobs :
       /\ Exists(j)' => Exists(j) \/ NewNumber(j)
       /\ job_state[j] = "none" => job_state'[j] = "none" \/ NewNumber(j)
       /\ job_state'[j] = "none" => job_state[j] = "none"
  /\ \A j \in active_jobs' : j \in active_jobs \/ NewNumber(j)

\* All steps of the queue, seen from the numbers.
LEMMA NextNumbers ==
  ASSUME QueueInv, Next
  PROVE  NumberFacts
<1>1. ASSUME NEW S, MoveJobs(S) PROVE NumberFacts
  BY <1>1 DEF MoveJobs, NumberFacts, Exists
<1>2. ASSUME NEW hold \in HoldOptions, NewJob(hold) PROVE NumberFacts
  <2>1. next_job_id \in Jobs /\ job_state[next_job_id] = "none"
    BY <1>2, FreshNumber
  <2>2. next_job_id' = next_job_id + 1 /\ next_job_id' # next_job_id
    BY <1>2, <2>1, Bounds DEF NewJob, Jobs
  <2>3. /\ \A j \in Jobs : j # next_job_id => job_state'[j] = job_state[j]
        /\ job_state'[next_job_id] = "held"
        /\ active_jobs' = active_jobs \cup {next_job_id}
    BY <1>2, <2>1 DEF NewJob, QueueInv, TypeOK, JobType
  <2> QED BY <2>1, <2>2, <2>3 DEF NumberFacts, NewNumber, Exists
<1>3. CASE FreePrinter
  BY <1>3 DEF FreePrinter, NumberFacts, Exists
<1>4. CASE CleanJobs
  <2>1. \A j \in Purged : job_state[j] # "none"
    BY <1>4 DEF Next, Purged, Listed, QueueInv, ListedExist, Exists, CleanJobs
  <2>2. \A j \in Jobs : job_state'[j] = IF j \in Purged THEN "freed" ELSE job_state[j]
    BY <1>4 DEF CleanJobs, Put
  <2>3. UNCHANGED <<next_job_id, active_jobs>>
    BY <1>4 DEF CleanJobs
  <2> QED BY <2>1, <2>2, <2>3 DEF NumberFacts, Exists
<1>5. CASE UNCHANGED <<active_jobs, job_state, next_job_id>>
  BY <1>5 DEF NumberFacts, Exists
<1> QED BY <1>1, <1>2, <1>3, <1>4, <1>5, StepKinds

\* While the jobs are written none is created or freed.
LEMMA SharedMoves ==
  ASSUME QueueInv, ~crashed, Shared
  PROVE  Next /\ \E S : MoveJobs(S)
<1>1. CASE \E t \in Threads : PrintDocuments(t) \/ DecideTail(t) \/ ExitThread(t)
  <2>1. PICK t \in Threads : PrintDocuments(t) \/ DecideTail(t) \/ ExitThread(t)
    BY <1>1
  <2>2. ThreadStep(t) /\ UNCHANGED printer_freed
    BY <2>1 DEF ThreadStep, PrintDocuments, DecideTail, ExitThread, flagVars
  <2>3. ~FreePrinter
    BY <2>2 DEF FreePrinter
  <2> QED BY <2>2, <2>3, ThreadMoves DEF Next
<1>2. CASE \E c \in Clients : \/ OpenSpool(c) \/ CloseSpool(c)
                              \/ SubmitFile(c) \/ RejectFile(c)
  <2>1. PICK c \in Clients : \/ OpenSpool(c) \/ CloseSpool(c)
                             \/ SubmitFile(c) \/ RejectFile(c)
    BY <1>2
  <2>2. ClientStep(c) /\ UNCHANGED printer_freed
    BY <2>1 DEF ClientStep, OpenSpool, CloseSpool, SubmitFile, RejectFile,
                flagVars
  <2>3. ~FreePrinter
    BY <2>2 DEF FreePrinter
  <2> QED BY <2>2, <2>3, ClientMoves DEF Next
<1>3. CASE \E c \in Clients, j \in Jobs : \/ SendDocument(c, j)
                                          \/ CancelRequest(c, j) \/ ResumeJob(c, j)
  <2>1. PICK c \in Clients, j \in Jobs :
          SendDocument(c, j) \/ CancelRequest(c, j) \/ ResumeJob(c, j)
    BY <1>3
  <2>2. ClientRequest(c) /\ UNCHANGED active_jobs
    BY <2>1 DEF ClientRequest, SendDocument, CancelRequest, ResumeJob, listVars
  <2>3. UNCHANGED next_job_id
    BY <2>1 DEF SendDocument, CancelRequest, ResumeJob, jobVars
  <2>4. \A hold \in HoldOptions : ~NewJob(hold)
    BY <2>3, Bounds DEF NewJob, Jobs
  <2> QED BY <2>2, <2>4, ClientRequestMoves DEF Next
<1>4. CASE \E j \in Jobs : HoldJob(j) \/ SuspendJob(j)
  <2>1. Request /\ UNCHANGED next_job_id
    BY <1>4 DEF Request, HoldJob, SuspendJob
  <2>2. \A hold \in HoldOptions : ~NewJob(hold)
    BY <2>1, Bounds DEF NewJob, Jobs
  <2> QED BY <2>1, <2>2, RequestMoves DEF Next
<1>5. CASE (\E j \in Jobs : HoldTimeArrives(j)) \/ MinutePasses
  BY <1>5, SystemMoves DEF Next
<1> QED BY <1>1, <1>2, <1>3, <1>4, <1>5 DEF Shared

-----------------------------------------------------------------------------
(* The file.                                                               *)

\* What is written to the file has the type of a file.
LEMMA FileTypes ==
  ASSUME TypeOK
  PROVE  /\ NoFile \in FileType /\ Header \in FileType
         /\ \A j \in Jobs : Record(j) \in RecordType
<1>1. NoRecord \in RecordType
  BY Bounds DEF NoRecord, RecordType, JobStates
<1>2. NoFile \in FileType
  BY <1>1, Bounds DEF NoFile, FileType
<1>3. Header \in FileType
  BY <1>2 DEF Header, HeaderWithoutNext, FileType, TypeOK, JobType, PrinterType
<1>4. ASSUME NEW j \in Jobs PROVE Record(j) \in RecordType
  BY DEF Record, RecordType, TypeOK, JobType, JobStates
<1> QED BY <1>2, <1>3, <1>4

\* What is left of a file that is being written is a file, with some of its
\* lines, and with its next number if it has any.
LEMMA OnDiskFacts ==
  ASSUME TypeOK, NEW f \in FileType, NEW g \in OnDisk(f)
  PROVE  /\ g \in FileType
         /\ \A j \in Jobs : g.jobs[j] \in {NoRecord, f.jobs[j]}
         /\ g.next \in {1, f.next}
         /\ \A j \in Jobs : g.jobs[j] # NoRecord => g.next = f.next
<1>1. CASE g = NoFile
  BY <1>1, FileTypes DEF NoFile
<1>2. ASSUME NEW n \in 1 .. MaxJobs + 1,
             g = [f EXCEPT !.jobs = [j \in Jobs |-> IF j >= n THEN f.jobs[j]
                                                             ELSE NoRecord]]
      PROVE  /\ g \in FileType
             /\ \A j \in Jobs : g.jobs[j] \in {NoRecord, f.jobs[j]}
             /\ g.next \in {1, f.next}
             /\ \A j \in Jobs : g.jobs[j] # NoRecord => g.next = f.next
  <2>1. NoRecord \in RecordType
    BY Bounds DEF NoRecord, RecordType, JobStates
  <2>2. /\ g.jobs = [j \in Jobs |-> IF j >= n THEN f.jobs[j] ELSE NoRecord]
        /\ g.next = f.next
    BY <1>2 DEF FileType
  <2>3. g.jobs \in [Jobs -> RecordType]
    BY <2>1, <2>2 DEF FileType
  <2>4. g \in FileType
    BY <1>2, <2>2, <2>3 DEF FileType
  <2> QED BY <2>2, <2>4
<1> QED BY <1>1, <1>2 DEF OnDisk

\* A job that the file would have printed is recorded in it.
LEMMA PrintableRecorded ==
  ASSUME NEW j \in Jobs, Printable(j) PROVE Recorded(j)
  BY DEF Printable, Recorded, NoRecord

\* At first there is no file and no job.
LEMMA FileInit == RestartInit => FileInv
<1> SUFFICES ASSUME RestartInit PROVE FileInv
  OBVIOUS
<1>1. QueueInv
  BY ListInit DEF RestartInit, ListInv
<1>2. FileOK
  BY <1>1, FileTypes DEF RestartInit, FileOK, QueueInv
<1>3. /\ \A j \in Jobs : state_file.jobs[j] = NoRecord /\ job_state[j] = "none"
      /\ state_file.next = 1 /\ next_job_id = 1 /\ is_canceled = {}
      /\ loop = "idle" /\ left = {} /\ spool = {}
  BY DEF RestartInit, Init, NoFile
<1>4. FileNumbers /\ FileLive /\ FileAttrs /\ FileSpool
  BY <1>3 DEF FileNumbers, FileLive, FileAttrs, FileSpool, Recorded, Printable,
              NoRecord
<1>5. FileComplete /\ CompletedNotCanceled
  BY <1>3 DEF FileComplete, CompletedNotCanceled, Exists
<1> QED BY <1>1, <1>2, <1>4, <1>5 DEF FileInv

\* The queue's invariant and the facts about its steps, for a step of Queue.
LEMMA QueueKeeps ==
  ASSUME FileInv, Queue
  PROVE  /\ QueueInv' /\ (NoneUnlisted => NoneUnlisted')
         /\ StepFacts /\ UploadFacts /\ NumberFacts
         /\ loop = "jobs" => \E S : MoveJobs(S)
<1>1. Next /\ ~crashed
  BY SharedMoves DEF FileInv, Queue, QueueStep
<1>2. loop = "jobs" => \E S : MoveJobs(S)
  BY SharedMoves DEF FileInv, Queue, QueueStep
<1> QED BY <1>1, <1>2, QueueInvStep, NextFacts, NextNumbers DEF FileInv

\* A step of the queue, wherever the save is.
LEMMA FileQueue ==
  ASSUME FileInv, Queue
  PROVE  FileInv'
<1>1. QueueInv' /\ StepFacts /\ UploadFacts /\ NumberFacts
      /\ (loop = "jobs" => \E S : MoveJobs(S))
  BY QueueKeeps
<1>2. /\ unmarked' = unmarked \cup Changed
      /\ dirty' = (dirty \/ (hold_new_jobs' /\ ~hold_new_jobs))
      /\ spool' = (spool \cup Filled) \ Removed
      /\ attrs' = IF MultiDocument THEN attrs ELSE attrs \ Removed
      /\ UNCHANGED <<loop, left, state_file, historyVars>> /\ ~crashed
  BY DEF Queue, QueueStep
<1>3. /\ state_file.next \in 1 .. MaxJobs + 1 /\ next_job_id \in 1 .. MaxJobs + 1
      /\ next_job_id' \in 1 .. MaxJobs + 1 /\ next_job_id <= next_job_id'
  BY <1>1, Bounds DEF FileInv, FileOK, FileType, QueueInv, TypeOK, JobType, NumberFacts
<1>4. \A j \in Jobs : Recorded(j) => ~NewNumber(j)
  BY <1>3, Bounds DEF FileInv, FileNumbers, NewNumber
<1>5. \A j \in Jobs : (Recorded(j)' <=> Recorded(j)) /\ (Printable(j)' <=> Printable(j))
  BY <1>2 DEF Recorded, Printable
<1>6. \A j \in Jobs : num_documents[j] \in Nat /\ num_documents'[j] \in Nat
  BY <1>1, Bounds DEF FileInv, QueueInv, TypeOK, JobType
<1>7. FileOK'
  <2>1. Changed \subseteq Jobs
    BY <1>1 DEF Changed, CreatedOnly, Ended, NumberFacts, StepFacts
  <2> QED BY <1>2, <2>1 DEF FileInv, FileOK, Filled, historyVars
<1>8. FileNumbers'
  BY <1>2, <1>3, <1>5, Bounds DEF FileInv, FileNumbers
<1>9. FileLive'
  <2>1. loop = "jobs" => \A j \in Jobs : Exists(j) => Exists(j)'
    BY <1>1 DEF MoveJobs, Exists
  <2> QED BY <1>2, <1>5, <2>1 DEF FileInv, FileLive, FileOK
<1>10. FileAttrs'
  <2> SUFFICES ASSUME NEW j \in Jobs, Printable(j), j \notin attrs'
               PROVE  ~MultiDocument /\ j \notin active_jobs'
    BY <1>5 DEF FileAttrs
  <2>1. j \in attrs \/ (~MultiDocument /\ j \notin active_jobs)
    BY DEF FileInv, FileAttrs
  <2>2. ~NewNumber(j)
    BY <1>4, PrintableRecorded
  <2>3. CASE j \in attrs
    BY <1>1, <1>2, <1>6, <2>3 DEF Removed, StepFacts
  <2>4. CASE j \notin attrs
    BY <1>1, <2>1, <2>2, <2>4 DEF NumberFacts
  <2> QED BY <2>3, <2>4
<1>11. FileSpool'
  <2> SUFFICES ASSUME NEW j \in spool', state_file.jobs[j].docs > 0
               PROVE  num_documents'[j] > 0 \/ job_state'[j] = "none"
    BY <1>2 DEF FileSpool
  <2>1. j \in Jobs
    BY <1>7 DEF FileOK
  <2>2. ~NewNumber(j)
    BY <1>4, <2>1 DEF Recorded, NoRecord
  <2>3. CASE j \in Filled
    BY <1>6, <2>1, <2>3 DEF Filled
  <2>4. CASE j \in spool /\ j \notin Removed
    <3>1. num_documents[j] > 0 \/ job_state[j] = "none"
      BY <2>4 DEF FileInv, FileSpool
    <3> QED BY <1>1, <1>6, <2>1, <2>2, <2>4, <3>1 DEF Removed, NumberFacts
  <2> QED BY <1>2, <2>3, <2>4
<1>12. FileComplete'
  <2> SUFFICES ASSUME NEW j \in Jobs
               PROVE  /\ Exists(j)' => Recorded(j) \/ Unsaved(j)'
                      /\ job_state'[j] = "completed" =>
                           state_file.jobs[j].state = "completed" \/ Unsaved(j)'
    BY <1>2, <1>5 DEF FileComplete
  <2>1. Unsaved(j) => Unsaved(j)'
    BY <1>1, <1>2 DEF Unsaved, Down, StepFacts, historyVars
  <2>2. NewNumber(j) => Unsaved(j)'
    BY <1>2 DEF NewNumber, Unsaved, Changed, CreatedOnly
  <2>3. j \in Ended => Unsaved(j)'
    BY <1>2 DEF Unsaved, Changed
  <2> QED BY <1>1, <2>1, <2>2, <2>3 DEF NumberFacts, StepFacts, FileInv, FileComplete
<1>13. CompletedNotCanceled'
  BY <1>1 DEF StepFacts, FileInv, CompletedNotCanceled
<1> QED BY <1>1, <1>7, <1>8, <1>9, <1>10, <1>11, <1>12, <1>13 DEF FileInv

\* Steps that leave the queue alone keep its invariant.
LEMMA SameQueue ==
  ASSUME QueueInv, UNCHANGED vars
  PROVE  /\ QueueInv' /\ (NoneUnlisted => NoneUnlisted')
         /\ UNCHANGED <<job_state, num_documents, is_canceled, active_jobs,
                        next_job_id, is_running, crashed, cpc, cjob>>
  BY QueueInvStep DEF vars, jobVars, listVars, flagVars, clientVars

\* A step of the main loop, or of a thread that marks a change.
LEMMA FileLoop ==
  ASSUME FileInv, LoopStep \/ \E j \in Jobs : ConfigChanged(j)
  PROVE  FileInv'
<1> USE DEF FileInv, FileOK, diskVars, historyVars
<1>1. UNCHANGED vars
  BY DEF LoopStep, ConfigChanged, SaveBegin, SaveFails, SavePrinter, SaveJob,
         SkipJob, SaveUnlock, SaveEnd, Exit
<1>2. /\ QueueInv'
      /\ UNCHANGED <<job_state, num_documents, is_canceled, active_jobs,
                     next_job_id, is_running, crashed>>
  BY <1>1, SameQueue
<1>3. CompletedNotCanceled'
  BY <1>2 DEF CompletedNotCanceled
<1>4. TypeOK
  BY DEF QueueInv
<1>5. \A j \in Jobs : Exists(j)' <=> Exists(j)
  BY <1>2 DEF Exists
<1> DEFINE Same == UNCHANGED <<state_file, attrs, spool>>
<1>6. ASSUME Same, \/ loop' # "jobs"
                   \/ loop = "jobs" /\ loop' = "jobs" /\ left' \subseteq left
      PROVE  FileNumbers' /\ FileLive' /\ FileAttrs' /\ FileSpool'
  BY <1>2, <1>5, <1>6 DEF FileNumbers, FileLive, FileAttrs, FileSpool, Recorded,
                          Printable
<1>7. ASSUME state_file' = NoFile \/ state_file' = Header,
             UNCHANGED <<attrs, spool>>,
             loop' = "jobs" => state_file'.next = next_job_id
                               /\ left' = {j \in Jobs : Exists(j)}
      PROVE  FileOK' => FileNumbers' /\ FileLive' /\ FileAttrs' /\ FileSpool'
  <2>1. /\ \A j \in Jobs : state_file'.jobs[j] = NoRecord
        /\ state_file'.next \in {1, next_job_id}
    <3>1. NoFile.next = 1 /\ Header.next = next_job_id
      BY DEF Header, HeaderWithoutNext, NoFile
    <3>2. \A j \in Jobs : NoFile.jobs[j] = NoRecord
      BY DEF NoFile
    <3>3. Header.jobs = NoFile.jobs
      BY DEF Header, HeaderWithoutNext, NoFile
    <3> QED BY <1>7, <3>1, <3>2, <3>3
  <2>2. next_job_id \in 1 .. MaxJobs + 1
    BY <1>4 DEF TypeOK, JobType
  <2>3. \A j \in Jobs : Exists(j) => j < next_job_id
    BY <2>2, Bounds DEF QueueInv, Fresh, Exists, Jobs
  <2>4. FileNumbers'
    BY <1>2, <1>7, <2>1, <2>2, <2>3, Bounds DEF FileNumbers, Recorded
  <2>5. FileLive' /\ FileAttrs' /\ (spool \subseteq Jobs => FileSpool')
    BY <1>2, <1>5, <1>7, <2>1 DEF FileLive, FileAttrs, FileSpool, Recorded, Printable,
                                  NoRecord
  <2> QED BY <1>7, <2>4, <2>5
<1>8. ASSUME NEW j \in Jobs, ConfigChanged(j) PROVE FileInv'
  <2>1. FileOK' /\ Same /\ UNCHANGED <<loop, left>>
    BY <1>8 DEF ConfigChanged
  <2>2. FileComplete'
    BY <1>2, <1>5, <1>8 DEF ConfigChanged, FileComplete, Unsaved, Down, Recorded, TypeOK,
                            PrinterType
  <2> QED BY <1>2, <1>3, <1>6, <2>1, <2>2
<1>9. CASE SaveBegin
  <2>1. FileOK'
    BY <1>4, <1>9, FileTypes DEF SaveBegin
  <2>2. FileComplete'
    BY <1>9 DEF SaveBegin, FileComplete, Unsaved
  <2> QED BY <1>2, <1>3, <1>7, <1>9, <2>1, <2>2 DEF SaveBegin
<1>10. CASE SaveFails
  <2>1. FileOK' /\ FileComplete' /\ Same /\ loop' # "jobs"
    BY <1>10 DEF SaveFails, FileComplete, Unsaved
  <2> QED BY <1>2, <1>3, <1>6, <2>1
<1>11. CASE SavePrinter
  <2>1. FileOK'
    BY <1>4, <1>11, FileTypes DEF SavePrinter
  <2>2. FileComplete'
    BY <1>2, <1>5, <1>11 DEF SavePrinter, FileComplete, Unsaved, Exists
  <2>3. Header.next = next_job_id
    BY DEF Header, HeaderWithoutNext, NoFile
  <2> QED BY <1>2, <1>3, <1>7, <1>11, <2>1, <2>2, <2>3 DEF SavePrinter
<1>12. ASSUME NEW j \in Jobs, SaveJob(j) PROVE FileInv'
  <2>1. /\ loop = "jobs" /\ loop' = "jobs" /\ j \in left /\ left' = left \ {j}
        /\ state_file' = [state_file EXCEPT !.jobs[j] = Record(j)]
        /\ attrs' = IF job_state[j] \in Unfinished THEN attrs \cup {j}
                                                   ELSE attrs \ {j}
        /\ UNCHANGED <<dirty, unmarked, spool, missed, restarts>>
    BY <1>12 DEF SaveJob, Unwritten
  <2>2. /\ \A k \in Jobs : state_file'.jobs[k] = IF k = j THEN Record(j)
                                                 ELSE state_file.jobs[k]
        /\ state_file'.next = state_file.next
        /\ state_file' \in FileType
    <3>1. Record(j) \in RecordType
      BY <1>4, FileTypes
    <3> QED BY <2>1, <3>1 DEF FileType
  <2>3. FileOK'
    BY <2>1, <2>2
  <2>4. Exists(j) /\ j < state_file.next
    BY <2>1 DEF FileNumbers, FileLive
  <2>5. Record(j).state = (IF j \in is_canceled THEN "canceled" ELSE job_state[j])
        /\ Record(j).docs = num_documents[j]
    BY DEF Record
  <2>6. Record(j).state \notin {"none", "freed"} /\ Record(j) # NoRecord
    BY <2>4, <2>5 DEF Exists, NoRecord
  <2>7. FileNumbers'
    BY <1>2, <2>1, <2>2, <2>4 DEF FileNumbers, Recorded
  <2>8. FileLive'
    BY <1>5, <2>1, <2>2, <2>6 DEF FileLive, Recorded
  <2>9. FileAttrs'
    BY <1>2, <2>1, <2>2, <2>5 DEF FileAttrs, Printable, Unfinished
  <2>10. FileSpool'
    BY <1>2, <2>1, <2>2, <2>5 DEF FileSpool
  <2>11. FileComplete'
    <3>1. ASSUME NEW k \in Jobs, k # j PROVE Unsaved(k)' <=> Unsaved(k)
      BY <1>2, <2>1, <3>1 DEF Unsaved, Down
    <3>2. Recorded(j)' /\ (job_state[j] = "completed" =>
                             state_file'.jobs[j].state = "completed")
      BY <2>2, <2>5, <2>6 DEF Recorded, CompletedNotCanceled
    <3>3. \A k \in Jobs : k # j => (Recorded(k)' <=> Recorded(k))
      BY <2>2 DEF Recorded
    <3> QED BY <1>2, <1>5, <2>2, <3>1, <3>2, <3>3 DEF FileComplete
  <2> QED BY <1>2, <1>3, <2>3, <2>7, <2>8, <2>9, <2>10, <2>11
<1>13. ASSUME NEW j \in Jobs, SkipJob(j) PROVE FileInv'
  <2>1. FileOK' /\ FileComplete' /\ Same
    BY <1>13 DEF SkipJob, FileComplete, Unsaved
  <2> QED BY <1>2, <1>3, <1>6, <1>13, <2>1 DEF SkipJob
<1>14. CASE SaveUnlock \/ SaveEnd \/ Exit
  <2>1. FileOK' /\ Same /\ loop' # "jobs"
    BY <1>14 DEF SaveUnlock, SaveEnd, Exit
  <2>2. FileComplete'
    BY <1>2, <1>5, <1>14 DEF SaveUnlock, SaveEnd, Exit, FileComplete, Unsaved, Down,
                             Recorded
  <2> QED BY <1>2, <1>3, <1>6, <2>1, <2>2
<1> QED BY <1>8, <1>9, <1>10, <1>11, <1>12, <1>13, <1>14 DEF LoopStep

\* The process ends wherever it is.
LEMMA FileCrash ==
  ASSUME FileInv, Crash
  PROVE  FileInv'
<1> USE DEF FileInv, FileOK, historyVars
<1>1. /\ QueueInv'
      /\ UNCHANGED <<job_state, num_documents, is_canceled, active_jobs,
                     next_job_id>>
  BY SameQueue DEF Crash
<1>2. TypeOK /\ next_job_id \in Nat /\ next_job_id >= 1
  BY Bounds DEF QueueInv, TypeOK, JobType
<1>3. /\ state_file' \in FileType
      /\ \A j \in Jobs : state_file'.jobs[j] \in {NoRecord, state_file.jobs[j]}
      /\ state_file'.next \in {1, state_file.next}
      /\ \A j \in Jobs : state_file'.jobs[j] # NoRecord =>
                           state_file'.next = state_file.next
  <2>1. state_file' \in OnDisk(state_file) \/ state_file' = state_file
    BY DEF Crash
  <2> QED BY <1>2, <2>1, OnDiskFacts
<1>4. loop' = "killed" /\ left' = {} /\ UNCHANGED <<attrs, spool>>
  BY DEF Crash
<1>5. FileOK'
  BY <1>3 DEF Crash
<1>6. FileNumbers' /\ FileLive'
  BY <1>1, <1>2, <1>3, <1>4 DEF FileNumbers, FileLive, Recorded
<1>7. FileAttrs' /\ FileSpool'
  <2>1. \A j \in Jobs : state_file'.jobs[j].docs > 0 =>
                          state_file'.jobs[j] = state_file.jobs[j]
    BY <1>3 DEF NoRecord
  <2> QED BY <1>1, <1>4, <2>1 DEF FileAttrs, FileSpool, Printable
<1>8. FileComplete' /\ CompletedNotCanceled'
  BY <1>1, <1>4 DEF FileComplete, Unsaved, Down, CompletedNotCanceled
<1> QED BY <1>1, <1>5, <1>6, <1>7, <1>8

\* What is loaded for printing is in the file with its documents, which are on
\* disk.
LEMMA LoadedPrintable ==
  ASSUME FileOK, NEW j \in Jobs, LoadedState(j) \in Unfinished
  PROVE  j \in spool /\ Printable(j) /\ LoadedState(j) = state_file.jobs[j].state
<1>1. state_file.jobs[j].docs \in Nat
  BY Bounds DEF FileOK, FileType, RecordType
<1> QED BY <1>1 DEF LoadedState, DocsFound, Printable, Unfinished, Ends, Terminal

\* What is loaded is as the file says.
LEMMA FileLoad ==
  ASSUME FileInv, Load
  PROVE  FileInv'
<1> USE DEF FileInv, FileOK
<1>1. /\ job_state' = [j \in Jobs |-> IF j \in Reached THEN LoadedState(j) ELSE "none"]
      /\ num_documents' = [j \in Jobs |-> IF j \in Reached THEN DocsFound(j) ELSE 0]
      /\ active_jobs' = Reached \cap LoadedActive
      /\ completed_jobs' = [j \in Jobs |->
           IF j \in Reached /\ LoadedState(j) \notin Unfinished THEN 1 ELSE 0]
      /\ next_job_id' = state_file.next
      /\ is_canceled' = {} /\ unmarked' = {} /\ loop' = "idle"
      /\ UNCHANGED <<left, state_file, attrs, spool, missed>>
  BY DEF Load, diskVars
<1>2. ASSUME NEW j \in Jobs
      PROVE  /\ LoadedState(j) \in JobStates
             /\ DocsFound(j) \in 0 .. MaxDocs
             /\ Recorded(j) => LoadedState(j) \notin {"none", "freed"}
             /\ LoadedState(j) = "completed" => state_file.jobs[j].state = "completed"
  <2>1. state_file.jobs[j] \in RecordType
    BY DEF FileType
  <2>2. DocsFound(j) \in 0 .. MaxDocs
    BY <2>1, Bounds DEF DocsFound, RecordType
  <2> QED BY <2>1, <2>2 DEF LoadedState, RecordType, JobStates, FileLive, Ends, Terminal
<1>3. Reached \subseteq Jobs /\ \A j \in Reached : Recorded(j)
  BY DEF Reached
<1>4. TypeOK'
  <2>1. JobType'
    <3>1. hold_specified' \subseteq Jobs /\ fd_open' = {} /\ hold_until' = [j \in Jobs |-> "none"]
      BY <1>3 DEF Load
    <3>2. job_completed' = [j \in Jobs |-> IF j \in Reached THEN state_file.jobs[j].ended
                                                            ELSE "none"]
      BY DEF Load
    <3>3. \A j \in Jobs : state_file.jobs[j].ended \in {"none", "recent", "old"}
      BY DEF FileType, RecordType
    <3>4. state_file.next \in 1 .. MaxJobs + 1
      BY DEF FileType
    <3>5. "none" \in JobStates /\ 0 \in 0 .. MaxDocs
      BY Bounds DEF JobStates
    <3>6. /\ job_state' \in [Jobs -> JobStates] /\ num_documents' \in [Jobs -> 0 .. MaxDocs]
          /\ job_completed' \in [Jobs -> {"none", "recent", "old"}]
      BY <1>1, <1>2, <3>2, <3>3, <3>5
    <3> QED BY <1>1, <3>1, <3>4, <3>6 DEF JobType
  <2>2. ListType'
    BY <1>1, <1>3 DEF Load, ListType
  <2>3. PrinterType'
    BY DEF Load, PrinterType, FileType
  <2>4. ThreadType' /\ ClientType'
    BY DEF Load, ThreadType, ClientType, ThreadPcs, ClientPcs
  <2> QED BY <2>1, <2>2, <2>3, <2>4 DEF TypeOK
<1>5. \A j \in Jobs : Exists(j)' <=> j \in Reached
  BY <1>1, <1>2, <1>3 DEF Exists
<1>6. ListedExist'
  BY <1>1, <1>5 DEF ListedExist, LoadedActive
<1>7. Fresh' /\ FileNumbers'
  <2>1. state_file.next \in Nat
    BY Bounds DEF FileType
  <2>2. \A j \in Jobs : j >= state_file.next => j \notin Reached
    BY <1>3, <2>1, Bounds DEF FileNumbers, Jobs
  <2> QED BY <1>1, <2>1, <2>2 DEF Fresh, FileNumbers, Recorded
<1>8. FileLive' /\ CompletedNotCanceled'
  BY <1>1 DEF FileLive, CompletedNotCanceled, Recorded
<1>9. FileAttrs'
  BY <1>1 DEF FileAttrs, Printable, LoadedActive
<1>10. FileSpool'
  <2> SUFFICES ASSUME NEW j \in spool, state_file.jobs[j].docs > 0
               PROVE  num_documents'[j] > 0 \/ job_state'[j] = "none"
    BY <1>1 DEF FileSpool
  <2> QED BY <1>1 DEF DocsFound
<1>11. FileComplete'
  <2> SUFFICES ASSUME NEW j \in Jobs
               PROVE  /\ Exists(j)' => Recorded(j)'
                      /\ job_state'[j] = "completed" =>
                           state_file'.jobs[j].state = "completed"
    BY DEF FileComplete
  <2> QED BY <1>1, <1>2, <1>3, <1>5 DEF Recorded
<1>12. FileOK'
  <2>1. restarts' = restarts + 1 /\ dirty' = FALSE
    BY DEF Load
  <2>2. /\ loop' = "idle" /\ left' = left /\ unmarked' = {} /\ attrs' = attrs
        /\ spool' = spool /\ state_file' = state_file /\ missed' = missed
    BY <1>1
  <2>3. restarts' \in Nat
    BY <2>1
  <2>4. missed \in BOOLEAN
    OBVIOUS
  <2>5. {dirty', missed'} \subseteq BOOLEAN
    BY <2>1, <2>2, <2>4
  <2> QED BY <2>2, <2>3, <2>5
<1> QED BY <1>4, <1>6, <1>7, <1>8, <1>9, <1>10, <1>11, <1>12 DEF QueueInv

\* So every step keeps the file's invariant.
LEMMA FileStep ==
  ASSUME FileInv, [RestartNext]_restartVars
  PROVE  FileInv'
<1>1. CASE UNCHANGED restartVars
  <2>1. QueueInv' /\ UNCHANGED <<job_state, num_documents, is_canceled, active_jobs,
                                 next_job_id, is_running, crashed>>
    BY <1>1, SameQueue DEF restartVars, FileInv
  <2> QED BY <1>1, <2>1 DEF restartVars, diskVars, historyVars, FileInv, FileOK,
       FileNumbers, FileLive, FileAttrs, FileSpool, FileComplete,
       CompletedNotCanceled, Recorded, Printable, Unsaved, Down, Exists
<1> QED BY <1>1, FileQueue, FileLoop, FileCrash, FileLoad DEF RestartNext

-----------------------------------------------------------------------------
(* Where no document is sent for a job that may have been canceled since.  *)

\* At first no client uploads anything.
LEMMA SenderInit == RestartInit => SenderInv
<1> SUFFICES ASSUME RestartInit PROVE SenderInv
  OBVIOUS
<1>1. FileInv /\ NoneUnlisted
  BY FileInit, ListInit DEF RestartInit, ListInv
<1>2. /\ spool = {} /\ \A c \in Clients : cpc[c] = "idle"
      /\ \A j \in Jobs : num_documents[j] = 0
  BY DEF RestartInit, Init
<1> QED BY <1>1, <1>2 DEF SenderInv, UploadsFirst, AttrsKept, Uploading

\* A step of the queue: a job that is filled has no documents in the file.
LEMMA SenderQueue ==
  ASSUME OneSender, SenderInv, Queue
  PROVE  SenderInv'
<1> USE DEF SenderInv
<1>1. FileInv' /\ NoneUnlisted' /\ StepFacts /\ UploadFacts /\ NumberFacts
  BY FileQueue, QueueKeeps
<1>2. /\ spool' = (spool \cup Filled) \ Removed
      /\ attrs' = IF MultiDocument THEN attrs ELSE attrs \ Removed
      /\ state_file' = state_file
  BY DEF Queue
<1>3. \A j \in Jobs : num_documents[j] \in Nat /\ num_documents'[j] \in Nat
  BY <1>1, Bounds DEF FileInv, QueueInv, TypeOK, JobType
<1>4. /\ next_job_id \in Nat /\ next_job_id' \in Nat /\ state_file.next \in Nat
      /\ next_job_id <= next_job_id'
  BY <1>1, Bounds DEF FileInv, FileOK, FileType, QueueInv, TypeOK, JobType,
                      NumberFacts, Jobs
<1>5. ASSUME "send-document" \notin Requests PROVE UploadsFirst'
  <2> USE <1>5
  <2>1. ASSUME NEW j \in Jobs, num_documents'[j] > num_documents[j]
        PROVE  /\ Exists(j)
               /\ \E b \in Clients : Uploading(b) /\ cjob[b] = j /\ ~Uploading(b)'
    BY <1>1, <2>1 DEF UploadFacts, Uploading
  <2>2. ASSUME NEW j \in Jobs, job_state'[j] = "none" PROVE num_documents'[j] = 0
    <3>1. job_state[j] = "none" /\ num_documents[j] = 0
      BY <1>1, <2>2 DEF NumberFacts, UploadsFirst
    <3> QED BY <1>3, <2>1, <3>1 DEF Exists
  <2> DEFINE Earlier(c) == Uploading(c) /\ cjob'[c] = cjob[c]
             New(c) == /\ cjob'[c] = next_job_id /\ next_job_id' # next_job_id
                       /\ \A b \in Clients : b # c => cpc'[b] = cpc[b] /\ cjob'[b] = cjob[b]
  <2>3. \A c \in Clients : Uploading(c)' => Earlier(c) \/ New(c)
    BY <1>1 DEF UploadFacts
  <2>4. ASSUME NEW c \in Clients, Uploading(c)'
        PROVE  /\ cjob'[c] \in Jobs /\ cjob'[c] < next_job_id'
               /\ num_documents'[cjob'[c]] = 0
               /\ state_file.jobs[cjob'[c]].docs = 0
    <3>1. CASE Earlier(c)
      <4>1. /\ cjob[c] \in Jobs /\ cjob[c] < next_job_id
            /\ num_documents[cjob[c]] = 0 /\ state_file.jobs[cjob[c]].docs = 0
        BY <3>1 DEF UploadsFirst
      <4>2. ~(num_documents'[cjob[c]] > 0)
        <5> SUFFICES ASSUME num_documents'[cjob[c]] > 0 PROVE FALSE
          OBVIOUS
        <5>1. PICK b \in Clients : Uploading(b) /\ cjob[b] = cjob[c] /\ ~Uploading(b)'
          BY <2>1, <4>1
        <5>2. b # c
          BY <2>4, <5>1
        <5> QED BY <3>1, <5>1, <5>2 DEF UploadsFirst
      <4>3. num_documents'[cjob[c]] = 0
        BY <1>3, <4>1, <4>2
      <4>4. cjob[c] < next_job_id'
        BY <1>4, <4>1 DEF Jobs
      <4> QED BY <3>1, <4>1, <4>3, <4>4
    <3>2. CASE New(c)
      <4>1. /\ next_job_id \in Jobs /\ next_job_id' = next_job_id + 1
            /\ job_state[next_job_id] = "none"
        BY <1>1, <3>2 DEF NumberFacts
      <4>2. num_documents[next_job_id] = 0
        BY <4>1 DEF UploadsFirst
      <4>3. num_documents'[next_job_id] = 0
        BY <1>3, <2>1, <4>1, <4>2 DEF Exists
      <4>4. ~Recorded(next_job_id)
        BY <1>4, <4>1 DEF FileInv, FileNumbers
      <4> QED BY <1>4, <3>2, <4>1, <4>3, <4>4 DEF Recorded, NoRecord
    <3> QED BY <2>3, <2>4, <3>1, <3>2
  <2>5. ASSUME NEW b \in Clients, NEW c \in Clients, b # c,
               Uploading(b)', Uploading(c)', New(c)
        PROVE  cjob'[b] # cjob'[c]
    <3>1. Uploading(b) /\ cjob'[b] = cjob[b]
      BY <2>5 DEF Uploading
    <3>2. cjob[b] \in Jobs /\ cjob[b] < next_job_id
      BY <3>1 DEF UploadsFirst
    <3> QED BY <1>4, <2>5, <3>1, <3>2 DEF Jobs
  <2>6. ASSUME NEW b \in Clients, NEW c \in Clients, b # c,
               Uploading(b)', Uploading(c)'
        PROVE  cjob'[b] # cjob'[c]
    <3>1. CASE New(b) \/ New(c)
      BY <2>5, <2>6, <3>1
    <3>2. CASE Earlier(b) /\ Earlier(c)
      BY <2>6, <3>2 DEF UploadsFirst
    <3> QED BY <2>3, <2>6, <3>1, <3>2
  <2> HIDE DEF Earlier, New
  <2> QED BY <1>2, <2>2, <2>4, <2>6 DEF UploadsFirst
<1>6. AttrsKept'
  <2> SUFFICES ASSUME NEW j \in spool', Printable(j) PROVE j \in attrs'
    BY <1>2 DEF AttrsKept, Printable
  <2>1. j \in Jobs
    BY <1>1 DEF FileInv, FileOK
  <2>2. CASE MultiDocument
    BY <1>2, <2>1, <2>2 DEF FileInv, FileAttrs
  <2>3. CASE ~MultiDocument
    <3>1. j \notin Filled
      <4> SUFFICES ASSUME num_documents'[j] > num_documents[j] PROVE FALSE
        BY DEF Filled
      <4>1. PICK c \in Clients : cpc[c] = "submit" /\ cjob[c] = j
        BY <1>1, <2>1 DEF UploadFacts
      <4>2. state_file.jobs[j].docs = 0
        BY <2>3, <4>1 DEF OneSender, UploadsFirst, Uploading
      <4> QED BY <4>2 DEF Printable
    <3> QED BY <1>2, <2>3, <3>1 DEF AttrsKept
  <2> QED BY <2>2, <2>3
<1>7. UploadsFirst'
  BY <1>5 DEF UploadsFirst
<1> QED BY <1>1, <1>6, <1>7

\* The save and the process's end take no attributes from a printable job.
LEMMA SenderLoop ==
  ASSUME SenderInv, LoopStep \/ Crash \/ \E j \in Jobs : ConfigChanged(j)
  PROVE  SenderInv'
<1> USE DEF SenderInv, diskVars
<1>1. FileInv'
  BY FileLoop, FileCrash
<1>2. UNCHANGED vars
  BY DEF LoopStep, ConfigChanged, SaveBegin, SaveFails, SavePrinter, SaveJob,
         SkipJob, SaveUnlock, SaveEnd, Exit, Crash
<1>3. NoneUnlisted' /\ UNCHANGED <<job_state, num_documents, next_job_id, cpc, cjob>>
  BY <1>2, SameQueue DEF FileInv
<1>4. spool' = spool
  BY DEF LoopStep, ConfigChanged, SaveBegin, SaveFails, SavePrinter, SaveJob,
         SkipJob, SaveUnlock, SaveEnd, Exit, Crash
<1>5. spool \subseteq Jobs
  BY DEF FileInv, FileOK
<1>6. ASSUME \A k \in Jobs : \/ state_file'.jobs[k] = state_file.jobs[k]
                             \/ state_file'.jobs[k].docs = 0,
             attrs' = attrs
      PROVE  SenderInv'
  <2>1. UploadsFirst'
    BY <1>3, <1>6 DEF UploadsFirst, Uploading
  <2>2. AttrsKept'
    BY <1>4, <1>5, <1>6 DEF AttrsKept, Printable
  <2> QED BY <1>1, <1>3, <2>1, <2>2
<1>7. CASE SaveBegin \/ SavePrinter
  <2>1. state_file' \in {NoFile, Header}
    BY <1>7 DEF SaveBegin, SavePrinter
  <2>2. Header.jobs = NoFile.jobs
    BY DEF Header, HeaderWithoutNext, NoFile
  <2>3. \A k \in Jobs : NoFile.jobs[k].docs = 0
    BY DEF NoFile, NoRecord
  <2> QED BY <1>6, <1>7, <2>1, <2>2, <2>3 DEF SaveBegin, SavePrinter
<1>8. ASSUME NEW j \in Jobs, SaveJob(j) PROVE SenderInv'
  <2>1. /\ state_file' = [state_file EXCEPT !.jobs[j] = Record(j)]
        /\ attrs' = IF job_state[j] \in Unfinished THEN attrs \cup {j}
                                                   ELSE attrs \ {j}
    BY <1>8 DEF SaveJob
  <2>2. \A k \in Jobs : state_file'.jobs[k] = IF k = j THEN Record(j)
                                              ELSE state_file.jobs[k]
    BY <2>1 DEF FileInv, FileOK, FileType
  <2>3. Record(j).state = (IF j \in is_canceled THEN "canceled" ELSE job_state[j])
        /\ Record(j).docs = num_documents[j]
    BY DEF Record
  <2>4. UploadsFirst'
    BY <1>3, <2>2, <2>3 DEF UploadsFirst, Uploading
  <2>5. AttrsKept'
    BY <1>4, <1>5, <2>1, <2>2, <2>3 DEF AttrsKept, Printable, Unfinished
  <2> QED BY <1>1, <1>3, <2>4, <2>5
<1>9. CASE Crash
  <2>1. state_file' = state_file \/ state_file' \in OnDisk(state_file)
    BY <1>9 DEF Crash
  <2>2. \A k \in Jobs : state_file'.jobs[k] \in {NoRecord, state_file.jobs[k]}
    BY <2>1, OnDiskFacts DEF FileInv, FileOK, QueueInv
  <2> QED BY <1>6, <1>9, <2>2 DEF Crash, NoRecord
<1>10. CASE SaveFails \/ SaveUnlock \/ SaveEnd \/ Exit
            \/ \E j \in Jobs : SkipJob(j) \/ ConfigChanged(j)
  BY <1>6, <1>10 DEF SaveFails, SaveUnlock, SaveEnd, Exit, SkipJob, ConfigChanged
<1> QED BY <1>7, <1>8, <1>9, <1>10 DEF LoopStep

\* What is loaded is in a list.
LEMMA SenderLoad ==
  ASSUME SenderInv, Load
  PROVE  SenderInv'
<1> USE DEF SenderInv
<1>1. FileInv' /\ FileOK
  BY FileLoad DEF FileInv
<1>2. /\ job_state' = [j \in Jobs |-> IF j \in Reached THEN LoadedState(j) ELSE "none"]
      /\ num_documents' = [j \in Jobs |-> IF j \in Reached THEN DocsFound(j) ELSE 0]
      /\ active_jobs' = Reached \cap LoadedActive
      /\ completed_jobs' = [j \in Jobs |->
           IF j \in Reached /\ LoadedState(j) \notin Unfinished THEN 1 ELSE 0]
      /\ cpc' = [c \in Clients |-> "idle"]
      /\ UNCHANGED <<state_file, attrs, spool>>
  BY DEF Load, diskVars
<1>3. UploadsFirst'
  <2>1. \A j \in Reached : LoadedState(j) # "none"
    BY DEF Reached, FileInv, FileLive, LoadedState
  <2> QED BY <1>2, <2>1 DEF UploadsFirst, Uploading
<1>4. AttrsKept'
  BY <1>2 DEF AttrsKept, Printable
<1>5. NoneUnlisted'
  <2> SUFFICES ASSUME NEW j \in Jobs, Exists(j)'
               PROVE  j \in active_jobs' \/ completed_jobs'[j] > 0
    BY DEF NoneUnlisted
  <2>1. j \in Reached /\ Recorded(j)
    BY <1>2 DEF Exists, Reached
  <2>2. CASE LoadedState(j) \in Unfinished
    <3>1. j \in attrs
      BY <1>1, <2>2, LoadedPrintable DEF AttrsKept
    <3> QED BY <1>2, <2>1, <2>2, <3>1 DEF LoadedActive
  <2>3. CASE LoadedState(j) \notin Unfinished
    BY <1>2, <2>1, <2>3
  <2> QED BY <2>2, <2>3
<1> QED BY <1>1, <1>3, <1>4, <1>5

\* So every step keeps the invariant.
LEMMA SenderStep ==
  ASSUME OneSender, SenderInv, [RestartNext]_restartVars
  PROVE  SenderInv'
<1>1. CASE UNCHANGED restartVars
  <2>1. FileInv'
    BY <1>1, FileStep DEF SenderInv
  <2>2. NoneUnlisted' /\ UNCHANGED <<job_state, num_documents, next_job_id, cpc, cjob>>
    BY <1>1, SameQueue DEF restartVars, FileInv, SenderInv
  <2>3. UNCHANGED <<state_file, attrs, spool>>
    BY <1>1 DEF restartVars, diskVars
  <2> QED BY <2>1, <2>2, <2>3 DEF SenderInv, UploadsFirst, Uploading, AttrsKept, Printable
<1> QED BY <1>1, SenderQueue, SenderLoop, SenderLoad DEF RestartNext

-----------------------------------------------------------------------------
(* What follows.                                                           *)

\* A job that could be loaded and is not has as many newer ones loaded as the
\* printer takes.
LEMMA LimitReached ==
  ASSUME NEW A \in SUBSET Jobs, NEW j \in A, MaxActive > 0,
         Cardinality({k \in A : k > j}) >= MaxActive
  PROVE  Cardinality({k \in A : k > j /\ Cardinality({m \in A : m > k}) < MaxActive})
           >= MaxActive
<1> DEFINE newer(k) == {m \in A : m > k}
           R == {k \in A : k > j /\ Cardinality(newer(k)) < MaxActive}
           B == newer(j) \ R
<1>1. MaxActive \in Nat /\ \A m \in Jobs : m \in Nat
  BY ConstantsAssumption, Bounds DEF ConstantsAssumption, Jobs
<1>2. /\ \A k \in A : Cardinality(newer(k)) \in Nat
      /\ IsFiniteSet(R) /\ Cardinality(R) \in Nat
  <2>1. IsFiniteSet(1 .. MaxJobs)
    BY FS_Interval, Bounds
  <2>2. \A S \in SUBSET Jobs : IsFiniteSet(S) /\ Cardinality(S) \in Nat
    BY <2>1, FS_Subset, FS_CardinalityType DEF Jobs
  <2>3. R \in SUBSET Jobs /\ \A k \in A : newer(k) \in SUBSET Jobs
    OBVIOUS
  <2> QED BY <2>2, <2>3
<1>3. CASE B = {}
  <2>1. newer(j) = R
    BY <1>3
  <2> QED BY <2>1
<1>4. CASE B # {}
  <2>1. PICK b \in B : \A k \in B : k <= b
    BY <1>4, Largest
  <2>2. b \in A /\ b > j /\ b \notin R
    OBVIOUS
  <2>3. Cardinality(newer(b)) >= MaxActive
    BY <1>1, <1>2, <2>2
  <2>4. newer(b) \subseteq R
    BY <1>1, <2>1, <2>2
  <2>5. Cardinality(newer(b)) <= Cardinality(R)
    BY <1>2, <2>4, FS_Subset
  <2> QED BY <1>1, <1>2, <2>2, <2>3, <2>5
<1> QED BY <1>3, <1>4

\* Only Load starts the process again.
LEMMA OnlyLoadStarts ==
  ASSUME [RestartNext]_restartVars, Down, ~Down'
  PROVE  Load
  BY DEF RestartNext, Queue, ConfigChanged, LoopStep, SaveBegin, SaveFails,
         SavePrinter, SaveJob, SkipJob, SaveUnlock, SaveEnd, Exit, Crash, Down,
         restartVars

\* The file's invariant, in every state of every execution.
THEOREM FileAlways == RestartSpec => []FileInv
<1>1. FileInv /\ [RestartNext]_restartVars => FileInv'
  BY FileStep
<1> QED BY <1>1, FileInit, PTL DEF RestartSpec

\* Every variable has its type, after any number of restarts, from any file.
THEOREM RestartTypes == RestartSpec => []RestartTypeOK
<1>1. FileInv => RestartTypeOK
  BY DEF FileInv, FileOK, QueueInv, RestartTypeOK
<1> QED BY <1>1, FileAlways, PTL

\* A number in the file is below the next one, as is that of every job there
\* is: no number is given twice (papplSystemLoadState, _papplJobCreate).
THEOREM NumbersAlwaysFresh == RestartSpec => []NumbersFresh
<1>1. FileInv => NumbersFresh
  <2> SUFFICES ASSUME FileInv PROVE NumbersFresh
    OBVIOUS
  <2>1. next_job_id \in Nat
    BY Bounds DEF FileInv, QueueInv, TypeOK, JobType
  <2>2. \A j \in Jobs : Exists(j) => j < next_job_id
    BY <2>1, Bounds DEF FileInv, QueueInv, Fresh, Exists, Jobs
  <2> QED BY <2>2 DEF FileInv, FileNumbers, NumbersFresh
<1> QED BY <1>1, FileAlways, PTL

\* When no change is left to be saved, every job is in the file, and one that
\* was printed is there as printed (_papplSystemConfigChanged, save_changes).
THEOREM NothingIsForgotten == RestartSpec => []NothingForgotten
<1>1. FileInv => NothingForgotten
  BY DEF FileInv, FileComplete, Unsaved, Down, NothingForgotten
<1> QED BY <1>1, FileAlways, PTL

\* A job that lost its documents when it was completed or canceled is not
\* loaded to be printed, from however old a file (papplSystemLoadState looks
\* for the documents).
THEOREM NeverPrintedAgain == RestartSpec => NotPrintedAgain
<1>1. ASSUME FileInv, [RestartNext]_restartVars
      PROVE  [Down /\ ~Down' =>
               \A j \in Jobs :
                 (job_state[j] \in {"completed", "canceled"} /\ num_documents[j] = 0)
                   => j \notin active_jobs']_restartVars
  <2> SUFFICES ASSUME Down, ~Down', NEW j \in Jobs, num_documents[j] = 0,
                      job_state[j] # "none", j \in active_jobs'
               PROVE  FALSE
    OBVIOUS
  <2>1. Load
    BY <1>1, OnlyLoadStarts
  <2>2. LoadedState(j) \in Unfinished
    BY <2>1 DEF Load, LoadedActive
  <2>3. j \in spool /\ Printable(j)
    BY <1>1, <2>2, LoadedPrintable DEF FileInv
  <2> QED BY <1>1, <2>3 DEF FileInv, FileSpool, Printable
<1> QED BY <1>1, FileAlways, PTL DEF RestartSpec, NotPrintedAgain

\* A job that waits and is in the file with its documents waits after a restart,
\* or as many newer ones were loaded as the printer takes.
THEOREM SavedWorkIsKept == RestartSpec => SavedWorkKept
<1> DEFINE Kept(j) ==
      \/ j \in active_jobs' /\ Before(job_state'[j])
      \/ /\ MaxActive > 0
         /\ Cardinality({k \in active_jobs' : k > j}) >= MaxActive
<1>1. ASSUME FileInv, Load, NEW j \in active_jobs, j \in spool,
             state_file.jobs[j].docs > 0, Before(state_file.jobs[j].state)
      PROVE  Kept(j)
  <2>1. j \in Jobs /\ Printable(j) /\ Recorded(j)
    BY <1>1, PrintableRecorded DEF FileInv, QueueInv, TypeOK, ListType, Printable,
                                   Before, Unfinished
  <2>2. j \in attrs
    BY <1>1, <2>1 DEF FileInv, FileAttrs
  <2>3. LoadedState(j) = state_file.jobs[j].state
    BY <1>1 DEF LoadedState, DocsFound
  <2>4. j \in LoadedActive
    BY <2>1, <2>2, <2>3 DEF LoadedActive, Printable
  <2>5. /\ active_jobs' = Reached \cap LoadedActive
        /\ job_state' = [k \in Jobs |-> IF k \in Reached THEN LoadedState(k) ELSE "none"]
    BY <1>1 DEF Load
  <2>6. CASE j \in Reached
    BY <1>1, <2>1, <2>3, <2>4, <2>5, <2>6
  <2>7. CASE j \notin Reached
    <3> DEFINE newer(k) == {m \in LoadedActive : m > k}
    <3>1. LoadedActive \in SUBSET Jobs /\ \A k \in LoadedActive : Recorded(k)
      BY DEF LoadedActive
    <3>2. MaxActive # 0 /\ ~(Cardinality(newer(j)) < MaxActive)
      BY <2>1, <2>7 DEF Reached
    <3>3. MaxActive \in Nat /\ Cardinality(newer(j)) \in Nat
      <4>1. IsFiniteSet(1 .. MaxJobs)
        BY FS_Interval, Bounds
      <4>2. newer(j) \in SUBSET (1 .. MaxJobs)
        BY <3>1 DEF Jobs
      <4>3. IsFiniteSet(newer(j))
        BY <4>1, <4>2, FS_Subset
      <4> HIDE DEF newer
      <4> QED BY <4>3, FS_CardinalityType, ConstantsAssumption DEF ConstantsAssumption
    <3>4. {k \in active_jobs' : k > j} =
            {k \in LoadedActive : k > j /\ Cardinality(newer(k)) < MaxActive}
      BY <2>5, <3>1, <3>2 DEF Reached
    <3>5. MaxActive > 0 /\ Cardinality(newer(j)) >= MaxActive
      BY <3>2, <3>3
    <3> QED BY <2>4, <3>1, <3>4, <3>5, LimitReached
  <2> QED BY <2>6, <2>7
<1>2. ASSUME FileInv, [RestartNext]_restartVars
      PROVE  [Down /\ ~Down' =>
               \A j \in active_jobs :
                 (/\ Before(job_state[j]) /\ j \in spool
                  /\ state_file.jobs[j].docs > 0 /\ Before(state_file.jobs[j].state))
                   => \/ j \in active_jobs' /\ Before(job_state'[j])
                      \/ /\ MaxActive > 0
                         /\ Cardinality({k \in active_jobs' : k > j}) >= MaxActive]_restartVars
  BY <1>1, <1>2, OnlyLoadStarts
<1> QED BY <1>2, FileAlways, PTL DEF RestartSpec, SavedWorkKept

\* Where no document can be sent for a job that has been canceled, what the
\* file and the documents make printable has its attributes on disk, and no job
\* falls out of the printer's lists, whatever the process's end has left.
THEOREM SenderAlways == OneSender /\ RestartSpec => []SenderInv
<1>1. OneSender /\ SenderInv /\ [RestartNext]_restartVars => SenderInv'
  BY SenderStep
<1>2. CASE OneSender
  BY <1>1, <1>2, SenderInit, PTL DEF RestartSpec
<1> QED BY <1>2

\* A job that can be loaded has its attributes (write_job_attrs,
\* papplSystemLoadState).
THEOREM AttrsAreThere == OneSender /\ RestartSpec => []AttrsThere
<1>1. SenderInv => AttrsThere
  BY LoadedPrintable DEF SenderInv, FileInv, AttrsKept, AttrsThere
<1> QED BY <1>1, SenderAlways, PTL

\* A job that exists is in one list, after any number of restarts.
THEOREM ListsAgreeAfterRestart == OneSender /\ RestartSpec => []ListsAgree
<1>1. SenderInv => ListsAgree
  BY Halves DEF SenderInv, FileInv, QueueInv
<1> QED BY <1>1, SenderAlways, PTL
=============================================================================
