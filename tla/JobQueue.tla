------------------------------ MODULE JobQueue ------------------------------
(***************************************************************************)
(* One printer of PAPPL, its job queue, its output device, the threads     *)
(* that print its jobs and the client threads that act on it.              *)
(*                                                                         *)
(* Every action is one critical section of the code: what a thread does    *)
(* between taking the printer's (and the job's) lock and letting go of it. *)
(* A handler made of several sections has a program counter, so that the   *)
(* steps of other threads fall between them as they may in the program.    *)
(*                                                                         *)
(* An execution is followed up to the first access to freed memory or the  *)
(* first reuse of a live thread's stack; then `crashed` is TRUE and the    *)
(* model stops, since nothing can be said of what the program does next.   *)
(***************************************************************************)
EXTENDS Naturals, FiniteSets

CONSTANTS
  MaxJobs,        \* jobs created in one execution (a bound of the model)
  MaxEntries,     \* entries of one job in completed_jobs past which no client
                  \* cancels it again (a bound of the model)
  Threads,        \* slots for job processing threads (a bound of the model)
  StaticThread,   \* TRUE: the Zephyr build, one static stack and thread object
  Clients,        \* client threads inside a handler of several sections
  MaxActive,      \* printer->max_active_jobs, 0 for no limit
  MaxCompleted,   \* printer->max_completed_jobs, 0 for no limit
  MaxPreserved,   \* printer->max_preserved_jobs
  MaxDocs,        \* _PAPPL_MAX_DOCUMENTS
  MultiDocument,  \* PAPPL_SOPTIONS_MULTI_DOCUMENT_JOBS
  KeepOpen,       \* driver_data.keep_device_open, for a device that is no file
  SpawnMayFail,   \* thread creation may fail
  OpenMayFail,    \* papplDeviceOpen may fail
  Infrastructure, \* printer->output_devices: jobs wait for a proxy to fetch them
  Requests,       \* the requests the environment makes of the printer
  HoldOptions     \* "job-hold-until" values that clients send

AllRequests ==
  {"create-job", "print-job", "print-file", "send-document", "cancel-job",
   "web-cancel", "cancel-jobs", "hold-job", "release-job", "pause", "resume",
   "hold-new", "release-new", "open-device", "close-device", "suspend-job",
   "resume-job", "delete-printer", "clean-jobs", "shutdown"}

\* What a "job-hold-until[-time]" value leaves in a job: hold_until and
\* whether job-hold-until-specified is among its reasons.
HoldKinds ==
  { [until |-> "none",   specified |-> FALSE],
    [until |-> "none",   specified |-> TRUE],
    [until |-> "future", specified |-> TRUE],
    [until |-> "past",   specified |-> TRUE] }

ASSUME ConstantsAssumption ==
  /\ MaxJobs \in Nat /\ MaxEntries \in Nat
  /\ MaxActive \in Nat /\ MaxCompleted \in Nat /\ MaxPreserved \in Nat
  /\ MaxDocs \in Nat \ {0}
  /\ {StaticThread, MultiDocument, KeepOpen, SpawnMayFail, OpenMayFail,
      Infrastructure} \subseteq BOOLEAN
  /\ Requests \subseteq AllRequests
  /\ HoldOptions \subseteq HoldKinds

Jobs  == 1 .. MaxJobs          \* job-id values
NoJob == 0

VARIABLES
  job_state,        \* job->state; "none" before creation, "freed" after
  is_canceled,      \* jobs with job->is_canceled
  fd_open,          \* jobs with job->fd >= 0: data is being spooled
  hold_until,       \* job->hold_until: none (0), in the future, past
  hold_specified,   \* jobs with the job-hold-until-specified reason
  num_documents,    \* job->num_documents
  job_completed,    \* job->completed: none (0), recent (60 s or less), old
  active_jobs,      \* printer->active_jobs
  completed_jobs,   \* printer->completed_jobs: entries of each job
  next_job_id,      \* printer->next_job_id
  printer_state,    \* printer->state
  processing_job,   \* printer->processing_job
  is_stopped,       \* printer->is_stopped: stop after the current job
  is_deleted,       \* printer->is_deleted: delete after the current job
  printer_freed,    \* the printer object has been freed
  hold_new_jobs,    \* printer->hold_new_jobs
  device,           \* printer->device is not NULL
  device_in_use,    \* printer->device_in_use: lent to a client
  is_running,       \* system->is_running
  clean_time,       \* system->clean_time: unset, set, due
  tpc, tjob,        \* each processing thread: where it is, its job
  cpc, cjob, clast, \* each client thread: where it is, its job, last_document
  crashed           \* freed memory was used or a live stack reused

jobVars     == <<job_state, is_canceled, fd_open, hold_until, hold_specified,
                 num_documents, job_completed, next_job_id>>
listVars    == <<active_jobs, completed_jobs, clean_time>>
printerVars == <<printer_state, processing_job, is_stopped>>
deviceVars  == <<device, device_in_use>>
flagVars    == <<is_deleted, printer_freed, hold_new_jobs, is_running>>
threadVars  == <<tpc, tjob>>
clientVars  == <<cpc, cjob, clast>>
vars == <<jobVars, listVars, printerVars, deviceVars, flagVars, threadVars,
          clientVars, crashed>>

Terminal  == {"canceled", "aborted", "completed"}
Ends      == Terminal \cup {"beyond"}                \* state >= CANCELED
Before(s) == s \in {"pending", "held", "below"}     \* state < PROCESSING
Exists(j) == job_state[j] \notin {"none", "freed"}
Listed    == {j \in Jobs : completed_jobs[j] > 0}

Init ==
  /\ job_state = [j \in Jobs |-> "none"]
  /\ is_canceled = {} /\ fd_open = {} /\ hold_specified = {}
  /\ hold_until = [j \in Jobs |-> "none"]
  /\ num_documents = [j \in Jobs |-> 0]
  /\ job_completed = [j \in Jobs |-> "none"]
  /\ active_jobs = {} /\ completed_jobs = [j \in Jobs |-> 0]
  /\ next_job_id = 1
  /\ printer_state = "idle" /\ processing_job = NoJob
  /\ is_stopped = FALSE /\ is_deleted = FALSE /\ printer_freed = FALSE
  /\ hold_new_jobs = FALSE /\ device = FALSE /\ device_in_use = FALSE
  /\ is_running = TRUE /\ clean_time = "unset"
  /\ tpc = [t \in Threads |-> "idle"] /\ tjob = [t \in Threads |-> NoJob]
  /\ cpc = [c \in Clients |-> "idle"] /\ cjob = [c \in Clients |-> NoJob]
  /\ clast = [c \in Clients |-> TRUE]
  /\ crashed = FALSE

-----------------------------------------------------------------------------
(* Pieces of the critical sections.                                        *)

\* system->clean_time is set when it is not set yet.
StampClean == clean_time' = IF clean_time = "unset" THEN "set" ELSE clean_time

\* completed_jobs after one more entry for every job of S.
AddEntries(S) ==
  [j \in Jobs |-> completed_jobs[j] + (IF j \in S THEN 1 ELSE 0)]

\* f with the value v for every job of S.
Put(f, S, v) == [j \in Jobs |-> IF j \in S THEN v ELSE f[j]]

\* A thread for job j, when the threads are as pcs says. The Zephyr build
\* gives every thread the same static stack and thread object; elsewhere a
\* slot must be free, which bounds the threads of the model.
Spawn(j, pcs) ==
  \/ \E t \in Threads :
       /\ pcs[t] = "idle"
       /\ tpc' = [pcs EXCEPT ![t] = "start"]
       /\ tjob' = [tjob EXCEPT ![t] = j]
       /\ UNCHANGED crashed
  \/ /\ StaticThread
     /\ \A t \in Threads : pcs[t] # "idle"
     /\ crashed' = TRUE
     /\ tpc' = pcs /\ UNCHANGED tjob

\* The loop of CheckJobs visits the newest job first. A held job whose time
\* is not past is released on the way, and the first pending job is given a
\* thread and ends the loop, so one job at most changes.
CheckJobs(ready, js, hs, pcs) ==
  LET due      == {j \in active_jobs : js[j] = "held"
                                       /\ hold_until[j] = "future"}
      runnable == due \cup {j \in active_jobs : js[j] = "pending"}
  IN  \/ /\ ~ready \/ runnable = {}
         /\ job_state' = js /\ hold_specified' = hs /\ tpc' = pcs
         /\ UNCHANGED <<tjob, job_completed, listVars, crashed>>
      \/ /\ ready
         /\ \E j \in runnable :
              /\ \A k \in runnable : k <= j
              /\ hold_specified' = IF j \in due THEN hs \ {j} ELSE hs
              /\ \/ /\ Spawn(j, pcs)
                    /\ job_state' = [js EXCEPT ![j] = "pending"]
                    /\ UNCHANGED <<job_completed, listVars>>
                 \/ /\ SpawnMayFail
                    /\ job_state' = [js EXCEPT ![j] = "aborted"]
                    /\ job_completed' = [job_completed EXCEPT ![j] = "recent"]
                    /\ active_jobs' = active_jobs \ {j}
                    /\ completed_jobs' = AddEntries({j})
                    /\ StampClean
                    /\ tpc' = pcs /\ UNCHANGED <<tjob, crashed>>

\* The tests CheckJobs makes before its loop.
CanProcess(inUse, pj, ps, stopping) ==
  /\ ~Infrastructure /\ ~is_deleted
  /\ ~inUse /\ pj = NoJob /\ ps # "stopped" /\ ~stopping
Ready == CanProcess(device_in_use, processing_job, printer_state, is_stopped)

\* Cancel every job of S: one that is printed or spooled is only marked.
Marked(S) == {j \in S : \/ job_state[j] = "processing"
                        \/ job_state[j] = "held" /\ j \in fd_open}
Cancel(S) ==
  LET ended == S \ Marked(S)
  IN  /\ is_canceled' = is_canceled \cup Marked(S)
      /\ job_state' = Put(job_state, ended, "canceled")
      /\ job_completed' = Put(job_completed, ended, "recent")
      /\ num_documents' = Put(num_documents, ended, 0)
      /\ active_jobs' = active_jobs \ ended
      /\ completed_jobs' = AddEntries(ended)
      /\ StampClean
      /\ UNCHANGED <<fd_open, hold_until, hold_specified, next_job_id>>

\* Job j is aborted and its list entry moved (abort_job of a failed copy).
Abort(j) ==
  /\ job_state' = [job_state EXCEPT ![j] = "aborted"]
  /\ job_completed' = [job_completed EXCEPT ![j] = "recent"]
  /\ active_jobs' = active_jobs \ {j}
  /\ completed_jobs' = AddEntries({j})
  /\ StampClean
  /\ UNCHANGED <<is_canceled, fd_open, hold_until, hold_specified,
                 num_documents, next_job_id>>

\* The printer exists and the environment may ask for op.
May(op) == op \in Requests /\ ~printer_freed

-----------------------------------------------------------------------------
(* Creating jobs and receiving their documents.                            *)

\* The printer takes one more job. (Mutant: off by one.)
MayAcceptOneMore == MaxActive = 0 \/ Cardinality(active_jobs) <= MaxActive
MayAccept        == MaxActive = 0 \/ Cardinality(active_jobs) < MaxActive

\* _papplJobCreate: refused when the printer has its number of active jobs.
NewJob(hold) ==
  LET j == next_job_id IN
  /\ j \in Jobs
  /\ MayAccept
  /\ next_job_id' = j + 1
  /\ job_state' = [job_state EXCEPT ![j] = "held"]
  /\ hold_until' = [hold_until EXCEPT ![j] = hold.until]
  /\ hold_specified' = IF hold.specified THEN hold_specified \cup {j}
                                         ELSE hold_specified
  /\ active_jobs' = active_jobs \cup {j}
  /\ UNCHANGED <<is_canceled, fd_open, num_documents, job_completed,
                 completed_jobs, clean_time>>

Enter(c, pc, j, last) ==
  /\ cpc[c] = "idle"
  /\ cpc' = [cpc EXCEPT ![c] = pc]
  /\ cjob' = [cjob EXCEPT ![c] = j]
  /\ clast' = [clast EXCEPT ![c] = last]

\* Create-Job: the job waits, held, for Send-Document.
CreateJob ==
  /\ May("create-job")
  /\ \E hold \in HoldOptions : NewJob(hold)
  /\ UNCHANGED <<printerVars, deviceVars, flagVars, threadVars, clientVars,
                 crashed>>

\* Print-Job: the same thread goes on to copy the document.
PrintJob(c) ==
  /\ May("print-job")
  /\ \E hold \in HoldOptions : NewJob(hold)
  /\ Enter(c, "copy", next_job_id, TRUE)
  /\ UNCHANGED <<printerVars, deviceVars, flagVars, threadVars, crashed>>

\* papplJobCreateWithFile: the file is local, nothing is copied.
PrintFile(c) ==
  /\ May("print-file")
  /\ \E hold \in HoldOptions : NewJob(hold)
  /\ Enter(c, "submit", next_job_id, TRUE)
  /\ UNCHANGED <<printerVars, deviceVars, flagVars, threadVars, crashed>>

\* Send-Document: the tests are made without a lock, the copy follows.
SendDocument(c, j) ==
  /\ May("send-document")
  /\ Exists(j) /\ Before(job_state[j])
  /\ MultiDocument \/ (num_documents[j] = 0 /\ j \notin fd_open)
  /\ \E last \in BOOLEAN : Enter(c, "copy", j, last)
  /\ UNCHANGED <<jobVars, listVars, printerVars, deviceVars, flagVars,
                 threadVars, crashed>>

\* Send-Document without data for a job without documents.
SendNothing(j) ==
  /\ May("send-document")
  /\ Exists(j) /\ num_documents[j] = 0
  /\ job_state' = [job_state EXCEPT ![j] = "aborted"]
  /\ UNCHANGED <<is_canceled, fd_open, hold_until, hold_specified,
                 num_documents, job_completed, next_job_id, listVars,
                 printerVars, deviceVars, flagVars, threadVars, clientVars,
                 crashed>>

At(c, pc) == cpc[c] = pc /\ cjob[c] \in Jobs /\ Exists(cjob[c])
Go(c, pc) ==
  /\ cpc' = [cpc EXCEPT ![c] = pc]
  /\ UNCHANGED <<cjob, clast>>
Return(c) ==
  /\ cpc' = [cpc EXCEPT ![c] = "idle"]
  /\ cjob' = [cjob EXCEPT ![c] = NoJob]
  /\ clast' = [clast EXCEPT ![c] = TRUE]

\* The spool file is opened ...
OpenSpool(c) ==
  /\ At(c, "copy")
  /\ \/ /\ fd_open' = fd_open \cup {cjob[c]} /\ Go(c, "receive")
     \/ /\ fd_open' = fd_open \ {cjob[c]} /\ Go(c, "abort")
  /\ UNCHANGED <<job_state, is_canceled, hold_until, hold_specified,
                 num_documents, job_completed, next_job_id, listVars,
                 printerVars, deviceVars, flagVars, threadVars, crashed>>

\* ... and closed when the data has been received, or cannot be.
CloseSpool(c) ==
  /\ At(c, "receive")
  /\ fd_open' = fd_open \ {cjob[c]}
  /\ Go(c, "submit") \/ Go(c, "abort")
  /\ UNCHANGED <<job_state, is_canceled, hold_until, hold_specified,
                 num_documents, job_completed, next_job_id, listVars,
                 printerVars, deviceVars, flagVars, threadVars, crashed>>

\* A copy that failed aborts the job.
AbortCopy(c) ==
  /\ At(c, "abort")
  /\ Abort(cjob[c])
  /\ Return(c)
  /\ UNCHANGED <<printerVars, deviceVars, flagVars, threadVars, crashed>>

\* The job takes one more document. (Mutant: off by one.)
HasRoomForOneMore(j) == num_documents[j] <= MaxDocs
HasRoom(j)           == num_documents[j] < MaxDocs

\* _papplJobSubmitFile, under the job's lock: whatever the state of the job
\* has become, it is pending again unless it is held.
SubmitFile(c) ==
  LET j == cjob[c] IN
  /\ At(c, "submit")
  /\ HasRoom(j)
  /\ num_documents' = [num_documents EXCEPT ![j] = @ + 1]
  /\ IF ~hold_new_jobs /\ j \notin hold_specified /\ clast[c]
     THEN job_state' = [job_state EXCEPT ![j] = "pending"] /\ Go(c, "check")
     ELSE UNCHANGED job_state /\ Return(c)
  /\ UNCHANGED <<is_canceled, fd_open, hold_until, hold_specified,
                 job_completed, next_job_id, listVars, printerVars,
                 deviceVars, flagVars, threadVars, crashed>>

\* Too many documents, or one of unknown format: the state changes under the
\* job's lock ...
RejectFile(c) ==
  /\ At(c, "submit")
  /\ job_state' = [job_state EXCEPT ![cjob[c]] = "aborted"]
  /\ job_completed' = [job_completed EXCEPT ![cjob[c]] = "recent"]
  /\ Go(c, "unlist")
  /\ UNCHANGED <<is_canceled, fd_open, hold_until, hold_specified,
                 num_documents, next_job_id, listVars, printerVars,
                 deviceVars, flagVars, threadVars, crashed>>

\* (Mutant: the job stays among the active ones.)
UnlistFileHalf(c) ==
  /\ At(c, "unlist")
  /\ completed_jobs' = AddEntries({cjob[c]})
  /\ StampClean
  /\ Return(c)
  /\ UNCHANGED <<jobVars, active_jobs, printerVars, deviceVars, flagVars,
                 threadVars, crashed>>

\* ... and the lists later, under the printer's.
UnlistFile(c) ==
  /\ At(c, "unlist")
  /\ active_jobs' = active_jobs \ {cjob[c]}
  /\ completed_jobs' = AddEntries({cjob[c]})
  /\ StampClean
  /\ Return(c)
  /\ UNCHANGED <<jobVars, printerVars, deviceVars, flagVars, threadVars,
                 crashed>>

\* CheckJobs in a section of its own: after SubmitFile and papplJobResume.
CheckAfter(c) ==
  /\ At(c, "check")
  /\ CheckJobs(Ready, job_state, hold_specified, tpc)
  /\ Return(c)
  /\ UNCHANGED <<is_canceled, fd_open, hold_until, num_documents,
                 next_job_id, printerVars, deviceVars, flagVars>>

-----------------------------------------------------------------------------
(* Requests about a job.                                                   *)

\* Cancel-Job reads the state of the job without a lock, refuses a job that
\* has ended, and only then calls papplJobCancel.
CancelRequest(c, j) ==
  /\ May("cancel-job")
  /\ Exists(j) /\ job_state[j] \notin Terminal
  /\ Enter(c, "cancel", j, TRUE)
  /\ UNCHANGED <<jobVars, listVars, printerVars, deviceVars, flagVars,
                 threadVars, crashed>>

\* papplJobCancel, after Cancel-Job's test or straight from the web page,
\* which makes none.
CancelJob(c) ==
  /\ At(c, "cancel")
  /\ Cancel({cjob[c]})
  /\ Return(c)
  /\ UNCHANGED <<printerVars, deviceVars, flagVars, threadVars, crashed>>

WebCancel(j) ==
  /\ May("web-cancel")
  /\ Exists(j) /\ completed_jobs[j] < MaxEntries
  /\ Cancel({j})
  /\ UNCHANGED <<printerVars, deviceVars, flagVars, threadVars, clientVars,
                 crashed>>

\* papplPrinterCancelAllJobs
CancelAllJobs ==
  /\ May("cancel-jobs")
  /\ Cancel(active_jobs)
  /\ UNCHANGED <<printerVars, deviceVars, flagVars, threadVars, clientVars,
                 crashed>>

\* papplJobHold
HoldJob(j) ==
  /\ May("hold-job")
  /\ Exists(j) /\ Before(job_state[j])
  /\ \E hold \in HoldOptions :
       /\ hold_until' = [hold_until EXCEPT ![j] = hold.until]
       /\ hold_specified' = IF hold.specified THEN hold_specified \cup {j}
                                              ELSE hold_specified \ {j}
  /\ job_state' = [job_state EXCEPT ![j] = "held"]
  /\ UNCHANGED <<is_canceled, fd_open, num_documents, job_completed,
                 next_job_id, listVars, printerVars, deviceVars, flagVars,
                 threadVars, clientVars, crashed>>

\* papplJobRelease; the queue is checked whatever the state of the job.
ReleaseJob(j) ==
  /\ May("release-job")
  /\ Exists(j)
  /\ IF job_state[j] = "held"
     THEN CheckJobs(Ready, [job_state EXCEPT ![j] = "pending"],
                    hold_specified \ {j}, tpc)
     ELSE CheckJobs(Ready, job_state, hold_specified, tpc)
  /\ UNCHANGED <<is_canceled, fd_open, hold_until, num_documents,
                 next_job_id, printerVars, deviceVars, flagVars, clientVars>>

\* papplJobSuspend, called by a driver.
SuspendJob(j) ==
  /\ May("suspend-job")
  /\ Before(job_state[j]) \/ job_state[j] = "processing"
  /\ job_state' = [job_state EXCEPT ![j] = "stopped"]
  /\ UNCHANGED <<is_canceled, fd_open, hold_until, hold_specified,
                 num_documents, job_completed, next_job_id, listVars,
                 printerVars, deviceVars, flagVars, threadVars, clientVars,
                 crashed>>

\* (Mutant: the queue is not checked.)
ResumeJobAlone(c, j) ==
  /\ May("resume-job")
  /\ Exists(j) /\ cpc[c] = "idle"
  /\ job_state' = [job_state EXCEPT ![j] = IF @ = "stopped" THEN "pending"
                                                            ELSE @]
  /\ UNCHANGED <<is_canceled, fd_open, hold_until, hold_specified,
                 num_documents, job_completed, next_job_id, listVars,
                 printerVars, deviceVars, flagVars, threadVars, clientVars,
                 crashed>>

\* papplJobResume: the job's section, then CheckAfter.
ResumeJob(c, j) ==
  /\ May("resume-job")
  /\ Exists(j)
  /\ job_state' = [job_state EXCEPT ![j] = IF @ = "stopped" THEN "pending"
                                                            ELSE @]
  /\ Enter(c, "check", j, TRUE)
  /\ UNCHANGED <<is_canceled, fd_open, hold_until, hold_specified,
                 num_documents, job_completed, next_job_id, listVars,
                 printerVars, deviceVars, flagVars, threadVars, crashed>>

-----------------------------------------------------------------------------
(* Requests about the printer.                                             *)

\* (Mutant: an idle printer, too, is told to stop after its job.)
PauseLater ==
  /\ May("pause")
  /\ is_stopped' = TRUE
  /\ UNCHANGED <<jobVars, listVars, printer_state, processing_job, deviceVars,
                 flagVars, threadVars, clientVars, crashed>>

\* papplPrinterPause
Pause ==
  /\ May("pause")
  /\ IF processing_job # NoJob
     THEN is_stopped' = TRUE /\ UNCHANGED printer_state
     ELSE printer_state' = "stopped" /\ UNCHANGED is_stopped
  /\ UNCHANGED <<jobVars, listVars, processing_job, deviceVars, flagVars,
                 threadVars, clientVars, crashed>>

\* papplPrinterResume
Resume ==
  /\ May("resume")
  /\ is_stopped' = FALSE /\ printer_state' = "idle"
  /\ CheckJobs(CanProcess(device_in_use, processing_job, "idle", FALSE),
               job_state, hold_specified, tpc)
  /\ UNCHANGED <<is_canceled, fd_open, hold_until, num_documents,
                 next_job_id, processing_job, deviceVars, flagVars,
                 clientVars>>

\* papplPrinterHoldNewJobs
HoldNewJobs ==
  /\ May("hold-new")
  /\ hold_new_jobs' = TRUE
  /\ UNCHANGED <<jobVars, listVars, printerVars, deviceVars, is_deleted,
                 printer_freed, is_running, threadVars, clientVars, crashed>>

\* papplPrinterReleaseHeldNewJobs: every active job that is held without a
\* time becomes pending.
ReleaseHeldNewJobs ==
  LET released == {j \in active_jobs \ hold_specified :
                     job_state[j] = "held" /\ hold_until[j] = "none"}
  IN  /\ May("release-new")
      /\ hold_new_jobs
      /\ hold_new_jobs' = FALSE
      /\ CheckJobs(Ready /\ released # {},
                   Put(job_state, released, "pending"), hold_specified, tpc)
      /\ UNCHANGED <<is_canceled, fd_open, hold_until, num_documents,
                     next_job_id, printerVars, deviceVars, is_deleted,
                     printer_freed, is_running, clientVars>>

\* papplPrinterOpenDevice: a device kept open for the next job is replaced.
OpenDevice ==
  /\ May("open-device")
  /\ ~device_in_use /\ processing_job = NoJob
  /\ \/ device' = TRUE /\ device_in_use' = TRUE
     \/ OpenMayFail /\ device' = FALSE /\ device_in_use' = FALSE
  /\ UNCHANGED <<jobVars, listVars, printerVars, flagVars, threadVars,
                 clientVars, crashed>>

\* papplPrinterCloseDevice: the queue is checked before the device is
\* closed, within the same section.
CloseDevice ==
  /\ May("close-device")
  /\ device /\ device_in_use
  /\ device_in_use' = FALSE
  /\ device' = (printer_state = "processing")
  /\ CheckJobs(CanProcess(FALSE, processing_job, printer_state, is_stopped),
               job_state, hold_specified, tpc)
  /\ UNCHANGED <<is_canceled, fd_open, hold_until, num_documents,
                 next_job_id, printerVars, flagVars, clientVars>>

\* Delete-Printer: at once when no job is processed ...
DeletePrinter(c) ==
  /\ May("delete-printer")
  /\ IF processing_job = NoJob
     THEN Enter(c, "delete", NoJob, TRUE) /\ UNCHANGED is_deleted
     ELSE is_deleted' = TRUE /\ UNCHANGED clientVars
  /\ UNCHANGED <<jobVars, listVars, printerVars, deviceVars, printer_freed,
                 hold_new_jobs, is_running, threadVars, crashed>>

\* ... by papplPrinterDelete, which marks the printer, waits for its listeners
\* and not for its jobs ...
MarkDeleted(c) ==
  /\ cpc[c] = "delete" /\ ~printer_freed
  /\ is_deleted' = TRUE
  /\ Go(c, "free")
  /\ UNCHANGED <<jobVars, listVars, printerVars, deviceVars, printer_freed,
                 hold_new_jobs, is_running, threadVars, crashed>>

\* ... and frees the jobs with the printer.
FreePrinter ==
  /\ ~printer_freed
  /\ is_deleted' = TRUE /\ printer_freed' = TRUE
  /\ job_state' = [j \in Jobs |->
                     IF Exists(j) THEN "freed" ELSE job_state[j]]
  /\ active_jobs' = {} /\ completed_jobs' = [j \in Jobs |-> 0]
  /\ UNCHANGED <<is_canceled, fd_open, hold_until, hold_specified,
                 num_documents, job_completed, next_job_id, clean_time,
                 printerVars, deviceVars, hold_new_jobs, is_running, crashed>>

DeleteNow(c) ==
  /\ cpc[c] = "free"
  /\ FreePrinter
  /\ Return(c)
  /\ UNCHANGED threadVars

-----------------------------------------------------------------------------
(* The main loop: time, cleaning, shutdown.                                *)

\* The time a job is held until arrives. No code runs when it does.
HoldTimeArrives(j) ==
  /\ job_state[j] = "held" /\ hold_until[j] = "future"
  /\ hold_until' = [hold_until EXCEPT ![j] = "past"]
  /\ UNCHANGED <<job_state, is_canceled, fd_open, hold_specified,
                 num_documents, job_completed, next_job_id, listVars,
                 printerVars, deviceVars, flagVars, threadVars, clientVars,
                 crashed>>

\* A minute goes by, which only CleanJobs can tell: clean_time is due after 60
\* seconds, a job that ended then is old after more than 60.
MinutePasses ==
  /\ May("clean-jobs")
  /\ clean_time = "set" \/ \E j \in Jobs : job_completed[j] = "recent"
  /\ \/ job_completed' = [j \in Jobs |->
          IF job_completed[j] = "recent" THEN "old" ELSE job_completed[j]]
     \/ UNCHANGED job_completed
  /\ clean_time' = IF clean_time = "set" THEN "due" ELSE clean_time
  /\ UNCHANGED <<job_state, is_canceled, fd_open, hold_until,
                 hold_specified, num_documents, next_job_id, active_jobs,
                 completed_jobs, printerVars, deviceVars, flagVars,
                 threadVars, clientVars, crashed>>

\* The entries of completed_jobs, each a job and a number.
Entries == UNION {{j} \X (1 .. completed_jobs[j]) : j \in Jobs}
Old(j)  == job_completed[j] = "old"

\* The list is over its limit when so many entries have been taken out.
\* (Mutant: off by one.)
OverLimitByTwo(taken) == taken + MaxCompleted + 1 < Cardinality(Entries)
OverLimit(taken)      == taken + MaxCompleted < Cardinality(Entries)

\* The jobs that a walk over completed_jobs, newest first, takes out while
\* there are too many. Without preserved jobs the walk ends at the first
\* entry it leaves in.
Purged ==
  {j \in Listed :
     LET newer == {k \in Listed : k > j} IN
     /\ MaxCompleted > 0 /\ Old(j)
     /\ MaxPreserved = 0 => \A k \in newer : Old(k)
     /\ OverLimit(Cardinality({k \in newer : Old(k)}))}

\* The jobs left in the list whose files the walk removes.
Stripped ==
  {j \in Listed \ Purged :
     /\ MaxPreserved > 0 /\ num_documents[j] > 0
     /\ Cardinality({e \in Entries : /\ e[1] >= j /\ e[1] \notin Purged
                                     /\ num_documents[e[1]] > 0})
          > MaxPreserved}

\* papplSystemCleanJobs, from the main loop. Taking a job out frees it; the
\* walk then reads a second entry of the same job.
CleanJobs ==
  /\ May("clean-jobs")
  /\ is_running /\ clean_time = "due"
  /\ clean_time' = "unset"
  /\ job_state' = Put(job_state, Purged, "freed")
  /\ completed_jobs' = [j \in Jobs |-> completed_jobs[j]
                                       - (IF j \in Purged THEN 1 ELSE 0)]
  /\ num_documents' = Put(num_documents, Stripped, 0)
  /\ crashed' = \E j \in Purged : completed_jobs[j] > 1
  /\ UNCHANGED <<is_canceled, fd_open, hold_until, hold_specified,
                 job_completed, next_job_id, active_jobs, printerVars,
                 deviceVars, flagVars, threadVars, clientVars>>

\* The main loop ends: no job is processed any more, or a minute went by
\* since the shutdown was asked for.
StopSystem ==
  /\ "shutdown" \in Requests /\ is_running
  /\ is_running' = FALSE
  /\ UNCHANGED <<jobVars, listVars, printerVars, deviceVars, is_deleted,
                 printer_freed, hold_new_jobs, threadVars, clientVars,
                 crashed>>

-----------------------------------------------------------------------------
(* A job processing thread: _papplJobProcess.                              *)

On(t, pc) == tpc[t] = pc /\ tjob[t] \in Jobs /\ Exists(tjob[t])
Step(t, pc) == tpc' = [tpc EXCEPT ![t] = pc] /\ UNCHANGED tjob

\* The thread stops waiting for the device. (Mutants: one reason is forgotten.)
GiveUpUncanceled(j) == is_deleted \/ ~is_running
GiveUpRunning(j) == is_deleted \/ j \in is_canceled
GiveUp(j) == is_deleted \/ j \in is_canceled \/ ~is_running

\* What start_job does each time it has the printer's lock: wait while the
\* device is lent, then try to open it. js is job_state after the caller's
\* change.
AcquireDevice(t, js) ==
  LET j == tjob[t]
      past == tpc[t] = "wait_open" \/ ~device_in_use \/ GiveUp(j)
  IN
  \/ /\ ~past                                    \* sleep, the device is lent
     /\ Step(t, "wait_use")
     /\ job_state' = js /\ UNCHANGED <<printer_state, device>>
  \/ /\ past /\ ~device /\ ~GiveUp(j) /\ OpenMayFail \* sleep, it did not open
     /\ Step(t, "wait_open")
     /\ printer_state' = IF tpc[t] = "wait_open" THEN printer_state
                                                 ELSE "stopped"
     /\ job_state' = js /\ UNCHANGED device
  \/ /\ past /\ ~is_running                      \* not printed after all
     /\ Step(t, "finish")
     /\ job_state' = [js EXCEPT ![j] = "pending"]
     /\ device' = FALSE /\ UNCHANGED printer_state
  \/ /\ past /\ is_running /\ (device \/ ~GiveUp(j))  \* open: print
     /\ Step(t, "print")
     /\ printer_state' = "processing"
     /\ device' = TRUE
     /\ job_state' = js
  \/ /\ past /\ is_running /\ ~device /\ GiveUp(j)
     /\ Step(t, "finish")
     /\ job_state' = js /\ UNCHANGED <<printer_state, device>>

UnchangedByDevice ==
  UNCHANGED <<is_canceled, fd_open, hold_until, hold_specified,
              num_documents, job_completed, next_job_id, listVars,
              is_stopped, device_in_use, flagVars, clientVars, crashed>>

\* start_job, first section: the job is processed whatever its state is.
StartJob(t) ==
  /\ On(t, "start")
  /\ processing_job' = tjob[t]
  /\ AcquireDevice(t, [job_state EXCEPT ![tjob[t]] = "processing"])
  /\ UnchangedByDevice

\* start_job after a sleep.
RetryDevice(t) ==
  /\ On(t, "wait_use") \/ On(t, "wait_open")
  /\ AcquireDevice(t, job_state)
  /\ UNCHANGED processing_job
  /\ UnchangedByDevice

\* The documents are printed, or the job is aborted; no lock is held.
PrintDocuments(t) ==
  /\ On(t, "print")
  /\ \/ UNCHANGED job_state
     \/ job_state' = [job_state EXCEPT ![tjob[t]] = "aborted"]
  /\ Step(t, "finish")
  /\ UNCHANGED <<is_canceled, fd_open, hold_until, hold_specified,
                 num_documents, job_completed, next_job_id, listVars,
                 printerVars, deviceVars, flagVars, clientVars, crashed>>

\* The state finish_job leaves a job in. (Mutant: a job whose printer is to
\* stop is not taken for completed.)
FinalStateUnlessStopped(j) ==
  IF j \in is_canceled THEN "canceled"
  ELSE IF job_state[j] = "processing" /\ ~is_stopped THEN "completed"
  ELSE job_state[j]
FinalState(j) ==
  IF j \in is_canceled THEN "canceled"
  ELSE IF job_state[j] = "processing" THEN "completed"
  ELSE job_state[j]

\* finish_job, first section.
FinishJob(t) ==
  LET j == tjob[t]
      s == FinalState(j)
      over == IF s \in Terminal THEN {j} ELSE {}
  IN
  /\ On(t, "finish")
  /\ job_state' = [job_state EXCEPT ![j] = s]
  /\ job_completed' = Put(job_completed, over, "recent")
  /\ num_documents' = IF MaxPreserved = 0 THEN Put(num_documents, over, 0)
                                          ELSE num_documents
  /\ processing_job' = NoJob
  /\ printer_state' = IF is_stopped THEN "stopped" ELSE "idle"
  /\ is_stopped' = FALSE
  /\ active_jobs' = active_jobs \ {j}
  /\ completed_jobs' = AddEntries({j})
  /\ StampClean
  /\ Step(t, "tail")
  /\ UNCHANGED <<is_canceled, fd_open, hold_until, hold_specified,
                 next_job_id, deviceVars, flagVars, clientVars, crashed>>

\* (Mutant: the device is looked at first.)
DecideTailDevice(t) ==
  /\ tpc[t] = "tail" /\ ~printer_freed
  /\ Step(t, IF active_jobs = {} \/ ~KeepOpen THEN "close"
             ELSE IF is_deleted THEN "delete" ELSE "check")
  /\ UNCHANGED <<jobVars, listVars, printerVars, deviceVars, flagVars,
                 clientVars, crashed>>

\* After the section: is the printer to be deleted, the device to be closed?
DecideTail(t) ==
  /\ tpc[t] = "tail" /\ ~printer_freed
  /\ Step(t, IF is_deleted THEN "delete"
             ELSE IF active_jobs = {} \/ ~KeepOpen THEN "close" ELSE "check")
  /\ UNCHANGED <<jobVars, listVars, printerVars, deviceVars, flagVars,
                 clientVars, crashed>>

DeleteLast(t) ==
  /\ tpc[t] = "delete"
  /\ FreePrinter
  /\ Step(t, "exit")
  /\ UNCHANGED clientVars

\* The device is closed, whoever has it.
CloseAfterJob(t) ==
  /\ tpc[t] = "close" /\ ~printer_freed
  /\ device' = FALSE
  /\ Step(t, "check")
  /\ UNCHANGED <<jobVars, listVars, printerVars, device_in_use, flagVars,
                 clientVars, crashed>>

\* The thread, still alive, looks for the next job.
CheckNext(t) ==
  /\ tpc[t] = "check" /\ ~printer_freed
  /\ CheckJobs(Ready, job_state, hold_specified,
               [tpc EXCEPT ![t] = "exit"])
  /\ UNCHANGED <<is_canceled, fd_open, hold_until, num_documents,
                 next_job_id, printerVars, deviceVars, flagVars, clientVars>>

ExitThread(t) ==
  /\ tpc[t] = "exit"
  /\ tpc' = [tpc EXCEPT ![t] = "idle"]
  /\ tjob' = [tjob EXCEPT ![t] = NoJob]
  /\ UNCHANGED <<jobVars, listVars, printerVars, deviceVars, flagVars,
                 clientVars, crashed>>

-----------------------------------------------------------------------------
\* A thread is about to use a job or a printer that has been freed.
JobPcs     == {"start", "wait_use", "wait_open", "print", "finish"}
PrinterPcs == {"tail", "delete", "close", "check"}
JobFreed(j) == j \in Jobs /\ job_state[j] = "freed"

UseFreed ==
  /\ \/ \E t \in Threads : tpc[t] \in JobPcs /\ JobFreed(tjob[t])
     \/ \E t \in Threads : tpc[t] \in PrinterPcs /\ printer_freed
     \/ \E c \in Clients : cpc[c] # "idle" /\ JobFreed(cjob[c])
     \/ \E c \in Clients : cpc[c] \in {"delete", "free"} /\ printer_freed
  /\ crashed' = TRUE
  /\ UNCHANGED <<jobVars, listVars, printerVars, deviceVars, flagVars,
                 threadVars, clientVars>>

ThreadStep(t) ==
  \/ StartJob(t) \/ RetryDevice(t) \/ PrintDocuments(t) \/ FinishJob(t)
  \/ DecideTail(t) \/ DeleteLast(t) \/ CloseAfterJob(t) \/ CheckNext(t)
  \/ ExitThread(t)

\* The steps of a handler that has begun.
ClientStep(c) ==
  \/ OpenSpool(c) \/ CloseSpool(c) \/ AbortCopy(c) \/ SubmitFile(c)
  \/ RejectFile(c) \/ UnlistFile(c) \/ CheckAfter(c) \/ CancelJob(c)
  \/ MarkDeleted(c) \/ DeleteNow(c)

\* The steps that begin one.
ClientRequest(c) ==
  \/ PrintJob(c) \/ PrintFile(c) \/ DeletePrinter(c)
  \/ \E j \in Jobs : \/ SendDocument(c, j) \/ CancelRequest(c, j)
                     \/ ResumeJob(c, j)

\* The requests of one section.
Request ==
  \/ CreateJob \/ CancelAllJobs \/ Pause \/ Resume \/ HoldNewJobs
  \/ ReleaseHeldNewJobs \/ OpenDevice \/ CloseDevice \/ StopSystem
  \/ \E j \in Jobs : \/ SendNothing(j) \/ WebCancel(j) \/ HoldJob(j)
                     \/ ReleaseJob(j) \/ SuspendJob(j)

Next ==
  /\ ~crashed
  /\ \/ \E t \in Threads : ThreadStep(t)
     \/ \E c \in Clients : ClientStep(c) \/ ClientRequest(c)
     \/ Request
     \/ \E j \in Jobs : HoldTimeArrives(j)
     \/ MinutePasses \/ CleanJobs
     \/ UseFreed

Spec == Init /\ [][Next]_vars

\* Steps that do not lock the printer for writing, for the modules that compose
\* the queue with a holder of the printer's lock.
Shared ==
  \/ \E t \in Threads : PrintDocuments(t) \/ DecideTail(t) \/ ExitThread(t)
  \/ \E c \in Clients :
       \/ OpenSpool(c) \/ CloseSpool(c) \/ SubmitFile(c) \/ RejectFile(c)
       \/ \E j \in Jobs : \/ SendDocument(c, j) \/ CancelRequest(c, j)
                          \/ ResumeJob(c, j)
  \/ \E j \in Jobs : HoldJob(j) \/ SuspendJob(j) \/ HoldTimeArrives(j)
  \/ MinutePasses

-----------------------------------------------------------------------------
(* Fairness: threads are scheduled, transfers and printing end. That a     *)
(* device opens in the end is not assumed: a thread asleep between two     *)
(* tries need only notice that it should give up.                          *)

Progress(t) ==
  /\ ~crashed
  /\ tpc[t] = "wait_open" => GiveUp(tjob[t])
  /\ ThreadStep(t)

Fairness ==
  /\ \A t \in Threads : WF_vars(Progress(t))
  /\ \A c \in Clients : WF_vars(~crashed /\ ClientStep(c))
  /\ WF_vars(~crashed /\ UseFreed)

FairSpec == Spec /\ Fairness

-----------------------------------------------------------------------------
(* Properties.                                                             *)

\* Numbers that are no job state, below the first and beyond the last one: a
\* proxy's report may leave them in a job.
OtherStates == IF Infrastructure THEN {"below", "beyond"} ELSE {}
JobStates == {"none", "held", "pending", "processing", "stopped",
              "canceled", "aborted", "completed", "freed"} \cup OtherStates
ThreadPcs == {"idle", "exit"} \cup JobPcs \cup PrinterPcs
ClientPcs == {"idle", "copy", "receive", "submit", "check", "unlist", "abort",
              "cancel", "delete", "free"}

\* Every variable has its type.
JobType ==
  /\ job_state \in [Jobs -> JobStates]
  /\ is_canceled \in SUBSET Jobs /\ fd_open \in SUBSET Jobs
  /\ hold_until \in [Jobs -> {"none", "future", "past"}]
  /\ hold_specified \in SUBSET Jobs
  /\ num_documents \in [Jobs -> 0 .. MaxDocs]
  /\ job_completed \in [Jobs -> {"none", "recent", "old"}]
  /\ next_job_id \in 1 .. MaxJobs + 1
ListType ==
  /\ active_jobs \in SUBSET Jobs /\ completed_jobs \in [Jobs -> Nat]
  /\ clean_time \in {"unset", "set", "due"}
PrinterType ==
  /\ printer_state \in {"idle", "processing", "stopped"}
  /\ processing_job \in Jobs \cup {NoJob}
  /\ is_stopped \in BOOLEAN /\ is_deleted \in BOOLEAN
  /\ printer_freed \in BOOLEAN /\ hold_new_jobs \in BOOLEAN
  /\ device \in BOOLEAN /\ device_in_use \in BOOLEAN
  /\ is_running \in BOOLEAN /\ crashed \in BOOLEAN
ThreadType ==
  /\ tpc \in [Threads -> ThreadPcs]
  /\ tjob \in [Threads -> Jobs \cup {NoJob}]
ClientType ==
  /\ cpc \in [Clients -> ClientPcs]
  /\ cjob \in [Clients -> Jobs \cup {NoJob}]
  /\ clast \in [Clients -> BOOLEAN]
TypeOK == JobType /\ ListType /\ PrinterType /\ ThreadType /\ ClientType

\* A job that exists is in exactly one of active_jobs and completed_jobs, at
\* every interleaving of cancel, abort, finish and clean, each of which moves
\* it in a section of its own; and what is in a list exists.
ListsAgree ==
  ~crashed => \A j \in Jobs :
    /\ Exists(j) <=> (j \in active_jobs \/ completed_jobs[j] > 0)
    /\ ~(j \in active_jobs /\ completed_jobs[j] > 0)

\* A thread that has put its job in processing_job and will take it out.
Committed(t) == tpc[t] \in {"wait_use", "wait_open", "print", "finish"}

\* The three values that keep CheckJobs from starting anything, or keep a
\* pause from taking effect, always have a thread behind them that will reset
\* them: the queue cannot be wedged by a processing_job, a stop request or a
\* processing state nobody owns, even with two threads for one job.
BusyHasThread ==
  /\ processing_job # NoJob =>
       \E t \in Threads : Committed(t) /\ tjob[t] = processing_job
  /\ is_stopped => processing_job # NoJob
  /\ printer_state = "processing" =>
       \E t \in Threads : tpc[t] \in {"print", "finish"}

\* No job is left in the processing state without a thread that prints it.
ProcessingHasThread ==
  \A j \in Jobs : job_state[j] = "processing" =>
    \E t \in Threads : Committed(t) /\ tjob[t] = j

\* A pending job of a printer that could print is never forgotten: a thread
\* is alive, which checks the queue before it ends, or a client is about to
\* check it. (A thread that cannot be created ends the check early and does
\* leave jobs behind.)
NoStrandedJob ==
  (/\ ~SpawnMayFail /\ ~crashed /\ Ready
   /\ \E j \in active_jobs : job_state[j] = "pending") =>
     \/ \E t \in Threads : tpc[t] \notin {"idle", "exit"}
     \/ \E c \in Clients : cpc[c] = "check"

\* Cleaning leaves no job that ended over a minute ago in a history that is
\* over its limit (the comment of papplSystemCleanJobs).
HistoryTrimmed ==
  [][ clean_time = "due" /\ clean_time' = "unset" /\ ~crashed' =>
        \/ MaxCompleted = 0 \/ Cardinality(Entries') <= MaxCompleted
        \/ ~ \E j \in Jobs : (j \in Listed /\ Old(j))' ]_vars

\* The printer keeps the promises of JobLedger.
Ledger == INSTANCE JobLedger WITH
  active  <- active_jobs,
  history <- {j \in Listed : job_state[j] # "freed"},
  next    <- next_job_id,
  closed  <- printer_freed
LedgerSpec == Ledger!Spec

\* A job canceled while it is printed, or while it waits for the device, is
\* canceled in the end, though the device never opens.
CancelTakesEffect ==
  \A j \in Jobs :
    (j \in is_canceled /\ job_state[j] = "processing")
      ~> (job_state[j] \in {"canceled", "freed"} \/ crashed)

\* When the system no longer runs, no job stays in process.
ShutdownDrains == ~is_running ~> (processing_job = NoJob \/ crashed)

\* A printer deleted while it printed is freed in the end.
DeletionHappens == is_deleted ~> (printer_freed \/ crashed)

\* What the comments of the code say and the code does not do.

\* A device papplPrinterOpenDevice has lent stays open until it is given back
\* with papplPrinterCloseDevice.
DeviceStaysOpen == device_in_use /\ ~printer_freed => device

\* A job held until a time is not made pending before that time.
NoEarlyRelease ==
  [][\A j \in hold_specified :
       job_state[j] = "held" /\ hold_until[j] = "future"
         => job_state'[j] # "pending"]_vars
=============================================================================
