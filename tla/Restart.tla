------------------------------ MODULE Restart -------------------------------
(***************************************************************************)
(* The job queue of JobQueue with the file its jobs are saved in: the main *)
(* loop saves the state some time after it was marked as changed, the      *)
(* process ends, in order or not, and starts again from what is on disk.   *)
(*                                                                         *)
(* While the jobs are written the printer is locked for reading, so only   *)
(* steps that do not lock it for writing go on. The variables of JobQueue  *)
(* keep their last values while the process is down: Load is a step from   *)
(* what there was to what there is again.                                  *)
(***************************************************************************)
EXTENDS JobQueue

CONSTANTS
  MaxRestarts,   \* restarts in one execution (a bound of the model)
  MultiQueue,    \* PAPPL_SOPTIONS_MULTI_QUEUE
  SaveMayFail    \* the state file or a file of attributes cannot be created

\* One printer that stays. What papplJobCreateWithFile is given is outside the
\* spool directory and is left out.
ASSUME RestartAssumption ==
  /\ MaxRestarts \in Nat /\ {MultiQueue, SaveMayFail} \subseteq BOOLEAN
  /\ Requests \cap {"print-file", "delete-printer"} = {}

VARIABLES
  loop,      \* the main loop: idle; open, jobs, closing: in the save callback;
             \* ended, killed: the process is not there
  left,      \* jobs that remain to be written
  dirty,     \* config_changes > save_changes
  unmarked,  \* jobs created or ended that ConfigChanged has not been called for
  state_file,\* the state file
  attrs,     \* jobs with a file of attributes
  spool,     \* jobs with document files
  restarts,  \* how often it has been started again
  missed     \* a save has failed (history)

diskVars    == <<state_file, attrs, spool>>
historyVars == <<restarts, missed>>
restartVars == <<vars, loop, left, dirty, unmarked, diskVars, historyVars>>
Down        == loop \in {"ended", "killed"}

\* The line of a job in the file: its state, documents, whether its reasons
\* have job-hold-until-specified, the time it ended.
NoRecord == [state |-> "none", docs |-> 0, held |-> FALSE, ended |-> "none"]
NoFile == [printer |-> FALSE, next |-> 1, hold |-> FALSE, stopped |-> FALSE,
           jobs |-> [j \in Jobs |-> NoRecord]]
Recorded(j) == state_file.jobs[j] # NoRecord

RestartInit ==
  /\ Init
  /\ loop = "idle" /\ left = {} /\ dirty = FALSE /\ unmarked = {}
  /\ state_file = NoFile /\ attrs = {} /\ spool = {}
  /\ restarts = 0 /\ missed = FALSE

-----------------------------------------------------------------------------
(* The queue at work.                                                      *)

\* What the queue may do where the main loop is.
QueueStep ==
  /\ ~crashed
  /\ \/ loop = "idle" /\ Next
     \/ loop \in {"open", "closing"} /\ Next /\ ~StopSystem /\ ~CleanJobs
     \/ loop = "jobs" /\ Shared

\* A job that is created or ends is a change to be saved. (Mutant: its end is
\* not.)
CreatedOnly == IF next_job_id' # next_job_id THEN {next_job_id} ELSE {}
Ended       == {tjob[t] : t \in {u \in Threads : tpc[u] = "finish" /\ tpc'[u] = "tail"}}
Changed     == CreatedOnly \cup Ended

\* (Mutant of Removed: document files stay until the job is cleaned.)
RemovedWhenFreed == {j \in Jobs : num_documents[j] > 0 /\ job_state'[j] = "freed"}
\* Jobs whose document files the step removes; a printer that takes one
\* document only has the job's attributes in a file of the same name.
Removed == {j \in Jobs : num_documents[j] > 0
                         /\ (num_documents'[j] = 0 \/ job_state'[j] = "freed")}
Filled  == {j \in Jobs : num_documents'[j] > num_documents[j]}

Queue ==
  /\ QueueStep
  /\ \A t \in Threads : tpc[t] = "tail" /\ tpc'[t] # "tail" => tjob[t] \notin unmarked
  /\ \A c \in Clients : cpc[c] = "copy" /\ cpc'[c] # "copy" => cjob[c] \notin unmarked
  /\ unmarked' = unmarked \cup Changed
  /\ dirty' = (dirty \/ (hold_new_jobs' /\ ~hold_new_jobs))
  /\ spool' = (spool \cup Filled) \ Removed
  /\ attrs' = IF MultiDocument THEN attrs ELSE attrs \ Removed
  /\ UNCHANGED <<loop, left, state_file, historyVars>>

\* _papplSystemConfigChanged, which is called when the locks have been given
\* up and does nothing once the system has stopped.
ConfigChanged(j) ==
  /\ ~Down /\ j \in unmarked
  /\ unmarked' = unmarked \ {j}
  /\ dirty' = (dirty \/ is_running)
  /\ UNCHANGED <<vars, loop, left, diskVars, historyVars>>

-----------------------------------------------------------------------------
(* The main loop saves the state.                                          *)

\* The changes are taken note of, then the file is opened and truncated.
SaveBegin ==
  /\ loop = "idle" /\ dirty /\ ~crashed
  /\ dirty' = FALSE
  /\ loop' = "open"
  /\ state_file' = NoFile
  /\ UNCHANGED <<vars, left, unmarked, attrs, spool, historyVars>>

\* A save that fails is not tried again.
SaveFails ==
  /\ SaveMayFail
  /\ loop = "idle" /\ dirty /\ ~crashed
  /\ dirty' = FALSE
  /\ missed' = TRUE
  /\ UNCHANGED <<vars, loop, left, unmarked, diskVars, restarts>>

\* The printer's own lines, when the locks have been taken for reading.
\* (Mutants: the next job number is not among them, or off by one.)
HeaderWithoutNext ==
  [NoFile EXCEPT !.printer = TRUE, !.hold = hold_new_jobs,
                 !.stopped = (printer_state = "stopped")]
HeaderNextSkips == [HeaderWithoutNext EXCEPT !.next = next_job_id + 1]
Header == [HeaderWithoutNext EXCEPT !.next = next_job_id]

SavePrinter ==
  /\ loop = "open" /\ ~crashed
  /\ state_file' = Header
  /\ left' = {j \in Jobs : Exists(j)}
  /\ loop' = "jobs"
  /\ UNCHANGED <<vars, dirty, unmarked, attrs, spool, historyVars>>

\* The newest of the jobs that are left, under its lock.
Unwritten(j) == j \in left /\ \A k \in left : k <= j

\* A job canceled while it is printed is written as canceled.
Record(j) ==
  [state |-> IF j \in is_canceled THEN "canceled" ELSE job_state[j],
   docs  |-> num_documents[j],
   held  |-> j \in hold_specified,
   ended |-> IF job_completed[j] = "none" /\ j \in is_canceled
             THEN "recent" ELSE job_completed[j]]

\* The states a job's attributes are kept for, and with which it is loaded
\* among the active jobs.
Unfinished == {"pending", "held", "processing", "below"}   \* state < STOPPED

\* (Mutant: its attributes are not saved.)
SaveJobAlone(j) ==
  /\ loop = "jobs" /\ ~crashed /\ Unwritten(j)
  /\ left' = left \ {j}
  /\ state_file' = [state_file EXCEPT !.jobs[j] = Record(j)]
  /\ UNCHANGED <<vars, loop, dirty, unmarked, attrs, spool, historyVars>>

SaveJob(j) ==
  /\ loop = "jobs" /\ ~crashed /\ Unwritten(j)
  /\ left' = left \ {j}
  /\ state_file' = [state_file EXCEPT !.jobs[j] = Record(j)]
  /\ attrs' = IF job_state[j] \in Unfinished THEN attrs \cup {j}
                                             ELSE attrs \ {j}
  /\ UNCHANGED <<vars, loop, dirty, unmarked, spool, historyVars>>

\* Without a file for its attributes the job is passed over.
SkipJob(j) ==
  /\ SaveMayFail
  /\ loop = "jobs" /\ ~crashed /\ Unwritten(j) /\ job_state[j] \in Unfinished
  /\ left' = left \ {j}
  /\ missed' = TRUE
  /\ UNCHANGED <<vars, loop, dirty, unmarked, diskVars, restarts>>

\* The locks are given up ...
SaveUnlock ==
  /\ loop = "jobs" /\ ~crashed /\ left = {}
  /\ loop' = "closing"
  /\ UNCHANGED <<vars, left, dirty, unmarked, diskVars, historyVars>>

\* ... and the file is closed. (Mutant: the changes are taken note of now.)
SaveEndLate ==
  /\ loop = "closing" /\ ~crashed
  /\ loop' = "idle" /\ dirty' = FALSE
  /\ UNCHANGED <<vars, left, unmarked, diskVars, historyVars>>

SaveEnd ==
  /\ loop = "closing" /\ ~crashed
  /\ loop' = "idle"
  /\ UNCHANGED <<vars, left, dirty, unmarked, diskVars, historyVars>>

-----------------------------------------------------------------------------
(* The process ends and starts again.                                      *)

\* The main loop has ended and what was changed has been saved; other threads
\* end where they are.
Exit ==
  /\ loop = "idle" /\ ~is_running /\ ~dirty /\ ~crashed
  /\ loop' = "ended"
  /\ UNCHANGED <<vars, left, dirty, unmarked, diskVars, historyVars>>

\* What is on disk of a file that is being written: some of the lines.
OnDisk(f) ==
  {NoFile} \cup
  {[f EXCEPT !.jobs = [j \in Jobs |-> IF j >= n THEN f.jobs[j] ELSE NoRecord]]
     : n \in 1 .. MaxJobs + 1}

Crash ==
  /\ ~Down /\ ~crashed
  /\ state_file' \in IF loop = "idle" THEN {state_file} ELSE OnDisk(state_file)
  /\ loop' = "killed" /\ left' = {}
  /\ UNCHANGED <<vars, dirty, unmarked, attrs, spool, historyVars>>

\* What becomes of the line of job j: a job whose documents are gone is aborted
\* unless it had ended. (Mutant: its documents are not looked for.)
DocsRecorded(j) == state_file.jobs[j].docs
DocsFound(j) == IF j \in spool THEN state_file.jobs[j].docs ELSE 0
LoadedState(j) ==
  LET s == state_file.jobs[j].state
  IN  IF DocsFound(j) = 0 /\ s \notin Ends THEN "aborted" ELSE s
LoadedActive == {j \in Jobs : Recorded(j) /\ LoadedState(j) \in Unfinished
                              /\ j \in attrs}

\* Jobs are created newest first, under the limit of active jobs: at the first
\* that is refused the rest of the printer's lines are given up. (Mutant: off by
\* one.)
ReachedOneLess ==
  {j \in Jobs : Recorded(j) /\ Cardinality({k \in LoadedActive : k >= j}) < MaxActive}
Reached ==
  {j \in Jobs : /\ Recorded(j)
                /\ \/ MaxActive = 0
                   \/ Cardinality({k \in LoadedActive : k > j}) < MaxActive}

\* papplSystemLoadState, then papplSystemRun. The time a job is held until is
\* not restored, and nobody checks the queue.
Load ==
  /\ Down /\ restarts < MaxRestarts
  /\ restarts' = restarts + 1
  /\ loop' = "idle" /\ dirty' = FALSE /\ unmarked' = {}
  /\ job_state' = [j \in Jobs |-> IF j \in Reached THEN LoadedState(j) ELSE "none"]
  /\ num_documents' = [j \in Jobs |-> IF j \in Reached THEN DocsFound(j) ELSE 0]
  /\ hold_specified' = {j \in Reached : state_file.jobs[j].held}
  /\ job_completed' = [j \in Jobs |-> IF j \in Reached THEN state_file.jobs[j].ended
                                                       ELSE "none"]
  /\ hold_until' = [j \in Jobs |-> "none"] /\ is_canceled' = {} /\ fd_open' = {}
  /\ active_jobs' = Reached \cap LoadedActive
  /\ completed_jobs' = [j \in Jobs |->
       IF j \in Reached /\ LoadedState(j) \notin Unfinished THEN 1 ELSE 0]
  /\ next_job_id' = state_file.next
  /\ printer_state' = IF MultiQueue /\ state_file.stopped THEN "stopped" ELSE "idle"
  /\ hold_new_jobs' = state_file.hold
  /\ processing_job' = NoJob /\ is_stopped' = FALSE
  /\ is_deleted' = FALSE /\ printer_freed' = FALSE
  /\ device' = FALSE /\ device_in_use' = FALSE
  /\ is_running' = TRUE /\ clean_time' = "unset" /\ crashed' = FALSE
  /\ tpc' = [t \in Threads |-> "idle"] /\ tjob' = [t \in Threads |-> NoJob]
  /\ cpc' = [c \in Clients |-> "idle"] /\ cjob' = [c \in Clients |-> NoJob]
  /\ clast' = [c \in Clients |-> TRUE]
  /\ UNCHANGED <<left, diskVars, missed>>

LoopStep == \/ SaveBegin \/ SaveFails \/ SavePrinter
            \/ \E j \in Jobs : SaveJob(j) \/ SkipJob(j)
            \/ SaveUnlock \/ SaveEnd \/ Exit

RestartNext ==
  \/ Queue \/ \E j \in Jobs : ConfigChanged(j)
  \/ LoopStep
  \/ Crash \/ Load

RestartSpec == RestartInit /\ [][RestartNext]_restartVars

\* The main loop goes on, a thread that has changed a job gets to mark it.
RestartFairness ==
  /\ WF_restartVars(LoopStep)
  /\ \A j \in Jobs : WF_restartVars(ConfigChanged(j))

FairRestartSpec == RestartSpec /\ RestartFairness

-----------------------------------------------------------------------------
(* Properties.                                                             *)

RecordType == [state : JobStates, docs : 0 .. MaxDocs, held : BOOLEAN,
               ended : {"none", "recent", "old"}]
FileType   == [printer : BOOLEAN, next : 1 .. MaxJobs + 1, hold : BOOLEAN,
               stopped : BOOLEAN, jobs : [Jobs -> RecordType]]

\* Every variable has its type, also after any number of restarts.
RestartTypeOK ==
  /\ TypeOK
  /\ loop \in {"idle", "open", "jobs", "closing", "ended", "killed"}
  /\ left \subseteq Jobs /\ unmarked \subseteq Jobs
  /\ attrs \subseteq Jobs /\ spool \subseteq Jobs
  /\ state_file \in FileType
  /\ {dirty, missed} \subseteq BOOLEAN /\ restarts \in Nat

\* A job that is not ended and whose documents are there can be loaded: its
\* attributes are on disk too, though state, attributes and documents are
\* three kinds of files, written and removed at different times by different
\* threads, and the process may end between any two of them. (Of a printer that
\* takes one document for a job only while no two clients are within
\* Send-Document for one job: the second may fill a job again that was canceled
\* and has lost its attributes.)
AttrsThere ==
  \A j \in Jobs :
    (Recorded(j) /\ LoadedState(j) \in Unfinished) => j \in attrs

\* Whatever is left of the file, the printer does not give a job the number of
\* one it loads from the file (papplSystemLoadState creates the jobs with the
\* numbers of the file, and _papplJobCreate takes next_job_id as it is).
NumbersFresh ==
  /\ \A j \in Jobs : Recorded(j) => j < state_file.next
  /\ ~Down => \A j \in Jobs : Exists(j) => j < next_job_id

\* When no change is left to be saved, every job there is is in the file, and
\* no job that was printed to its end is there as one to be printed, although
\* changes are marked after the locks are given up, while a save may be going
\* on.
NothingForgotten ==
  (/\ loop = "idle" /\ ~crashed /\ is_running
   /\ ~dirty /\ unmarked = {} /\ ~missed) =>
     \A j \in Jobs :
       /\ Exists(j) => Recorded(j)
       /\ job_state[j] = "completed" => state_file.jobs[j].state = "completed"

\* A job that was completed or canceled, and so lost its documents, is not
\* printed after a restart, however old the file is that is loaded.
NotPrintedAgain ==
  [][Down /\ ~Down' =>
       \A j \in Jobs :
         (job_state[j] \in {"completed", "canceled"} /\ num_documents[j] = 0)
           => j \notin active_jobs']_restartVars

\* A job that waits, and that the file has with its documents, waits after a
\* restart too, unless as many newer jobs were loaded as the printer takes: they
\* were not more before, but a job canceled while a client was about to submit
\* its document is pending in the file, and is one of the active jobs again.
SavedWorkKept ==
  [][Down /\ ~Down' =>
       \A j \in active_jobs :
         (/\ Before(job_state[j]) /\ j \in spool
          /\ state_file.jobs[j].docs > 0 /\ Before(state_file.jobs[j].state))
           => \/ j \in active_jobs' /\ Before(job_state'[j])
              \/ /\ MaxActive > 0
                 /\ Cardinality({k \in active_jobs' : k > j}) >= MaxActive]_restartVars

\* That a job was printed reaches the file, when saving works and the system
\* is neither stopped nor ended first.
EndsAreSaved ==
  \A j \in Jobs :
    job_state[j] = "completed" ~>
      \/ state_file.jobs[j].state = "completed" \/ job_state[j] # "completed"
      \/ Down \/ ~is_running \/ missed \/ crashed
=============================================================================
