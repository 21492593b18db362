---------------------------- MODULE InfraPrinter -----------------------------
(***************************************************************************)
(* An infrastructure printer: it prints nothing itself, output devices     *)
(* (proxies on the other side of a firewall) register with it, fetch its   *)
(* jobs and report what becomes of them.                                   *)
(*                                                                         *)
(* The queue is JobQueue with Infrastructure TRUE and without threads. A   *)
(* member of Devices is one registration, an _pappl_odevice_t: once it is  *)
(* gone, pointers to it dangle, and using one ends the execution in        *)
(* `crashed`. A member of Proxies is a client thread that handles one      *)
(* request of a proxy at a time. The proxy's own side is not in the        *)
(* repository: it sends any request at any time, any number as a state and *)
(* any reasons. That a job is fetchable is left out: the handlers read it  *)
(* for their answers only.                                                 *)
(***************************************************************************)
EXTENDS JobQueue

CONSTANTS
  Devices,     \* registrations of output devices
  Proxies,     \* client threads that handle requests of proxies
  NoDevice

ASSUME InfraAssumption ==
  /\ Infrastructure
  /\ NoDevice \notin Devices

VARIABLES
  registered,      \* of each registration: not yet ("no"), "yes", "gone"
  output_device,   \* job->output_device
  document_state,  \* documents[0].state of each job
  hpc, hdev, hjob, \* each proxy's request: where it is, its od, its job
  fetched          \* devices the job's document was sent to (history)

jobTable     == <<output_device, document_state, fetched>>
handlerVars  == <<hpc, hdev, hjob>>
infraVars    == <<vars, registered, jobTable, handlerVars>>

\* The printer is not locked for reading by Update-Active-Jobs.
Unlocked == \A p \in Proxies : hpc[p] # "active"

Registered == {d \in Devices : registered[d] = "yes"}

InfraInit ==
  /\ Init
  /\ registered = [d \in Devices |-> "no"]
  /\ output_device = [j \in Jobs |-> NoDevice]
  /\ document_state = [j \in Jobs |-> "none"]
  /\ hpc = [p \in Proxies |-> "idle"] /\ hdev = [p \in Proxies |-> NoDevice]
  /\ hjob = [p \in Proxies |-> NoJob]
  /\ fetched = [j \in Jobs |-> {}]

-----------------------------------------------------------------------------
(* The queue. A document that is submitted is pending. What is freed is no *)
(* device's any more. A printer is freed with no lock on it, and with it   *)
(* its registrations.                                                      *)

Queue ==
  LET first == {j \in Jobs : num_documents[j] = 0 /\ num_documents'[j] > 0}
      freed == {j \in Jobs : job_state'[j] = "freed"}
  IN
  /\ Next
  /\ Unlocked \/ Shared \/ \E c \in Clients : DeleteNow(c)
  /\ document_state' = Put(Put(document_state, first, "pending"), freed, "none")
  /\ output_device' = Put(output_device, freed, NoDevice)
  /\ fetched' = Put(fetched, freed, {})
  /\ registered' = [d \in Devices |-> IF printer_freed' /\ registered[d] = "yes"
                                      THEN "gone" ELSE registered[d]]
  /\ UNCHANGED handlerVars

-----------------------------------------------------------------------------
(* Requests of proxies: the device is found under the lock of the output   *)
(* devices, which is given up before the job is locked.                    *)

Enters(p, pc, d, j) ==
  /\ hpc[p] = "idle"
  /\ hpc' = [hpc EXCEPT ![p] = pc]
  /\ hdev' = [hdev EXCEPT ![p] = d]
  /\ hjob' = [hjob EXCEPT ![p] = j]
Returns(p) ==
  /\ hpc' = [hpc EXCEPT ![p] = "idle"]
  /\ hdev' = [hdev EXCEPT ![p] = NoDevice]
  /\ hjob' = [hjob EXCEPT ![p] = NoJob]

JobRequests == {"ack-job", "fetch-document", "ack-document",
                "document-status", "job-status"}

\* _papplClientFindDeviceNoLock and what its callers do until they lock the
\* job.
FindDevice(p, op, d, j) ==
  /\ registered[d] = "yes" /\ Exists(j)
  /\ Enters(p, op, d, j)
  /\ UNCHANGED <<vars, registered, jobTable>>

Has(p, op) == hpc[p] = op /\ Exists(hjob[p])

\* A request that is refused, or whose handler is done without a change.
Refuse(p) ==
  /\ hpc[p] \in JobRequests /\ Exists(hjob[p])
  /\ Returns(p)
  /\ UNCHANGED <<vars, registered, jobTable>>

\* The job was cleaned, or went with its printer, after it was found.
LockFreed(p) ==
  /\ hpc[p] \in JobRequests /\ JobFreed(hjob[p])
  /\ crashed' = TRUE
  /\ UNCHANGED <<jobVars, listVars, printerVars, deviceVars, flagVars,
                 threadVars, clientVars, registered, jobTable, handlerVars>>

\* The job has ended, as the code has it.
Over(j) == job_state[j] \in Ends

\* Acknowledge-Job, under the job's lock: the job is assigned to the device,
\* and released if it is held. (Mutant: whoever has it.)
TakeJob(p) ==
  LET j == hjob[p] IN
  /\ ~Over(j)
  /\ output_device' = [output_device EXCEPT ![j] = hdev[p]]
  /\ IF job_state[j] = "held"
     THEN /\ job_state' = [job_state EXCEPT ![j] = "pending"]
          /\ hold_specified' = hold_specified \ {j}
     ELSE UNCHANGED <<job_state, hold_specified>>
  /\ Returns(p)
  /\ UNCHANGED <<is_canceled, fd_open, hold_until, num_documents,
                 job_completed, next_job_id, listVars, printerVars,
                 deviceVars, flagVars, threadVars, clientVars, crashed,
                 registered, document_state, fetched>>
AckJobAnyway(p) == Has(p, "ack-job") /\ TakeJob(p)
AckJob(p) ==
  /\ Has(p, "ack-job")
  /\ output_device[hjob[p]] \in {NoDevice, hdev[p]}
  /\ TakeJob(p)

\* The job is the device's: every request about it but Acknowledge-Job asks.
Mine(p) == output_device[hjob[p]] = hdev[p]
HasDocument(p) == Mine(p) /\ num_documents[hjob[p]] > 0
                          /\ document_state[hjob[p]] # "ended"

\* Fetch-Document: the formats may be those of the device, read with no lock;
\* the document is sent with the job locked for reading.
FetchDocument(p) ==
  LET sent == HasDocument(p) /\ crashed' = FALSE IN
  /\ Has(p, "fetch-document")
  /\ crashed' \in {FALSE, registered[hdev[p]] = "gone"}
  /\ fetched' = IF sent THEN [fetched EXCEPT ![hjob[p]] = @ \cup {hdev[p]}]
                        ELSE fetched
  /\ Returns(p)
  /\ UNCHANGED <<jobVars, listVars, printerVars, deviceVars, flagVars,
                 threadVars, clientVars, registered, output_device,
                 document_state>>

\* Acknowledge-Document, Update-Document-Status: the document is taken, ends.
SetDocument(j, s) ==
  /\ document_state' = [document_state EXCEPT ![j] = s]
  /\ UNCHANGED <<vars, registered, output_device, fetched>>
AckDocument(p) ==
  /\ Has(p, "ack-document") /\ HasDocument(p)
  /\ document_state[hjob[p]] = "pending"
  /\ SetDocument(hjob[p], "processing")
  /\ Returns(p)
DocumentStatus(p) ==
  /\ Has(p, "document-status") /\ HasDocument(p)
  /\ SetDocument(hjob[p], "ended")
  /\ Returns(p)

\* Cancel-Document comes from any client.
CancelDocument(j) ==
  /\ Exists(j) /\ num_documents[j] > 0 /\ document_state[j] # "ended"
  /\ SetDocument(j, "ended")
  /\ UNCHANGED handlerVars

\* The reasons a proxy gives replace the job's.
Replaced(j) == {hold_specified \ {j}, hold_specified \cup {j}}

\* (Mutant: the job stays among the active ones.)
EndByProxyHalf(p, s) ==
  LET j == hjob[p] IN
  /\ Has(p, "job-status") /\ Mine(p) /\ ~Over(j)
  /\ job_state' = [job_state EXCEPT ![j] = s]
  /\ job_completed' = [job_completed EXCEPT ![j] = "recent"]
  /\ num_documents' = IF MaxPreserved = 0 THEN Put(num_documents, {j}, 0)
                                          ELSE num_documents
  /\ processing_job' = NoJob
  /\ printer_state' = IF is_stopped THEN "stopped" ELSE "idle"
  /\ is_stopped' = FALSE
  /\ completed_jobs' = AddEntries({j})
  /\ StampClean
  /\ hold_specified' \in Replaced(j)
  /\ Returns(p)
  /\ UNCHANGED <<active_jobs, is_canceled, fd_open, hold_until, next_job_id, deviceVars,
                 flagVars, threadVars, clientVars, crashed, registered,
                 output_device, document_state, fetched>>

\* Update-Job-Status, under the job's lock alone: a job the proxy aborted or
\* completed ends, and the printer with it is idle, whatever it was. That the
\* proxy canceled it is not heeded, any number past completed is.
EndByProxy(p, s) ==
  LET j == hjob[p] IN
  /\ Has(p, "job-status") /\ Mine(p) /\ ~Over(j)
  /\ job_state' = [job_state EXCEPT ![j] = s]
  /\ job_completed' = [job_completed EXCEPT ![j] = "recent"]
  /\ num_documents' = IF MaxPreserved = 0 THEN Put(num_documents, {j}, 0)
                                          ELSE num_documents
  /\ processing_job' = NoJob
  /\ printer_state' = IF is_stopped THEN "stopped" ELSE "idle"
  /\ is_stopped' = FALSE
  /\ active_jobs' = active_jobs \ {j}
  /\ completed_jobs' = AddEntries({j})
  /\ StampClean
  /\ hold_specified' \in Replaced(j)
  /\ Returns(p)
  /\ UNCHANGED <<is_canceled, fd_open, hold_until, next_job_id, deviceVars,
                 flagVars, threadVars, clientVars, crashed, registered,
                 output_device, document_state, fetched>>

\* Reasons without a state, or with one below aborted.
ReportReasons(p) ==
  LET j == hjob[p] IN
  /\ Has(p, "job-status") /\ Mine(p) /\ ~Over(j)
  /\ hold_specified' \in Replaced(j)
  /\ Returns(p)
  /\ UNCHANGED <<job_state, is_canceled, fd_open, hold_until, num_documents,
                 job_completed, next_job_id, listVars, printerVars,
                 deviceVars, flagVars, threadVars, clientVars, crashed,
                 registered, output_device, document_state, fetched>>

-----------------------------------------------------------------------------
(* Update-Active-Jobs: with the printer locked for reading, job by job.    *)

BeginActive(p, d) ==
  /\ registered[d] = "yes"
  /\ Enters(p, "active", d, NoJob)
  /\ UNCHANGED <<vars, registered, jobTable>>

\* One job the proxy names, and its state there, which may be any number: one
\* that differs is taken over, unless the job has ended here and not there. The
\* lists stay. (Mutant: a job that is only to be canceled is not looked for.)
Named(p, j) ==
  /\ hpc[p] = "active" /\ Exists(j) /\ registered[hdev[p]] = "yes"
  /\ output_device[j] = hdev[p]
TakeOver(j, s) ==
  /\ job_state[j] # s
  /\ job_state' = [job_state EXCEPT ![j] = s]
  /\ job_completed' = IF s \in Ends
                      THEN [job_completed EXCEPT ![j] = "recent"]
                      ELSE job_completed
  /\ UNCHANGED <<is_canceled, fd_open, hold_until, hold_specified,
                 num_documents, next_job_id, listVars, printerVars,
                 deviceVars, flagVars, threadVars, clientVars, crashed,
                 registered, jobTable, handlerVars>>
ReportOneEnded(p, j, s) ==
  /\ Named(p, j)
  /\ Over(j) => s \in Ends
  /\ TakeOver(j, s)
ReportOne(p, j, s) ==
  /\ Named(p, j)
  /\ Over(j) \/ j \in is_canceled => s \in Ends
  /\ TakeOver(j, s)

\* The active jobs the proxy did not name are looked at, for their device's
\* UUID: the code has one for every job. The printer may be freed by then.
Dangling(d) == d = NoDevice \/ registered[d] = "gone"
EndActive(p) ==
  /\ hpc[p] = "active"
  /\ crashed' = (\/ printer_freed \/ Dangling(hdev[p])
                 \/ \E j \in active_jobs : Dangling(output_device[j]))
  /\ Returns(p)
  /\ UNCHANGED <<jobVars, listVars, printerVars, deviceVars, flagVars,
                 threadVars, clientVars, registered, jobTable>>

-----------------------------------------------------------------------------
(* Devices come and go (OutputDevices has the rest of their life).         *)

\* papplPrinterAddInfraDevice, by the callback of Register-Output-Device.
Register(d) ==
  /\ registered[d] = "no" /\ ~printer_freed
  /\ registered' = [registered EXCEPT ![d] = "yes"]
  /\ UNCHANGED <<vars, jobTable, handlerVars>>

\* papplPrinterRemoveInfraDevice: the jobs assigned to the device keep the
\* pointer.
RemoveInfraDevice(d) ==
  /\ registered[d] = "yes"
  /\ registered' = [registered EXCEPT ![d] = "gone"]
  /\ UNCHANGED <<vars, jobTable, handlerVars>>

\* Deregister-Output-Device: the device's jobs are nobody's again. The printer
\* is kept, or deleted by the same thread.
Deregister(d) ==
  /\ registered[d] = "yes"
  /\ registered' = [registered EXCEPT ![d] = "gone"]
  /\ output_device' = [j \in Jobs |-> IF output_device[j] = d
                                     THEN NoDevice ELSE output_device[j]]
  /\ \/ UNCHANGED clientVars
     \/ May("delete-printer")
        /\ \E c \in Clients : Enter(c, "delete", NoJob, TRUE)
  /\ UNCHANGED <<jobVars, listVars, printerVars, deviceVars, flagVars,
                 threadVars, crashed, document_state, fetched, handlerVars>>

\* Identify-Printer for the device of a job, read with no lock.
IdentifyJob(j) ==
  /\ Exists(j) /\ output_device[j] # NoDevice /\ Unlocked
  /\ Dangling(output_device[j]) /\ crashed' = TRUE
  /\ UNCHANGED <<jobVars, listVars, printerVars, deviceVars, flagVars,
                 threadVars, clientVars, registered, jobTable, handlerVars>>

-----------------------------------------------------------------------------
ProxyStep(p) ==
  \/ \E d \in Devices :
       \/ \E j \in Jobs, op \in JobRequests : FindDevice(p, op, d, j)
       \/ BeginActive(p, d)
  \/ Refuse(p) \/ LockFreed(p) \/ AckJob(p) \/ FetchDocument(p) \/ AckDocument(p)
  \/ DocumentStatus(p) \/ ReportReasons(p) \/ EndActive(p)
  \/ \E s \in {"aborted", "completed", "beyond"} : EndByProxy(p, s)
  \/ \E j \in Jobs, s \in JobStates \ {"none", "freed"} : ReportOne(p, j, s)

DeviceStep(d) == Register(d) \/ RemoveInfraDevice(d) \/ Deregister(d)

InfraNext ==
  /\ ~crashed
  /\ \/ Queue
     \/ \E p \in Proxies : ProxyStep(p)
     \/ \E d \in Devices : DeviceStep(d)
     \/ \E j \in Jobs : CancelDocument(j) \/ IdentifyJob(j)

InfraSpec == InfraInit /\ [][InfraNext]_infraVars

-----------------------------------------------------------------------------
(* Properties.                                                             *)

ProxyPcs == {"idle", "active"} \cup JobRequests

\* Every variable has its type.
JobTableType ==
  /\ output_device \in [Jobs -> Devices \cup {NoDevice}]
  /\ document_state \in [Jobs -> {"none", "pending", "processing", "ended"}]
  /\ fetched \in [Jobs -> SUBSET Devices]
HandlerType ==
  /\ registered \in [Devices -> {"no", "yes", "gone"}]
  /\ hpc \in [Proxies -> ProxyPcs]
  /\ hdev \in [Proxies -> Devices \cup {NoDevice}]
  /\ hjob \in [Proxies -> Jobs \cup {NoJob}]
InfraTypeOK == TypeOK /\ JobTableType /\ HandlerType

\* A job's document is never with two devices: one that still has it when
\* another gets it has deregistered or was removed. Devices are found before
\* the job is locked, so a device may go, and another take the job, between
\* any two steps of a request.
OneDevicePrints ==
  \A j \in Jobs, d, e \in Registered :
    (d \in fetched[j] /\ e \in fetched[j]) => d = e

\* A job that has ended here (Cancel-Job, Update-Job-Status, a rejected file)
\* does not come back, whatever is reported of it later, but by the client that
\* is still submitting its document; and a job that is to be canceled is not
\* started by a proxy that has not heard of it.
EndedStays ==
  [][\A j \in Jobs :
       /\ Over(j) => \/ Over(j)' \/ job_state'[j] = "freed"
                     \/ \E c \in Clients : cpc[c] = "submit" /\ cjob[c] = j
       /\ j \in is_canceled /\ job_state'[j] = "processing"
            => job_state[j] = "processing"]_infraVars
=============================================================================
