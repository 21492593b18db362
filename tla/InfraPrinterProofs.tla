------------------------- MODULE InfraPrinterProofs --------------------------
(***************************************************************************)
(* Proofs about InfraPrinter, for any number of jobs, output devices and   *)
(* requests of proxies: the queue that proxies act on is still a ledger of *)
(* jobs, no two registered devices have one job's document, and no report  *)
(* brings back a job that has ended.                                       *)
(***************************************************************************)
EXTENDS InfraPrinter, JobQueueProofs

-----------------------------------------------------------------------------
(* The inductive invariant.                                                *)

\* A device was registered when it was given the document, and the job is the
\* device's as long as it stays registered.
FetchedOwned ==
  \A j \in Jobs : \A d \in fetched[j] :
    /\ registered[d] # "no"
    /\ registered[d] = "yes" => output_device[j] = d

\* A request within its handler is that of a device that was registered when it
\* was found, and about a job if it is one about jobs.
HandlerOwned ==
  \A p \in Proxies :
    /\ hpc[p] # "idle" => hdev[p] \in Devices /\ registered[hdev[p]] # "no"
    /\ hpc[p] \in JobRequests => hjob[p] \in Jobs

\* An infrastructure printer has no thread that prints.
NoThreads == \A t \in Threads : tpc[t] = "idle"

InfraInv ==
  /\ ListInv /\ JobTableType /\ HandlerType
  /\ FetchedOwned /\ HandlerOwned /\ NoThreads

\* At first no device is registered and no request is handled.
LEMMA InfraStarts == InfraInit => InfraInv
<1> SUFFICES ASSUME InfraInit PROVE InfraInv
  OBVIOUS
<1>1. ListInv
  BY ListInit DEF InfraInit
<1>2. JobTableType /\ HandlerType
  BY DEF InfraInit, JobTableType, HandlerType, ProxyPcs
<1>3. FetchedOwned /\ HandlerOwned /\ NoThreads
  BY DEF InfraInit, Init, FetchedOwned, HandlerOwned, JobRequests, NoThreads
<1> QED BY <1>1, <1>2, <1>3 DEF InfraInv

-----------------------------------------------------------------------------
(* The queue's part. A step of a proxy or a device moves at most one job   *)
(* that exists from one list to the other.                                 *)

InfraStep ==
  \/ \E p \in Proxies : ProxyStep(p)
  \/ \E d \in Devices : DeviceStep(d)
  \/ \E j \in Jobs : CancelDocument(j) \/ IdentifyJob(j)

\* Steps that do not touch the queue, but may crash.
LEMMA SameLists ==
  ASSUME ListInv, crashed' \in BOOLEAN,
         UNCHANGED <<jobVars, listVars, printerVars, deviceVars, flagVars,
                     threadVars, clientVars>>
  PROVE  TypeOK' /\ \E S : MoveJobs(S)
<1>1. TypeOK'
  BY DEF ListInv, QueueInv, TypeOK, JobType, ListType, PrinterType, ThreadType,
         ClientType, jobVars, listVars, printerVars, deviceVars, flagVars,
         threadVars, clientVars
<1>2. \E S : MoveJobs(S)
  BY MoveNone DEF ListInv, QueueInv, jobVars, listVars, flagVars
<1> QED BY <1>1, <1>2

\* A job that a device takes, or whose state it reports or the reasons of it,
\* stays in the list it is in.
LEMMA SameJobLists ==
  ASSUME ListInv, NEW j \in Jobs, Exists(j),
         NEW s \in JobStates \ {"none", "freed"},
         job_state' \in {job_state, [job_state EXCEPT ![j] = s]},
         hold_specified' \in SUBSET Jobs,
         job_completed' \in {job_completed, [job_completed EXCEPT ![j] = "recent"]},
         UNCHANGED <<is_canceled, fd_open, hold_until, num_documents,
                     next_job_id, listVars, printerVars, deviceVars, flagVars,
                     threadVars, clientVars, crashed>>
  PROVE  TypeOK' /\ \E S : MoveJobs(S)
<1> USE DEF ListInv, QueueInv, TypeOK
<1>1. JobType'
  BY DEF JobType
<1>2. ListType' /\ PrinterType' /\ ThreadType' /\ ClientType'
  BY DEF ListType, PrinterType, ThreadType, ClientType, listVars, printerVars,
         deviceVars, flagVars, threadVars, clientVars
<1>3. \A k \in Jobs : \/ job_state'[k] = job_state[k]
                      \/ Exists(k) /\ job_state'[k] \notin {"none", "freed"}
  BY DEF JobType
<1> QED BY <1>1, <1>2, <1>3, MoveNone DEF listVars, flagVars

\* A job that a device ends goes to the completed ones.
LEMMA EndMoves ==
  ASSUME InfraInv, NEW p \in Proxies, NEW s \in {"aborted", "completed", "beyond"},
         EndByProxy(p, s)
  PROVE  TypeOK' /\ \E S : MoveJobs(S)
<1> DEFINE j == hjob[p]
<1> USE DEF InfraInv, ListInv, QueueInv, TypeOK
<1>1. j \in Jobs /\ Exists(j)
  BY DEF EndByProxy, Has, HandlerOwned, JobRequests
<1>2. /\ job_state' = [job_state EXCEPT ![j] = s]
      /\ job_completed' = [job_completed EXCEPT ![j] = "recent"]
      /\ num_documents' \in {num_documents, Put(num_documents, {j}, 0)}
      /\ processing_job' = NoJob /\ is_stopped' = FALSE
      /\ printer_state' \in {"stopped", "idle"}
      /\ active_jobs' = active_jobs \ {j}
      /\ completed_jobs' = AddEntries({j})
      /\ StampClean
      /\ hold_specified' \in {hold_specified \ {j}, hold_specified \cup {j}}
      /\ UNCHANGED <<is_canceled, fd_open, hold_until, next_job_id, deviceVars,
                     flagVars, threadVars, clientVars, crashed>>
  BY DEF EndByProxy, Replaced
<1>3. JobType'
  <2>1. num_documents' \in [Jobs -> 0 .. MaxDocs]
    <3>1. 0 \in 0 .. MaxDocs
      BY Bounds
    <3>2. Put(num_documents, {j}, 0) \in [Jobs -> 0 .. MaxDocs]
      BY <3>1, PutType DEF JobType
    <3> QED BY <1>2, <3>2 DEF JobType
  <2>2. s \in JobStates
    BY InfraAssumption DEF InfraAssumption, JobStates, OtherStates
  <2>3. hold_specified' \in SUBSET Jobs
    BY <1>1, <1>2 DEF JobType
  <2> QED BY <1>1, <1>2, <2>1, <2>2, <2>3 DEF JobType
<1>4. ListType'
  BY <1>2, AddEntriesType DEF ListType, StampClean
<1>5. PrinterType' /\ ThreadType' /\ ClientType'
  BY <1>2 DEF PrinterType, ThreadType, ClientType, deviceVars, flagVars, threadVars,
              clientVars
<1>6. MoveJobs({j})
  BY <1>1, <1>2 DEF MoveJobs, JobType, flagVars
<1> QED BY <1>3, <1>4, <1>5, <1>6

\* Every step of a queue with devices keeps the types and, for its lists, moves
\* some jobs to the history.
LEMMA InfraMoves ==
  ASSUME InfraInv, ~crashed, InfraStep
  PROVE  TypeOK' /\ \E S : MoveJobs(S)
<1> USE DEF InfraInv
<1>0. crashed \in BOOLEAN
  BY DEF ListInv, QueueInv, TypeOK, PrinterType
<1>1. ASSUME UNCHANGED vars PROVE TypeOK' /\ \E S : MoveJobs(S)
  BY <1>0, <1>1, SameLists DEF vars
<1>2. ASSUME NEW p \in Proxies, ProxyStep(p) PROVE TypeOK' /\ \E S : MoveJobs(S)
  <2>1. CASE \/ \E d \in Devices : \/ \E j \in Jobs, op \in JobRequests :
                                        FindDevice(p, op, d, j)
                                   \/ BeginActive(p, d)
             \/ Refuse(p) \/ AckDocument(p) \/ DocumentStatus(p)
    BY <1>1, <2>1 DEF FindDevice, BeginActive, Refuse, AckDocument, DocumentStatus,
                      SetDocument
  <2>2. CASE AckJob(p)
    <3>1. hjob[p] \in Jobs /\ Exists(hjob[p])
      BY <2>2 DEF AckJob, Has, HandlerOwned, JobRequests
    <3>2. hold_specified \in SUBSET Jobs
      BY DEF ListInv, QueueInv, TypeOK, JobType
    <3>3. "pending" \in JobStates \ {"none", "freed"}
      BY DEF JobStates
    <3>4. /\ job_state' \in {job_state, [job_state EXCEPT ![hjob[p]] = "pending"]}
          /\ hold_specified' \in {hold_specified, hold_specified \ {hjob[p]}}
          /\ UNCHANGED <<is_canceled, fd_open, hold_until, num_documents,
                         job_completed, next_job_id, listVars, printerVars,
                         deviceVars, flagVars, threadVars, clientVars, crashed>>
      BY <2>2 DEF AckJob, TakeJob
    <3> QED BY <3>1, <3>2, <3>3, <3>4, SameJobLists
  <2>3. CASE ReportReasons(p)
    <3>1. hjob[p] \in Jobs /\ Exists(hjob[p])
      BY <2>3 DEF ReportReasons, Has, HandlerOwned, JobRequests
    <3>2. hold_specified' \in SUBSET Jobs
      BY <2>3, <3>1 DEF ReportReasons, Replaced, ListInv, QueueInv, TypeOK, JobType
    <3>3. "pending" \in JobStates \ {"none", "freed"}
      BY DEF JobStates
    <3> QED BY <2>3, <3>1, <3>2, <3>3, SameJobLists DEF ReportReasons
  <2>4. ASSUME NEW j \in Jobs, NEW s \in JobStates \ {"none", "freed"},
               ReportOne(p, j, s)
        PROVE  TypeOK' /\ \E S : MoveJobs(S)
    <3>2. hold_specified \in SUBSET Jobs
      BY DEF ListInv, QueueInv, TypeOK, JobType
    <3>3. /\ Exists(j) /\ job_state' = [job_state EXCEPT ![j] = s]
          /\ job_completed' \in {job_completed, [job_completed EXCEPT ![j] = "recent"]}
          /\ UNCHANGED <<is_canceled, fd_open, hold_until, hold_specified,
                         num_documents, next_job_id, listVars, printerVars,
                         deviceVars, flagVars, threadVars, clientVars, crashed>>
      BY <2>4 DEF ReportOne, Named, TakeOver
    <3> QED BY <3>2, <3>3, SameJobLists
  <2>5. CASE FetchDocument(p) \/ EndActive(p) \/ LockFreed(p)
    BY <2>5, <1>0, SameLists DEF FetchDocument, EndActive, LockFreed
  <2>6. CASE \E s \in {"aborted", "completed", "beyond"} : EndByProxy(p, s)
    BY <2>6, EndMoves
  <2> QED BY <1>2, <2>1, <2>2, <2>3, <2>4, <2>5, <2>6 DEF ProxyStep
<1>3. ASSUME NEW d \in Devices, DeviceStep(d) PROVE TypeOK' /\ \E S : MoveJobs(S)
  <2>1. CASE Deregister(d)
    <3>1. UNCHANGED <<jobVars, listVars, printerVars, deviceVars, flagVars, threadVars,
                      crashed>>
      BY <2>1 DEF Deregister
    <3>2. ClientType'
      <4>1. ClientType
        BY DEF ListInv, QueueInv, TypeOK
      <4>2. CASE UNCHANGED clientVars
        BY <4>1, <4>2 DEF ClientType, clientVars
      <4>3. CASE \E c \in Clients : Enter(c, "delete", NoJob, TRUE)
        BY <4>1, <4>3 DEF ClientType, ClientPcs, Enter
      <4> QED BY <2>1, <4>2, <4>3 DEF Deregister
    <3>3. JobType' /\ ListType' /\ PrinterType' /\ ThreadType'
      BY <3>1 DEF ListInv, QueueInv, TypeOK, JobType, ListType, PrinterType, ThreadType,
                  jobVars, listVars, printerVars, deviceVars, flagVars, threadVars
    <3>4. \E S : MoveJobs(S)
      BY <3>1, MoveNone DEF ListInv, QueueInv, jobVars, listVars, flagVars
    <3> QED BY <3>2, <3>3, <3>4 DEF TypeOK
  <2> QED BY <1>1, <1>3, <2>1 DEF DeviceStep, Register, RemoveInfraDevice
<1>4. ASSUME NEW j \in Jobs, CancelDocument(j) PROVE TypeOK' /\ \E S : MoveJobs(S)
  BY <1>1, <1>4 DEF CancelDocument, SetDocument
<1>5. ASSUME NEW j \in Jobs, IdentifyJob(j) PROVE TypeOK' /\ \E S : MoveJobs(S)
  BY <1>5, SameLists DEF IdentifyJob
<1> QED BY <1>2, <1>3, <1>4, <1>5 DEF InfraStep

\* So the lists agree after it, and it is a step of the ledger.
LEMMA InfraLists ==
  ASSUME InfraInv, [InfraNext]_infraVars
  PROVE  ListInv' /\ [Ledger!Next]_(Ledger!ledger)
<1>1. CASE [Next]_vars
  BY <1>1, ListStep, StepRefines DEF InfraInv
<1>2. CASE ~crashed /\ InfraStep
  <2>1. PICK S : MoveJobs(S)
    BY <1>2, InfraMoves
  <2>2. ListInv'
    BY <1>2, <2>1, InfraMoves, MoveAgrees DEF InfraInv, ListInv, QueueInv
  <2>3. Ledger!End(S \cap active_jobs)
    BY <1>2, <2>1, MoveRefines DEF InfraInv
  <2>4. S \cap active_jobs \in SUBSET active_jobs
    OBVIOUS
  <2> QED BY <2>2, <2>3, <2>4 DEF Ledger!Next, Ledger!ledger, Ledger!End
<1> QED BY <1>1, <1>2 DEF InfraNext, Queue, InfraStep, infraVars

-----------------------------------------------------------------------------
(* The devices' part.                                                      *)

\* The queue leaves requests alone, and what is freed is no device's.
LEMMA DevicesOfQueue ==
  ASSUME InfraInv, Queue
  PROVE  (JobTableType /\ HandlerType /\ FetchedOwned /\ HandlerOwned)'
<1> USE DEF InfraInv
<1> DEFINE gone == {j \in Jobs : job_state'[j] = "freed"}
<1>1. /\ UNCHANGED <<hpc, hdev, hjob>>
      /\ output_device' = Put(output_device, gone, NoDevice)
      /\ fetched' = Put(fetched, gone, {})
      /\ \E S : document_state' = Put(Put(document_state, S, "pending"), gone, "none")
      /\ registered' = [d \in Devices |->
                          IF printer_freed' /\ registered[d] = "yes"
                          THEN "gone" ELSE registered[d]]
  BY DEF Queue, handlerVars
<1> DEFINE DocStates == {"none", "pending", "processing", "ended"}
<1>2. document_state' \in [Jobs -> DocStates]
  <2>1. PICK S : document_state' = Put(Put(document_state, S, "pending"), gone, "none")
    BY <1>1
  <2>2. Put(document_state, S, "pending") \in [Jobs -> DocStates]
    BY PutType DEF JobTableType
  <2> QED BY <2>1, <2>2, PutType
<1>3. /\ output_device' \in [Jobs -> Devices \cup {NoDevice}]
      /\ fetched' \in [Jobs -> SUBSET Devices]
  BY <1>1, PutType DEF JobTableType
<1>4. registered' \in [Devices -> {"no", "yes", "gone"}]
  BY <1>1 DEF HandlerType
<1>5. JobTableType' /\ HandlerType'
  BY <1>1, <1>2, <1>3, <1>4 DEF JobTableType, HandlerType
<1>6. \A d \in Devices : /\ registered[d] # "no" => registered'[d] # "no"
                         /\ registered'[d] = "yes" => registered[d] = "yes"
  BY <1>1
<1>7. FetchedOwned'
  <2> SUFFICES ASSUME NEW j \in Jobs, NEW d \in fetched'[j]
               PROVE  /\ registered'[d] # "no"
                      /\ registered'[d] = "yes" => output_device'[j] = d
    BY DEF FetchedOwned
  <2>1. j \notin gone /\ d \in fetched[j] /\ output_device'[j] = output_device[j]
    BY <1>1 DEF Put
  <2>2. d \in Devices
    BY <2>1 DEF JobTableType
  <2> QED BY <1>6, <2>1, <2>2 DEF FetchedOwned
<1>8. HandlerOwned'
  BY <1>1, <1>6 DEF HandlerOwned
<1> QED BY <1>5, <1>7, <1>8

\* Requests: a device that takes a job has it to itself, since whoever has the
\* document is not registered any more, or is the device.
LEMMA DevicesOfProxy ==
  ASSUME InfraInv, NEW p \in Proxies, ProxyStep(p)
  PROVE  (JobTableType /\ HandlerType /\ FetchedOwned /\ HandlerOwned)'
<1> USE DEF InfraInv, jobTable, handlerVars
<1>1. /\ registered \in [Devices -> {"no", "yes", "gone"}]
      /\ hpc \in [Proxies -> ProxyPcs]
      /\ hdev \in [Proxies -> Devices \cup {NoDevice}]
      /\ hjob \in [Proxies -> Jobs \cup {NoJob}]
  BY DEF HandlerType
<1>2. ASSUME NEW pc \in ProxyPcs \ {"idle"}, NEW d \in Devices,
             NEW j \in Jobs \cup {NoJob}, registered[d] = "yes",
             pc \in JobRequests => j \in Jobs, Enters(p, pc, d, j),
             UNCHANGED <<registered, jobTable>>
      PROVE  (JobTableType /\ HandlerType /\ FetchedOwned /\ HandlerOwned)'
  <2>1. JobTableType' /\ FetchedOwned'
    BY <1>2 DEF JobTableType, FetchedOwned
  <2>2. HandlerType' /\ HandlerOwned'
    BY <1>1, <1>2 DEF Enters, HandlerType, HandlerOwned
  <2> QED BY <2>1, <2>2
<1>3. ASSUME Returns(p), UNCHANGED registered PROVE HandlerType' /\ HandlerOwned'
  BY <1>1, <1>3 DEF Returns, HandlerType, HandlerOwned, ProxyPcs, JobRequests
<1>4. ASSUME UNCHANGED <<registered, output_device, fetched>> PROVE FetchedOwned'
  BY <1>4 DEF FetchedOwned
<1>5. CASE \E d \in Devices : \/ \E j \in Jobs, op \in JobRequests :
                                   FindDevice(p, op, d, j)
                              \/ BeginActive(p, d)
  <2>1. "active" \notin JobRequests /\ "idle" \notin JobRequests
    BY DEF JobRequests
  <2> QED BY <1>2, <1>5, <2>1 DEF FindDevice, BeginActive, ProxyPcs
<1>12. CASE LockFreed(p)
  <2>1. UNCHANGED <<registered, jobTable, handlerVars>>
    BY <1>12 DEF LockFreed
  <2> QED BY <2>1 DEF JobTableType, HandlerType, FetchedOwned, HandlerOwned
<1>6. CASE Refuse(p) \/ EndActive(p)
  <2>1. UNCHANGED <<registered, jobTable>> /\ Returns(p)
    BY <1>6 DEF Refuse, EndActive
  <2> QED BY <1>3, <1>4, <2>1 DEF JobTableType
<1>7. CASE AckJob(p)
  <2>1. /\ hjob[p] \in Jobs /\ hdev[p] \in Devices
        /\ output_device[hjob[p]] \in {NoDevice, hdev[p]}
        /\ output_device' = [output_device EXCEPT ![hjob[p]] = hdev[p]]
        /\ UNCHANGED <<registered, document_state, fetched>> /\ Returns(p)
    BY <1>7 DEF AckJob, TakeJob, Has, HandlerOwned, JobRequests
  <2>2. JobTableType'
    BY <2>1 DEF JobTableType
  <2>3. FetchedOwned'
    <3> SUFFICES ASSUME NEW j \in Jobs, NEW d \in fetched[j], registered[d] = "yes"
                 PROVE  output_device'[j] = d
      BY <2>1 DEF FetchedOwned
    <3>1. output_device[j] = d /\ d \in Devices
      BY DEF FetchedOwned, JobTableType
    <3>2. d # NoDevice
      BY <3>1, InfraAssumption DEF InfraAssumption
    <3> QED BY <2>1, <3>1, <3>2 DEF JobTableType
  <2> QED BY <1>3, <2>1, <2>2, <2>3
<1>8. CASE FetchDocument(p)
  <2>1. /\ hjob[p] \in Jobs /\ hdev[p] \in Devices /\ registered[hdev[p]] # "no"
        /\ UNCHANGED <<registered, output_device, document_state>>
        /\ Returns(p)
    BY <1>8 DEF FetchDocument, Has, HandlerOwned, JobRequests
  <2>2. \/ fetched' = fetched
        \/ /\ output_device[hjob[p]] = hdev[p]
           /\ fetched' = [fetched EXCEPT ![hjob[p]] = @ \cup {hdev[p]}]
    BY <1>8 DEF FetchDocument, HasDocument, Mine
  <2>3. JobTableType'
    BY <2>1, <2>2 DEF JobTableType
  <2>4. FetchedOwned'
    BY <2>1, <2>2 DEF FetchedOwned, JobTableType
  <2> QED BY <1>3, <2>1, <2>3, <2>4
<1>9. CASE AckDocument(p) \/ DocumentStatus(p)
  <2>1. /\ UNCHANGED <<registered, output_device, fetched>> /\ Returns(p)
        /\ \E s \in {"processing", "ended"} :
             document_state' = [document_state EXCEPT ![hjob[p]] = s]
    BY <1>9 DEF AckDocument, DocumentStatus, SetDocument
  <2>2. JobTableType'
    BY <2>1 DEF JobTableType
  <2> QED BY <1>3, <1>4, <2>1, <2>2
<1>10. CASE \/ ReportReasons(p)
            \/ \E s \in {"aborted", "completed", "beyond"} : EndByProxy(p, s)
  <2>1. /\ UNCHANGED <<registered, output_device, document_state, fetched>> /\ Returns(p)
    BY <1>10 DEF ReportReasons, EndByProxy
  <2>2. JobTableType'
    BY <2>1 DEF JobTableType
  <2> QED BY <1>3, <1>4, <2>1, <2>2
<1>11. CASE \E j \in Jobs, s \in JobStates \ {"none", "freed"} : ReportOne(p, j, s)
  <2>1. UNCHANGED <<registered, jobTable, handlerVars>>
    BY <1>11 DEF ReportOne, TakeOver
  <2> QED BY <2>1 DEF JobTableType, HandlerType, FetchedOwned, HandlerOwned
<1> QED BY <1>5, <1>6, <1>7, <1>8, <1>9, <1>10, <1>11, <1>12 DEF ProxyStep

\* A device that goes is not registered again.
LEMMA DevicesOfDevice ==
  ASSUME InfraInv, \/ \E d \in Devices : DeviceStep(d)
                   \/ \E j \in Jobs : CancelDocument(j) \/ IdentifyJob(j)
  PROVE  (JobTableType /\ HandlerType /\ FetchedOwned /\ HandlerOwned)'
<1> USE DEF InfraInv, jobTable, handlerVars
<1>1. ASSUME NEW d \in Devices, Register(d) \/ RemoveInfraDevice(d)
      PROVE  (JobTableType /\ HandlerType /\ FetchedOwned /\ HandlerOwned)'
  <2>1. /\ registered' \in {[registered EXCEPT ![d] = "yes"], [registered EXCEPT ![d] = "gone"]}
        /\ registered'[d] = "yes" => registered[d] = "no"
        /\ UNCHANGED <<jobTable, handlerVars>>
    BY <1>1 DEF Register, RemoveInfraDevice, HandlerType
  <2>2. JobTableType' /\ HandlerType'
    BY <2>1 DEF JobTableType, HandlerType
  <2>3. \A e \in Devices : /\ registered[e] # "no" => registered'[e] # "no"
                           /\ registered'[e] = "yes" => registered[e] \in {"no", "yes"}
    BY <2>1 DEF HandlerType
  <2>4. FetchedOwned'
    BY <2>1, <2>3 DEF FetchedOwned, JobTableType
  <2>5. HandlerOwned'
    BY <2>1, <2>3 DEF HandlerOwned
  <2> QED BY <2>2, <2>4, <2>5
<1>2. ASSUME NEW d \in Devices, Deregister(d)
      PROVE  (JobTableType /\ HandlerType /\ FetchedOwned /\ HandlerOwned)'
  <2>1. /\ registered' = [registered EXCEPT ![d] = "gone"]
        /\ output_device' = [j \in Jobs |-> IF output_device[j] = d
                                            THEN NoDevice ELSE output_device[j]]
        /\ UNCHANGED <<document_state, fetched, hpc, hdev, hjob>>
    BY <1>2 DEF Deregister
  <2>2. JobTableType' /\ HandlerType'
    BY <2>1 DEF JobTableType, HandlerType
  <2>3. \A e \in Devices : /\ registered[e] # "no" => registered'[e] # "no"
                           /\ registered'[e] = "yes" => registered[e] = "yes" /\ e # d
    BY <2>1 DEF HandlerType
  <2>4. FetchedOwned' /\ HandlerOwned'
    BY <2>1, <2>3 DEF FetchedOwned, HandlerOwned, JobTableType
  <2> QED BY <2>2, <2>4
<1>3. ASSUME NEW j \in Jobs, CancelDocument(j)
      PROVE  (JobTableType /\ HandlerType /\ FetchedOwned /\ HandlerOwned)'
  <2>1. /\ UNCHANGED <<registered, output_device, fetched, handlerVars>>
        /\ document_state' = [document_state EXCEPT ![j] = "ended"]
    BY <1>3 DEF CancelDocument, SetDocument
  <2> QED BY <2>1 DEF JobTableType, HandlerType, FetchedOwned, HandlerOwned
<1>4. ASSUME NEW j \in Jobs, IdentifyJob(j)
      PROVE  (JobTableType /\ HandlerType /\ FetchedOwned /\ HandlerOwned)'
  <2>1. UNCHANGED <<registered, jobTable, handlerVars>>
    BY <1>4 DEF IdentifyJob
  <2> QED BY <2>1 DEF JobTableType, HandlerType, FetchedOwned, HandlerOwned
<1> QED BY <1>1, <1>2, <1>3, <1>4 DEF DeviceStep

-----------------------------------------------------------------------------
(* What becomes of the states of jobs.                                     *)

\* The queue of an infrastructure printer starts nothing.
LEMMA NeverChecks ==
  ASSUME NEW ready, NEW js, NEW hs, CheckJobs(ready, js, hs, tpc), ~ready
  PROVE  job_state' = js /\ tpc' = tpc
  BY DEF CheckJobs

\* Its test for that is never passed.
LEMMA NeverReady == ~Ready
  BY InfraAssumption DEF InfraAssumption, Ready, CanProcess

\* What a step of the queue may do to the state of a job.
Keeps(j) ==
  \/ job_state'[j] = job_state[j]
  \/ job_state'[j] \in {"canceled", "aborted", "freed"}
  \/ /\ job_state'[j] = "pending"
     /\ \E c \in Clients : cpc[c] = "submit" /\ cjob[c] = j
  \/ ~Over(j) /\ job_state'[j] # "processing"

\* A client that goes on with a request.
LEMMA ClientKeeps ==
  ASSUME InfraInv, NEW c \in Clients, ClientStep(c)
  PROVE  tpc' = tpc /\ \A j \in Jobs : Keeps(j)
<1> USE DEF InfraInv, ListInv, QueueInv, TypeOK, JobType, Keeps
<1>1. CASE OpenSpool(c) \/ CloseSpool(c) \/ UnlistFile(c) \/ MarkDeleted(c)
  BY <1>1 DEF OpenSpool, CloseSpool, UnlistFile, MarkDeleted, jobVars, threadVars
<1>2. CASE AbortCopy(c) \/ RejectFile(c)
  BY <1>2 DEF AbortCopy, RejectFile, Abort, threadVars
<1>3. CASE SubmitFile(c)
  BY <1>3 DEF SubmitFile, At, threadVars
<1>4. CASE CheckAfter(c)
  BY <1>4, NeverChecks, NeverReady DEF CheckAfter
<1>5. CASE CancelJob(c)
  BY <1>5 DEF CancelJob, Cancel, Put, threadVars
<1>6. CASE DeleteNow(c)
  BY <1>6 DEF DeleteNow, FreePrinter, threadVars
<1> QED BY <1>1, <1>2, <1>3, <1>4, <1>5, <1>6 DEF ClientStep

\* A client that begins one.
LEMMA ClientRequestKeeps ==
  ASSUME InfraInv, NEW c \in Clients, ClientRequest(c)
  PROVE  tpc' = tpc /\ \A j \in Jobs : Keeps(j)
<1> USE DEF InfraInv, ListInv, QueueInv, TypeOK, JobType, Keeps
<1>1. CASE PrintJob(c) \/ PrintFile(c)
  <2>1. PICK hold \in HoldOptions : NewJob(hold)
    BY <1>1 DEF PrintJob, PrintFile
  <2>2. ~Over(next_job_id) /\ job_state' = [job_state EXCEPT ![next_job_id] = "held"]
    BY <2>1, Bounds DEF NewJob, Fresh, Over, Ends, Terminal, Jobs
  <2> QED BY <1>1, <2>2 DEF PrintJob, PrintFile, threadVars
<1>2. CASE DeletePrinter(c) \/ \E j \in Jobs : SendDocument(c, j) \/ CancelRequest(c, j)
  BY <1>2 DEF DeletePrinter, SendDocument, CancelRequest, jobVars, threadVars
<1>3. CASE \E j \in Jobs : ResumeJob(c, j)
  BY <1>3 DEF ResumeJob, Over, Ends, Terminal, threadVars
<1> QED BY <1>1, <1>2, <1>3 DEF ClientRequest

\* The requests of one section.
LEMMA RequestKeeps ==
  ASSUME InfraInv, Request
  PROVE  tpc' = tpc /\ \A j \in Jobs : Keeps(j)
<1> USE DEF InfraInv, ListInv, QueueInv, TypeOK, JobType, Keeps
<1>1. CASE CreateJob
  <2>1. PICK hold \in HoldOptions : NewJob(hold)
    BY <1>1 DEF CreateJob
  <2>2. ~Over(next_job_id) /\ job_state' = [job_state EXCEPT ![next_job_id] = "held"]
    BY <2>1, Bounds DEF NewJob, Fresh, Over, Ends, Terminal, Jobs
  <2> QED BY <1>1, <2>2 DEF CreateJob, threadVars
<1>2. CASE CancelAllJobs \/ \E j \in Jobs : WebCancel(j)
  BY <1>2 DEF CancelAllJobs, WebCancel, Cancel, Put, threadVars
<1>3. CASE Pause \/ HoldNewJobs \/ OpenDevice \/ StopSystem
  BY <1>3 DEF Pause, HoldNewJobs, OpenDevice, StopSystem, jobVars, threadVars
<1>4. ASSUME NEW ready, CheckJobs(ready, job_state, hold_specified, tpc), ~ready
      PROVE  tpc' = tpc /\ \A j \in Jobs : Keeps(j)
  BY <1>4, NeverChecks
<1>8. CASE Resume
  <2> DEFINE ready == CanProcess(device_in_use, processing_job, "idle", FALSE)
  <2>1. CheckJobs(ready, job_state, hold_specified, tpc)
    BY <1>8 DEF Resume
  <2>2. ~ready
    BY InfraAssumption DEF InfraAssumption, CanProcess
  <2> HIDE DEF ready
  <2> QED BY <2>1, <2>2, <1>4
<1>9. CASE CloseDevice
  <2> DEFINE ready == CanProcess(FALSE, processing_job, printer_state, is_stopped)
  <2>1. CheckJobs(ready, job_state, hold_specified, tpc)
    BY <1>9 DEF CloseDevice
  <2>2. ~ready
    BY InfraAssumption DEF InfraAssumption, CanProcess
  <2> HIDE DEF ready
  <2> QED BY <2>1, <2>2, <1>4
<1>5. CASE ReleaseHeldNewJobs
  <2> DEFINE released == {j \in active_jobs \ hold_specified :
                            job_state[j] = "held" /\ hold_until[j] = "none"}
             js == Put(job_state, released, "pending")
  <2>1. CheckJobs(Ready /\ released # {}, js, hold_specified, tpc)
    BY <1>5 DEF ReleaseHeldNewJobs
  <2> HIDE DEF js
  <2>2. job_state' = js /\ tpc' = tpc
    BY <2>1, NeverChecks, NeverReady
  <2> USE DEF js
  <2> QED BY <2>2 DEF Put, Over, Ends, Terminal
<1>6. CASE \E j \in Jobs : SendNothing(j) \/ HoldJob(j) \/ SuspendJob(j)
  BY <1>6 DEF SendNothing, HoldJob, SuspendJob, Before, Over, Ends, Terminal, threadVars
<1>7. ASSUME NEW j \in Jobs, ReleaseJob(j)
      PROVE  tpc' = tpc /\ \A k \in Jobs : Keeps(k)
  <2>1. CASE job_state[j] = "held"
    <3> DEFINE js == [job_state EXCEPT ![j] = "pending"]
    <3>1. CheckJobs(Ready, js, hold_specified \ {j}, tpc)
      BY <1>7, <2>1 DEF ReleaseJob
    <3> HIDE DEF js
    <3>2. job_state' = js /\ tpc' = tpc
      BY <3>1, NeverChecks, NeverReady
    <3> USE DEF js
    <3> QED BY <2>1, <3>2 DEF Over, Ends, Terminal
  <2>2. CASE job_state[j] # "held"
    BY <1>7, <2>2, NeverChecks, NeverReady DEF ReleaseJob
  <2> QED BY <2>1, <2>2
<1> QED BY <1>1, <1>2, <1>3, <1>5, <1>6, <1>7, <1>8, <1>9 DEF Request

\* The queue as a whole.
LEMMA QueueKeeps ==
  ASSUME InfraInv, Next
  PROVE  NoThreads' /\ \A j \in Jobs : Keeps(j)
<1>1. CASE \E c \in Clients : ClientStep(c) \/ ClientRequest(c)
  BY <1>1, ClientKeeps, ClientRequestKeeps DEF InfraInv, NoThreads
<1>2. CASE Request
  BY <1>2, RequestKeeps DEF InfraInv, NoThreads
<1>3. ASSUME NEW t \in Threads, ThreadStep(t) PROVE FALSE
  BY <1>3 DEF InfraInv, NoThreads, ThreadStep, StartJob, RetryDevice, PrintDocuments,
              FinishJob, DecideTail, DeleteLast, CloseAfterJob, CheckNext, ExitThread, On
<1>4. CASE (\E j \in Jobs : HoldTimeArrives(j)) \/ MinutePasses \/ UseFreed
  BY <1>4 DEF HoldTimeArrives, MinutePasses, UseFreed, jobVars, threadVars, InfraInv,
              NoThreads, Keeps
<1>5. CASE CleanJobs
  BY <1>5 DEF CleanJobs, Put, threadVars, InfraInv, NoThreads, Keeps
<1> QED BY <1>1, <1>2, <1>3, <1>4, <1>5 DEF Next

\* Proxies and devices have no threads either.
LEMMA OthersThreads ==
  ASSUME InfraStep
  PROVE  tpc' = tpc
<1>1. ASSUME NEW p \in Proxies, ProxyStep(p) PROVE tpc' = tpc
  BY <1>1 DEF ProxyStep, FindDevice, BeginActive, Refuse, LockFreed, AckJob, TakeJob,
              FetchDocument, AckDocument, DocumentStatus, SetDocument, ReportReasons,
              EndActive, EndByProxy, ReportOne, TakeOver, vars, threadVars
<1>2. ASSUME NEW d \in Devices, DeviceStep(d) PROVE tpc' = tpc
  BY <1>2 DEF DeviceStep, Register, RemoveInfraDevice, Deregister, vars, threadVars
<1>3. ASSUME NEW j \in Jobs, CancelDocument(j) \/ IdentifyJob(j) PROVE tpc' = tpc
  BY <1>3 DEF CancelDocument, SetDocument, IdentifyJob, vars, threadVars
<1> QED BY <1>1, <1>2, <1>3 DEF InfraStep

\* Every step keeps the invariant.
LEMMA InfraInvStep ==
  ASSUME InfraInv, [InfraNext]_infraVars
  PROVE  InfraInv'
<1>1. ListInv'
  BY InfraLists
<1>2. CASE UNCHANGED infraVars
  BY <1>1, <1>2 DEF infraVars, vars, threadVars, jobTable, handlerVars, InfraInv,
                    JobTableType, HandlerType, FetchedOwned, HandlerOwned, NoThreads
<1>3. CASE InfraNext
  <2>1. NoThreads'
    BY <1>3, QueueKeeps, OthersThreads DEF InfraNext, InfraStep, Queue, InfraInv, NoThreads
  <2> QED BY <1>1, <1>3, <2>1, DevicesOfQueue, DevicesOfProxy, DevicesOfDevice
          DEF InfraNext, InfraInv
<1> QED BY <1>2, <1>3

\* What proxies and devices do to the state of a job.
LEMMA ReportsKeep ==
  ASSUME InfraInv, InfraStep, NEW j \in Jobs
  PROVE  /\ Over(j) => Over(j)'
         /\ j \in is_canceled /\ job_state'[j] = "processing"
              => job_state[j] = "processing"
<1> USE DEF InfraInv, ListInv, QueueInv, TypeOK, JobType
<1>1. ASSUME UNCHANGED job_state PROVE Over(j)' = Over(j)
  BY <1>1 DEF Over
<1>2. ASSUME NEW p \in Proxies, ProxyStep(p)
      PROVE  /\ Over(j) => Over(j)'
             /\ j \in is_canceled /\ job_state'[j] = "processing"
                  => job_state[j] = "processing"
  <2>1. CASE AckJob(p)
    BY <2>1 DEF AckJob, TakeJob, Over, Ends, Terminal
  <2>2. CASE \E s \in {"aborted", "completed", "beyond"} : EndByProxy(p, s)
    BY <2>2 DEF EndByProxy, Over, Ends, Terminal
  <2>3. CASE \E k \in Jobs, s \in JobStates \ {"none", "freed"} : ReportOne(p, k, s)
    BY <2>3 DEF ReportOne, TakeOver, Over, Ends, Terminal
  <2>4. CASE UNCHANGED job_state
    BY <1>1, <2>4
  <2> QED BY <1>2, <2>1, <2>2, <2>3, <2>4
          DEF ProxyStep, FindDevice, BeginActive, Refuse, LockFreed, FetchDocument,
              AckDocument, DocumentStatus, SetDocument, ReportReasons, EndActive,
              vars, jobVars
<1>3. CASE UNCHANGED job_state
  BY <1>1, <1>3
<1> QED BY <1>2, <1>3 DEF InfraStep, DeviceStep, Register, RemoveInfraDevice, Deregister,
                          CancelDocument, SetDocument, IdentifyJob, vars, jobVars

-----------------------------------------------------------------------------
(* What follows.                                                           *)

\* The invariant, in every state of every execution.
THEOREM InfraAlways == InfraSpec => []InfraInv
<1>1. InfraInv /\ [InfraNext]_infraVars => InfraInv'
  BY InfraInvStep
<1> QED BY <1>1, InfraStarts, PTL DEF InfraSpec

\* Every variable has its type, whatever numbers proxies send as states.
THEOREM InfraTypes == InfraSpec => []InfraTypeOK
<1>1. InfraInv => InfraTypeOK
  BY DEF InfraInv, ListInv, QueueInv, InfraTypeOK
<1> QED BY <1>1, InfraAlways, PTL

\* No report of a proxy (ipp_update_active_jobs, ipp_update_job_status) brings
\* back a job that has ended or starts one that is to be canceled, and nothing
\* else does but submitting its document.
THEOREM EndedStaysAlways == InfraSpec => EndedStays
<1> DEFINE Stays == \A j \in Jobs :
             /\ Over(j) => \/ Over(j)' \/ job_state'[j] = "freed"
                           \/ \E c \in Clients : cpc[c] = "submit" /\ cjob[c] = j
             /\ j \in is_canceled /\ job_state'[j] = "processing"
                  => job_state[j] = "processing"
<1>1. ASSUME InfraInv, [InfraNext]_infraVars PROVE [Stays]_infraVars
  <2>1. CASE UNCHANGED infraVars
    BY <2>1
  <2>2. CASE Next
    BY <1>1, <2>2, QueueKeeps DEF Keeps, Over, Ends, Terminal
  <2>3. CASE InfraStep
    BY <1>1, <2>3, ReportsKeep
  <2> QED BY <1>1, <2>1, <2>2, <2>3 DEF InfraNext, InfraStep, Queue
<1> QED BY <1>1, InfraAlways, PTL DEF InfraSpec, EndedStays

\* No two registered devices have been sent a job's document (Acknowledge-Job,
\* Fetch-Document), though devices come and go between the steps of a request.
THEOREM OneDeviceAlwaysPrints == InfraSpec => []OneDevicePrints
<1>1. InfraInv => OneDevicePrints
  BY DEF InfraInv, FetchedOwned, Registered, OneDevicePrints
<1> QED BY <1>1, InfraAlways, PTL

\* A job that proxies end is in one list (ipp_update_job_status).
THEOREM InfraListsAgree == InfraSpec => []ListsAgree
<1>1. InfraInv => ListsAgree
  BY Halves DEF InfraInv, ListInv, QueueInv
<1> QED BY <1>1, InfraAlways, PTL

\* The lists that the proxies act on without the printer's lock still implement
\* JobLedger.
THEOREM InfraImplementsLedger == InfraSpec => LedgerSpec
<1>1. InfraInit => Ledger!Init
  BY DEF InfraInit, Init, Ledger!Init, Listed
<1>2. InfraInv /\ [InfraNext]_infraVars => [Ledger!Next]_(Ledger!ledger)
  BY InfraLists
<1> QED BY <1>1, <1>2, InfraAlways, PTL DEF InfraSpec, LedgerSpec, Ledger!Spec
=============================================================================
