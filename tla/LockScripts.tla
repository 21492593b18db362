----------------------------- MODULE LockScripts -----------------------------
(***************************************************************************)
(* The locks that the functions of the server take, in the order in which  *)
(* they take them. A script is a sequence of steps, each of which takes    *)
(* one lock when it holds those that it is under: Read("printer", body)    *)
(* takes the printer's lock for reading, goes through the body, and gives  *)
(* it up. A function that may return early is given by its longest path,   *)
(* of which the others are prefixes, and a loop by one turn. What a        *)
(* function calls when it holds no lock is a script of its own.            *)
(*                                                                         *)
(* One lock stands for all of its kind: there is one printer, one job, one *)
(* subscription.                                                           *)
(***************************************************************************)
LOCAL INSTANCE Sequences

Taken(l, mode) == [lock |-> l, mode |-> mode]

\* To take l, and then to go through the body with l held.
Hold(l, mode, body) ==
  <<[lock |-> l, mode |-> mode, under |-> {}]>>
    \o [i \in DOMAIN body |->
          [body[i] EXCEPT !.under = @ \cup {Taken(l, mode)}]]

Read(l, body)  == Hold(l, "read", body)
Write(l, body) == Hold(l, "write", body)
Mutex(l, body) == Write(l, body)
None           == <<>>

-----------------------------------------------------------------------------
(* What others call with locks held.                                       *)

AddEventNoLock    == Read("system", Write("subscription", None))
AddEvent          == Read("printer", Read("job", AddEventNoLock))
AddPrinterEvent   == Read("printer", AddEventNoLock)
ConfigChanged     == Mutex("config", None)
CheckJobsNoLock   == Write("job", AddEventNoLock)
RemoveFiles       == Mutex("tempdir", None)
FindLoc           == Read("system", None)
GetLocString      == Read("localization", None)
Localize          == FindLoc \o GetLocString
FindMIMEFilter    == Read("system", None)
GetSessionKey     == Mutex("session", None)
DeviceOpen        == Read("device", None) \o Write("device", None)
Log               == Mutex("log", None)
FindPrinter       == Read("system", Read("printers", None))
AddResource       == Write("system", None)

-----------------------------------------------------------------------------
(* Jobs: job.c, job-process.c, job-accessors.c.                            *)

JobGetter         == Read("job", None)
JobSetter         == Write("job", None)
JobCancel         == Write("printer",
                       Write("job", RemoveFiles \o AddEventNoLock))
JobCreate         == Write("printer", None) \o AddEvent \o ConfigChanged
JobHold           == Read("printer", Write("job", AddEventNoLock))
JobRetain         == Read("printer", Write("job", AddEventNoLock))
\* Mutant: the job's lock before the printer's.
JobReleaseSwapped == Write("job",
                       Write("printer", AddEventNoLock \o CheckJobsNoLock))
JobRelease        == Write("printer",
                       Write("job", AddEventNoLock) \o CheckJobsNoLock)
SubmitSection     == Write("job", Read("system", None) \o Read("printer", None)
                                    \o AddEventNoLock)
JobSubmitFile     == SubmitSection \o Write("printer", CheckJobsNoLock)
JobSubmitFailed   == Write("job", AddEventNoLock) \o Write("printer", None)
PrinterFindJob    == Read("printer", None)
SystemCleanJobs   == Read("system", Write("printer", RemoveFiles))
JobResume         == Write("job", None) \o Write("printer", CheckJobsNoLock)
StartJob          == Write("printer", Write("job", AddEventNoLock))
                       \o Write("printer", DeviceOpen)
                       \o Write("printer",
                            Read("job", AddEventNoLock) \o AddEventNoLock)
FinishJob         == Write("printer",
                       Write("job", RemoveFiles \o AddEventNoLock)
                         \o AddEventNoLock)
                       \o ConfigChanged \o Write("printer", CheckJobsNoLock)

-----------------------------------------------------------------------------
(* Requests about jobs and documents: job-ipp.c.                           *)

StreamRaster       == Read("printer", Write("job", None))
AbortCopy          == Write("printer", Write("job", Write("system", None)))
ValidateDocument   == Read("system", None) \o Read("printer", None)
AcknowledgeDocument == Read("output", None) \o Read("job", AddEventNoLock)
AcknowledgeJob     == Read("output", None)
                        \o Write("job", AddEventNoLock \o AddEventNoLock)
DocumentAttributes == Read("job", None)
GetDocuments       == Read("job", None)
ReleaseJobRequest  == Read("output", None) \o JobRelease
FetchDocument      == Read("output", None) \o Read("job", None)
FetchJob           == Read("output", None) \o Write("job", None)
UpdateDocumentStatus == Read("output", None) \o Write("job", AddEventNoLock)
UpdateJobStatus    == Read("output", None)
                        \o Write("job", RemoveFiles \o AddEventNoLock)

-----------------------------------------------------------------------------
(* Printers: printer.c, printer-accessors.c, printer-driver.c,             *)
(* printer-infra.c.                                                        *)

PrinterGetter       == Read("printer", None)
PrinterSetter       == Write("printer", None) \o ConfigChanged
CancelAllJobs       == Write("printer", RemoveFiles)
PrinterFree         == Write("printer", None) \o Read("printer", None)
                         \o Write("system", None)
PrinterDelete       == AddPrinterEvent \o Write("system", None) \o PrinterFree
                         \o ConfigChanged
AddPrinter          == Write("system", Write("printers", None))
                         \o ConfigChanged \o AddPrinterEvent
CloseDevice         == Write("printer", CheckJobsNoLock)
OpenDevice          == Write("printer", DeviceOpen)
HoldNewJobs         == Write("printer", AddEventNoLock) \o ConfigChanged
ReleaseHeldNewJobs  == Write("printer", AddEventNoLock
                         \o Write("job", AddEventNoLock) \o CheckJobsNoLock)
Pause               == Write("printer", AddEventNoLock)
Resume              == Write("printer", AddEventNoLock \o CheckJobsNoLock)
Enable              == AddPrinterEvent
IterateJobs         == Read("printer", JobGetter \o Localize \o GetSessionKey)
SetDriverData       == Write("printer", FindMIMEFilter)
AddInfraDevice      == Write("output", None)
GetInfraAttributes  == Read("output", None)
UpdateInfra         == Read("output", None)

-----------------------------------------------------------------------------
(* Printers come and go: printer.c, system-printer.c, device.c.            *)

DeviceIsSupported   == Read("device", None) \o Write("device", None)
\* Errors are logged as the devices are listed.
DeviceList          == Read("device", Log) \o Write("device", Log)
CreatePrinter       == FindPrinter \o Read("system", None) \o PrinterSetter
                         \o DeviceOpen \o SetDriverData \o AddPrinter
                         \o Write("printer", None) \o AddResource
                         \o Write("printer", None) \o ConfigChanged
CreatePrinters      == DeviceList \o FindPrinter \o CreatePrinter
                         \o Read("system", Read("printer", None))
CreatePrinterRequest == DeviceIsSupported \o CreatePrinter
                         \o Read("system", Read("printer", None))
SetProxy            == Write("printer", None) \o Write("printer", None)
                         \o ConfigChanged

-----------------------------------------------------------------------------
(* Web pages: client-webif.c, printer-webif.c, system-webif.c.             *)

HTMLHeader          == Read("system", None) \o Read("system", Localize)
                         \o Read("printer", Localize)
PrinterHeader       == HTMLHeader \o Read("printer", Localize) \o Localize
HTMLAuthorize       == GetSessionKey \o Read("system", None) \o HTMLHeader
PrinterStatus       == PrinterGetter \o Localize \o GetSessionKey
PrinterWebHome      == PrinterGetter \o HoldNewJobs \o Pause
                         \o ReleaseHeldNewJobs \o Resume \o PrinterHeader
                         \o PrinterStatus \o IterateJobs
PrinterWebJobs      == PrinterFindJob \o JobCancel \o JobHold \o JobRelease
                         \o JobCreate \o JobSubmitFile \o JobSetter
                         \o PrinterHeader \o IterateJobs
WebAddPrinter       == CreatePrinter \o Write("printer", None) \o DeviceList
                         \o Localize

-----------------------------------------------------------------------------
(* Requests about printers: printer-ipp.c, printer-webif.c.                *)

GetJobs             == Read("printer", None)

AcknowledgeIdentify == Write("printer", Read("output", None)
                         \o Read("output", None) \o AddEventNoLock)
\* Mutant: the devices are locked when a job of theirs is.
DeregisterJobFirst  == Read("printer", Write("job", Write("output", None)))
DeregisterOutputDevice == Read("printer", Write("output", Write("job", None)))
OutputDeviceAttributes == Read("printer", Read("output", None))
GetPrinterAttributes == Read("system", Read("printer", None))
                          \o Read("system", Write("printer", None))
\* Mutant: the event is added with the printer's lock held, by the function that
\* takes it.
IdentifyAddsEvent   == Write("printer", Read("output", None)
                         \o AddPrinterEvent)
IdentifyPrinter     == Write("printer", Read("output", None))
                         \o AddEventNoLock
UpdateActiveJobs    == Read("printer", Read("output", None)
                         \o Write("job", None) \o Read("job", None))
UpdateDeviceAttributes == Write("printer", Read("output", None))
                            \o Write("printer", None) \o UpdateInfra
                            \o SetDriverData \o AddPrinterEvent
WebDefaults         == Read("printer", Localize)
InfraRegister       == Mutex("proxy_auth", None) \o PrinterSetter

-----------------------------------------------------------------------------
(* The system: system.c, system-accessors.c, system-ipp.c,                 *)
(* system-loadsave.c, system-printer.c, system-webif.c, log.c.             *)

SystemGetter        == Read("system", None)
SystemSetter        == Write("system", ConfigChanged)
SystemCallbackSetter == Write("system", None)
LogSetter           == Mutex("log", ConfigChanged)
FindInfraPrinter    == Read("printers", Read("output", None))
IdlePrinters        == Read("system",
                         Read("printers", Read("printer", None)))
AcceptClients       == Write("system", None) \o Mutex("clients", None)
EndRun              == Write("system", Read("printers", None)) \o ConfigChanged
SaveState           == Read("system",
                         Read("printer", Read("job", None)))
GetPrinters         == Read("system", Read("printer", None))
SetSystemAttributes == Write("system", None) \o AddEventNoLock
PauseAllPrinters    == Read("system", Pause)
ResumeAllPrinters   == Read("system", Resume)
EnableAllPrinters   == Read("system", Enable)
SetMaxImageSize     == SystemSetter
GetSystemAttributes == Read("system", Read("printer", None))
RegisterOutputDevice == FindPrinter \o Read("system", Read("printer", None))
AddListeners        == Write("system", None)
AddTimerCallback    == Write("system", None)
WebHome             == Read("system", PrinterStatus)
WebSecurity         == Read("system", PrinterSetter)

-----------------------------------------------------------------------------
(* Subscriptions, resources, localizations, devices.                       *)

AddSubscription     == Write("system", None)
CleanSubscriptions  == Write("system", None) \o Write("subscription", None)
CreateSubscription  == PrinterFindJob \o AddSubscription
SubscriptionAttributes == Read("subscription", None)
FindSubscription    == Read("system", None)
ListSubscriptions   == Read("system", Read("subscription", None))
GetNotifications    == Read("subscription", None) \o Mutex("notify", None)
RenewSubscription   == Write("subscription", None)
FindResource        == Read("system", None)
LoadLoc             == FindLoc \o Write("system", None)
                         \o Write("localization", None)
RemoveScheme        == Write("device", None)

-----------------------------------------------------------------------------
JobScripts ==
  {JobGetter, JobSetter, JobCancel, JobCreate, JobHold, JobRetain, JobRelease,
   JobSubmitFile, JobSubmitFailed, PrinterFindJob, SystemCleanJobs, JobResume,
   StartJob, FinishJob, StreamRaster, AbortCopy, ValidateDocument,
   AcknowledgeDocument, AcknowledgeJob, FetchDocument, FetchJob,
   UpdateDocumentStatus, UpdateJobStatus, DocumentAttributes, GetDocuments,
   ReleaseJobRequest}

PrinterScripts ==
  {PrinterGetter, PrinterSetter, CancelAllJobs, PrinterFree, PrinterDelete,
   AddPrinter, CloseDevice, OpenDevice, HoldNewJobs, ReleaseHeldNewJobs, Pause,
   Resume, Enable, IterateJobs, SetDriverData, AddInfraDevice,
   GetInfraAttributes, UpdateInfra, AcknowledgeIdentify,
   DeregisterOutputDevice, OutputDeviceAttributes, GetPrinterAttributes,
   IdentifyPrinter, UpdateActiveJobs, UpdateDeviceAttributes, WebDefaults,
   InfraRegister, GetJobs, CreatePrinter, CreatePrinters,
   CreatePrinterRequest, SetProxy}

WebScripts ==
  {DeviceIsSupported, DeviceList, HTMLHeader, PrinterHeader, HTMLAuthorize,
   PrinterStatus, PrinterWebHome, PrinterWebJobs, WebAddPrinter}

SystemScripts ==
  {SystemGetter, SystemSetter, SystemCallbackSetter, LogSetter, Log,
   FindInfraPrinter, FindPrinter, IdlePrinters, AcceptClients, EndRun,
   SaveState, GetPrinters, SetSystemAttributes, PauseAllPrinters,
   ResumeAllPrinters, EnableAllPrinters, WebHome, WebSecurity,
   AddSubscription, CleanSubscriptions, FindSubscription, ListSubscriptions,
   GetNotifications, RenewSubscription, FindResource, AddResource,
   GetLocString, LoadLoc, RemoveScheme, SetMaxImageSize,
   GetSystemAttributes, RegisterOutputDevice, AddListeners, AddTimerCallback,
   CreateSubscription, SubscriptionAttributes}
=============================================================================
