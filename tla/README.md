# A specification of PAPPL

PAPPL is a framework for printer applications; this repository is its 2.0 code
ported to Zephyr. All sources are flat in `src/`. The project in this directory
specifies it in TLA+: the job queue of a printer and its threads, the event
subscriptions, the state file and restarts, infrastructure printers and their
devices, the printers of a system, clients and what they are answered, the
tickets of jobs and what a printer says of itself, the calls a driver gets, the
buffer of a device, the HTTP monitor, and the locks under all of it. TLC checks
small instances; TLAPS proves nearly all of the safety properties for every value of
the constants.

## 1. The system

| Component | Source | State it keeps | Operations |
|---|---|---|---|
| Job queue | `job.c` | `active_jobs`, `completed_jobs`, each job's state, `next_job_id` | create, submit, hold, release, cancel, check, clean |
| Job thread | `job-process.c` | `processing_job`, a thread per job in process | `start_job`, options, print, `finish_job`, suspend, resume |
| Filters and drivers | `job-filter.c`, `printer-driver.c` | driver data: what is supported, defaults, ready media; the page in hand | validate, set defaults and media, filter images |
| Printer control | `printer.c`, `printer-accessors.c` | printer state, `is_stopped`, `is_deleted`, `hold_new_jobs`, the device | pause, resume, open and close device, cancel all, delete |
| Printers of a system | `printer.c`, `system-printer.c`, `system-ipp.c` | `printers`, `default_printer_id`, the pages in `resources` | create, discover, find, delete |
| IPP requests | `job-ipp.c`, `printer-ipp.c`, `system-ipp.c`, `client-ipp.c` | the spool file of a job, `driver_attrs` | Create-Job, Print-Job, Get- and Set-Printer-Attributes, ... |
| Infrastructure printers | `printer-infra.c`, `job-ipp.c`, `printer-ipp.c` | output devices, fetchable jobs, identify actions | register, fetch, acknowledge, update, deregister |
| Subscriptions | `subscription*.c`, `system-subscription.c` | subscriptions, their events and sequence numbers | create, deliver, renew, expire, Get-Notifications |
| Main loop | `system.c` | `is_running`, `clean_time`, `save_changes`, listeners | poll, accept, save, clean, shut down |
| Saved state | `system-loadsave.c` | the state file, attribute and document files | load, save |
| Client connections | `client.c`, `client-ipp.c` | `num_clients`, a thread per client | accept, read a request, dispatch, respond |
| Web interface | `printer-webif.c`, `system-webif.c` | none | forms that do what IPP requests do, and pages |
| Devices | `device*.c` | the buffer of an open device, the device schemes | open, write, read, flush, close, list |
| HTTP monitor | `httpmon.c` | the phase of a connection | process host data, process device data |
| Locks | all of these | one per system, printer, job, subscription, ... | read, write, unlock |
| Resources, localization, logging, accessors, QR codes, command line, stubs | the rest | fields and sorted arrays | get, set, format |

How they interact. Every client has a thread, which reads requests and runs a
handler of `printer-ipp.c`, `job-ipp.c`, `system-ipp.c` or the web interface, and
these call the queue (`papplJobCreate`, `papplJobCancel`, ...). The queue has no
thread of its own: `_papplPrinterCheckJobsNoLock` is called at the end of the
operations that may make a job printable, and creates a thread for one job. That
thread waits for the device, puts the print options together from the job's
attributes and the printer's defaults, calls the driver for every line, moves the
job to the history and calls the check again. An infrastructure printer has no
such thread: proxies fetch its jobs and report on them. The main loop accepts
clients, saves what has changed, cleans the history and the subscriptions and
decides when a shutdown is over. What all share is the system, the printers and
their jobs, under a lock each; events are delivered to the subscriptions from
within.

What is hard about it:

* a handler takes its locks several times, and tests in one section what it uses
  in another (Cancel-Job, Send-Document, `finish_job`, Delete-Printer, the
  creation of printers, all requests of proxies);
* between the creation of a job's thread and `start_job` nothing in the printer
  says that the job is about to be printed;
* a value that keeps the queue from starting a job (`processing_job`,
  `is_stopped`, `device_in_use`, a stopped state) must be reset by somebody, who
  must check the queue again, or the printer prints nothing more;
* the job's thread waits in loops that cancel, deletion and shutdown must end;
* jobs, devices, subscriptions and printers are freed while other threads hold
  pointers to them;
* on Zephyr all job threads share one static stack;
* events are delivered, listed and copied under read locks, with iterators that
  are part of the arrays and so shared by all who hold the lock;
* the state is saved some time after it changed, into three kinds of files, and
  the process may end at any point;
* what a job may ask for is advertised, checked, set as a default and used in
  different functions, at different times;
* the lock of the system is read by whoever raises an event, with all others held.

What makes each part correct:

* queue: each job in one list, numbers used once, limits kept, no pending job
  forgotten, the history trimmed;
* job thread: what it claims it gives back; cancel, shutdown and deletion take effect;
* printer control: a lent device stays open until it is given back;
* infrastructure printers: a job is with one device at a time and ends in one
  list; the printer can do what its devices can;
* subscriptions: events are numbered without a gap and kept in order, an event
  reaches everyone it is for (the code ensures it only for a delivery that no
  other thread disturbs), an answer has all the events asked for, no delivery
  looks at a freed subscription, a waiting request is answered;
* saved state: what is loaded is a state the queue can go on from, nothing that
  was saved is lost, printed twice or numbered twice;
* tickets: what is printed with is supported and asked for, what is advertised is
  accepted and the other way round;
* drivers: lines come in order and once, whatever becomes of the job;
* printers of a system: different names and paths, none listed that was freed,
  each with its pages;
* clients: one response to a request, the limit kept, listening resumed;
* locks: one order.

`PROJECT.json` lists every hazard found, at its line, with the properties that
cover it or the reason none does.

## 2. The modules

| Module | What it is |
|---|---|
| `JobLedger` | the promise: a job is accepted once and with room, active until it ends, then history until forgotten |
| `JobQueue` | the queue, the threads, the device, the clients: one action per critical section |
| `Restart` | extends `JobQueue` with the main loop's saving, the files, the end of the process and its restart |
| `InfraPrinter` | extends `JobQueue` with devices that fetch, acknowledge and update its jobs; implements `JobLedger` too |
| `OutputDevices` | the table of those devices: registration, Identify-Printer, the merged capabilities |
| `Subscriptions` | the subscriptions of a system: deliveries, requests, the main loop's removal |
| `Printers` | the creation, discovery and deletion of printers by several threads |
| `PrinterAttributes` | what a printer says of itself, as operators of a driver's data and the settings |
| `PrintTickets` | extends it with the defaults and ready media that change, and a job from its ticket to its options |
| `RasterJob` | the calls of a driver for a streamed job or for images |
| `Clients` | listeners, the limit of clients, their threads, the dispatch of requests and who answers |
| `DeviceStream` | the buffer between a driver and a device that may fail |
| `HTTPMonitor` | the monitor between a host and a device |
| `LockScripts` | which function takes which locks in which order, one script for each |
| `LockOrder` | threads that go through the sections of these scripts |
| `JobQueueProofs` | types and helpers, the lists and `JobLedger`, the cleaning of the history |
| `JobQueueThreadProofs` | claims of the job threads, pending jobs |
| `RestartProofs` | what is on disk, in memory and loaded |
| `InfraPrinterProofs` | the queue that proxies act on |
| `SubscriptionsProofs` | the invariant of `Subscriptions`; undisturbed deliveries and answers |
| `OutputDevicesProofs` | identify requests and capabilities |
| `LockOrderProofs` | the order of locks, and what a deadlock must contain |
| `PartsProofs` | `DeviceStream`, `Clients`, `Printers`, `RasterJob`, `HTTPMonitor`, `PrintTickets`: an invariant of each; the types of all |
| `MCJobQueue`, `MCRestart`, `MCInfraPrinter`, `MCSubscriptions`, `MCLockOrder` | values and symmetry for TLC |
| `Parts` | seven parts that share no state, and what drivers and requests may be: the initial state says which of them runs |
| `MCParts` | its drivers, attributes, images and names for TLC |

`JobQueue` is composed with what shares its state: `Restart` and `InfraPrinter`
extend it and constrain its steps. The others are not composed with it: the queue
raises events and goes on whatever becomes of them, so the threads that deliver
are, in `Subscriptions`, threads that raise an event at any time; a driver's calls
(`RasterJob`) and a job's options (`PrintTickets`) take place within one step of
the queue's job thread; requests of clients (`Clients`) end in the handlers that
`JobQueue`, `Printers` and `OutputDevices` begin with.

### How `JobQueue` corresponds to the code

The variables have the names of the fields they stand for (`job_state` is
`job->state`, `active_jobs` is `printer->active_jobs`, and so on). Some are
abstracted:

* `completed_jobs` counts the entries of each job, since `cupsArrayAdd` adds a
  second entry for a job that is there already;
* `fd_open` is the set of jobs with `job->fd >= 0`;
* times are what the code tells apart: a hold time is none, in the future or
  past; a job ended recently (60 s) or long ago; `clean_time` is unset, set or due;
* `tpc` and `tjob` are the program counter and the job of each job thread,
  `cpc`, `cjob` and `clast` those of a client in a handler of several sections.

A critical section, from lock to unlock, is one action: `StartJob`,
`FinishJob`, `CloseAfterJob`, `CheckNext` are the sections of the job's thread,
`OpenSpool`, `CloseSpool`, `SubmitFile`, `CheckAfter` (or `RejectFile`,
`UnlistFile`, or `AbortCopy`) those of a client that sends a document. A handler
of one section is one action (`Pause`, `CancelAllJobs`, `HoldJob`). Tests that
the code makes without a lock are steps of their own (`CancelRequest`,
`SendDocument`). `CheckJobs` is an operator: it is the trailing part of the
actions of the six functions that call it. `Spawn` creates a thread, which is
given the job and nothing else: as in the code, `processing_job` is set only by
the thread's first section. Where the code sets `clean_time` just after the
unlock, the model sets it in the section before.

`crashed` becomes TRUE at the first use of freed memory (`UseFreed`: a thread or
a client about to use a job or a printer that has been freed; `CleanJobs`
reading the second entry of a job it has just freed) and, on Zephyr
(`StaticThread`), at the first creation of a thread while the static stack is in
use. Nothing can be said of the program after that, so the model stops there.
Such executions exist: they are part of the model, no run excludes them, and the
invariants hold in them up to that point (`ListsAgree` and `NoStrandedJob` are
stated for states before the crash).

Not in the module: raster jobs streamed from the client (their driver calls are in
`RasterJob`), proxies, `retain_until`, `is_accepting`, events, raw and USB printing, the
document data. Output devices are in `InfraPrinter`.

### How `Subscriptions` corresponds to the code

`first_sequence`, `last_sequence`, `events`, `mask` and `is_canceled` are fields
of the subscription, `subscriptions` and `next_subscription_id` of the system.
The rest:

* `phase` tells where a subscription is in `papplSubscriptionCreate` and
  `_papplSubscriptionDelete`: *published* when `_papplSystemAddSubscription` has
  put it in the array, *ready* when it has its events array and `first_sequence`
  (an event in between is lost and its number used: `cupsArrayAdd` does nothing
  without an array), *freed* at the end;
* `expired` is the set of those whose `expire` is past; `mask` stands for all
  that `sub->mask`, `sub->job` and `sub->printer` select;
* `cursor` and `event_cursor` are the positions `cupsArrayGetFirst`, `GetNext`,
  `GetElement` and `Find` leave in the arrays. libcups is not part of this
  repository; it is modelled as these functions are used, with the position
  stored in the array. A lookup that finds nothing leaves it before the first
  element or past the last: the model allows both. The position matters only
  while a thread walks the array and is reset in the model otherwise;
* a thread that raises an event holds the system's lock for reading from `Raise`
  to `EndDelivery`, with `Deliver` for one turn of the loop; `Readers` are the
  threads inside, and what takes the lock for writing (`Create`, `Clean`) needs
  `Readers = {}`. `List`, `ListNext`, `EndList` are Get-Subscriptions, which may
  end early because of its limit;
* Get-Notifications is `GetNotifications` (lookup), `Scan`, `Copy` for each event
  and `EndCopy` under the subscription's lock, then `unheard` until it has begun
  to wait (`Wait`), woken by any delivery or by `Timeout`, and `LookAgain`;
* Cancel- and Renew-Subscription are `Find` and then `Cancel` or `Renew` when the
  system's lock has been given up, so that the subscription may be freed in
  between: then `UseFreed` sets `crashed`, and the model stops there;
* `Clean` and `Delete` are the two parts of `_papplSystemCleanSubscriptions`: out
  of the array under the lock, freed without it (`condemned` in between);
* `alone` is not in the code: it is the set of threads in a loop whose iterator
  nobody else has moved since the loop began, which two properties speak of.

Not in the module: several subscriptions in one request, Get-Subscription-
Attributes, the subscriptions of a job (they cannot be renewed), what an event
says, the removal of all subscriptions when the system is deleted. That a
listing copies `sub->attrs` while they are being made is a data race whose
outcome is an attribute list, which the model does not have.

### How `Restart` corresponds to the code

`state_file` is the state file with a record for each line of a job, `attrs` and
`spool` the jobs with files of attributes and of documents. `SaveBegin` empties the
file (`cupsFileOpen` with "w"), `SavePrinter` writes the printer's lines and takes
its lock, `SaveJob` one job, `SaveUnlock` and `SaveEnd` end it; `SaveFails` is a file
that cannot be created. While the printer is locked for reading, the steps of
`JobQueue` that lock it for writing wait. `ConfigChanged` is the call that marks the
state as changed, made after the locks are given up, so it is a step of its own.
`Crash` ends the process anywhere, `Exit` is the orderly end, and `Load` is
`papplSystemLoadState` and the start of the main loop: jobs are created from the
file newest first, without those whose attributes or documents are missing, under
the limit of active jobs. `missed` (a save has failed) is history.

### How `InfraPrinter` and `OutputDevices` correspond to the code

A member of `Devices` is one registration, an `_pappl_odevice_t`. In `InfraPrinter`
a request of a proxy is a thread that finds its device and its job under locks it
gives up again, and then acts in a step for each section (Fetch-Job,
Acknowledge-Job, Fetch-Document, Update-Job-Status, Update-Document-Status,
Update-Active-Jobs, Deregister-Output-Device, `papplPrinterRemoveInfraDevice`). A
device that is gone leaves pointers to it behind; a use of one sets `crashed`.
`fetched` (which devices got the document) is history.

A proxy may report any number as the state of a job, and the code stores it
(`printer-ipp.c:2476`) or, of Update-Job-Status, takes any number from aborted on as
an end (`job-ipp.c:1819`). Numbers that are no state of a job are *below* (the first
state) or *beyond* (the last), which is all the code tells apart: it compares with
aborted only (`OtherStates`, `Ends`). The reasons a proxy gives replace the job's,
with or without the one for a hold (`Replaced`). That a job is fetchable is a reason
too, which handlers read for their answers only, and is left out.

Jobs are also cleaned, canceled and freed with their printer beside the proxies
(`Queue` has all of `JobQueue`): a request that has found a job, and is about to lock
it, then locks what is freed (`LockFreed`), and an Update-Active-Jobs goes on with a
printer that is freed (`EndActive`). Deregister-Output-Device may delete the printer.

In `OutputDevices`, a handler
that updates the printer's driver data goes through `BeginScan`, `EndScan` and
`SetDriverData`; `stale` and `torn` record what makes the result wrong: updates that
overlapped, a device removed or described by the program without an update, an
Update-Output-Device-Attributes that is refused for one attribute when it has changed
the others (`UpdateRefused`, `printer-ipp.c:2605-2733`, 2817), attributes read while
they are written.

### How `Printers` corresponds to the code

A thread in `papplPrinterCreate` goes through `FindExisting`, `TryInstance` (for each
number), `AddPrinter` and `AddPages`, which each take the system's lock once;
deletion is `RemovePrinter` and `FreePrinter`. The array of printers is sorted by
name, so that `cupsArrayRemove` takes out any element of that name. `causes` records
what makes one of the properties fail: two creations at once (`creations`), a printer
of the same name at another path (`displaced`), a creation at a path of a printer that
is out of the array and not freed yet (`replaced`, with `Lingers`), a printer deleted
under its creator (`unfinished`), and a printer that the lookup of its path does not
find (`unfound`). The last happens with a single queue: all printers have its path,
which stands for the default printer (`system-printer.c:201`), and deletion leaves
`default_printer_id` as it is, so once the default printer is deleted a second one is
made beside the others. The properties name these causes one by one and hold whatever
else happens.

Any number of threads may delete one printer: nothing keeps the second from entering
`papplPrinterDelete` (`system-ipp.c:432`, `printer-webif.c:693`). The first use of the
printer that another has freed is `UseFreed`, which ends the execution (`crashed`), as
in `JobQueue`.

### How `PrinterAttributes` and `PrintTickets` correspond to the code

A driver is a record of what it supports. `PrinterAttributes` has the operators of
`make_attrs` and `_papplPrinterCopyAttributes`; `PrintTickets` has `validate_driver`,
`validate_defaults` and `validate_ready` as predicates, Set-Printer-Attributes and the
two web forms as actions, `_papplPrinterJobValidate` when the job is created, and
`papplJobCreatePrintOptions` when it is processed. Media sizes are numbers; the names
of attributes are shortened (`color` is print-color-mode). An edit of the defaults is
one step here; in the code it is a copy that is changed and stored in another
section, so that two edits at once undo each other.

The two ways to set defaults differ. Set-Printer-Attributes checks values against what
the printer lists, but for media, of which a collection may name any source
(`Import`). The form checks colors, resolutions and sides only (`validate_defaults`):
it stores any number as the quality (`printer-webif.c:317`), a keyword it does not know
as 0, and any speed up to the most (`FormValue`). So a default quality may be *other*,
a number that is none, and content or scaling *unknown*, which the printer reports as
auto (`Reported`).

### How `RasterJob` corresponds to the code

Each call of the driver (`rstartjob_cb`, `rstartpage_cb`, `rwriteline_cb`,
`rendpage_cb`, `rendjob_cb`) is recorded in `served`, and each may fail. Of an image
the rows are left: `ystart`, `ystep`, `ymod` and `yerr` say which row a line is made
from, in all four orientations, five scalings and for images larger than the page.

`documents` has what each document shows and the scaling and orientation of its
options, which the filter rewrites: an automatic scaling or orientation becomes the one
that was found for the image (`Resolved`, `job-filter.c:158-163`, `191-198`, 321).
With collated copies the document comes again with these, so that an image which was turned
is not turned in the next copy. That is what the code does; the lines are still
made from the rows of the image, which is what `DriverServed` says.

### How `Clients`, `DeviceStream` and `HTTPMonitor` correspond to the code

`Clients` has the main loop of `papplSystemRun` as one step for each listener it
looks at, and a client's thread as a step for each stage of a request up to the
response; the handlers themselves are one step each. `DeviceStream` numbers the bytes
a driver writes, and a write callback may fail when it has written some of them.
`HTTPMonitor` has host and device as scripts of HTTP messages that arrive in pieces,
and the monitor's loop as a step for each piece or line.

### How `LockScripts` and `LockOrder` correspond to the code

A script has a step for each lock that a function, with all it calls, takes, and the
locks it is under. One lock stands for all of a kind: there is one printer, one job,
one subscription, so that an order between two locks of one kind is not checked. A
branch that takes fewer locks is a prefix of its longest path; a loop is one turn.
The scripts were made from the calls of the lock macros function by function; they
are what the map of `LockScripts` names. Threads go through sections, the parts of a
script between moments without any lock, in any order.

### Bounds

* `JobQueue`: `MaxJobs` bounds the jobs of one execution and `Threads` the job
  threads alive at once when threads are created dynamically; `MaxEntries` bounds
  only how often the web page cancels the same job again. Two jobs are enough for one
  to wait while the other is printed, to be overtaken and to share the history; two
  threads for the overlaps above (two threads for one job, a new thread before the
  old one ended).
* `Subscriptions`: `MaxSubs`, `MaxRaised` and `MaxRequests` bound the subscriptions,
  events and requests of one execution. Two subscriptions are enough for a delivery to
  pass over one; two events and `MaxEvents` 1 for one to be dropped while it is read;
  two requests of two clients for two subscriptions to be created, or one to be created
  and then canceled, renewed, read, listed or looked up.
* `Restart`: one restart (`MaxRestarts`): what a second one loads is a file of the same
  kind. Two jobs, of which one may be active, so that the limit is met when loading.
* `InfraPrinter`: one job, two registrations and two requests of proxies at once: a
  device that goes, another that takes over, a late report of the first. Clients print,
  cancel from the web page and delete the printer. Nothing is cleaned in this run:
  one job is within every limit of the history, and with two there are too many states. That the ledger and `EndedStays` hold with cleaning,
  too, is proved, not run.
* `OutputDevices`: two devices, two handlers, one capability, which may come from
  either, go, or be refused in part.
* `Printers`: two threads and up to three printers (`MaxPrinters`) with two names that
  have one path, and numbers up to 2 (`MaxInstance`; 9 in the code): two at once, one that is
  found in the way of another, and a third for which no number is left.
* `PrintTickets`: two media sources, two edits (`MaxEdits`), three drivers that differ in
  what they leave out (sides, bins, margins, formats), and two attributes for a job and
  one for its document, with values on both sides of what is supported. Nothing is
  edited once the job is printed.
* `RasterJob`: a page of 3 by 4, images that are upright, turned and larger than the
  page, one document whose second collated copy takes the part of a second document, two
  pages of a stream (`MaxPages`).
* `Clients`: two listeners, a limit of one client and three connections: the limit can be
  passed by one, and one waits. `DeviceStream`: a buffer of 3, writes up to 4, in all 7
  (`MaxBytes`), two failures (`MaxFailures`): writes that fill, overflow and bypass the
  buffer. `HTTPMonitor`: two requests (`MaxRequests`) with bodies of up to two units
  (`MaxBody`), with a length or in chunks.
* `LockOrder`: three threads. A circle of more threads has no other causes by
  `DeadlockHasCause`, which is proved for any number.

The theorems hold for any numbers.

## 3. The runs

`CHECK_DEADLOCK` is FALSE everywhere: a printer, or a system of subscriptions,
without further requests has nothing to do, a crashed one stops, a device is closed, a
job is printed. That locks never leave threads waiting is what the properties of
`locks` are about.

| Run | Module | Checks | On | Distinct states |
|---|---|---|---|---|
| `printing` | `MCJobQueue` | `BusyHasThread`, `ProcessingHasThread`, `NoStrandedJob` | 2 jobs, 2 threads, pause, resume, lent device, a device that may not open, jobs suspended and resumed by a driver | 380,899 |
| `documents` | `MCJobQueue` | `TypeOK`, `LedgerSpec` | Zephyr's thread, Create-Job, Print-Job, Send-Document, holds and releases, one active job at most, one document per job | 756,472 |
| `history` | `MCJobQueue` | `ListsAgree`, `HistoryTrimmed` | thread creation may fail, cancels from the web page and of all jobs, cleaning with preserved jobs | 315,586 |
| `lifecycle` | `MCJobQueue` | `CancelTakesEffect`, `ShutdownDrains`, `DeletionHappens` | 1 job, 2 threads, fairness; the device may never open | 99,269 |
| `lent_device` | `MCJobQueue` | violates `DeviceStaysOpen` | see below | |
| `early_release` | `MCJobQueue` | violates `NoEarlyRelease` | see below | |
| `notifying` | `MCSubscriptions` | `TypeOK`, `NumbersConsecutive`, `DeliverySafe`, `DeliveryComplete`, `AnswerComplete`, `WaitEnds`, `CanceledGoes` | 2 subscriptions, 2 threads that deliver, 2 clients, one event kept, fairness | 40,294 |
| `restart` | `MCRestart` | `RestartTypeOK`, `ListsAgree`, `AttrsThere`, `NumbersFresh`, `NothingForgotten`, `NotPrintedAgain`, `SavedWorkKept` | 2 jobs, one restart, cancel, shutdown, saves that succeed | 1,000,593 |
| `saving` | `MCRestart` | `EndsAreSaved` | 1 job, saves that may fail, fairness | 109,309 |
| `infra` | `MCInfraPrinter` | `EndedStays`, `OneDevicePrints`, `LedgerSpec` | 1 job, 2 registrations, 2 requests of proxies at once, any state reported, the printer deleted | 2,877,580 |
| `locks` | `MCLockOrder` | `AcquiresInOrder`, `DeadlockCause`, `PairCause` | 3 threads in any sections, locks that prefer writers | 709,767 |
| `parts` | `MCParts` | `PartsTypeOK`, `IdentifyKept`, `CapabilitiesCurrent`, `StreamKept`, `InStep`, `ClientsServed`, `TicketHonoured`, `DriverServed`, `ListensAgain` | seven parts, one at a time | 961,842 |

What the passing runs show:

* `BusyHasThread`: `processing_job`, a stop request and the processing state
  always have a thread behind them that resets them. This is not obvious, for
  two threads may have the same job and one may reset what the other set: it
  holds because each thread sets `processing_job` before it first gives up the
  lock, and the one that resets it leaves nothing behind that refers to it.
* `ProcessingHasThread`: no job stays in process without a thread.
* `NoStrandedJob`: a pending active job of a printer that can print has a living
  thread or a client on its way to the check. The check is called in the right
  places: what makes a job pending, gives the device back or resumes the
  printer ends in it.
* `ListsAgree`, `LedgerSpec`: the lists survive every interleaving of cancel,
  abort, finish and clean. Entries are duplicated (the model counts them), jobs
  are never in both lists and never lost. `LedgerSpec` is the refinement: each step
  of `JobQueue` is one of `JobLedger` or none; for `InfraPrinter` it holds too, though
  there the lists are changed under the job's lock only: also when the printer is
  deleted with its jobs and, by the proof, when they are cleaned.
* `HistoryTrimmed`: cleaning brings the history under its limit as documented, when
  jobs are preserved. With `max_preserved_jobs` 0 it does not: the walk over the
  history ends at the first job it leaves in, and `clean_time` is reset.
* `CancelTakesEffect`, `ShutdownDrains`, `DeletionHappens`: the three ways to end
  a wait for the device work.
* `NumbersConsecutive`: numbers are given and events dropped under the
  subscription's lock, by threads that share everything else; an event lost
  before initialization takes its number with it and leaves no gap, because
  nothing precedes it in the array.
* `DeliverySafe`: a walker's next subscription comes from an iterator other
  threads move, yet it is never one that has been freed, since what is removed
  leaves the array when nobody walks it.
* `DeliveryComplete`, `AnswerComplete`: what the loops do when nobody else moves
  the iterator. The conditions are the exact ones the code needs: `alone`, and
  `Aligned`, which fails for a subscription an event reached before it was
  initialized (`first_sequence` is one too low from then on, and
  Get-Notifications indexes the wrong event). Two deliveries at once do lose events.
* `WaitEnds`: a request that misses the event between its scan and its wait, or
  whose subscription is removed, is still answered, after 30 seconds, and waits
  only once. `CanceledGoes`: the main loop removes what is canceled although
  clients and deliveries hold the lock again and again.
* `AttrsThere`, `NumbersFresh`, `NothingForgotten`, `NotPrintedAgain`,
  `SavedWorkKept`: whatever is on disk when the process ends, a job that can be loaded
  has its attributes, no number is given twice, what has ended and lost its documents is
  not printed again, and a job that waits and is in the file with its documents waits
  after the restart. Two limits came out when they were proved for all constants (section
  4). What the code does not give: a job whose document arrived after the save that has
  the job is lost by a crash, a job in process is loaded as one that no thread will ever
  take, and pending jobs wait for the next request.
* `EndsAreSaved`: marking a change is a step after the change, and a save copies the
  count of changes before it begins, so that what happens during a save is saved by the
  next. It is about executions in which no save has failed (`missed`): after a failure
  `save_time` says that all is saved (`system.c:613`), what changed before is lost until
  something else changes, and no property claims otherwise.
* `OneDevicePrints`: a document is with two devices only if the first was deregistered
  or removed, although devices are found before the job is locked. A job whose device
  has gone without deregistering waits for ever; no property claims otherwise.
* `EndedStays`: a job that has ended, by whatever of the printer's clients, is not
  brought back by a proxy that reports an older state of it, though Update-Active-Jobs
  takes over any number it is sent, and a job that is to be canceled is not started by
  one. A client that is still submitting the document of such a job does bring it back,
  which the property excepts.
* `IdentifyKept`, `CapabilitiesCurrent`: the reason is set after the lock was given up and
  cleared under it, and capabilities are scanned and stored in two sections under two
  locks; what breaks the second is recorded in `stale` (updates that overlapped or were
  refused in part, devices removed or described without an update) and really happens.
  The next update that runs alone puts it right.
* `AcquiresInOrder`: all functions keep to one order of locks, with the system's lock
  first or, for reading, last; two sections do not: the submission of a document with the
  job's lock held (`SubmitSection`), and the end of a failed copy (`AbortCopy`).
  `DeadlockCause`, `PairCause`: threads wait for each other only if one of them is in
  one of these two or writes the system's lock, and two threads alone only if one of
  them reads the system's lock twice. So a queue of readers that raise an event and a
  writer of the system's lock is what remains as a danger.
* `StreamKept`: what was written without an error has reached the device in order and
  once when it is closed, as long as no piece has failed. After a failure the code
  forgets the buffer or writes the begin of a piece again.
* `InStep`: the monitor knows whose turn it is, however messages are cut into pieces.
  Its exceptions (`unusual`) are real: the two sides share one line buffer, a request
  refused early and a POST without a body take it out of step.
* `ClientsServed`, `ListensAgain`: one response for each request, whoever of the many
  handlers makes it, but for declined upgrades and unknown methods; the limit of clients
  is passed by as many as there are listeners, less one; a system that has stopped
  listening listens again. Also printers: different names and paths, none listed that was
  freed, each with its pages, but for the causes that `Printers` records, which all happen
  in the run.
* `TicketHonoured`: what a printer says it can do is what jobs are accepted with and what
  their print options are made of, over all changes of defaults and media, and the options
  ask for the copies and the pages that the job asked for. The exceptions it names are
  the code's: see `AttributesAgree`, `DefaultsAdvertised` (a quality that is none and slow
  speeds, which the form stores). It ends at the options: what filters do
  with copies and pages is not part of it, and differs. If the driver makes fewer copies than
  the job has, the filter of images prints the last one only (`job-filter.c:364-369`),
  where its comment says that it generates the others (`job-filter.c:64-66`); page
  ranges reach `ipptransform` (`job-filter.c:1566-1569`) and no filter of images.
* `DriverServed`: lines come in order and once for every combination of margins, scaling,
  orientation, handling of copies and failures, and those of an image are made from its
  rows.

`TicketHonoured`, `DriverServed` and `ClientsServed` are conjunctions. `PROJECT.json` has
one mutant for each property; the modules have others for further conjuncts
(`AllFiltered`, `StartRowUnscaled`, `SameNameNever`), which violate them too.

What the violations show, each an execution of a few steps:

* `lent_device`: `finish_job` closes the device in a section after the one that
  reset `processing_job`; a client may have opened it in between
  (`papplPrinterOpenDevice`). It loses the device, `device_in_use` stays TRUE
  with no device, `papplPrinterCloseDevice` does nothing, and no job is started
  any more.
* `early_release`: the test of the hold time in the check is reversed; a job is
  released before its time, and one whose time is past stays held.

### Fairness

`FairSpec` assumes weak fairness of each job thread (the operating system
schedules it, a sleep of the retry loops ends, printing ends), of the steps of a
handler that has begun (transfers end, locks are granted), and of the use of
freed memory by a thread that is about to. It is not assumed that a device opens:
a thread that waits for it need only notice that it must give up (`GiveUp`).
Nothing is assumed of requests: nobody has to ask for anything.

`FairSpec` of `Subscriptions` assumes weak fairness of each delivery and each
request that has begun (loops end, the wait ends after 30 seconds), of the main
loop's cleaning, which `papplSystemRun` calls about every ten seconds,
and of the use of freed memory. The cleaning needs the lock for writing; that
weak fairness suffices for it rests on the bounded number of deliveries and
listings in the model, which stands for a lock that lets a writer in.

`FairRestartSpec` assumes that the main loop goes on (`LoopStep`), and that a thread that
has changed a job gets to mark the change (`ConfigChanged`), which is its next statement.
Nothing is assumed of the queue's threads. `PartsSpec` assumes that the main loop runs on
(`MainLoop`): `poll` returns after 30 seconds at the latest. Nothing is assumed of clients.

## 4. The proofs

All constants are arbitrary, within the named assumptions of the modules
(`ConstantsAssumption`: limits are natural numbers, a job holds at least one document,
options are Booleans; `RestartAssumption`, `InfraAssumption`, and those of `Parts`).
Of the latter, most say that sizes are natural numbers and that connections are finitely
many. `InfraAssumption` says that the printer is an infrastructure printer and that
`NoDevice` is no device; which requests clients make, and whether jobs are cleaned or the
printer is deleted, is left open, as everywhere. Three say more:

* `DriverConstants`: drivers are values of `pappl_pr_driver_data_t` (`DriverData`), any
  set of them. No validation looks at three things that `AttributesAgree` needs: that the
  custom sizes, if any, go from a smaller one to a larger one, and that the default bin
  and the default speed are of those the driver lists. They are asked of the driver.
* `AttrsConstants`: an attribute that reaches `valid_job_attributes` has the syntax of its
  name (a range of pages is two numbers), any set of them. Whether its value is one that a
  printer supports is not assumed.
* `PathConstants`: the path that is made of a printer's name begins with `/ipp/print/`, so
  it is neither empty nor the system's. Two names may have one path.

`PROJECT.json` lists the theorems.

### The queue

* `TypeCorrect`: `Spec => []TypeOK`. Inductive as it stands; the lemmas about
  `CheckJobs`, `Cancel`, `NewJob` and `FreePrinter` are stated once and used by
  every action that calls them. That `num_documents` stays within the array is
  the part of it that depends on a guard (`HasRoom`).
* `ListsAlwaysAgree`: `Spec => []ListsAgree`, and
  `QueueImplementsLedger`: `Spec => LedgerSpec`. The invariant is
  `QueueInv == TypeOK /\ ListedExist /\ Fresh` with `NoneUnlisted` (`ListedExist` and
  `NoneUnlisted` are the two halves of `ListsAgree`): that jobs with numbers from
  `next_job_id` on do not exist is needed for a new job to be in no list. Every
  action is one of a few kinds of step (it leaves the lists alone, moves jobs to
  the history, adds a job, frees some or all), and each kind is shown once to
  keep the invariant and to be a step of the ledger or a stutter.
* `BusyAlwaysHasThread`, `ProcessingAlwaysHasThread`: from
  `ThreadInv == TypeOK /\ BusyHasThread /\ ProcessingHasThread`. Both are
  needed together: that a job in process has a thread is kept at `FinishJob`
  because that thread takes the job out of the processing state.
* `NoJobStranded`: `Spec => []NoStrandedJob`, from `ThreadInv`: when a thread
  ends its section `processing_job` is reset, and the thread is on its way to
  the check; every step that makes a job pending either checks the queue in the
  same section or leaves the client at `check`.
* `HistoryIsTrimmed`: only `CleanJobs` resets `clean_time` (`OnlyCleaningResets`), and
  what it leaves is counted: if an old job is left, the walk stopped because no more had
  to go (`EntriesLeft`, `EnoughPurged`). The sum over entries is a cardinality of pairs, and
  that a set of jobs that is not empty has a largest job (`Largest`), where the walk ends,
  needs well-founded induction over finite sets. The theorem has `MaxPreserved > 0` as a
  hypothesis because the code needs it (see `HistoryTrimmed` above).

`RestartProofs` carries a part of this over to a system that saves, ends and restarts.
`FileInv` relates the three kinds of files to the queue:

* `FileNumbers`, `FileLive`: numbers in the file are below its next one, and what is
  written exists while it is written;
* `FileAttrs`, `FileSpool`: what the file would have printed has its attributes, and what
  has documents in the file and on disk has them in memory, too;
* `FileComplete`: what is not in the file yet is marked, about to be marked, or still to be
  written by the save that is under way.

Of the steps of the queue it needs a few facts only, `StepFacts`, which are proved action
by action. From it follow `RestartTypes`, `NumbersAlwaysFresh`, `NothingIsForgotten`,
`NeverPrintedAgain` and `SavedWorkIsKept`. Two attempts failed for a reason of the code:

* `AttrsThere` is false of a printer that takes one document for a job, if two clients are
  within Send-Document for one job: the job is canceled from the web page when the first
  document is in, which removes documents and attributes, and the second client fills it
  again. So `AttrsAreThere` has the hypothesis `OneSender` (several documents, or no
  Send-Document), and so has `ListsAgreeAfterRestart`: without its attributes a job is
  created and put in no list. The invariant for it, `SenderInv`, says that a client in the
  handler that created a job is alone with it until it has submitted it (`UploadsFirst`).
* `SavedWorkKept` was false without its exception: with two active jobs allowed, a job
  that is canceled while a client is about to submit its document can be pending in the
  file, and comes back as one of the two newest, so that an older one is not loaded.

`InfraPrinterProofs` shows `InfraTypes`, and that a step of a proxy moves at most one job
that exists from one
list to the other, so that `ListInv` holds (`InfraListsAgree`) and `InfraImplementsLedger`:
the ledger is kept although these steps have the job's lock only, beside clients that
make any request, the main loop that cleans, and the deletion of the printer.
`EndedStaysAlways` follows from the same invariant, action by action: who sets a state sets it to
an end, looks at the job first, or is the client of the exception. `OneDeviceAlwaysPrints`
rests on `FetchedOwned` (whoever was given the document was registered then, and has the
job as long as it stays registered) and `HandlerOwned` (a request acts for a device that
was registered when it was found).

### Subscriptions and output devices

For `Subscriptions`, `SubscriptionsProofs` shows `IInv` inductive:
`TypeOK`, and

* `FreshUnused`, `EventsWhenReady`, `InitializedOnce`: who may initialize a
  subscription, and that it has no events before; `Initialize` empties `events`,
  and without these it could empty an array in use;
* `CopyInRange`: a client's next event is within `events`, because nobody drops
  one while somebody copies;
* `ListedAlive`, `ReadersInArray`: what is in the array or condemned is not freed,
  and whoever walks is at an element of the array or at its end.

From it follow `TypeCorrect`, `DeliveryAlwaysSafe` (by the last two parts) and,
with the lemma on `Kept`, `NumbersAlwaysConsecutive`.

`DeliveryAlwaysComplete` needs two more invariants: an undisturbed thread is the only reader and its turn is where the
iterator is (`AloneInLoop`), and what it has passed has the event, does not want
it, or was not initialized when it came by (`PassedServed`). Every step is one of
that thread or a *calm* one, which at most initializes or cancels a
subscription; the case split on the actions is made once, in `Undisturbed`.
`AnswerAlwaysComplete` has the same form for `Copy`: the answer so far is
exactly the numbers from the one asked for up to the iterator (`CopiedSoFar`),
and the position of an event follows from its number by `NumbersConsecutive`
and `Aligned`.

`OutputDevicesProofs` shows, for any devices, handlers and capabilities,
`IdentifyIsKept`: the last device that acknowledges takes the reason away under the lock
under which requests are left, so a request that is left later has its handler still to
set it; and `CapabilitiesAreCurrent`, from an invariant that follows the only update that
is under way through its sections: while it is stored, what it scanned is what the devices
report (`Current`), since whoever changes that either begins an update and so overlaps,
or begins none and makes the result `stale`.

### Locks

`LockOrderProofs` is about any number of threads and any scripts whose sections, but for
`Inverted`, keep to the order (`SectionsInOrder`); that the scripts of `LockScripts` do is
`AcquiresInOrder` of the run `locks`, whose threads go through each of them. A thread
within a section is at one of its steps (`AtLock`), and so holds and wants what the script
says there: `LocksInOrder`. `DeadlockHasCause`: if all in a set of threads wait, one of
them waits for the lock that is last in the order; who blocks it holds that lock or waits
to write it, and so waits itself for one that is later. `PairHasCause` also needs
`SystemWrittenLast`, that no lock taken under the system's lock for writing is held when
that lock is taken; TLC evaluates it on the scripts (`ScriptsWriteSystemLast`).

### The parts

`PartsProofs` has one invariant for each of six parts, which share no variables: a step is
one of a part and leaves the others' invariants alone. (The seventh, the output devices,
has its own in `OutputDevicesProofs`.) With the types of the monitor after its exceptions,
of which `MonitorInv` says nothing (`MonitorTypesAlways`: what it puts together of the
pieces of two sides is a line that was sent or one it has no use for), they give
`PartsTypes`.

* `StreamInv`: as long as no piece has failed, what has reached the device and what is in
  the buffer are, one after the other, all bytes that were accepted. `StreamIsKept`.
* `ClientsInv`: connections wait in one place, `num_clients` is the number of the clients
  that are counted (`IsFiniteSet(Conns)` is needed), there is as much room as the loop
  over the listeners needs (`Room`), and how many answers a request has got at each place
  of the code (`AnswersAt`).
* `RegistryInv`: what a thread has found of the path and the name that it is about to use,
  while others create and delete. In the proof of `PathFound` the deleted default printer
  of a single queue came out (`unfound`). With `ClientsInv` it gives `RequestsServed`.
* `RasterInv`: what the driver has been called with at each place (`Calls`), what is
  counted (`Counts`, `CopiesLeft`), and that the rows of an image are in it (`Rows`): the
  row and the error that is carried on are, times the lines of the image on the page, at
  most what the lines so far allow, which `RowBound` turns into a row of the image. This is
  arithmetic with products of two variables, which the solver does not do: `Divided`,
  `SumTimes`, `ProductType`, `RowStep` and `RowBound` take it apart. `DriverIsServed`.
* `MonitorInv`: what host and device have left to send (`ToCome`: the line that is being
  read, and the rest of the script) is what is missing of the messages that the monitor's
  variables say it is in the middle of, for each of seven phases (`AtRest`,
  `AtRequestLine`, ..., `AtAnswerData`). `HeadersAt` and `DataAt` say it of a sequence of
  lines from a place on, so that no induction over the data is needed; `DataIs` has the
  three states of a chunk. `PiecesOK`: a side whose line is begun sends the end of it next,
  and the buffer has the beginning; `DeviceWaits`: nothing but a "continue" comes from the
  device before the host has sent its request. `MonitorAlways`, `MonitorInStep`.
* `TicketsInv`: the defaults are what the printer lists or what forms, ready and imported
  media bring besides (`MayBeDefault`: any source, a quality that is none, unknown content
  and scaling, speeds below the least), the ready media are in its range, and a job has kept of its
  request what is supported and not wrong (`TicketKept`). No step but that of the request
  and of the changes disturbs it, so the work is in what it implies: attribute by
  attribute, that what is advertised is accepted and the reverse (`AcceptedValue`), that
  defaults, ready media and filters are among what is listed, each with its exceptions,
  and that the options name the pages that were asked for, and as many copies
  (`PagesHonoured`, by cardinalities of intervals). `TicketIsHonoured`.

### Only model-checked

* `EndsAreSaved`, `CancelTakesEffect`, `ShutdownDrains`, `DeletionHappens`, `WaitEnds`,
  `CanceledGoes`, `ListensAgain`: liveness, out of the prover's reach;
* `AttrsThere` of a printer with one document for a job and one client that uses
  Send-Document;
* that the violations and the exceptions which properties name are reachable.

## 5. Not modelled

Every component is at most partly modelled; its row in `PROJECT.json` says what is left
out. In the main:

* formatting and parsing: the text of web pages, forms, cookies, log messages and their
  files, the conversion of names, bits and keywords, the copying of attributes into
  responses, vendored QR codes;
* the pixels of a page, and `_papplJobFilterRIP` and `_papplJobFilterTransform`, which
  nothing in this repository calls;
* network, Wi-Fi, TLS, users and passwords, raw sockets, USB;
* what is stubbed in this port: DNS-SD, SNMP, the proxy's side, the command line;
* timers and the idle shutdown of the main loop, beyond the locks they take;
* a printer's defaults in the state file, which lose values over a restart (see the
  hazards), and several printers in it;
* a streamed job beside the queue, and the retention and deletion of single jobs;
* queue order: the check takes the newest pending job first (`printer.c:393`), so an old
  one may wait while new ones come. No property claims otherwise.
