---------------------------- MODULE OutputDevices ----------------------------
(***************************************************************************)
(* The output devices of an infrastructure printer: they register, report  *)
(* their attributes, are asked to identify themselves and deregister. What *)
(* the printer can do is put together from the attributes of all of them.  *)
(*                                                                         *)
(* A member of Devices is one registration, an _pappl_odevice_t. Requests  *)
(* with several critical sections are handled by the threads of Handlers.  *)
(* Two locks protect the table: the printer's and that of the array.       *)
(***************************************************************************)
CONSTANTS
  Devices,     \* registrations of output devices
  Handlers,    \* client threads inside a request of several sections
  DeviceAttrs  \* what a device may report that it can do

VARIABLES
  registered,         \* each registration: not yet ("no"), "yes", "gone"
  device_attrs,       \* od->device_attrs
  pending_actions,    \* devices with Identify-Printer actions pending
  identify_requested, \* identify-printer-requested in printer->state_reasons
  driver_data,        \* what the printer says that it can do
  hpc, hdata,         \* each handler: where it is, its copy of driver_data
  stale,              \* since the last merge that ran alone, updates overlapped
                      \* or what devices can do changed without one (history)
  torn                \* attributes were read while they were written

tableVars  == <<registered, device_attrs, pending_actions>>
deviceVars == <<tableVars, identify_requested, driver_data, hpc, hdata, stale,
                torn>>

Registered == {d \in Devices : registered[d] = "yes"}

Init ==
  /\ registered = [d \in Devices |-> "no"]
  /\ device_attrs = [d \in Devices |-> {}]
  /\ pending_actions = {} /\ identify_requested = FALSE
  /\ driver_data = {}
  /\ hpc = [h \in Handlers |-> "idle"] /\ hdata = [h \in Handlers |-> {}]
  /\ stale = FALSE /\ torn = FALSE

Enter(h, pc) == hpc[h] = "idle" /\ hpc' = [hpc EXCEPT ![h] = pc]
Go(h, pc)    == hpc' = [hpc EXCEPT ![h] = pc]

\* No thread reads the array of devices, which it would lock for it.
ArrayUnlocked == \A h \in Handlers : hpc[h] # "scan"

Updating(h) == hpc[h] \in {"merge", "scan", "set"}
Overlap(h)  == \E g \in Handlers \ {h} : Updating(g)

\* What all the devices together can do, and a step that changes it but begins
\* no update of the printer.
Merged  == UNION {device_attrs[d] : d \in Registered}
NoMerge == stale' = (stale \/ Merged' # Merged)

-----------------------------------------------------------------------------
(* Devices come and go.                                                    *)

\* papplPrinterAddInfraDevice, from the callback of Register-Output-Device.
Register(d) ==
  /\ registered[d] = "no" /\ ArrayUnlocked
  /\ registered' = [registered EXCEPT ![d] = "yes"]
  /\ UNCHANGED <<device_attrs, pending_actions, identify_requested,
                 driver_data, hpc, hdata, stale, torn>>

\* The registration is freed, with its attributes and pending actions.
Free(d) ==
  /\ registered[d] = "yes" /\ ArrayUnlocked
  /\ registered' = [registered EXCEPT ![d] = "gone"]
  /\ device_attrs' = [device_attrs EXCEPT ![d] = {}]
  /\ pending_actions' = pending_actions \ {d}

\* papplPrinterRemoveInfraDevice leaves the printer's capabilities alone.
RemoveInfraDevice(d) ==
  /\ Free(d)
  /\ UNCHANGED <<identify_requested, driver_data, hpc, hdata, torn>>
  /\ NoMerge

\* Deregister-Output-Device, when the callback keeps the printer.
Deregister(h, d) ==
  /\ Free(d)
  /\ Enter(h, "merge")
  /\ stale' = (stale \/ Overlap(h))
  /\ UNCHANGED <<identify_requested, driver_data, hdata, torn>>

\* papplPrinterSetInfraAttributes, which merges nothing.
SetInfraAttributes(d, A) ==
  /\ registered[d] = "yes" /\ ArrayUnlocked
  /\ device_attrs' = [device_attrs EXCEPT ![d] = A]
  /\ UNCHANGED <<registered, pending_actions, identify_requested, driver_data,
                 hpc, hdata, torn>>
  /\ NoMerge

\* Update-Output-Device-Attributes writes the attributes under the printer's
\* lock, others read them under the array's.
UpdateAttributes(h, d, A) ==
  /\ registered[d] = "yes"
  /\ device_attrs' = [device_attrs EXCEPT ![d] = A]
  /\ Enter(h, "merge")
  /\ stale' = (stale \/ Overlap(h))
  /\ torn' \in {torn, torn \/ ~ArrayUnlocked}
  /\ UNCHANGED <<registered, pending_actions, identify_requested, driver_data,
                 hdata>>

\* One of its attributes is not supported: the others are changed all the same,
\* but the response says so and the handler leaves without the merge.
UpdateRefused(h, d, A) ==
  /\ registered[d] = "yes" /\ hpc[h] = "idle"
  /\ device_attrs' = [device_attrs EXCEPT ![d] = A]
  /\ torn' \in {torn, torn \/ ~ArrayUnlocked}
  /\ UNCHANGED <<registered, pending_actions, identify_requested, driver_data,
                 hpc, hdata>>
  /\ NoMerge

-----------------------------------------------------------------------------
(* _papplPrinterUpdateInfra.                                               *)

\* A copy of the driver data is taken and emptied, the array locked ...
BeginScan(h) ==
  /\ hpc[h] = "merge"
  /\ Go(h, "scan")
  /\ hdata' = [hdata EXCEPT ![h] = {}]
  /\ UNCHANGED <<tableVars, identify_requested, driver_data, stale, torn>>

\* ... what the devices can do is added to the copy ... (Mutant: to what the
\* printer could do.)
EndScanAdded(h) ==
  /\ hpc[h] = "scan"
  /\ hdata' = [hdata EXCEPT ![h] = driver_data \cup Merged]
  /\ Go(h, "set")
  /\ stale' = (stale /\ Overlap(h))
  /\ UNCHANGED <<tableVars, identify_requested, driver_data, torn>>
EndScan(h) ==
  /\ hpc[h] = "scan"
  /\ hdata' = [hdata EXCEPT ![h] = Merged]
  /\ Go(h, "set")
  /\ stale' = (stale /\ Overlap(h))
  /\ UNCHANGED <<tableVars, identify_requested, driver_data, torn>>

\* ... and the copy becomes the driver data under the printer's lock.
SetDriverData(h) ==
  /\ hpc[h] = "set"
  /\ driver_data' = hdata[h]
  /\ Go(h, "idle")
  /\ hdata' = [hdata EXCEPT ![h] = {}]
  /\ UNCHANGED <<tableVars, identify_requested, stale, torn>>

-----------------------------------------------------------------------------
(* Identify-Printer, for one device or for all of them.                    *)

IdentifyPrinter(h, S) ==
  /\ S = Registered \/ \E d \in Registered : S = {d}
  /\ pending_actions' = pending_actions \cup S
  /\ Enter(h, "requested")
  /\ UNCHANGED <<registered, device_attrs, identify_requested, driver_data,
                 hdata, stale, torn>>

\* The printer's reason is set when its lock has been given up.
RequestIdentify(h) ==
  /\ hpc[h] = "requested"
  /\ identify_requested' = TRUE
  /\ Go(h, "idle")
  /\ UNCHANGED <<tableVars, driver_data, hdata, stale, torn>>

\* Acknowledge-Identify-Printer, under both locks. (Mutant: the reason goes
\* whoever else has a request pending.)
AckIdentifyForAll(d) ==
  /\ d \in pending_actions
  /\ pending_actions' = pending_actions \ {d}
  /\ identify_requested' = FALSE
  /\ UNCHANGED <<registered, device_attrs, driver_data, hpc, hdata, stale, torn>>
AckIdentify(d) ==
  /\ d \in pending_actions
  /\ pending_actions' = pending_actions \ {d}
  /\ identify_requested' = (identify_requested /\ pending_actions' # {})
  /\ UNCHANGED <<registered, device_attrs, driver_data, hpc, hdata, stale, torn>>

-----------------------------------------------------------------------------
HandlerStep(h) ==
  \/ \E d \in Devices : Deregister(h, d)
  \/ \E d \in Devices, A \in SUBSET DeviceAttrs :
       UpdateAttributes(h, d, A) \/ UpdateRefused(h, d, A)
  \/ BeginScan(h) \/ EndScan(h) \/ SetDriverData(h)
  \/ \E S \in SUBSET Devices : IdentifyPrinter(h, S)
  \/ RequestIdentify(h)

DeviceStep(d) ==
  \/ Register(d) \/ RemoveInfraDevice(d) \/ AckIdentify(d)
  \/ \E A \in SUBSET DeviceAttrs : SetInfraAttributes(d, A)

\* Nothing can be said of what follows a torn read.
Next ==
  /\ ~torn
  /\ (\E h \in Handlers : HandlerStep(h)) \/ \E d \in Devices : DeviceStep(d)

Spec == Init /\ [][Next]_deviceVars

-----------------------------------------------------------------------------
(* Properties.                                                             *)

\* Every variable has its type.
TypeOK ==
  /\ registered \in [Devices -> {"no", "yes", "gone"}]
  /\ device_attrs \in [Devices -> SUBSET DeviceAttrs]
  /\ pending_actions \in SUBSET Devices
  /\ identify_requested \in BOOLEAN
  /\ driver_data \in SUBSET DeviceAttrs
  /\ hpc \in [Handlers -> {"idle", "merge", "scan", "set", "requested"}]
  /\ hdata \in [Handlers -> SUBSET DeviceAttrs]
  /\ stale \in BOOLEAN /\ torn \in BOOLEAN

\* While a device has an Identify-Printer request pending the printer says so,
\* or the handler of a request is about to: the reason is set after the lock is
\* given up, and cleared under it by the last device that acknowledges.
IdentifyKept ==
  pending_actions # {} =>
    identify_requested \/ \E h \in Handlers : hpc[h] = "requested"

\* When no update is under way the printer can do what its devices can, although
\* the scan and the store are two sections under two locks: unless, since the
\* last merge that ran alone, two updates overlapped, or what the devices can do
\* changed without a merge (a device removed or described by the program, or an
\* update of which one attribute was refused). The next merge that runs alone
\* puts it right.
CapabilitiesCurrent ==
  (~stale /\ ~torn /\ \A h \in Handlers : ~Updating(h)) => driver_data = Merged
=============================================================================
