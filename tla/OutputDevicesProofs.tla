------------------------- MODULE OutputDevicesProofs -------------------------
(***************************************************************************)
(* Two theorems about the output devices of an infrastructure printer, for *)
(* any devices, handlers and attributes: a request to identify a device is *)
(* kept, and undisturbed merges keep up with what the devices can do.      *)
(***************************************************************************)
EXTENDS OutputDevices, TLAPS

-----------------------------------------------------------------------------
(* Types.                                                                  *)

\* The initial state and every step have the types.
LEMMA TypeHolds == Spec => []TypeOK
<1>1. Init => TypeOK
  BY DEF Init, TypeOK
<1>2. TypeOK /\ [Next]_deviceVars => TypeOK'
  <2> SUFFICES ASSUME TypeOK, [Next]_deviceVars PROVE TypeOK'
    OBVIOUS
  <2> USE DEF TypeOK, Go, Enter
  <2>1. ASSUME NEW h \in Handlers, NEW d \in Devices, Deregister(h, d)
        PROVE TypeOK'
    BY <2>1 DEF Deregister, Free
  <2>2. ASSUME NEW h \in Handlers, NEW d \in Devices,
               NEW A \in SUBSET DeviceAttrs, UpdateAttributes(h, d, A)
        PROVE TypeOK'
    BY <2>2 DEF UpdateAttributes
  <2>3. ASSUME NEW h \in Handlers, BeginScan(h) PROVE TypeOK'
    BY <2>3 DEF BeginScan, tableVars
  <2>4. ASSUME NEW h \in Handlers, EndScan(h) PROVE TypeOK'
    <3>1. Merged \in SUBSET DeviceAttrs
      BY DEF Merged, Registered
    <3>2. QED
      BY <2>4, <3>1 DEF EndScan, tableVars
  <2>5. ASSUME NEW h \in Handlers, SetDriverData(h) PROVE TypeOK'
    BY <2>5 DEF SetDriverData, tableVars
  <2>6. ASSUME NEW h \in Handlers, NEW S \in SUBSET Devices,
               IdentifyPrinter(h, S)
        PROVE TypeOK'
    BY <2>6 DEF IdentifyPrinter
  <2>7. ASSUME NEW h \in Handlers, RequestIdentify(h) PROVE TypeOK'
    BY <2>7 DEF RequestIdentify, tableVars
  <2>8. ASSUME NEW d \in Devices, Register(d) PROVE TypeOK'
    BY <2>8 DEF Register
  <2>9. ASSUME NEW d \in Devices, RemoveInfraDevice(d) PROVE TypeOK'
    BY <2>9 DEF RemoveInfraDevice, Free, NoMerge
  <2>10. ASSUME NEW d \in Devices, AckIdentify(d) PROVE TypeOK'
    BY <2>10 DEF AckIdentify
  <2>11. ASSUME NEW d \in Devices, NEW A \in SUBSET DeviceAttrs,
                SetInfraAttributes(d, A)
         PROVE TypeOK'
    BY <2>11 DEF SetInfraAttributes, NoMerge
  <2>12. ASSUME NEW h \in Handlers, NEW d \in Devices,
                NEW A \in SUBSET DeviceAttrs, UpdateRefused(h, d, A)
         PROVE TypeOK'
    BY <2>12 DEF UpdateRefused, NoMerge
  <2>13. CASE UNCHANGED deviceVars
    BY <2>13 DEF deviceVars, tableVars
  <2>14. QED
    BY <2>1, <2>2, <2>3, <2>4, <2>5, <2>6, <2>7, <2>8, <2>9, <2>10, <2>11,
       <2>12, <2>13 DEF Next, HandlerStep, DeviceStep
<1>3. QED
  BY <1>1, <1>2, PTL DEF Spec

-----------------------------------------------------------------------------
(* Identify-Printer.                                                       *)

\* A step of h that leaves the pending actions and the printer's reason alone
\* keeps the promise, unless h was to set the reason.
LEMMA PromiseKept ==
  ASSUME TypeOK, IdentifyKept, NEW h \in Handlers, hpc[h] # "requested",
         NEW pc, hpc' = [hpc EXCEPT ![h] = pc],
         pending_actions' \subseteq pending_actions,
         UNCHANGED identify_requested
  PROVE  IdentifyKept'
<1>1. ASSUME NEW g \in Handlers, hpc[g] = "requested" PROVE hpc'[g] = "requested"
  BY <1>1 DEF TypeOK
<1>2. QED
  BY <1>1 DEF IdentifyKept

\* A request to identify a device is not forgotten: as long as one is pending
\* the printer's state reasons say so, or a handler is about to set them. It is
\* what Acknowledge-Identify-Printer relies on when the last device clears them.
THEOREM IdentifyIsKept == Spec => []IdentifyKept
<1>1. Init => IdentifyKept
  BY DEF Init, IdentifyKept
<1>2. TypeOK /\ IdentifyKept /\ [Next]_deviceVars => IdentifyKept'
  <2> SUFFICES ASSUME TypeOK, IdentifyKept, [Next]_deviceVars
               PROVE  IdentifyKept'
    OBVIOUS
  <2>1. ASSUME NEW h \in Handlers, NEW d \in Devices, Deregister(h, d)
        PROVE IdentifyKept'
    BY <2>1, PromiseKept DEF Deregister, Free, Enter
  <2>2. ASSUME NEW h \in Handlers, NEW d \in Devices,
               NEW A \in SUBSET DeviceAttrs, UpdateAttributes(h, d, A)
        PROVE IdentifyKept'
    BY <2>2, PromiseKept DEF UpdateAttributes, Enter
  <2>3. ASSUME NEW h \in Handlers, BeginScan(h) PROVE IdentifyKept'
    BY <2>3, PromiseKept DEF BeginScan, Go, tableVars
  <2>4. ASSUME NEW h \in Handlers, EndScan(h) PROVE IdentifyKept'
    BY <2>4, PromiseKept DEF EndScan, Go, tableVars
  <2>5. ASSUME NEW h \in Handlers, SetDriverData(h) PROVE IdentifyKept'
    BY <2>5, PromiseKept DEF SetDriverData, Go, tableVars
  <2>6. ASSUME NEW h \in Handlers, NEW S \in SUBSET Devices,
               IdentifyPrinter(h, S)
        PROVE IdentifyKept'
    BY <2>6 DEF IdentifyPrinter, Enter, IdentifyKept, TypeOK
  <2>7. ASSUME NEW h \in Handlers, RequestIdentify(h) PROVE IdentifyKept'
    BY <2>7 DEF RequestIdentify, IdentifyKept
  <2>8. ASSUME NEW d \in Devices, Register(d) PROVE IdentifyKept'
    BY <2>8 DEF Register, IdentifyKept
  <2>9. ASSUME NEW d \in Devices, RemoveInfraDevice(d) PROVE IdentifyKept'
    BY <2>9 DEF RemoveInfraDevice, Free, IdentifyKept
  <2>10. ASSUME NEW d \in Devices, AckIdentify(d) PROVE IdentifyKept'
    BY <2>10 DEF AckIdentify, IdentifyKept
  <2>11. ASSUME NEW d \in Devices, NEW A \in SUBSET DeviceAttrs,
                SetInfraAttributes(d, A)
         PROVE IdentifyKept'
    BY <2>11 DEF SetInfraAttributes, IdentifyKept
  <2>12. ASSUME NEW h \in Handlers, NEW d \in Devices,
                NEW A \in SUBSET DeviceAttrs, UpdateRefused(h, d, A)
         PROVE IdentifyKept'
    BY <2>12 DEF UpdateRefused, IdentifyKept
  <2>13. CASE UNCHANGED deviceVars
    BY <2>13 DEF deviceVars, tableVars, IdentifyKept
  <2>14. QED
    BY <2>1, <2>2, <2>3, <2>4, <2>5, <2>6, <2>7, <2>8, <2>9, <2>10, <2>11,
       <2>12, <2>13 DEF Next, HandlerStep, DeviceStep
<1>3. QED
  BY <1>1, <1>2, TypeHolds, PTL DEF Spec

-----------------------------------------------------------------------------
(* The printer's capabilities. What the property says of the moments when   *)
(* no update is under way depends on what the last update stored, which     *)
(* was merged when another section ended: in between nobody has changed the *)
(* attributes without an overlap. So the invariant says of a handler that   *)
(* is about to store what it has is still what the devices have.            *)

OneUpdate == \A g, h \in Handlers : Updating(g) /\ Updating(h) => g = h

Current ==
  /\ \A d \in Devices : registered[d] # "yes" => device_attrs[d] = {}
  /\ ~stale =>
       /\ OneUpdate
       /\ \A h \in Handlers : hpc[h] = "set" => hdata[h] = Merged
       /\ (\A h \in Handlers : ~Updating(h)) => driver_data = Merged

\* A step of a handler that was and stays outside of an update.
LEMMA NotUpdating ==
  ASSUME TypeOK, Current, NEW h \in Handlers, ~Updating(h),
         NEW pc, pc \in {"idle", "requested"}, hpc' = [hpc EXCEPT ![h] = pc],
         UNCHANGED <<registered, device_attrs, driver_data, hdata, stale>>
  PROVE  Current'
<1>1. Merged' = Merged
  BY DEF Merged, Registered
<1>2. \A g \in Handlers : Updating(g)' <=> Updating(g)
  BY DEF TypeOK, Updating
<1>3. \A g \in Handlers : (hpc[g] = "set")' <=> hpc[g] = "set"
  BY DEF TypeOK, Updating
<1>4. QED
  BY <1>1, <1>2, <1>3 DEF Current, OneUpdate

\* A handler begins an update when it has changed the attributes of a device.
LEMMA UpdateBegins ==
  ASSUME TypeOK, Current, NEW h \in Handlers, Enter(h, "merge"),
         stale' = (stale \/ Overlap(h)),
         \A d \in Devices : registered'[d] # "yes" => device_attrs'[d] = {}
  PROVE  Current'
<1> SUFFICES ASSUME ~stale' PROVE /\ OneUpdate'
                                  /\ \A g \in Handlers : (hpc[g] # "set")'
                                  /\ Updating(h)'
  BY DEF Current
<1>1. \A g \in Handlers \ {h} : ~Updating(g)
  BY DEF Overlap
<1>2. \A g \in Handlers \ {h} : hpc'[g] = hpc[g]
  BY DEF Enter, TypeOK
<1>3. hpc'[h] = "merge"
  BY DEF Enter, TypeOK
<1>4. QED
  BY <1>1, <1>2, <1>3 DEF OneUpdate, Updating

\* A step that begins no update and changes no handler: it leaves what the
\* devices can do, or it is remembered as one that did not.
LEMMA Unmerged ==
  ASSUME Current, NoMerge, UNCHANGED <<driver_data, hpc, hdata>>,
         \A d \in Devices : registered'[d] # "yes" => device_attrs'[d] = {}
  PROVE  Current'
<1>1. \A g \in Handlers : Updating(g)' <=> Updating(g)
  BY DEF Updating
<1>2. ~stale' => ~stale /\ Merged' = Merged
  BY DEF NoMerge
<1>3. QED
  BY <1>1, <1>2 DEF Current, OneUpdate

\* The initial state and every step have the invariant.
LEMMA CurrentHolds == Spec => []Current
<1>1. Init => Current
  BY DEF Init, Current, OneUpdate, Updating, Merged, Registered
<1>2. TypeOK /\ Current /\ [Next]_deviceVars => Current'
  <2> SUFFICES ASSUME TypeOK, Current, [Next]_deviceVars PROVE Current'
    OBVIOUS
  <2>1. ASSUME NEW h \in Handlers, NEW d \in Devices, Deregister(h, d)
        PROVE Current'
    <3>1. \A e \in Devices : registered'[e] # "yes" => device_attrs'[e] = {}
      BY <2>1 DEF Deregister, Free, TypeOK, Current
    <3>2. QED
      BY <2>1, <3>1, UpdateBegins DEF Deregister
  <2>2. ASSUME NEW h \in Handlers, NEW d \in Devices,
               NEW A \in SUBSET DeviceAttrs, UpdateAttributes(h, d, A)
        PROVE Current'
    <3>1. \A e \in Devices : registered'[e] # "yes" => device_attrs'[e] = {}
      BY <2>2 DEF UpdateAttributes, TypeOK, Current
    <3>2. QED
      BY <2>2, <3>1, UpdateBegins DEF UpdateAttributes
  <2>3. ASSUME NEW h \in Handlers, BeginScan(h) PROVE Current'
    <3>1. Updating(h) /\ Updating(h)'
      BY <2>3 DEF BeginScan, Go, Updating, TypeOK
    <3>2. \A g \in Handlers : (Updating(g)' <=> Updating(g)) /\ hpc'[h] = "scan"
      BY <2>3 DEF BeginScan, Go, Updating, TypeOK
    <3>3. ~stale => \A g \in Handlers : hpc'[g] # "set"
      BY <2>3, <3>1, <3>2 DEF BeginScan, Current, OneUpdate, Updating
    <3>4. QED
      BY <2>3, <3>1, <3>2, <3>3 DEF BeginScan, tableVars, Current, OneUpdate
  <2>4. ASSUME NEW h \in Handlers, EndScan(h) PROVE Current'
    <3>1. Merged' = Merged
      BY <2>4 DEF EndScan, tableVars, Merged, Registered
    <3>2. /\ Updating(h) /\ Updating(h)'
          /\ \A g \in Handlers : Updating(g)' <=> Updating(g)
      BY <2>4 DEF EndScan, Go, Updating, TypeOK
    <3>3. hdata'[h] = Merged
      BY <2>4 DEF EndScan, TypeOK
    <3>4. ~stale' => \A g \in Handlers : Updating(g) => g = h
      BY <2>4, <3>2 DEF EndScan, Current, OneUpdate, Overlap
    <3>5. ~stale' => OneUpdate' /\ \A g \in Handlers : (hpc[g] = "set")' => g = h
      BY <3>2, <3>4 DEF OneUpdate, Updating
    <3>6. QED
      BY <2>4, <3>1, <3>2, <3>3, <3>5 DEF EndScan, tableVars, Current
  <2>5. ASSUME NEW h \in Handlers, SetDriverData(h) PROVE Current'
    <3>1. Merged' = Merged
      BY <2>5 DEF SetDriverData, tableVars, Merged, Registered
    <3>2. ~stale => driver_data' = Merged
      BY <2>5 DEF SetDriverData, Current
    <3>3. /\ Updating(h) /\ ~Updating(h)'
          /\ \A g \in Handlers \ {h} : Updating(g)' <=> Updating(g)
          /\ hpc'[h] = "idle"
          /\ \A g \in Handlers \ {h} : hpc'[g] = hpc[g]
      BY <2>5 DEF SetDriverData, Go, Updating, TypeOK
    <3>4. ~stale => \A g \in Handlers : ~Updating(g)' /\ hpc'[g] # "set"
      BY <3>3 DEF Current, OneUpdate, Updating
    <3>5. QED
      BY <2>5, <3>1, <3>2, <3>4 DEF SetDriverData, tableVars, Current, OneUpdate
  <2>6. ASSUME NEW h \in Handlers, NEW S \in SUBSET Devices,
               IdentifyPrinter(h, S)
        PROVE Current'
    <3>1. ~Updating(h)
      BY <2>6 DEF IdentifyPrinter, Enter, Updating
    <3>2. QED
      BY <2>6, <3>1, NotUpdating DEF IdentifyPrinter, Enter
  <2>7. ASSUME NEW h \in Handlers, RequestIdentify(h) PROVE Current'
    <3>1. ~Updating(h)
      BY <2>7 DEF RequestIdentify, Updating
    <3>2. QED
      BY <2>7, <3>1, NotUpdating DEF RequestIdentify, Go, tableVars
  <2>8. ASSUME NEW d \in Devices, Register(d) PROVE Current'
    <3>1. device_attrs[d] = {}
      BY <2>8 DEF Register, Current
    <3>2. Registered' = Registered \cup {d}
      BY <2>8 DEF Register, Registered, TypeOK
    <3>3. Merged' = Merged
      BY <2>8, <3>1, <3>2 DEF Register, Merged
    <3>4. \A h \in Handlers : Updating(h)' <=> Updating(h)
      BY <2>8 DEF Register, Updating
    <3>5. \A e \in Devices : registered'[e] # "yes" => device_attrs'[e] = {}
      BY <2>8 DEF Register, Current, TypeOK
    <3>6. QED
      BY <2>8, <3>3, <3>4, <3>5 DEF Register, Current, OneUpdate
  <2>9. ASSUME NEW d \in Devices, RemoveInfraDevice(d) PROVE Current'
    <3>1. \A e \in Devices : registered'[e] # "yes" => device_attrs'[e] = {}
      BY <2>9 DEF RemoveInfraDevice, Free, Current, TypeOK
    <3>2. QED
      BY <2>9, <3>1, Unmerged DEF RemoveInfraDevice
  <2>10. ASSUME NEW d \in Devices, AckIdentify(d) PROVE Current'
    <3>1. Merged' = Merged
      BY <2>10 DEF AckIdentify, Merged, Registered
    <3>2. \A h \in Handlers : Updating(h)' <=> Updating(h)
      BY <2>10 DEF AckIdentify, Updating
    <3>3. QED
      BY <2>10, <3>1, <3>2 DEF AckIdentify, Current, OneUpdate
  <2>11. ASSUME NEW d \in Devices, NEW A \in SUBSET DeviceAttrs,
                SetInfraAttributes(d, A)
         PROVE Current'
    <3>1. \A e \in Devices : registered'[e] # "yes" => device_attrs'[e] = {}
      BY <2>11 DEF SetInfraAttributes, Current, TypeOK
    <3>2. QED
      BY <2>11, <3>1, Unmerged DEF SetInfraAttributes
  <2>12. ASSUME NEW h \in Handlers, NEW d \in Devices,
                NEW A \in SUBSET DeviceAttrs, UpdateRefused(h, d, A)
         PROVE Current'
    <3>1. \A e \in Devices : registered'[e] # "yes" => device_attrs'[e] = {}
      BY <2>12 DEF UpdateRefused, Current, TypeOK
    <3>2. QED
      BY <2>12, <3>1, Unmerged DEF UpdateRefused
  <2>13. CASE UNCHANGED deviceVars
    <3>1. Merged' = Merged
      BY <2>13 DEF deviceVars, tableVars, Merged, Registered
    <3>2. \A h \in Handlers : Updating(h)' <=> Updating(h)
      BY <2>13 DEF deviceVars, Updating
    <3>3. QED
      BY <2>13, <3>1, <3>2 DEF deviceVars, tableVars, Current, OneUpdate
  <2>14. QED
    BY <2>1, <2>2, <2>3, <2>4, <2>5, <2>6, <2>7, <2>8, <2>9, <2>10, <2>11,
       <2>12, <2>13 DEF Next, HandlerStep, DeviceStep
<1>3. QED
  BY <1>1, <1>2, TypeHolds, PTL DEF Spec

\* The printer can do what its devices can whenever no update is under way,
\* unless since the last merge that ran alone updates overlapped or what the
\* devices can do changed without one, as an update of which one attribute is
\* refused does. What the scan has merged under one lock is not out of date when
\* it is stored under the other, and one undisturbed merge is enough.
THEOREM CapabilitiesAreCurrent == Spec => []CapabilitiesCurrent
<1>1. Current => CapabilitiesCurrent
  BY DEF Current, CapabilitiesCurrent
<1>2. QED
  BY <1>1, CurrentHolds, PTL
=============================================================================
