-------------------------------- MODULE Parts --------------------------------
(***************************************************************************)
(* The parts of the system that share no state with each other in what is  *)
(* modelled of them, in one specification: the initial state says which of *)
(* them runs, and the others stay as they are. So the states that are      *)
(* reached are those of each of them, not their combinations.              *)
(***************************************************************************)
EXTENDS OutputDevices, Integers, Sequences, FiniteSets, TLC

\* The constants of the parts, see there; PrinterNames are the Names of Printers.
CONSTANTS BufSize, MaxWrite, MaxBytes, MaxFailures, MaxBody, MaxRequests,
          NumListeners, Conns, MaxClients,
          NumSources, Drivers, Attrs, DocAttrs, Cols, MaxEdits, Filters, MultiDocument,
          Width, Height, Margins, Resolution, Images, Heights, NumDocs, NumCopies,
          MaxPages, PrinterNames, PathOf, Creators, MaxInstance, MaxPrinters

\* A buffer has room for something.
ASSUME StreamConstants ==
  BufSize \in Nat \ {0} /\ MaxWrite \in Nat /\ MaxBytes \in Nat /\ MaxFailures \in Nat

\* What the check bounds of the monitor.
ASSUME MonitorConstants == MaxBody \in Nat /\ MaxRequests \in Nat

\* papplSystemSetMaxClients makes the most of 0, and there are only so many
\* connections.
ASSUME ClientConstants ==
  NumListeners \in Nat /\ MaxClients \in Nat \ {0} /\ IsFiniteSet(Conns)

\* What the check bounds of the printers: how many are created, and how many
\* numbers are tried for a path.
ASSUME RegistryConstants == MaxPrinters \in Nat /\ MaxInstance \in Nat

\* The path of a name begins with "/ipp/print/", so it is neither that of the
\* system's pages nor that of a single queue.
ASSUME PathConstants ==
  \A name \in PrinterNames :
    LET path == PathOf[name] IN
    /\ path = [base |-> path.base, numbers |-> path.numbers]
    /\ path.base \notin {"", "/"} /\ path.numbers \in Seq(Nat)

\* Pages and images have lines, margins are distances, and a job has a copy.
ASSUME RasterConstants ==
  /\ Width \in Nat \ {0} /\ Height \in Nat \ {0} /\ Margins \subseteq Nat
  /\ Resolution \in Nat /\ Heights \subseteq Nat /\ Images # {}
  /\ \A i \in Images :
       i.width \in Nat \ {0} /\ i.height \in Nat \ {0} /\ i.ppi \in Nat
  /\ NumDocs \in Nat /\ NumCopies \in Nat \ {0}

VARIABLES
  part,
  is_open, buffer, written, accepted, refused, dropped,
  state, phase, status, encoding, length, remaining, chunk, host_buffer, input,
  host, device, begun, requests, unusual,
  main, revents, polling, backlog, num_clients, cpc, method, answers, declined,
  driver, defaults, ready, edits, job, ticket, doc, options,
  streamed, jpc, job_state, is_canceled, margin, handling, documents,
  set, doc_number, copy, image, scaling, orientation, height, y, source, error, impcompleted, served,
  multi_queue, printers, printer, pages, default_printer_id, thread, causes

-----------------------------------------------------------------------------
Stream  == INSTANCE DeviceStream
Monitor == INSTANCE HTTPMonitor
Clients == INSTANCE Clients
Tickets == INSTANCE PrintTickets
Raster  == INSTANCE RasterJob
Registry == INSTANCE Printers WITH Names <- PrinterNames

-----------------------------------------------------------------------------
(* What drivers can do, and what jobs and documents ask for.               *)

\* The xxx_default members of pappl_pr_driver_data_t.
DefaultsData ==
  [media : Nat, source : Tickets!SourceNames, color : Tickets!Colors,
   quality : Tickets!Qualities, sides : STRING, handling : Tickets!AllHandlings,
   resolution : Nat, bin : Nat, content : Tickets!Contents,
   scaling : Tickets!Scalings, orientation : Tickets!Orientations,
   darkness : Int, speed : Int]

\* pappl_pr_driver_data_t.
DriverData ==
  [media : SUBSET Nat, custom_min : Nat, custom_max : Nat, borderless : BOOLEAN,
   bottom_top : Int, left_right : Int, color : SUBSET Tickets!Colors,
   format : STRING, sides : SUBSET (STRING \ {"none"}), resolutions : Seq(Nat),
   raster : SUBSET STRING, bitmap : BOOLEAN, labels : BOOLEAN, bins : Seq(STRING),
   face_up : BOOLEAN, finishings : SUBSET STRING, darkness : Int,
   speed : Int \X Int, defaults : DefaultsData,
   ready : [Tickets!Sources -> [size : Nat, source : Tickets!SourceNames]]]

\* What no validation asks of a driver: that custom sizes have a least and a most
\* one, and that the bin and the speed that it sets are among those it lists.
ASSUME DriverConstants ==
  /\ NumSources \in Nat /\ MaxEdits \in Nat
  /\ Drivers \subseteq DriverData
  /\ \A d \in Drivers :
       /\ IF d.custom_min = 0 THEN d.custom_max = 0 ELSE d.custom_min < d.custom_max
       /\ d.bins # << >> => d.defaults.bin \in DOMAIN d.bins
       /\ d.speed[2] # 0 => d.defaults.speed \in {0} \cup (d.speed[1]..d.speed[2])

\* An attribute has a name and a value, of the syntax that the request was read
\* with; a collection has a size and a source, and a filter has two formats.
ASSUME AttrsConstants ==
  /\ \A a \in Attrs \cup DocAttrs : a = <<a[1], a[2]>> /\ a[1] \in Tickets!Names
  /\ \A a \in Attrs :
       /\ a[1] = "pages" => a[2] \in [first : Int, last : Int]
       /\ a[1] \in {"media", "resolution"} => a[2] \in Nat
       /\ a[1] \in {"copies", "darkness", "speed"} => a[2] \in Int
  /\ Cols \subseteq [size : Nat, source : Tickets!SourceNames]
  /\ Filters \subseteq STRING \X STRING

-----------------------------------------------------------------------------
PartsInit ==
  /\ part \in {"devices", "stream", "monitor", "clients", "tickets", "raster",
              "printers"}
  /\ Init /\ Stream!Init /\ Monitor!Init /\ Clients!Init /\ Tickets!Init
  /\ Raster!Init /\ Registry!Init
  /\ part # "tickets" => driver = CHOOSE d \in Drivers : Tickets!Usable(d)
  /\ part # "raster" =>
       streamed /\ margin = 0
  /\ part # "printers" => multi_queue

\* The variables of each part.
streamVars == <<is_open, buffer, written, accepted, refused, dropped>>
httpVars   == <<state, phase, status, encoding, length, remaining, chunk,
                host_buffer, input, host, device, begun, requests, unusual>>
clientVars == <<main, revents, polling, backlog, num_clients, cpc, method,
                answers, declined>>
ticketVars == <<driver, defaults, ready, edits, job, ticket, doc, options>>
rasterVars == <<streamed, jpc, job_state, is_canceled, margin, handling,
                documents, set, doc_number, copy, image, scaling, orientation,
                height, y, source, error, impcompleted, served>>
printersVars == <<multi_queue, printers, printer, pages, default_printer_id,
                  thread, causes>>

Others(p) ==
  /\ part = p /\ UNCHANGED part
  /\ p # "devices" => UNCHANGED deviceVars
  /\ p # "stream"  => UNCHANGED streamVars
  /\ p # "monitor" => UNCHANGED httpVars
  /\ p # "clients" => UNCHANGED clientVars
  /\ p # "tickets" => UNCHANGED ticketVars
  /\ p # "raster"  => UNCHANGED rasterVars
  /\ p # "printers" => UNCHANGED printersVars

PartsNext ==
  \/ Others("devices") /\ Next
  \/ Others("stream")  /\ Stream!Next
  \/ Others("monitor") /\ Monitor!Next
  \/ Others("clients") /\ Clients!Next
  \/ Others("tickets") /\ Tickets!Next
  \/ Others("raster")  /\ Raster!Next
  \/ Others("printers") /\ Registry!Next

partsVars == <<part, deviceVars, streamVars, httpVars, clientVars, ticketVars,
               rasterVars, printersVars>>

\* The main loop of the system runs on.
PartsSpec ==
  /\ PartsInit /\ [][PartsNext]_partsVars
  /\ WF_partsVars(Others("clients") /\ Clients!MainLoop)

-----------------------------------------------------------------------------
(* The properties of each of them, of the states in which it runs: the     *)
(* others stay as they were in an initial state.                           *)

In(p, property) == part = p => property

\* Every variable of every part has its type; the buffer of a device never runs
\* over.
PartsTypeOK ==
  /\ In("devices", TypeOK)         /\ In("stream", Stream!TypeOK)
  /\ In("monitor", Monitor!TypeOK) /\ In("clients", Clients!TypeOK)
  /\ In("tickets", Tickets!TypeOK) /\ In("raster", Raster!TypeOK)
  /\ In("printers", Registry!TypeOK)

\* What was written without an error reaches the device in the order in which it
\* was written.
StreamKept == In("stream", Stream!StreamKept)

\* The monitor of an HTTP connection knows whose turn it is.
InStep == In("monitor", Monitor!InStep)

\* The system listens again when it may.
ListensAgain == Clients!ListensAgain

\* A request gets one response, from whoever handles it, and there are as many
\* clients as num_clients says, and not too many. What it asks for is there: the
\* printers of the system differ, exist, and have their pages.
ClientsServed ==
  /\ In("clients", Clients!AnsweredOnce /\ Clients!ClientsBounded)
  /\ In("printers", Registry!PrintersKept)

\* What a printer says of itself is so, and the options of a job say what the
\* printer supports and the job asks for.
TicketHonoured ==
  In("tickets", /\ Tickets!AttributesAgree
                /\ Tickets!OptionsSupported /\ Tickets!PagesHonoured)

\* A driver is called in order, whatever becomes of a job, and prints of an image
\* what is part of it.
DriverServed == In("raster", Raster!DriverServed /\ Raster!RowsInImage)
=============================================================================
