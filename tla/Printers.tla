------------------------------ MODULE Printers ------------------------------
(***************************************************************************)
(* Creating and deleting the printers of a system, by several clients and  *)
(* the discovery of devices at once. A new printer gets a resource path    *)
(* that is made of its name and a number if another printer has that path, *)
(* is set up by its driver, added to the system, and gets its web pages.   *)
(* Each of that takes the system's lock on its own.                        *)
(*                                                                         *)
(* A path is the name without what a URL reserves, and the numbers after   *)
(* it. Different names may have the same path. The array of printers is    *)
(* sorted by name, so an element is removed by its name. Deletion is that  *)
(* of a printer without a job (JobQueue has that of others).               *)
(***************************************************************************)
EXTENDS Naturals, Sequences

CONSTANTS
  Names,        \* printer names
  PathOf,       \* the path of each name
  Creators,     \* threads of clients
  MaxInstance,  \* the last number that is tried for a path: 9
  MaxPrinters   \* printers created (a bound of the check)

VARIABLES
  multi_queue,         \* PAPPL_SOPTIONS_MULTI_QUEUE
  printers,            \* system->printers
  printer,             \* what each of them, and those that were freed, holds
  pages,               \* the web pages in system->resources
  default_printer_id,
  thread,              \* each thread: its pc and local variables
  causes               \* what happened that explains what may be wrong

printersVars == <<multi_queue, printers, printer, pages, default_printer_id,
                  thread, causes>>

Path(base, numbers) == [base |-> base, numbers |-> numbers]
Single    == Path("", << >>)           \* "/ipp/print"
SystemPage == [path |-> Path("/", << >>), owner |-> 0]
Idle      == [pc |-> "idle", name |-> "", path |-> Single, n |-> 0, object |-> 0]
Creating  == {"find", "try", "build", "pages"}
Deleting  == {"remove", "free"}

Init ==
  /\ multi_queue \in BOOLEAN
  /\ printers = {} /\ printer = << >>
  /\ pages = {SystemPage}
  /\ default_printer_id = 0
  /\ thread = [t \in Creators |-> Idle]
  /\ causes = {}

-----------------------------------------------------------------------------
(* papplSystemFindPrinter: "/ipp/print" stands for the default printer.     *)

FindPrinter(path) ==
  {o \in printers : IF path = Single THEN o = default_printer_id
                                    ELSE printer[o].path = path}

Step(t, pc) == thread' = [thread EXCEPT ![t].pc = pc]

-----------------------------------------------------------------------------
(* create_printer.                                                          *)

\* The path of a name: all that the system has if it has one queue.
BasePath(name) == IF multi_queue THEN PathOf[name] ELSE Single

Begin(t, name) ==
  /\ thread[t].pc = "idle" /\ Len(printer) < MaxPrinters
  /\ thread' = [thread EXCEPT ![t] =
                  [pc |-> "find", name |-> name, path |-> BasePath(name), n |-> 0,
                   object |-> 0]]
  /\ causes' = causes
       \cup {"creations" : u \in {v \in Creators : thread[v].pc \in Creating}}
       \cup {"displaced" : o \in {q \in printers : /\ printer[q].name = name
                                                  /\ printer[q].path # BasePath(name)}}
  /\ UNCHANGED <<multi_queue, printers, printer, pages, default_printer_id>>

\* Create-Printer.
CreatePrinter(t, name) == multi_queue /\ Begin(t, name)

\* The form of the web interface, a page of systems that have several queues.
AddPrinterForm(t, name) == multi_queue /\ Begin(t, name)

\* papplSystemCreatePrinters, for a device that no printer has: there are always
\* more devices.
DiscoverPrinter(t, name) == Begin(t, name)

\* A printer that is not listed is not freed yet, or is about to be.
Lingers(o) ==
  /\ o \notin printers
  /\ ~printer[o].freed \/ \E t \in Creators : thread[t].pc \in Deleting
                                               /\ thread[t].object = o

Replaced(path) ==
  {"replaced" : o \in {q \in DOMAIN printer : Lingers(q) /\ printer[q].path = path}}

\* Does the printer exist? (Mutant: it is not asked.)
SameNameNever(t, found) == FALSE
SameName(t, found) == \E o \in found : printer[o].name = thread[t].name

FindExisting(t) ==
  LET found == FindPrinter(thread[t].path) IN
  /\ thread[t].pc = "find"
  /\ IF found = {} THEN Step(t, "build")
     ELSE IF SameName(t, found) THEN thread' = [thread EXCEPT ![t] = Idle]
     ELSE thread' = [thread EXCEPT ![t].pc = "try", ![t].n = 2]
  /\ causes' = causes \cup Replaced(thread[t].path)
       \cup {"unfound" : o \in {q \in printers \ found :
                                 printer[q].path = thread[t].path}}
  /\ UNCHANGED <<multi_queue, printers, printer, pages, default_printer_id>>

TryInstance(t) ==
  LET path == [thread[t].path EXCEPT !.numbers = Append(@, thread[t].n)] IN
  /\ thread[t].pc = "try"
  /\ thread' = IF FindPrinter(path) = {}
               THEN [thread EXCEPT ![t].pc = "build", ![t].path = path, ![t].n = 0]
               ELSE IF thread[t].n < MaxInstance
                    THEN [thread EXCEPT ![t].n = @ + 1]
                    ELSE [thread EXCEPT ![t] = Idle]
  /\ causes' = causes \cup Replaced(path)
  /\ UNCHANGED <<multi_queue, printers, printer, pages, default_printer_id>>

\* The pages that _papplPrinterDelete finds by their path: all if it is that of
\* the single queue. (Mutant: only those of its path.)
SamePath(path, page) == page.path = path
Under(path, page) == page.path = path \/ path = Single

NewPrinter(t) == [name |-> thread[t].name, path |-> thread[t].path,
                  freed |-> FALSE]

\* The driver took the device: _papplSystemAddPrinter. Numbers are given in
\* order, and each printer has its own.
AddPrinter(t) ==
  LET o == Len(printer) + 1 IN
  /\ thread[t].pc = "build" /\ o <= MaxPrinters
  /\ printer' = Append(printer, NewPrinter(t))
  /\ printers' = printers \cup {o}
  /\ default_printer_id' = IF default_printer_id = 0 THEN o ELSE default_printer_id
  /\ thread' = [thread EXCEPT ![t] = [Idle EXCEPT !.pc = "pages", !.object = o]]
  /\ UNCHANGED <<multi_queue, pages, causes>>

\* It did not: what there is of the printer is deleted.
FailDriver(t) ==
  /\ thread[t].pc = "build"
  /\ pages' = {page \in pages : ~Under(thread[t].path, page)}
  /\ thread' = [thread EXCEPT ![t] = Idle]
  /\ UNCHANGED <<multi_queue, printers, printer, default_printer_id, causes>>

\* A page is not added if its path does not begin with a slash, as that of a
\* second printer of a single queue, or if there is one.
AddResource(page) ==
  IF \/ ~multi_queue /\ page.path # Single
     \/ \E other \in pages : other.path = page.path
  THEN pages ELSE pages \cup {page}

AddPages(t) ==
  LET o == thread[t].object IN
  /\ thread[t].pc = "pages"
  /\ pages' = AddResource([path |-> printer[o].path, owner |-> o])
  /\ thread' = [thread EXCEPT ![t] = Idle]
  /\ UNCHANGED <<multi_queue, printers, printer, default_printer_id, causes>>

-----------------------------------------------------------------------------
(* Delete-Printer and the web page for it; papplPrinterDelete.              *)

\* Nothing is asked of other threads: two clients may delete one printer.
BeginDelete(t, o) ==
  /\ thread[t].pc = "idle" /\ o \in printers
  /\ thread' = [thread EXCEPT ![t] = [Idle EXCEPT !.pc = "remove", !.object = o]]
  /\ causes' = causes \cup {"unfinished" : u \in {v \in Creators :
                               thread[v].pc \in Creating /\ thread[v].object = o}}
  /\ UNCHANGED <<multi_queue, printers, printer, pages, default_printer_id>>

DeletePrinter(t, o) == BeginDelete(t, o)

\* The form is one of the printer's pages.
DeletePage(t, o) ==
  multi_queue /\ (\E page \in pages : page.owner = o) /\ BeginDelete(t, o)

\* cupsArrayRemove takes out one that compares equal.
RemovePrinter(t) ==
  LET equal == {o \in printers : printer[o].name = printer[thread[t].object].name}
  IN
  /\ thread[t].pc = "remove" /\ ~printer[thread[t].object].freed
  /\ IF equal = {} THEN UNCHANGED printers
                   ELSE \E o \in equal : printers' = printers \ {o}
  /\ Step(t, "free")
  /\ UNCHANGED <<multi_queue, printer, pages, default_printer_id, causes>>

\* _papplPrinterDelete.
FreePrinter(t) ==
  LET o == thread[t].object IN
  /\ thread[t].pc = "free" /\ ~printer[o].freed
  /\ pages' = {page \in pages : ~(page.owner = o \/ Under(printer[o].path, page))}
  /\ printer' = [printer EXCEPT ![o].freed = TRUE]
  /\ thread' = [thread EXCEPT ![t] = Idle]
  /\ UNCHANGED <<multi_queue, printers, default_printer_id, causes>>

\* The thread goes on with a printer that another has freed meanwhile: what the
\* process does then is undefined, and not followed. (One that adds pages may also
\* find the memory as it was, and add them.)
UseFreed(t) ==
  /\ thread[t].pc \in Deleting \cup {"pages"} /\ printer[thread[t].object].freed
  /\ causes' = causes \cup {"crashed"}
  /\ UNCHANGED <<multi_queue, printers, printer, pages, default_printer_id, thread>>

-----------------------------------------------------------------------------
Next ==
  /\ "crashed" \notin causes
  /\ \E t \in Creators :
      \/ \E name \in Names : \/ CreatePrinter(t, name)
                            \/ AddPrinterForm(t, name)
                            \/ DiscoverPrinter(t, name)
      \/ FindExisting(t) \/ TryInstance(t)
      \/ AddPrinter(t) \/ FailDriver(t) \/ AddPages(t)
      \/ \E o \in printers : DeletePrinter(t, o) \/ DeletePage(t, o)
      \/ RemovePrinter(t) \/ FreePrinter(t) \/ UseFreed(t)

Spec == Init /\ [][Next]_printersVars

-----------------------------------------------------------------------------
(* Properties. What several clients do at once may break most of them: each *)
(* of them names all that does, and holds whatever else happens.            *)

\* Every variable has its type.
TypeOK ==
  /\ printers \subseteq DOMAIN printer /\ Len(printer) <= MaxPrinters
  /\ \A page \in pages : page.owner \in {0} \cup DOMAIN printer
  /\ \A t \in Creators : thread[t].pc \in {"idle"} \cup Creating \cup Deleting
  /\ default_printer_id \in 0..MaxPrinters

\* The printers of a system have different paths, unless two were created at
\* once: each found the path free; or the default printer was deleted: then it
\* stands for no printer, and that of the single queue is not found. And they
\* have different names, unless a printer of that name was at another path and
\* was not found.
PrintersDiffer ==
  \A o, q \in printers : o # q =>
    /\ printer[o].path = printer[q].path => causes \cap {"creations", "unfound"} # {}
    /\ printer[o].name = printer[q].name =>
         causes \cap {"creations", "unfound", "displaced"} # {}

\* What is listed was not freed, unless another printer of its name was taken out
\* instead.
ListedExist ==
  \A o \in printers :
    printer[o].freed => causes \cap {"creations", "unfound", "displaced"} # {}

\* No page is one of a printer that was freed, unless it was deleted before its
\* pages were added.
PagesLive ==
  \A page \in pages :
    (page.owner # 0 /\ printer[page.owner].freed) => "unfinished" \in causes

\* A printer that was created keeps its pages, and the system its own, whatever
\* happens to other printers: unless two were created at once, or one where
\* another was deleted but is still there. The single queue takes all pages with
\* it.
PagesThere ==
  multi_queue =>
    /\ SystemPage \in pages
    /\ \A o \in {q \in printers : ~printer[q].freed} :
         \/ \E t \in Creators : thread[t].object = o
         \/ [path |-> printer[o].path, owner |-> o] \in pages
         \/ causes \cap {"creations", "replaced", "unfinished"} # {}

PrintersKept == PrintersDiffer /\ ListedExist /\ PagesLive /\ PagesThere
=============================================================================
