------------------------------ MODULE RasterJob ------------------------------
(***************************************************************************)
(* What a driver is called with while a job is printed: the pages that a   *)
(* client streams (_papplJobProcessRaster), or the images of the job's     *)
(* documents (_papplJobProcess, papplJobFilterImage). A driver keeps state *)
(* from one call to the next, so it must get every line of a page in order *)
(* and once, whatever is canceled, cannot be read or fails.                *)
(*                                                                         *)
(* Of the pixels the rows are left: which line of the page is made from    *)
(* which row of the image.                                                 *)
(***************************************************************************)
EXTENDS Integers

CONSTANTS
  Width, Height,  \* of the page: options->header.cupsWidth and cupsHeight
  Margins,        \* the four margins of the media, in pixels
  Resolution,     \* options->printer_resolution
  Images,         \* what documents may show: width, height, ppi and format
  Heights,        \* cupsHeight of the pages that clients stream, 0 for bad data;
                  \* for a driver of more than bitmaps it is that of the page
  NumDocs,        \* documents of a job that is not streamed
  NumCopies,      \* job->copies of a job that is not streamed
  MaxPages        \* pages that are streamed (a bound of the check)

Scalings     == {"auto", "auto-fit", "fill", "fit", "none"}
Orientations == {"none", "portrait", "landscape"}

VARIABLES
  streamed,     \* the job is streamed by the client
  jpc,          \* where its thread is
  job_state,    \* "processing", "stopped" by the driver, or "aborted"
  is_canceled,
  margin, handling, \* of the options
  documents,    \* what each shows, and the options that its filter rewrites
  set,          \* how many collated copies were made of all documents
  doc_number, copy, \* the document, and which copy of it
  image,        \* what it shows
  scaling, orientation, \* of its options, as it is printed
  height,       \* lines of the page that come from the client or the image's
                \* last line on the page
  y,            \* the next line
  source,       \* the row of the image it is made from
  error,        \* yerr
  impcompleted, \* job->impcompleted
  served        \* what the driver has seen, see Driver (history)

rasterVars == <<streamed, jpc, job_state, is_canceled, margin, handling,
                documents, set, doc_number, copy, image, scaling, orientation,
                height, y, source, error, impcompleted, served>>
optionVars == <<streamed, margin, handling>>
docVars    == <<documents, set, doc_number>>
imageVars  == <<image, scaling, orientation, source, error>>

Document == [image : Images, scaling : Scalings, orientation : Orientations]

\* job: no job, "open" or "ended"; page: a page is open; next: the line that it
\* expects; pages: how many it has got; amiss: a call came out of order; short: a
\* page ended before its last line; cut: the stream broke within a page.
Driver == [job : {"none", "open", "ended"}, page : BOOLEAN, next : Nat,
           pages : Nat, amiss : BOOLEAN, short : BOOLEAN, cut : BOOLEAN]

Init ==
  /\ streamed \in BOOLEAN
  /\ jpc = "start" /\ job_state = "processing" /\ is_canceled = FALSE
  /\ margin \in Margins /\ handling \in {"collated", "uncollated"}
  /\ documents \in [1..NumDocs -> Document]
  /\ set = 0 /\ doc_number = 0 /\ copy = 0
  /\ image = (CHOOSE i \in Images : TRUE)
  /\ scaling = "none" /\ orientation = "none"
  /\ streamed => /\ margin = CHOOSE m \in Margins : TRUE
                 /\ handling = "collated"
                 /\ documents = [n \in 1..NumDocs |->
                       [image |-> image, scaling |-> scaling,
                        orientation |-> orientation]]
  /\ height = 0 /\ y = 0 /\ source = 0 /\ error = 0
  /\ impcompleted = 0
  /\ served = [job |-> "none", page |-> FALSE, next |-> 0, pages |-> 0,
               amiss |-> FALSE, short |-> FALSE, cut |-> FALSE]

-----------------------------------------------------------------------------
(* The driver's callbacks: each may fail.                                  *)

StartedJob  == [served EXCEPT !.job = "open", !.amiss = @ \/ served.job # "none"]
StartedPage == [served EXCEPT !.page = TRUE, !.next = 0,
                  !.amiss = @ \/ served.page \/ served.job # "open"]
EndedPage   == [served EXCEPT !.page = FALSE, !.pages = @ + 1,
                  !.amiss = @ \/ ~served.page,
                  !.short = @ \/ served.next < Height]
EndedJob    == [served EXCEPT !.job = "ended", !.page = FALSE,
                  !.amiss = @ \/ served.job # "open"]

\* The lines from first to last, none if last < first.
Wrote(first, last) ==
  IF last < first THEN served
  ELSE [served EXCEPT !.next = last + 1,
          !.amiss = @ \/ ~served.page \/ served.next # first \/ last >= Height]

At(pc) == jpc = pc /\ UNCHANGED optionVars
Go(pc) == jpc' = pc
Abort(pc) == job_state' = "aborted" /\ Go(pc)
Keep(pc)  == UNCHANGED job_state /\ Go(pc)

-----------------------------------------------------------------------------
(* A streamed job: _papplJobProcessRaster.                                 *)

\* start_job gives up, or the stream has no first header, or there are no
\* options, or the driver fails.
StartStream ==
  /\ streamed /\ At("start")
  /\ \/ UNCHANGED height /\ Keep("finish") /\ UNCHANGED served
     \/ UNCHANGED height /\ Abort("finish") /\ UNCHANGED served
     \/ height' \in Heights /\ Keep("page") /\ served' = StartedJob
  /\ UNCHANGED <<is_canceled, docVars, copy, y, imageVars, impcompleted>>

\* The impression is counted before the page's data is looked at. Without memory
\* for a line the page stays open.
StreamPage ==
  /\ At("page")
  /\ \/ /\ is_canceled /\ Keep("end")
        /\ UNCHANGED <<impcompleted, served>>
     \/ /\ ~is_canceled /\ impcompleted' = impcompleted + 1
        /\ \/ Abort("end") /\ UNCHANGED served
           \/ height # 0 /\ Abort("end") /\ served' = StartedPage
           \/ height # 0 /\ Keep("lines") /\ served' = StartedPage
  /\ y' = 0
  /\ UNCHANGED <<is_canceled, docVars, copy, height, imageVars>>

\* The result of the driver is not looked at.
StreamLine ==
  /\ At("lines") /\ ~is_canceled /\ y < height /\ y < Height
  /\ \/ /\ served' = Wrote(y, y) /\ y' = y + 1 /\ Keep("lines")
     \/ /\ served' = [served EXCEPT !.cut = TRUE] /\ UNCHANGED y /\ Keep("rest")
  /\ UNCHANGED <<is_canceled, docVars, copy, height, imageVars, impcompleted>>

StreamLinesEnd ==
  /\ At("lines") /\ (is_canceled \/ y >= height \/ y >= Height)
  /\ Keep("rest")
  /\ UNCHANGED <<is_canceled, docVars, copy, height, y, imageVars, impcompleted,
                 served>>

AtLeast(n) == IF y < n THEN n ELSE y

\* What the client has too much is discarded, what it has too little is blank. A
\* stream that broke has lines left to discard, so nothing is blank then.
\* (Mutant: a canceled page is not filled.)
StreamRestUnfilled ==
  /\ At("rest")
  /\ y' = AtLeast(height)
  /\ served' = IF is_canceled THEN served ELSE Wrote(y, Height - 1)
  /\ Keep("endpage")
  /\ UNCHANGED <<is_canceled, docVars, copy, height, imageVars, impcompleted>>
StreamRest ==
  /\ At("rest")
  /\ IF ~is_canceled /\ y < height
     THEN y' = height /\ UNCHANGED served
     ELSE y' = AtLeast(Height) /\ served' = Wrote(y, Height - 1)
  /\ Keep("endpage")
  /\ UNCHANGED <<is_canceled, docVars, copy, height, imageVars, impcompleted>>

\* On to the next page, if the stream has one. That lines were not read would
\* abort the job here, but they have been discarded.
StreamEndPage ==
  /\ At("endpage")
  /\ served' = EndedPage
  /\ \/ UNCHANGED height /\ Abort("end")
     \/ UNCHANGED height /\ (IF ~is_canceled /\ y < height THEN Abort("end")
                                                           ELSE Keep("end"))
     \/ /\ ~is_canceled /\ y >= height /\ served.pages + 1 < MaxPages
        /\ height' \in Heights /\ Keep("page")
  /\ UNCHANGED <<is_canceled, docVars, copy, y, imageVars, impcompleted>>

-----------------------------------------------------------------------------
(* Documents: _papplJobProcess.                                            *)

Sets         == IF handling = "uncollated" THEN 1 ELSE NumCopies  \* options->copies
HeaderCopies == IF handling = "uncollated" THEN NumCopies ELSE 1  \* NumCopies

StartJob ==
  /\ ~streamed /\ At("start")
  /\ \/ Keep("finish") /\ UNCHANGED served
     \/ Abort("finish") /\ UNCHANGED served
     \/ Keep("document") /\ served' = StartedJob
  /\ UNCHANGED <<is_canceled, docVars, copy, height, y, imageVars, impcompleted>>

\* The next document is printed, or skipped because it was canceled, or there is
\* no filter for its format.
NextDocument ==
  /\ At("document") /\ doc_number < NumDocs
  /\ doc_number' = doc_number + 1
  /\ image' = documents[doc_number + 1].image
  /\ scaling' = documents[doc_number + 1].scaling
  /\ orientation' = documents[doc_number + 1].orientation
  /\ Keep("document") \/ Keep("image") \/ Abort("end")
  /\ UNCHANGED <<is_canceled, documents, set, copy, height, y, source, error, impcompleted,
                 served>>

\* All of them once more for the next collated copy.
LastDocument ==
  /\ At("document") /\ doc_number = NumDocs
  /\ set' = set + 1
  /\ IF set + 1 < Sets THEN doc_number' = 0 /\ Keep("document")
                       ELSE UNCHANGED doc_number /\ Keep("end")
  /\ UNCHANGED <<is_canceled, documents, copy, height, y, imageVars, impcompleted,
                 served>>

\* filter_raw: the driver prints the file itself.
FilterRaw ==
  /\ At("image") /\ image.format = "raw"
  /\ \/ Abort("end") /\ UNCHANGED impcompleted
     \/ Keep("document") /\ impcompleted' = impcompleted + 1
  /\ UNCHANGED <<is_canceled, docVars, copy, height, y, imageVars, served>>

\* The filter returns false: abort_job ends the driver's job.
FilterFails == Abort("end")

-----------------------------------------------------------------------------
(* Where an image goes: papplJobFilterImage up to its first page.          *)

Landscape ==
  \/ orientation = "landscape"
  \/ orientation = "none" /\ image.width > image.height /\ Width < Height

\* The image as it is turned.
Across == IF Landscape THEN image.height ELSE image.width
Down   == IF Landscape THEN image.width  ELSE image.height

\* The area of the page that can be printed on.
Inside(n) == IF scaling = "fill" THEN n ELSE n - 2 * margin
Least     == IF scaling = "fill" THEN 0 ELSE margin

Pixels(n) == (n * Resolution) \div (IF image.ppi = 0 THEN 200 ELSE image.ppi)

Fits == /\ image.ppi # 0
        /\ Pixels(Across) <= Inside(Width) /\ Pixels(Down) <= Inside(Height)

Scaling ==
  CASE scaling \notin {"auto", "auto-fit"} -> scaling
    [] scaling \in {"auto", "auto-fit"} ->
         IF Fits THEN "none"
         ELSE IF scaling = "auto" /\ margin = 0 THEN "fill" ELSE "fit"

\* xsize and ysize.
Size ==
  LET full == (Inside(Width) * Down) \div Across
      tall == Inside(Height)
  IN IF Scaling = "none" THEN <<Pixels(Across), Pixels(Down)>>
     ELSE IF \/ full > tall /\ Scaling = "fit"
             \/ full < tall /\ Scaling = "fill"
     THEN <<(tall * Across) \div Down, tall>>
     ELSE <<Inside(Width), full>>

Quotient(a, b) == IF a < 0 THEN -((-a) \div b) ELSE a \div b  \* a / b in C

First(tall) == Least + Quotient(Inside(Height) - tall, 2)
Last(tall)  == IF First(tall) + tall > Height THEN Height ELSE First(tall) + tall

\* The row of the image and the error that the first line starts with: what is
\* above the page is passed over. (Mutant: by the lines of the page.)
StartRowUnscaled(tall) == IF First(tall) < 0 THEN -First(tall) ELSE 0
StartRow(tall) ==
  IF First(tall) < 0 THEN (-First(tall) * (Down % tall)) \div tall ELSE 0
StartError(tall) ==
  -((Down % tall) \div 2)
    + (IF First(tall) < 0 THEN (-First(tall) * (Down % tall)) % tall ELSE 0)

\* The document's options are left as they were resolved for this copy: the next
\* collated one neither turns nor scales anew.
Resolved == [documents EXCEPT ![doc_number].scaling = Scaling,
                              ![doc_number].orientation = "portrait"]

\* A driver whose copies_supported are fewer than the copies gets the last of them
\* only. Margins may leave nothing of the page. An image is divided by the number of
\* its pixels on the page: a side without any is undefined.
PlaceImage ==
  \/ FilterFails /\ UNCHANGED <<copy, documents>>
  \/ /\ Inside(Width) > 0 /\ Inside(Height) > 0
     /\ Keep(IF Size[1] = 0 \/ Size[2] = 0 THEN "crashed" ELSE "copy")
     /\ copy' \in {0, HeaderCopies - 1} /\ documents' = Resolved

\* _papplJobFilterPNG: a file that cannot be read, is too large, or has pixels
\* that are not square, is not printed.
FilterPNG ==
  /\ At("image") /\ image.format = "png"
  /\ PlaceImage
  /\ UNCHANGED <<is_canceled, set, doc_number, height, y, imageVars, impcompleted, served>>

\* _papplJobFilterJPEG: so for this format, and what it returns is undefined when
\* the library finds an error after the image has been printed.
FilterJPEG ==
  /\ image.format = "jpeg"
  /\ \/ At("image") /\ PlaceImage
     \/ At("copy") /\ copy = HeaderCopies /\ FilterFails
        /\ UNCHANGED <<copy, documents>>
  /\ UNCHANGED <<is_canceled, set, doc_number, height, y, imageVars, impcompleted,
                 served>>

-----------------------------------------------------------------------------
(* Its pages, one for each copy.                                           *)

StartCopy ==
  /\ At("copy") /\ copy < HeaderCopies
  /\ \/ FilterFails /\ UNCHANGED <<height, y, source, error, served>>
     \/ /\ ~is_canceled /\ job_state = "processing"
        /\ served' = StartedPage
        /\ y' = 0 /\ height' = Last(Size[2])
        /\ source' = StartRow(Size[2]) /\ error' = StartError(Size[2])
        /\ Keep("blank")
  /\ UNCHANGED <<is_canceled, docVars, copy, image, scaling, orientation,
                 impcompleted>>

CopiesDone ==
  /\ At("copy") /\ copy = HeaderCopies
  /\ Keep("document")
  /\ UNCHANGED <<is_canceled, docVars, copy, height, y, imageVars, impcompleted,
                 served>>

\* A line is written to the driver, who may fail, and then the page is left as it
\* is.
WriteLine(pc) ==
  /\ served' = Wrote(y, y) /\ y' = y + 1
  /\ Keep(pc) \/ FilterFails
  /\ UNCHANGED <<is_canceled, docVars, copy, height, image, scaling, orientation,
                 impcompleted>>

LeadingLine ==
  /\ At("blank") /\ y < First(Size[2])
  /\ WriteLine("blank") /\ UNCHANGED <<source, error>>

ImageLine ==
  /\ At("blank") /\ y >= First(Size[2]) /\ y < height /\ ~is_canceled
  /\ WriteLine("blank")
  /\ LET carry == error + (Down % Size[2]) >= Size[2] IN
       /\ source' = source + (Down \div Size[2]) + (IF carry THEN 1 ELSE 0)
       /\ error'  = error + (Down % Size[2]) - (IF carry THEN Size[2] ELSE 0)

\* When the image has ended, or the job is canceled, the rest of the page is
\* blank.
EndOfImage ==
  /\ At("blank") /\ y >= First(Size[2]) /\ (y >= height \/ is_canceled)
  /\ Keep("trailing")
  /\ UNCHANGED <<is_canceled, docVars, copy, height, y, imageVars, impcompleted,
                 served>>

TrailingLine ==
  /\ At("trailing") /\ y < Height
  /\ WriteLine("trailing") /\ UNCHANGED <<source, error>>

EndCopy ==
  /\ At("trailing") /\ y >= Height
  /\ served' = EndedPage
  /\ \/ FilterFails /\ UNCHANGED <<copy, impcompleted>>
     \/ /\ Keep("copy") /\ copy' = copy + 1
        /\ impcompleted' = impcompleted + 1
  /\ UNCHANGED <<is_canceled, docVars, height, y, imageVars>>

-----------------------------------------------------------------------------
\* rendjob_cb, which is called when rstartjob_cb has succeeded.
EndJob ==
  /\ At("end")
  /\ served' = EndedJob
  /\ Keep("finish") \/ Abort("finish")
  /\ UNCHANGED <<is_canceled, docVars, copy, height, y, imageVars, impcompleted>>

\* Another thread cancels the job.
CancelJob ==
  /\ jpc \notin {"finish", "crashed"} /\ is_canceled' = TRUE
  /\ UNCHANGED <<jpc, job_state, optionVars, docVars, copy, height, y, imageVars,
                 impcompleted, served>>

\* papplJobSuspend, by the driver: the next copy is not printed.
SuspendJob ==
  /\ jpc \in {"blank", "trailing"} /\ job_state = "processing"
  /\ job_state' = "stopped"
  /\ UNCHANGED <<jpc, optionVars, is_canceled, docVars, copy, height, y, imageVars,
                 impcompleted, served>>

Next ==
  \/ StartStream \/ StreamPage \/ StreamLine \/ StreamLinesEnd \/ StreamRest
  \/ StreamEndPage
  \/ StartJob \/ NextDocument \/ LastDocument \/ FilterRaw \/ FilterPNG \/ FilterJPEG
  \/ StartCopy \/ CopiesDone \/ LeadingLine \/ ImageLine \/ EndOfImage \/ TrailingLine
  \/ EndCopy
  \/ EndJob \/ CancelJob \/ SuspendJob

Spec == Init /\ [][Next]_rasterVars

-----------------------------------------------------------------------------
(* Properties.                                                             *)

\* Every variable has its type.
TypeOK ==
  /\ jpc \in {"start", "page", "lines", "rest", "endpage", "document", "image",
              "copy", "blank", "trailing", "end", "finish", "crashed"}
  /\ job_state \in {"processing", "stopped", "aborted"}
  /\ is_canceled \in BOOLEAN
  /\ set \in 0..NumCopies /\ doc_number \in 0..NumDocs
  /\ copy \in 0..NumCopies /\ documents \in [1..NumDocs -> Document]
  /\ image \in Images /\ scaling \in Scalings /\ orientation \in Orientations
  /\ height \in Nat /\ y \in Nat /\ source \in Nat /\ error \in Int
  /\ served \in Driver

\* The driver's calls come in order: the lines of a page one after the other and
\* within the page, a page when no other is open, and the end of the job once. A
\* page that is ended has all its lines, but for one of a stream that broke. What
\* is counted as printed are the pages that have ended, or for a stream those
\* that were begun.
DriverServed ==
  /\ ~served.amiss
  /\ served.short => served.cut
  /\ jpc = "finish" => served.job # "open"
  /\ impcompleted >= served.pages - 1
  /\ streamed => served.pages <= impcompleted /\ impcompleted <= served.pages + 1

\* What is printed of an image is part of it.
RowsInImage == jpc = "blank" /\ y >= First(Size[2]) /\ y < height => source < Down
=============================================================================
