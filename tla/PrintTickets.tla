---------------------------- MODULE PrintTickets ----------------------------
(***************************************************************************)
(* What a job asks for, and what it is printed with. A driver says what    *)
(* the printer can do and sets its defaults and ready media, which IPP     *)
(* requests and web forms change; what a job asks for is checked when it   *)
(* is created; the print options are put together when it is processed,    *)
(* from its documents' attributes, its own, and the defaults of then.      *)
(*                                                                         *)
(* A size of media is a number, 0 for none. The media sources are 1 to     *)
(* NumSources, and ready tells what each of them has: a size, and the name *)
(* of a source, 0 where there is none. What a driver can do does not       *)
(* change once the printer is there, which makes the validation of         *)
(* defaults before the lock is taken as good as one after.                 *)
(***************************************************************************)
EXTENDS PrinterAttributes

CONSTANTS
  NumSources,  \* driver_data.num_source
  Drivers,     \* drivers: what they support, their defaults and ready media
  Attrs,       \* what may be asked for: an attribute and its value
  DocAttrs,    \* what may be asked for with a document
  Cols,        \* media collections, which may name a size, a source, or both
  MaxEdits     \* changes of the defaults and ready media (a bound of the check)

Sources == 1..NumSources

\* The name of a source may be empty, or none that the driver has.
SourceNames == 0..(NumSources + 1)

VARIABLES
  driver,        \* what driver_data says that is supported
  defaults,      \* the xxx_default values
  ready,         \* media_ready, size_name and source for each source
  edits,         \* how often they were changed
  job,           \* no job yet ("none"), "accepted", "refused", "printed"
  ticket, doc,   \* the attributes of the job and of its document, functions
                 \* from the names of those that were asked for
  options        \* pappl_pr_options_t, once they are there

ticketVars == <<driver, defaults, ready, edits, job, ticket, doc, options>>

Colors  == {"auto", "auto-monochrome", "bi-level", "color", "monochrome"}
Plain   == {"content", "darkness", "orientation", "quality", "scaling", "speed"}
Names   == Plain \cup {"media", "color", "resolution", "sides", "handling",
                       "pages", "copies", "bin"}
NoAttrs == [n \in {} |-> 0]

-----------------------------------------------------------------------------
(* validate_driver, validate_defaults and validate_ready.                  *)

\* A driver has its callbacks, the one that prints files if it has a format.
ValidDriver(d) ==
  /\ d.raster # {} /\ d.resolutions # << >>
  /\ d.left_right >= 0 /\ d.bottom_top >= 0

InRange(d, size) == \E least, most \in d.media : least <= size /\ size <= most

ValidDefaults(d, v) ==
  /\ d.media = {} \/ v.media \in d.media \/ InRange(d, v.media)
  /\ v.color \in d.color
  /\ v.sides \in d.sides \/ d.sides = {}
  /\ v.resolution \in Resolutions(d)

\* A source may be empty.
ValidReady(d, r) ==
  \A s \in Sources :
    \/ r[s].size = 0
    \/ InRange(d, r[s].size) /\ r[s].source \in Sources

\* papplPrinterSetDriverData, as the printer is created.
Usable(d) ==
  ValidDriver(d) /\ ValidDefaults(d, d.defaults) /\ ValidReady(d, d.ready)

Init ==
  /\ driver \in {d \in Drivers : Usable(d)}
  /\ defaults = driver.defaults /\ ready = driver.ready
  /\ edits = 0
  /\ job = "none" /\ ticket = NoAttrs /\ doc = NoAttrs
  /\ options = NoAttrs

\* Changes go on until the job is printed: the options are its own.
MayEdit == edits < MaxEdits /\ job # "printed"

\* papplPrinterSetDriverDefaults.
SetDriverDefaults(v) ==
  /\ ValidDefaults(driver, v)
  /\ defaults' = v
  /\ edits' = edits + 1
  /\ UNCHANGED <<driver, ready, job, ticket, doc, options>>

First(S) == CHOOSE s \in S : \A r \in S : s <= r

\* papplPrinterSetReadyMedia: the default media becomes what its source has,
\* be it nothing.
SetReadyMedia(r) ==
  /\ ValidReady(driver, r)
  /\ ready' = r
  /\ LET its == {s \in Sources : r[s].source = defaults.source}
     IN defaults' = IF its = {} THEN defaults
                    ELSE [defaults EXCEPT !.media = r[First(its)].size]
  /\ edits' = edits + 1
  /\ UNCHANGED <<driver, job, ticket, doc, options>>

-----------------------------------------------------------------------------
(* valid_job_attributes.                                                   *)

\* Values that no printer supports: the job is refused.
Wrong(name, v) ==
  \/ name = "pages" /\ (~PDFSupported(driver) \/ v.first < 1 \/ v.last < v.first)
  \/ name = "copies" /\ v \notin 1..999
  \/ name = "quality" /\ v \notin Qualities
  \/ name = "scaling" /\ v \notin Scalings
  \/ name = "darkness" /\ v \notin -100..100

\* Values that other printers support: they are ignored unless the client wants
\* nothing else.
Supported(name, v) ==
  CASE name = "media"      -> v \in driver.media
    [] name = "color"      -> v \in driver.color
    [] name = "sides"      -> v \in driver.sides
    [] name = "resolution" -> v \in Resolutions(driver)
    [] name = "handling"   -> v \in Handlings
    [] name = "content"    -> v \in Contents
    [] name = "orientation" -> v \in Orientations
    [] name = "darkness"   -> driver.darkness # 0
    [] name = "speed"      -> HasSpeed(driver) /\ v \in driver.speed[1]..driver.speed[2]
    [] OTHER               -> TRUE

Unsupported(t) == {n \in DOMAIN t : ~Supported(n, t[n])}

Refused(t, exact) ==
  \/ \E n \in DOMAIN t : Wrong(n, t[n])
  \/ exact /\ Unsupported(t) # {}

\* What is ignored is deleted from the request. (Mutant: it is only reported.)
KeptAll(t) == t
Kept(t)    == [n \in DOMAIN t \ Unsupported(t) |-> t[n]]

CreateJob(t, exact) ==
  /\ job = "none"
  /\ IF Refused(t, exact) THEN job' = "refused" /\ UNCHANGED ticket
                          ELSE job' = "accepted" /\ ticket' = Kept(t)
  /\ UNCHANGED <<driver, defaults, ready, edits, doc, options>>

\* The attributes that come with a document are not checked.
SendDocument(t) ==
  /\ job = "accepted" /\ doc = NoAttrs
  /\ doc' = t
  /\ UNCHANGED <<driver, defaults, ready, edits, job, ticket, options>>

-----------------------------------------------------------------------------
(* papplJobCreatePrintOptions, for a document of n pages (0 if that is not *)
(* known) that is in color or not.                                         *)

OfJob(name, default) == IF name \in DOMAIN ticket THEN ticket[name] ELSE default
Of(name, default)    == IF name \in DOMAIN doc THEN doc[name]
                        ELSE OfJob(name, default)

\* Media that was asked for, or has no source by default, comes from the first
\* source that has it, or else from that of the default media.
HasMedia(size) == {s \in Sources : ready[s].size = size}

Source(size) ==
  IF /\ "media" \in DOMAIN ticket \cup DOMAIN doc \/ defaults.source = 0
     /\ HasMedia(size) # {}
  THEN First(HasMedia(size)) ELSE defaults.source

\* The pages to print of n, last 0 for all there are.
Range(first, last) == [first |-> first, last |-> last, num |-> last - first + 1]
Pages(n) ==
  IF "pages" \notin DOMAIN ticket THEN [first |-> 1, last |-> n, num |-> n]
  ELSE IF n # 0 /\ ticket.pages.first > n
  THEN [first |-> n + 1, last |-> n + 1, num |-> 0]
  ELSE Range(ticket.pages.first,
             IF n # 0 /\ ticket.pages.last > n THEN n ELSE ticket.pages.last)

Color(in_color) ==
  LET mode == Of("color", defaults.color) IN
  CASE mode = "auto" -> IF in_color THEN "color" ELSE "monochrome"
    [] mode = "auto-monochrome" -> "monochrome"
    [] OTHER -> mode

ChosenResolution(quality) ==
  LET r == driver.resolutions IN
  Of("resolution", CASE quality = "draft"  -> r[1]
                     [] quality = "normal" -> r[Len(r) \div 2 + 1]
                     [] OTHER              -> r[Len(r)])

PrintedSides(num) ==
  Of("sides", IF defaults.sides # "one-sided" /\ num # 1 THEN defaults.sides
              ELSE "one-sided")

\* Nothing is said where the printer has no bins.
Bin ==
  IF driver.bins = << >> THEN "none" ELSE Of("bin", driver.bins[defaults.bin])

Gray == IF "sgray_8" \in driver.raster THEN "sgray_8" ELSE "black_8"

RasterType(color) ==
  CASE driver.bitmap -> "black_1"
    [] ~driver.bitmap /\ color = "color" ->
         IF "srgb_8" \in driver.raster THEN "srgb_8"
         ELSE IF "adobe-rgb_8" \in driver.raster THEN "adobe-rgb_8"
         ELSE "rgb_8"
    [] OTHER -> Gray

CreatePrintOptions(n, in_color) ==
  /\ job = "accepted"
  /\ LET handling == OfJob("handling", defaults.handling)
         copies   == OfJob("copies", 1)
         size     == Of("media", defaults.media)
         quality  == Of("quality", defaults.quality)
         color    == Color(in_color)
     IN options' =
          [copies        |-> IF handling = "uncollated" THEN 1 ELSE copies,
           header_copies |-> IF handling = "uncollated" THEN copies ELSE 1,
           media |-> size, source |-> Source(size),
           pages |-> Pages(n), document |-> n, in_color |-> in_color,
           color |-> color, raster |-> RasterType(color), bin |-> Bin,
           plain |-> [name \in Plain |-> Of(name, defaults[name])],
           resolution |-> ChosenResolution(quality),
           sides |-> PrintedSides(Pages(n).num),
           dither |-> IF quality = "high" THEN "pdither" ELSE "gdither"]
  /\ job' = "printed"
  /\ UNCHANGED <<driver, defaults, ready, edits, ticket, doc>>

-----------------------------------------------------------------------------
With(attrs) == {[n \in {a[1]} |-> a[2]] : a \in attrs}

(***************************************************************************)
(* Set-Printer-Attributes and the forms edit a copy of the defaults and of *)
(* the ready media, which they put back in another section of the          *)
(* printer's lock: here that is one step.                                  *)
(***************************************************************************)

\* _papplMediaColImport: a collection changes what it names, in media.
Import(m, col) ==
  [size   |-> IF col.size = 0   THEN m.size   ELSE col.size,
   source |-> IF col.source = 0 THEN m.source ELSE col.source]

Empty == [size |-> 0, source |-> 0]
Sizes == {a[2] : a \in {b \in Attrs : b[1] = "media"}}
SizesAlone == [size : Sizes, source : {0}]

WithMedia(m) == [defaults EXCEPT !.media = m.size, !.source = m.source]

\* Set-Printer-Attributes takes any media, and what else the printer supports, but
\* scaling, which is not in its table.
SetMedia ==
  {WithMedia(Import([size |-> defaults.media, source |-> defaults.source], col)) :
     col \in Cols \cup SizesAlone}

Taken(name, v) ==
  CASE name = "sides"    -> v \in driver.sides
    [] name = "speed"    -> driver.speed[1] <= v /\ v <= driver.speed[2]
    [] name = "darkness" -> driver.darkness # 0 /\ v \in 0..100
    [] OTHER             -> Advertised(driver, name, v)

SetOthers ==
  {[defaults EXCEPT ![a[1]] = a[2]] :
     a \in {b \in Attrs : /\ b[1] \in DOMAIN defaults \ {"media", "bin", "scaling"}
                          /\ Taken(b[1], b[2])}}

\* Bins go by their names, here and in the form.
SetBin == {[defaults EXCEPT !.bin = i] : i \in DOMAIN driver.bins}

\* _papplPrinterWebDefaults stores what it does not know: as 0 ("unknown") of
\* keywords, a number of its own ("other") of the quality; it takes any speed up to
\* the most. Only colors, resolutions and sides are validated.
FormValue(name, v) ==
  CASE name = "content"     -> IF v \in Contents THEN v ELSE "unknown"
    [] name = "scaling"     -> IF v \in Scalings THEN v ELSE "unknown"
    [] name = "quality"     -> IF v \in Qualities \cup {"unknown"} THEN v ELSE "other"
    [] name = "orientation" -> IF v \in Orientations THEN v ELSE 3
    [] name = "speed"       -> IF v \in 0..driver.speed[2] THEN v ELSE 0
    [] OTHER                -> v

Posted == {"content", "scaling", "quality", "orientation", "speed", "color",
           "resolution", "sides"}

\* The media are chosen by their source, and are what that one has.
DefaultsForm ==
  {WithMedia(ready[s]) : s \in Sources}
    \cup {[defaults EXCEPT ![a[1]] = FormValue(a[1], a[2])] :
            a \in {b \in Attrs : b[1] \in Posted}}
    \cup {[defaults EXCEPT !.sides = "none"]}

\* Of the ready media a request names the first ones, and empties the others; if it
\* names sizes alone, the others keep the names of their sources.
Named(cols) == UNION {[1..n -> cols] : n \in Sources}

SetReady ==
  {[s \in Sources |-> IF s \in DOMAIN q THEN Import(ready[s], q[s]) ELSE Empty] :
     q \in Named(Cols)}
    \cup {[s \in Sources |-> IF s \in DOMAIN q THEN Import(ready[s], q[s])
                             ELSE [ready[s] EXCEPT !.size = 0]] :
            q \in Named(SizesAlone)}

\* _papplPrinterWebMedia fills the sources that were posted, each with its own name.
MediaForm ==
  {r \in [Sources -> [size : {0} \cup Sizes, source : {0} \cup Sources]] :
     \A s \in Sources : r[s] = Empty \/ r[s].source = s}

Edited == SetMedia \cup SetOthers \cup SetBin \cup DefaultsForm

Next ==
  \/ MayEdit /\ \E v \in Edited : SetDriverDefaults(v)
  \/ MayEdit /\ \E r \in SetReady \cup MediaForm : SetReadyMedia(r)
  \/ \E t \in With(Attrs) \cup {NoAttrs}, exact \in BOOLEAN : CreateJob(t, exact)
  \/ \E t \in With(DocAttrs) : SendDocument(t)
  \/ \E n \in 0..2, in_color \in BOOLEAN : CreatePrintOptions(n, in_color)

Spec == Init /\ [][Next]_ticketVars

-----------------------------------------------------------------------------
(* Properties.                                                             *)

\* Every variable has its type.
TypeOK ==
  /\ driver \in Drivers /\ edits \in 0..MaxEdits
  /\ defaults.source \in SourceNames /\ defaults.color \in Colors
  /\ defaults.quality \in Qualities \cup {"unknown", "other"}
  /\ defaults.handling \in AllHandlings
  /\ DOMAIN ready = Sources /\ \A s \in Sources : ready[s].source \in SourceNames
  /\ job \in {"none", "accepted", "refused", "printed"}
  /\ DOMAIN ticket \subseteq Names /\ DOMAIN doc \subseteq Names

\* What is printed on and with is supported, whatever was asked for and however
\* the defaults changed since, by themselves or with the ready media: unless the
\* document asked for it, a default is automatic or the default source is empty.
OptionsSupported ==
  (job = "printed" /\ doc = NoAttrs) =>
    /\ options.media = 0 \/ driver.media = {} \/ InRange(driver, options.media)
    /\ \/ options.color \in driver.color
       \/ {"auto", "auto-monochrome"} \cap driver.color # {}
    /\ options.sides \in driver.sides \cup {"one-sided"} \/ driver.sides = {}
    /\ options.resolution \in Resolutions(driver)

\* What the options ask for is what the job does: as many copies, of the driver or
\* of the raster's header, and those pages of its range that the document has. (What
\* becomes of the copies and the pages is up to the filter.)
PagesHonoured ==
  (job = "printed") =>
    /\ options.copies * options.header_copies = OfJob("copies", 1)
    /\ options.document > 0 =>
         LET asked == {p \in 1..options.document :
                         "pages" \in DOMAIN ticket =>
                           ticket.pages.first <= p /\ p <= ticket.pages.last}
         IN /\ asked = {p \in 1..options.document :
                          options.pages.first <= p /\ p <= options.pages.last}
            /\ options.pages.num = Cardinality(asked)

\* A job may ask for what the printer says it can do, and for nothing else, bins
\* apart, which are not checked; not for what no client may write. Jobs of one
\* document are no defaults for others, and of a driver without sides nothing is
\* taken. What may be asked for is named among the job-creation-attributes, except
\* for scaling.
AdvertisedAccepted ==
  \A a \in Attrs : LET n == a[1]
                       v == a[2]
                       written == CASE n = "pages"    -> v.first \in 1..v.last
                                    [] n = "darkness" -> v \in -100..100
                                    [] OTHER          -> TRUE
                       accepted   == ~Wrong(n, v) /\ Supported(n, v)
                       advertised == Advertised(driver, n, v)
                   IN /\ accepted => advertised \/ n = "bin"
                      /\ advertised /\ written =>
                           accepted \/ (n = "handling" /\ v \notin Handlings)
                                    \/ (n = "sides" /\ driver.sides = {})
                      /\ advertised =>
                           \/ n \in JobCreation(driver) \cup {"scaling"}
                           \/ n = "sides" /\ driver.sides \in {{}, {"one-sided"}}
                           \/ n = "bin" /\ driver.bins = << >>

\* However the defaults were changed, what is reported of them is what the printer
\* says it can do, but for what a form stores: a quality that is none, a speed below
\* the least one, and any sides where the driver says none. Media may be any in
\* their range.
DefaultsAdvertised ==
  \A r \in Reported(driver, defaults) :
    \/ Advertised(driver, r[1], r[2])
    \/ r[1] = "media" /\ (driver.media = {} \/ InRange(driver, r[2]))
    \/ r[1] = "sides" /\ driver.sides = {}
    \/ r = <<"quality", "other">>
    \/ r[1] = "speed" /\ r[2] \in {0} \cup (0..driver.speed[1])

\* Ready media are in the database of media, by themselves or in the range of
\* custom sizes, and so they are without margins if the driver has margins on all
\* sides or on none. A size between others that is not listed has no entry there.
ReadyInDatabase ==
  \A m \in MediaColReady(driver, ready) :
    \/ \E e \in MediaColDatabase(driver) :
         /\ e.size[1] <= m.size /\ m.size <= e.size[2]
         /\ <<e.bottom_top, e.left_right>> = <<m.bottom_top, m.left_right>>
    \/ m.size \notin driver.media
    \/ driver.borderless /\ ((driver.bottom_top = 0) # (driver.left_right = 0))

\* The margins of the database are among those that are listed.
MarginsListed ==
  \A e \in MediaColDatabase(driver) :
    e.bottom_top \in BottomTops(driver) /\ e.left_right \in LeftRights(driver)

\* A document of a format that the printer says it takes is streamed, filtered or
\* sent as it is: no job fails for want of a filter.
FormatsProcessed ==
  /\ \A f \in Commands(driver) : Processed(driver, f)
  /\ PreferredFormat(driver) \in DocumentFormats(driver)

\* What may be set is set, but for what goes by two names in the code.
SettableChanged ==
  Settable(driver) \ (Table \cap Changed) \subseteq
    {"finishings-default", "finishings-col-default", "label-tear-off-configured",
     "printer-organizational-unit"}

\* Each URI has its authentication, the one that its XRI says, unless the server
\* has no TLS and wants nothing else.
URIsAuthenticated ==
  \A s \in Settings :
    \/ /\ Len(Authentication(s)) = Len(URIs(s))
       /\ \A i \in DOMAIN URIs(s) : Authentication(s)[i] = XRI(s)[URIs(s)[i]]
    \/ s.no_tls /\ s.tls_only /\ ~s.local

\* What a printer says of itself is so: of its formats, its media, its defaults,
\* what it can do, what may be set, and where it is. (Nothing of it changes once
\* the job is printed.)
AttributesAgree == job # "printed" =>
  /\ AdvertisedAccepted /\ DefaultsAdvertised
  /\ ReadyInDatabase /\ MarginsListed
  /\ FormatsProcessed /\ SettableChanged /\ URIsAuthenticated
  /\ URFResolutions(driver) \subseteq Resolutions(driver)
=============================================================================
