--------------------------- MODULE PrinterAttributes ---------------------------
(***************************************************************************)
(* What a printer says of itself: the attributes that make_attrs makes of  *)
(* a driver d, once, and those that a Get-Printer-Attributes request gets  *)
(* of its defaults v, its ready media r and the system's settings s at the *)
(* time. They are read by clients, which ask for what they find there.     *)
(*                                                                         *)
(* An attribute for jobs has a short name: "color" is print-color-mode,    *)
(* "handling" multiple-document-handling, "bin" output-bin, "pages"        *)
(* page-ranges. A format is a name without its class, "octet-stream" for   *)
(* what is to be found out.                                                *)
(***************************************************************************)
EXTENDS Integers, Sequences, FiniteSets

CONSTANTS
  Filters,        \* system->filters: from which format to which
  MultiDocument   \* PAPPL_SOPTIONS_MULTI_DOCUMENT_JOBS

Qualities    == {"draft", "normal", "high"}
Handlings    == {"collated", "uncollated"}
Contents     == {"auto", "graphic", "photo", "text-and-graphic", "text"}
Scalings     == {"auto", "auto-fit", "fill", "fit", "none"}
Orientations == 3..7

When(condition, values) == IF condition THEN values ELSE {}

-----------------------------------------------------------------------------
(* Formats. A driver without one, "none", prints nothing but raster.       *)

CanFilter(src, dst) == <<src, dst>> \in Filters

PDFSupported(d) ==
  d.format = "pdf" \/ CanFilter("pdf", "pwg-raster") \/ CanFilter("pdf", d.format)

\* What there is a filter for. (Mutant: to whatever format.)
AllFiltered(d) == {f[1] : f \in Filters}
Filtered(d) == {f[1] : f \in {g \in Filters : g[2] \in {d.format, "pwg-raster"}}}

DocumentFormats(d) ==
  {"octet-stream", "pwg-raster", "urf"} \cup ({d.format} \ {"none"}) \cup Filtered(d)

\* PDF is preferred where a filter brings it in.
PreferredFormat(d) ==
  IF "pdf" \in Filtered(d) \ {d.format} THEN "pdf" ELSE "urf"

\* The CMD key of printer-device-id.
Commands(d) == DocumentFormats(d) \ {"octet-stream"}

\* What becomes of a document of a format: it is streamed, filtered, or sent as
\* it is.
Streamed(format) == format \in {"pwg-raster", "urf"}
Processed(d, format) ==
  \/ Streamed(format)
  \/ CanFilter(format, d.format) \/ CanFilter(format, "pwg-raster")
  \/ d.format # "none" /\ format = d.format

-----------------------------------------------------------------------------
(* Media: sizes, of which two may be the ends of a range, and margins.     *)

Custom(d) == {d.custom_min, d.custom_max} \ {0}

MediaSizes(d) ==
  {<<m, m>> : m \in d.media \ Custom(d)} \cup
    When(Cardinality(Custom(d)) = 2, {<<d.custom_min, d.custom_max>>})

BottomTops(d) == When(d.borderless, {0}) \cup {d.bottom_top}
LeftRights(d) == When(d.borderless, {0}) \cup {d.left_right}

MediaCol(size, bottom_top, left_right) ==
  [size |-> size, bottom_top |-> bottom_top, left_right |-> left_right]

MediaColDatabase(d) ==
  UNION {{MediaCol(s, d.bottom_top, d.left_right)} \cup
           When(d.borderless /\ d.bottom_top > 0 /\ d.left_right > 0,
                {MediaCol(s, 0, 0)}) : s \in MediaSizes(d)}

\* The ready media, with and without margins where the driver can do both.
MediaColReady(d, r) ==
  LET of(m) == {MediaCol(m, d.bottom_top, d.left_right)} \cup
                 When(d.borderless /\ (d.bottom_top # 0 \/ d.left_right # 0),
                      {MediaCol(m, 0, 0)})
  IN UNION {of(r[i].size) : i \in {j \in DOMAIN r : r[j].size # 0}}

-----------------------------------------------------------------------------
(* What jobs may ask for: the xxx-supported attributes.                    *)

Sides(d)  == IF d.sides = {} THEN {"one-sided"} ELSE d.sides
Output(d) == IF d.bins # << >> THEN {d.bins[i] : i \in DOMAIN d.bins}
             ELSE {IF d.face_up THEN "face-up" ELSE "face-down"}
Resolutions(d)  == {d.resolutions[i] : i \in DOMAIN d.resolutions}
HasSpeed(d)     == d.speed[2] # 0
AllHandlings    == Handlings \cup When(MultiDocument, {"single", "single-new-sheet"})

Advertised(d, name, v) ==
  CASE name = "media"       -> v \in d.media
    [] name = "color"       -> v \in d.color
    [] name = "sides"       -> v \in Sides(d)
    [] name = "resolution"  -> v \in Resolutions(d)
    [] name = "bin"         -> v \in Output(d)
    [] name = "darkness"    -> d.darkness # 0
    [] name = "speed"       -> HasSpeed(d) /\ d.speed[1] <= v /\ v <= d.speed[2]
    [] name = "handling"    -> v \in AllHandlings
    [] name = "content"     -> v \in Contents
    [] name = "quality"     -> v \in Qualities
    [] name = "scaling"     -> v \in Scalings
    [] name = "orientation" -> v \in Orientations
    [] name = "copies"      -> v \in 1..999
    [] name = "pages"       -> PDFSupported(d)

\* job-creation-attributes-supported.
JobCreation(d) ==
  {"copies", "media", "handling", "orientation", "color", "content", "quality",
   "resolution"}
    \cup When(d.bins # << >>, {"bin"})    \cup When(PDFSupported(d), {"pages"})
    \cup When(d.darkness # 0, {"darkness"}) \cup When(HasSpeed(d), {"speed"})
    \cup When(d.sides # {"one-sided"}, {"sides"})

\* The RS key of urf-supported.
URFResolutions(d) ==
  LET n == Len(d.resolutions) IN
  IF n = 1 THEN {d.resolutions[1]} ELSE {d.resolutions[n - 1], d.resolutions[n]}

-----------------------------------------------------------------------------
(* The defaults, as they are reported: what is 0 in the driver's data, as  *)
(* a value of its own.                                                     *)

Known(v, otherwise) == IF v = "unknown" THEN otherwise ELSE v

Reported(d, v) ==
  {<<n, v[n]>> : n \in {"color", "handling", "orientation", "resolution"}}
    \cup When(v.media # 0, {<<"media", v.media>>})
    \cup {<<"bin", IF d.bins # << >> THEN d.bins[v.bin]
                   ELSE CHOOSE o \in Output(d) : TRUE>>,
          <<"content", Known(v.content, "auto")>>,
          <<"quality", Known(v.quality, "normal")>>,
          <<"scaling", Known(v.scaling, "auto")>>,
          <<"sides", IF v.sides = "none" THEN "one-sided" ELSE v.sides>>}
    \cup When(d.darkness # 0, {<<"darkness", v.darkness>>})
    \cup When(HasSpeed(d), {<<"speed", v.speed>>})

\* What may be set of a printer, as printer-settable-attributes says, less what
\* only says where it is and who to ask; and what a Set-Printer-Attributes request
\* has in its table and then changes something for.
Settable(d) ==
  {"copies-default", "media-col-default", "media-col-ready", "media-default",
   "media-ready", "multiple-document-handling-default",
   "orientation-requested-default", "output-bin-default",
   "print-color-mode-default", "print-content-optimize-default",
   "print-quality-default", "printer-organizational-unit",
   "printer-resolution-default"}
    \cup When(d.finishings # {}, {"finishings-col-default", "finishings-default"})
    \cup When(d.labels, {"label-mode-configured", "label-tear-off-configured"})
    \cup When(d.darkness # 0, {"print-darkness-default",
                               "printer-darkness-configured"})
    \cup When(HasSpeed(d), {"print-speed-default"})
    \cup When(d.sides # {"one-sided"}, {"sides-default"})

Table ==
  {"copies-default", "label-mode-configured", "label-tear-off-configured",
   "media-col-default", "media-col-ready", "media-default", "media-ready",
   "multiple-document-handling-default", "orientation-requested-default",
   "output-bin-default", "print-color-mode-default",
   "print-content-optimize-default", "print-darkness-default",
   "print-quality-default", "print-speed-default", "printer-darkness-configured",
   "printer-organizational-unit", "printer-resolution-default", "sides-default"}

Changed ==
  {"copies-default", "identify-actions-default", "label-mode-configured",
   "label-tear-offset-configured", "media-col-default", "media-col-ready",
   "media-default", "media-ready", "multiple-document-handling-default",
   "orientation-requested-default", "output-bin-default",
   "print-color-mode-default", "print-content-optimize-default",
   "print-darkness-default", "print-quality-default", "print-scaling-default",
   "print-speed-default", "printer-darkness-configured",
   "printer-organization-unit", "printer-resolution-default", "sides-default"}

-----------------------------------------------------------------------------
(* The URIs of a printer, for a client that is local or not, and how one   *)
(* authenticates there.                                                    *)

Settings == [local : BOOLEAN, no_tls : BOOLEAN, tls_only : BOOLEAN, auth : BOOLEAN]

\* A sequence of one element, or of none.
If(condition, element) == IF condition THEN <<element>> ELSE << >>

HasIPPS(s) == ~s.local /\ ~s.no_tls
HasIPP(s)  == s.local \/ ~s.tls_only
URIs(s)    == If(HasIPPS(s), "ipps") \o If(HasIPP(s), "ipp")

Basic(s) == IF s.auth THEN "basic" ELSE "none"
Authentication(s) ==
  IF s.local \/ s.no_tls THEN <<"none">>
  ELSE <<Basic(s)>> \o If(~s.tls_only, "none")

\* printer-xri-supported, by the URIs.
XRI(s) ==
  [u \in When(HasIPP(s), {"ipp"}) \cup When(HasIPPS(s), {"ipps"}) |->
     IF u = "ipp" THEN "none" ELSE Basic(s)]
=============================================================================
