------------------------------- MODULE MCParts -------------------------------
(***************************************************************************)
(* Drivers, what jobs and documents ask for, images and names of printers, *)
(* for TLC.                                                                *)
(***************************************************************************)
EXTENDS Parts

Media(size, source_) == [size |-> size, source |-> source_]

ManyColors ==
  [media |-> {1, 3}, custom_min |-> 0, custom_max |-> 0,
   borderless |-> TRUE, bottom_top |-> 1, left_right |-> 1,
   color |-> {"auto", "color", "monochrome"}, format |-> "pcl",
   sides |-> {"one-sided", "two-sided"}, resolutions |-> <<300, 600, 1200>>,
   raster |-> {"srgb_8", "sgray_8"}, bitmap |-> FALSE, labels |-> FALSE,
   bins |-> <<"top", "side">>, face_up |-> FALSE, finishings |-> {"staple"},
   darkness |-> 0, speed |-> <<0, 0>>,
   defaults |-> [media |-> 1, source |-> 1, color |-> "auto",
                 quality |-> "normal", sides |-> "two-sided",
                 handling |-> "collated", resolution |-> 600, bin |-> 2,
                 content |-> "auto", scaling |-> "auto", orientation |-> 7,
                 darkness |-> 0, speed |-> 0],
   ready |-> <<Media(1, 1), Media(0, 2)>>]

Labels ==
  [media |-> {2, 3}, custom_min |-> 2, custom_max |-> 3,
   borderless |-> FALSE, bottom_top |-> 0, left_right |-> 1,
   color |-> {"bi-level", "monochrome"}, format |-> "none",
   sides |-> {}, resolutions |-> <<300, 600>>,
   raster |-> {"black_8"}, bitmap |-> TRUE, labels |-> TRUE,
   bins |-> << >>, face_up |-> TRUE, finishings |-> {},
   darkness |-> 3, speed |-> <<2, 4>>,
   defaults |-> [media |-> 2, source |-> 2, color |-> "bi-level",
                 quality |-> "draft", sides |-> "one-sided",
                 handling |-> "uncollated", resolution |-> 300, bin |-> 0,
                 content |-> "text", scaling |-> "none", orientation |-> 3,
                 darkness |-> 0, speed |-> 2],
   ready |-> <<Media(3, 1), Media(2, 2)>>]

\* Takes PDF as it is, and has one size of media, with margins at two sides only.
Photos ==
  [ManyColors EXCEPT !.media = {1}, !.format = "pdf", !.bottom_top = 0, !.sides = {"one-sided"},
     !.resolutions = <<600>>, !.defaults = [@ EXCEPT !.sides = "one-sided"]]

\* The name of a source that no driver has, and a size with one that it has.
SomeCols == {Media(0, 3), Media(3, 2)}

PagesAsked(first, last) == <<"pages", [first |-> first, last |-> last]>>

SomeDocAttrs == {<<"color", "bi-level">>, <<"media", 1>>}

SomeDrivers == {ManyColors, Labels, Photos}

SomeAttrs ==
  SomeDocAttrs \cup
    {<<"color", "auto">>, <<"resolution", 1200>>, <<"media", 2>>, <<"media", 3>>,
     <<"quality", "draft">>, <<"quality", "high">>, <<"quality", "best">>,
     <<"sides", "two-sided">>, <<"handling", "uncollated">>,
     <<"handling", "single">>, <<"bin", "side">>, <<"speed", 3>>,
     <<"speed", 5>>, <<"speed", 1>>, <<"darkness", 30>>, <<"scaling", "fit">>,
     <<"scaling", "shrink">>, <<"content", "ocr">>,
     <<"copies", 0>>, <<"copies", 2>>,
     PagesAsked(2, 3), PagesAsked(0, 1), PagesAsked(2, 1)}

\* PDF is turned into what two of the drivers print, images into raster.
SomeFilters == {<<"pdf", "pcl">>, <<"png", "pwg-raster">>, <<"jpeg", "pwg-raster">>,
                  <<"ps", "esc-p">>}

\* Images that are upright, on their side and more than the page.
Image(width, height_, ppi, format) ==
  [width |-> width, height |-> height_, ppi |-> ppi, format |-> format]

SomeImages == {Image(1, 3, 0, "png"), Image(3, 1, 100, "jpeg"), Image(1, 1, 0, "raw")}

\* Two names that have one path.
TwoNames == {"a b", "a_b"}
OnePath == [name \in TwoNames |-> [base |-> "a_b", numbers |-> << >>]]
=============================================================================
