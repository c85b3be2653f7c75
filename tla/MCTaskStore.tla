---------------------------- MODULE MCTaskStore ----------------------------
\* Small instances of the task store for TLC.
EXTENDS TaskStoreProperties, TLC

CONSTANTS i1, i2, a, b, lost

\* A form with one picture, a dependent pair of frames, and one without files.
MCForms ==
  { [key |-> "k1", kind |-> "reference", files |-> <<a>>, dep |-> None, slip |-> "none"],
    [key |-> "k2", kind |-> "frames_pair", files |-> <<a, b>>, dep |-> i1, slip |-> "none"],
    [key |-> "k1", kind |-> "first_frame", files |-> <<>>, dep |-> None, slip |-> "none"] }

Plain == [ key |-> "k1", kind |-> "reference", ref |-> <<a>>, start |-> None, end |-> None,
           mode |-> "none", dep |-> None, slip |-> "none" ]
Framed(kind, start, end) == [Plain EXCEPT !.kind = kind, !.ref = <<>>, !.start = start, !.end = end]

\* Rows for each kind, one of which finds the other's key taken; and rows with a column
\* too many, a picture that was not uploaded, an unknown mode and the slips.
MCSheets ==
  { << Framed("frames_pair", a, b), Plain >>,
    << [Framed("first_frame", a, None) EXCEPT !.mode = "ingredients"], [Plain EXCEPT !.dep = i2] >>,
    << Framed("first_frame", a, b), [Plain EXCEPT !.ref = <<lost>>], [Plain EXCEPT !.mode = "unknown"],
       [Plain EXCEPT !.slip = "value"], [Plain EXCEPT !.slip = "id"], Framed("last_frame", None, b) >> }
MCUploads == {{a, b}}

Line(i, key, dep) == [id |-> i, key |-> key, kind |-> "reference", files |-> <<a>>, dep |-> dep, slip |-> "none"]
MCFiles ==
  { <<Line(i1, "k1", None)>>, <<Line(i1, "k1", None), Line(i2, "k2", i1)>>,
    <<Line(i1, "k1", None), Line(i2, "k1", None)>>, <<[Line(i2, "k2", None) EXCEPT !.slip = "value"]>> }
=============================================================================
