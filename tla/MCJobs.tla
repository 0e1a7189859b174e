------------------------------- MODULE MCJobs -------------------------------
(***************************************************************************)
(* Instances of the jobs for TLC: a rendering, which may be cancelled while *)
(* it runs, and an upload, which may not.                                  *)
(***************************************************************************)
EXTENDS JobsProperties

CONSTANTS render, upload, again, c1, c2

All        == {render, upload, again}
Nothing    == {}
Renders    == {render}
OneUpload  == {upload}
TwoCallers == {c1, c2}

\* `again` is a second request for the same upload.
Keys == [j \in All |-> IF j = again THEN upload ELSE j]
=============================================================================
