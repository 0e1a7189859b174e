----------------------------- MODULE MCPublishing -----------------------------
(***************************************************************************)
(* Instances of publishing for TLC: a publishing execution of the task     *)
(* queue and a page job that race for one clip.                            *)
(***************************************************************************)
EXTENDS PublishingProperties

CONSTANTS task, page

OneTask == {task}
OnePage == {page}
NoTask  == {}
===============================================================================
