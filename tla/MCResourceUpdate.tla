-------------------------- MODULE MCResourceUpdate --------------------------
(* Two files, two edits and two days: two releases on one day or on two, with
   the launcher running before, between and across them.  The files are
   interchangeable, but no symmetry is used, as a run checks liveness too. *)
EXTENDS ResourceUpdate
=============================================================================
