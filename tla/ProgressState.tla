--------------------------- MODULE ProgressState ---------------------------
(***************************************************************************)
(* What the components of MCProgress share: the subject of a behaviour, a  *)
(* value that is no value and the count or set of what was lost.           *)
(***************************************************************************)

CONSTANTS None

VARIABLES subject, lost
=============================================================================
