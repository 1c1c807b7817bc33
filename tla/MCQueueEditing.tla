--------------------------- MODULE MCQueueEditing ---------------------------
(* Instance of QueueEditing: five items in all, a window of three, so that   *)
(* appends overflow it both with the current item before and behind the cut. *)
EXTENDS QueueEditing
=============================================================================
