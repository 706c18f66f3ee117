-------------------------------- MODULE Pointers --------------------------------
(***************************************************************************)
(* The pointers that are none, for both kinds of lists of include/list.h.  *)
(***************************************************************************)

CONSTANTS
  NULL,          \* the null pointer
  LIST_POISON1,  \* what list_del leaves in ->next, and hlist_del too
  LIST_POISON2   \* what list_del leaves in ->prev, and hlist_del in ->pprev

\* What the model of a loop gives for one that meets such a pointer, or never ends.
Astray == <<NULL>>
=============================================================================
