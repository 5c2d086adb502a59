------------------------------ MODULE Handlers ------------------------------
(***************************************************************************)
(* What the services of the backend have in common.  A handler (an HTTP    *)
(* call, a job, a cron tick) runs one database statement at a time and     *)
(* remembers what it has read; between two statements any other handler    *)
(* may run.  A call in progress is a record whose field at names the       *)
(* statement it waits for.                                                 *)
(***************************************************************************)

CONSTANTS
  None,   \* no row, no call, no value
  Calls   \* the calls that may be in progress at the same time

Waits(c, stage) == c # None /\ c.at = stage

(* The rows of a table that maps each id to a row or None.                 *)
RowIds(table) == {i \in DOMAIN table : table[i] # None}
FreeIds(table) == DOMAIN table \ RowIds(table)

=============================================================================
