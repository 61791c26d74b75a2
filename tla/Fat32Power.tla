------------------------------ MODULE Fat32Power ------------------------------
(***************************************************************************)
(* The driver of Fat32 under power failures at any moment, with a history  *)
(* variable that tells those it is built to survive from the others.       *)
(*                                                                         *)
(* write() orders its writes so that a failure between two of them loses   *)
(* the new file and nothing else.  delete() and create_fat32() do not: a   *)
(* failure inside one leaves an entry whose clusters are gone, and what    *)
(* the driver does with that disk afterwards is left open here.            *)
(***************************************************************************)
EXTENDS Fat32

VARIABLE torn  \* history: power has failed inside a delete or a format

powerVars == <<vars, torn>>

PowerInit == Init /\ torn = FALSE

PowerNext ==
  \/ Initialize /\ UNCHANGED torn
  \/ DiskWrite /\ UNCHANGED torn
  \/ CarefulCalls /\ UNCHANGED torn
  \/ PowerFailure /\ torn' = (torn \/ mode \in {"delete", "format"})

PowerSpec == PowerInit /\ [][PowerNext]_powerVars

-----------------------------------------------------------------------------
(* Properties.                                                             *)

\* Before the first failure inside a delete or a format, no write of any
\* call, and no failure inside a write(), takes away the boot sector's
\* signature, by which initialize_filesystem_fat32 knows a disk that it must
\* not format again.
SignatureKept == [][signature /\ ~torn => signature']_powerVars
=============================================================================
