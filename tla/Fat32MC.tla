------------------------------ MODULE Fat32MC ------------------------------
(***************************************************************************)
(* Small instances of Fat32: three clusters for files and folders, and     *)
(* tables that hold one entry per name, so that no table is ever full.     *)
(***************************************************************************)
EXTENDS Fat32

\* The memory that newDir occupies has never been written.
CleanStack == {BlankTable}

TwoNames   == {"a", "b"}
TwoLengths == {1, 2}

\* Power fails between calls or inside a write.
BetweenOrInWrite == {"idle", "write"}

\* Power fails only inside a delete; a hung machine is switched off too.
InDelete == {"delete", "hung"}

Never == {}
=============================================================================
