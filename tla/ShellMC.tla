------------------------------ MODULE ShellMC ------------------------------
(***************************************************************************)
(* A small instance of Shell.  The inserter has put the shell and a        *)
(* program of two clusters, whose name the user also gives to folders once *)
(* it is out of the way.  Then there is room for three things.             *)
(***************************************************************************)
EXTENDS Shell

ThreeNames == {"clock", "t.txt", "shell"}
TwoTyped   == {"clock", "t.txt"}
OneText    == {"t.txt"}
Letter     == { << <<"x">> >> }

ShellAndClock == <<"shell", "clock">>
ThreeToFive   == <<3, 4, 6>>

CleanStack == {BlankTable}

Unrelated == {}

NotInDelete == {"idle", "write", "raw"}
Never       == {}
=============================================================================
