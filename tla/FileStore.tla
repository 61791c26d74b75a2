------------------------------ MODULE FileStore ------------------------------
(***************************************************************************)
(* What a file system promises to its callers: a dictionary from a place   *)
(* in a directory to a whole file or directory.  Things appear whole and   *)
(* one at a time, disappear one at a time, and nothing else changes them;  *)
(* in particular a power failure does not.                                 *)
(***************************************************************************)
CONSTANTS
  Places,    \* pairs of a directory and a name
  Contents   \* what a place may hold

VARIABLE files   \* a function from the occupied places to their contents

Init == DOMAIN files = {}

\* One more place is occupied, and what was there stays as it was.
Extends(larger, smaller) ==
  /\ \E p \in DOMAIN larger \ DOMAIN smaller : DOMAIN larger = DOMAIN smaller \cup {p}
  /\ \A p \in DOMAIN smaller : larger[p] = smaller[p]

Put    == Extends(files', files) /\ \A p \in DOMAIN files' : p \in Places /\ files'[p] \in Contents
Remove == Extends(files, files')

Next == Put \/ Remove

Spec == Init /\ [][Next]_files
=============================================================================
