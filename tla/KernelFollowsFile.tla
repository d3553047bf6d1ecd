------------------------- MODULE KernelFollowsFile -------------------------
(***************************************************************************)
(* What Store promises of its list: a file anyone may have begun, and a    *)
(* table of the kernel that follows it.  The file takes in whole requests  *)
(* of usable lines and loses the one line a request names.  The table is   *)
(* emptied under it at any time; apart from that it loses nothing that is  *)
(* listed, and takes in only what is, at that moment, usable and listed.   *)
(* How soon the table follows is not said here.                            *)
(***************************************************************************)
CONSTANTS
  Line,   \* lines the file may have
  Usable  \* those the kernel takes

VARIABLES
  file,   \* the lines of the file
  kernel  \* the entries of the table

vars == <<file, kernel>>

Init == file \subseteq Line /\ kernel = {}

Extend ==
  /\ \E given \in SUBSET Usable : file' = file \cup given
  /\ UNCHANGED kernel

Strike ==
  /\ \E line \in file \cap Usable : file' = file \ {line}
  /\ UNCHANGED kernel

Load ==
  /\ \E line \in file \cap Usable : kernel' = kernel \cup {line}
  /\ UNCHANGED file

Unload ==
  /\ \E line \in kernel \ file : kernel' = kernel \ {line}
  /\ UNCHANGED file

Wipe == kernel' = {} /\ UNCHANGED file

Next == Extend \/ Strike \/ Load \/ Unload \/ Wipe

Spec == Init /\ [][Next]_vars
=============================================================================
