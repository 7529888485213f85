----------------------------- MODULE Blocklist -----------------------------
(***************************************************************************)
(* BlocklistManager (src/src/control/blocklist.rs): the domains of the     *)
(* global list and of each category, read from files at startup, and the   *)
(* question whether a domain is on a list.                                 *)
(***************************************************************************)
EXTENDS Sequences, Integers

CONSTANTS
  Domains,  \* the domains that are asked for
  Parents,  \* Parents[d]: the names above d, one label less each time
  Lists,    \* the global list and the categories
  Files     \* Files[l]: the lines of the files of list l, each a name and
            \*   whether it is a suffix (*.name or .name)

ASSUME FilesAssumption ==
  \A l \in Lists : \A k \in DOMAIN Files[l] : Files[l][k].suffix \in BOOLEAN

\* load_file: a line that cannot be read ends the file, and what was read
\* before it stays.  A missing file is an empty one.
LoadFile(l, read) == {Files[l][k] : k \in 1 .. read}

FullyLoaded == [l \in Lists |-> LoadFile(l, Len(Files[l]))]

\* load_directory goes on to the next file after a failure.
PartlyLoaded ==
  UNION {{[FullyLoaded EXCEPT ![l] = LoadFile(l, read)] : read \in 0 .. Len(Files[l]) - 1} :
           l \in Lists}

\* is_blocked_globally, is_in_category, matches_suffix.
OnList(d, entries) ==
  \E e \in entries : e.name = d \/ (e.suffix /\ e.name \in Parents[d])
=============================================================================
