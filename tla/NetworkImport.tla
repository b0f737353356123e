---------------------------- MODULE NetworkImport ----------------------------
(***************************************************************************)
(* What the OSM ingestion promises about the road-network tables: they      *)
(* change by whole extracts only, each written over the rows before it.     *)
(* rows maps the keys of the existing rows to their values, and an image is *)
(* the same for the rows of one extract.                                    *)
(***************************************************************************)
EXTENDS Rows

CONSTANT Images  \* one function from keys to values per extract

VARIABLE rows

Init == rows = <<>>

\* Every row of the extract appears at once; all other rows stay as they are.
Import(image) == rows' = Over(image, rows)

Next == \E image \in Images : Import(image)

Spec == Init /\ [][Next]_rows
=============================================================================
