-------------------------------- MODULE Rows --------------------------------
(***************************************************************************)
(* Sets of rows as functions from keys to values.                           *)
(* (f @@ g and d :> e of TLC, as definitions that can be expanded.)         *)
(***************************************************************************)

\* One row.
Row(key, value) == [k \in {key} |-> value]

\* The rows of new, and those of old that new does not have.
Over(new, old) ==
  [key \in DOMAIN new \cup DOMAIN old |-> IF key \in DOMAIN new THEN new[key] ELSE old[key]]
=============================================================================
