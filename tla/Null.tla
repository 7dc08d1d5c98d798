-------------------------------- MODULE Null --------------------------------
(* SQL NULL in the tables, null and undefined in TypeScript: no value.     *)
(* The components share it, for they are checked side by side.             *)

CONSTANT NULL

=============================================================================
