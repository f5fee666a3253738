-------------------------------- MODULE MCLookup -------------------------------
(* Objects of native code have no key or both. *)
EXTENDS Lookup

CONSTANTS k1, k2

NoneOrAll == {<<>>, <<k1, k2>>}
================================================================================
