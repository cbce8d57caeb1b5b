---------------------------- MODULE MCDiscovery ----------------------------
(* Two addresses, one of them with the default port; the entry's life is just  *)
(* as long as two rounds need.                                                *)
EXTENDS Discovery
============================================================================
