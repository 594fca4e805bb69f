--------------------------- MODULE MCLivePropCache ---------------------------
(***************************************************************************)
(* A small instance of LivePropCache.  One instant stands for ten seconds  *)
(* of the defaults, rounded: lease 30 s, renewal 10 s, timeout 20 s.       *)
(***************************************************************************)
EXTENDS LivePropCache
=============================================================================
