---------------------------- MODULE MCCacheClean ----------------------------
(***************************************************************************)
(* The instance of CacheClean for model checking: its constants are given  *)
(* in CacheClean.cfg.                                                      *)
(***************************************************************************)
EXTENDS CacheClean
=============================================================================
