----------------------------- MODULE MCExecLoop -----------------------------
(***************************************************************************)
(* Small instance of ExecLoop: three guest addresses, two of them in the   *)
(* same hash entry, an area that holds two or three blocks, so that it     *)
(* fills up while chains of patched jumps exist.                           *)
(***************************************************************************)
EXTENDS ExecLoop

MCPcs == {4, 8, 12}
MCExitSets == {E \in SUBSET MCPcs : \E p, q \in MCPcs : E = {p, q}}
MCFewExitSets == {{4}, {4, 8}, {8, 12}}
=============================================================================
