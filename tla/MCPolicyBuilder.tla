--------------------------- MODULE MCPolicyBuilder ---------------------------
(***************************************************************************)
(* Three base policies and three chains.  Their claims overlap, each       *)
(* rejects some chain, and no two accept the same chains.                  *)
(***************************************************************************)
EXTENDS PolicyBuilder

MCBaseClaims(b) ==
  IF b = "rfc5280" THEN {"basicConstraints", "keyUsage"}
  ELSE IF b = "eku" THEN {"keyUsage", "extKeyUsage"}
  ELSE {}

MCBaseAccepts(b, c) ==
  IF b = "rfc5280" THEN c \in {"plain", "server"}
  ELSE IF b = "eku" THEN c \in {"server", "expired"}
  ELSE c \in {"plain", "expired"}
=============================================================================
