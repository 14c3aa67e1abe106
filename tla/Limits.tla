------------------------------- MODULE Limits -------------------------------
(***************************************************************************)
(* Limits (limits.go) as a decoder uses them: after withDefaults, so none  *)
(* of them is zero.                                                        *)
(***************************************************************************)
EXTENDS Naturals

CONSTANTS
  MaxDepth,
  MaxStringBytes,
  MaxArrayElements,
  MaxMapPairs,
  MaxTotalItems

ASSUME LimitsAssumption ==
  /\ MaxDepth \in Nat \ {0}
  /\ MaxStringBytes \in Nat \ {0}
  /\ MaxArrayElements \in Nat \ {0}
  /\ MaxMapPairs \in Nat \ {0}
  /\ MaxTotalItems \in Nat \ {0}
=============================================================================
