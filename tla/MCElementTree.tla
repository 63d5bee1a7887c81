---------------------------- MODULE MCElementTree ----------------------------
(***************************************************************************)
(* Schemas and queries for the runs of ElementTree: small elements with    *)
(* one field, large and wide ones with two, the second of the same name.   *)
(***************************************************************************)
EXTENDS ElementTree

CONSTANTS small, large, wide, f, g, v1, v2

MCFields == [s \in Schemas |-> IF s = small THEN <<f>> ELSE <<g, f>>]
MCSize == [s \in Schemas |-> IF s = large THEN 2 ELSE 1]

MCUpdates == [schema : Schemas, if : {f, g}, is : Values, set : {f}, to : Values]
NoUpdates == {}
=============================================================================
