------------------------------ MODULE MCAudience ------------------------------
(* Three leads, the second of no country, and a filter by country.            *)
EXTENDS SegmentAudience, TLC

CONSTANTS x, y, z

MCLeads      == <<x, y, z>>
MCCountry    == (x :> 1) @@ (y :> Null) @@ (z :> 1)
MCZone       == (x :> 2) @@ (y :> 1) @@ (z :> 1)
MCConditions == {[field |-> "country", op |-> "neq", value |-> {1}]}
MCFilters    == {}
=============================================================================
