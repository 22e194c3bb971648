------------------------- MODULE MCReportPipeline -------------------------
(* Small instances of ReportPipeline for TLC.                              *)
EXTENDS ReportPipeline

CONSTANTS witness, cop

(* An explosion, seen, with a perpetrator known by address; property
   damage, heard.                                                          *)
MCPercepts ==
    {[kind |-> "Explosion", saw |-> TRUE, perp |-> "address"],
     [kind |-> "VehiclePropertyDamage", saw |-> FALSE, perp |-> "none"]}

MCHits == {{"Explosion"}}
=============================================================================
