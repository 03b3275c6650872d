------------------------------ MODULE MCCLines ------------------------------
(* The small texts that TLC builds lines from. *)
EXTENDS CLines

MCMeasurements == {"cpu"}
MCPairs == <<"a=1", "b=2">>
MCRaws == {<<"mem", " ", "c=3", Newline, "mem", " ", "d=4">>}

====
