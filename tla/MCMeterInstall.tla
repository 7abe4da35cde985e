--------------------------- MODULE MCMeterInstall ---------------------------
(* Four versions, two of them older than 10.5 and one that text sorts wrongly. *)
(* Nothing has 10.4.2, which a meter may run: to upgrade it, 10.4.1 comes first. *)
EXTENDS MeterInstall

v41 == <<10, 4, 1>>
v42 == <<10, 4, 2>>
v51 == <<10, 5, 1>>
v101 == <<10, 10, 1>>

MCVersion == {v41, v42, v51, v101}
Build(kind, from, to) == [kind |-> kind, from |-> from, to |-> to]
MCListing == <<Build("cold", v101, v101), Build("cold", v41, v41), Build("cold", v51, v51),
               Build("diff", v41, v51), Build("down", v41, v41), Build("down", v101, v101)>>
MCMatching == [v \in MCVersion |-> IF v = v42 THEN {v41, v51} ELSE {v}]
MCLeftover == {{}, {MCListing[1], MCListing[3], MCListing[6]}}
=============================================================================
