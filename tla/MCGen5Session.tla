--------------------------- MODULE MCGen5Session ---------------------------
(* A session with two builds and an upgrade between them.                      *)
EXTENDS Gen5Session

v41 == <<10, 4, 1>>
v51 == <<10, 5, 1>>

MCVersion == {v41, v51}
Build(kind, from, to) == [kind |-> kind, from |-> from, to |-> to]
MCListing == <<Build("cold", v41, v41), Build("cold", v51, v51), Build("diff", v41, v51)>>
MCMatching == [v \in MCVersion |-> {v}]
MCLeftover == {{}}
=============================================================================
