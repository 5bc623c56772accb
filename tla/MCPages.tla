------------------------------- MODULE MCPages -------------------------------
(* Listings of three rows, and of four materials, one to a page.            *)
EXTENDS Pages, TLC

FourMaterials == [l \in Listings |-> IF l = "materials" THEN Rows ELSE 1..3]
=============================================================================
