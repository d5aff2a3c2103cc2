--------------------------- MODULE MCConformanceRun ---------------------------
(* No fault, and every fault alone, over lists of up to four objects. *)
EXTENDS ConformanceRun

MCFaulty == {{}} \cup {{fault} : fault \in DOMAIN NameOf}

MCOffered == {{}, {"tokens"}, {"locations", "cdrs"}}

Objects(stamps) == [i \in DOMAIN stamps |-> [id |-> i, stamp |-> stamps[i]]]
MCLists == {Objects(s) : s \in {<<>>, <<1>>, <<1, 1>>, <<2, 1, 3>>, <<1, 2, 2, 1>>}}
=============================================================================
