------------------------------- MODULE MCScan --------------------------------
(* Values of the constants of Scan for TLC. *)
EXTENDS ScanProperties

CONSTANT MaxPages   \* bound: pages of a scan

(* Up to two elements on a page; those of one page differ. *)
MCPages(step) ==
    IF step = 1 THEN {<<>>, <<"a">>, <<"a", "b">>}
    ELSE {<<>>, <<"a", "b">>, <<"a", "b", "b", "a">>}

(* SCAN and SSCAN with step 1, HSCAN and ZSCAN with step 2. *)
MCScans ==
    UNION {[raw : [1..n -> MCPages(step)], step : {step}] :
              n \in 1..MaxPages, step \in {1, 2}}
=============================================================================
