----------------------------- MODULE MCUmSession -----------------------------
(* A guest answers an init with {"OK":true} or an error, a run with anything; *)
(* either reply may be one that Receive cannot read.                          *)
EXTENDS UmSessionInv
MCResults ==
    [q \in Request |->
        IF q = "init"
        THEN {r \in Reply : r.body = "none" \/ (r.http = "200 OK" <=> r.body = "ok")}
        ELSE Reply]
==============================================================================
