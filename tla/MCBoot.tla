------------------------------- MODULE MCBoot -------------------------------
(***************************************************************************)
(* An instance of Boot for TLC: applications of the node's product for two *)
(* device names and one of another product, a loader of the product and    *)
(* one of another; every image may be uploaded to either region.           *)
(***************************************************************************)
EXTENDS Boot

CONSTANTS app1, app2, alienApp, ldr, alienLdr, n1, n2, xff, zero, own, other

MCImages   == {app1, app2, alienApp, ldr, alienLdr}
MCProd     == [i \in MCImages |-> IF i \in {alienApp, alienLdr} THEN other ELSE own]
MCProdName == [i \in MCImages |->
                 IF i \in {ldr, alienLdr} THEN "sh_nd_ldr" ELSE "sh_nd_app"]
MCProdId   == [i \in MCImages |-> IF i = app2 THEN n2 ELSE n1]
MCNames    == {n1, n2, xff, zero}
=============================================================================
