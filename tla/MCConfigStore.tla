--------------------------- MODULE MCConfigStore ----------------------------
(***************************************************************************)
(* An instance of ConfigStore for TLC. Loader and application share "id"   *)
(* in one size and "mode" in two; each has an entry of its own. All four   *)
(* entries fit if the loader saves (44 bytes) but not if the application   *)
(* does (48 bytes), whose own table fits (40 bytes).                       *)
(***************************************************************************)
EXTENDS ConfigStore

MCFirmwares == {"LDR", "APP"}
MCKeys      == {"id", "mode", "baud", "hb"}
MCNative    == [f \in MCFirmwares |->
                  IF f = "LDR" THEN {"id", "mode", "baud"} ELSE {"id", "mode", "hb"}]
MCSize      == [f \in MCFirmwares |->
                  [k \in MCKeys |-> IF f = "APP" /\ k = "mode" THEN 6 ELSE 2]]
MCDefault   == [f \in MCFirmwares |-> [k \in MCKeys |-> 0]]
MCKeyLength == [k \in MCKeys |-> 4]
=============================================================================
