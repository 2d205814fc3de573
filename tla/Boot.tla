-------------------------------- MODULE Boot --------------------------------
(***************************************************************************)
(* The life of a node across resets: the pre-loader (preldr/preldr.c), the *)
(* loader (ldr/ldr.c) and the application (common/app_common.h), which     *)
(* hand over through a backup register and two firmware regions in flash.  *)
(* The loader updates the application's region and the application the     *)
(* loader's, over the program-control and program-data objects             *)
(* (common/flasher/flasher_sdo.c). A region is accepted by                 *)
(* fw_header_check_all, which also compares the application's prod_id with *)
(* the device name in the EEPROM.                                          *)
(*                                                                         *)
(* The regions change through ImageStore: the half-words of a download are *)
(* modelled in Flasher. Power may fail and the EEPROM may not answer at    *)
(* any time.                                                               *)
(***************************************************************************)
EXTENDS Naturals

CONSTANTS
  Images,         (* whole firmware images a master may download           *)
  Torn,           (* content of a region that fails fw_header_check_region *)
  Prod,           (* Prod[i]: field "prod" of image i                      *)
  ProdName,       (* ProdName[i]: field "prod_name"                        *)
  ProdId,         (* ProdId[i]: field "prod_id"                            *)
  Names,          (* contents the device name in the EEPROM can have       *)
  ErasedName,     (* the name of a factory-new EEPROM: all bytes 0xFF      *)
  NoName,         (* all bytes 0: what RAM holds when the read failed      *)
  PreldrProd,     (* field "prod" of the pre-loader                        *)
  PreldrLocked    (* the pre-loader itself carries no valid header         *)

Regions == {"LDR", "APP"}

ASSUME ImagesAssumption ==
  /\ Torn \notin Images
  /\ ErasedName \in Names /\ NoName \in Names /\ NoName # ErasedName
  /\ PreldrLocked \in BOOLEAN

VARIABLES
  img,        (* firmware regions in flash                                 *)
  devName,    (* device name in the EEPROM                                 *)
  loadSrc,    (* BKP->DR1, survives a reset and, with a battery, power loss*)
  run,        (* who executes, and how far its start has come              *)
  src,        (* preldr: the load source it found                          *)
  ramName,    (* g_str_dev_name                                            *)
  locked,     (* g_fw_info[r].locked of the running firmware               *)
  stay,       (* g_stay_in_boot                                            *)
  delayOver,  (* ldr: boot_delay has come down to 0                        *)
  window,     (* history: the loader's update window since the last        *)
              (* application: not opened, open, given, or cut short        *)
  appRenamed  (* history: an application has written the device name       *)

persistent == <<img, devName, loadSrc>>
ram        == <<src, ramName, locked, stay, delayOver>>
history    == <<window, appRenamed>>
vars       == <<persistent, run, ram, history>>

Store == INSTANCE ImageStore

Stages == {"reset", "preldr", "ldrStart", "ldr", "appStart", "app", "halt"}
Sources == {"NONE", "BOOTLOADER", "APP"}
AllLocked == [r \in Regions |-> TRUE]

-----------------------------------------------------------------------------
(* fw_header_check_all. The product checks are made only if the pre-loader *)
(* has a valid header; an erased EEPROM matches every application.         *)
ProductMismatch(i) == ~PreldrLocked /\ Prod[i] # PreldrProd
IdMismatch(i, name) ==
  /\ ~PreldrLocked
  /\ ProdId[i] # name \/ name = NoName
  /\ name # ErasedName

LdrLocked(i) ==
  \/ i = Torn
  \/ ProductMismatch(i)
  \/ ProdName[i] # "sh_nd_ldr"

(* Everything but the device name: what the image itself decides.          *)
AppUnfit(i) ==
  \/ i = Torn
  \/ ProductMismatch(i)
  \/ ProdName[i] # "sh_nd_app"

AppLocked(i, name) == AppUnfit(i) \/ IdMismatch(i, name)

FwCheck(name) ==
  [r \in Regions |-> IF r = "LDR" THEN LdrLocked(img[r]) ELSE AppLocked(img[r], name)]

(* Faulty variant: a firmware updates itself.                              *)
TargetSelf == IF run = "ldr" THEN "LDR" ELSE "APP"

(* FW_TARGET: the region a running firmware updates.                       *)
Target == IF run = "ldr" THEN "APP" ELSE "LDR"

Init ==
  /\ img \in [Regions -> Images \cup {Torn}]
  /\ devName \in Names
  /\ ~LdrLocked(img["LDR"]) \/ ~AppLocked(img["APP"], devName)
  /\ loadSrc = "NONE"
  /\ run = "reset"
  /\ src = "NONE" /\ ramName = NoName /\ locked = AllLocked
  /\ stay = FALSE /\ delayOver = FALSE
  /\ window = "shut" /\ appRenamed = FALSE

-----------------------------------------------------------------------------
(* A reset clears the RAM and starts the pre-loader.                       *)
Reset ==
  /\ run' = "reset"
  /\ src' = "NONE" /\ ramName' = NoName /\ locked' = AllLocked
  /\ stay' = FALSE /\ delayOver' = FALSE

(* History: a reset nobody asked for ends an open update window early.     *)
CutShort ==
  /\ window' = IF window = "open" THEN "cut" ELSE window
  /\ UNCHANGED appRenamed

(* History: the boot delay has run out, or the master has told the firmware*)
(* to reset, which it can only do where it is addressed.                   *)
Given ==
  /\ window' = IF run = "ldr" THEN "given" ELSE window
  /\ UNCHANGED appRenamed

(* Power fails; the backup register survives only with a battery.          *)
PowerLoss ==
  /\ Reset
  /\ loadSrc' \in {loadSrc, "NONE"}
  /\ CutShort
  /\ UNCHANGED <<img, devName>>

(* The watchdog bites: main() returned after a failed init, or hung.       *)
WatchdogReset ==
  /\ run \in {"ldr", "app"}
  /\ Reset
  /\ CutShort
  /\ UNCHANGED persistent

(* preldr takes the load source and clears it before it does anything else.*)
PreldrStart ==
  /\ run = "reset"
  /\ run' = "preldr"
  /\ src' = loadSrc
  /\ loadSrc' = "NONE"
  /\ UNCHANGED <<img, devName, ramName, locked, stay, delayOver, history>>

(* Faulty variants: the mark of the loader overrides the check of the      *)
(* application; the mark is not looked at.                                 *)
PreldrSelectForced(name) ==
  /\ run = "preldr"
  /\ LET lock == FwCheck(name) IN
       run' = IF src = "BOOTLOADER" THEN "appStart"
              ELSE IF ~lock["LDR"] THEN "ldrStart"
              ELSE IF ~lock["APP"] THEN "appStart"
              ELSE "halt"
  /\ src' = "NONE"
  /\ UNCHANGED <<persistent, ramName, locked, stay, delayOver, history>>

PreldrSelectNoMark(name) ==
  /\ run = "preldr"
  /\ LET lock == FwCheck(name) IN
       run' = IF ~lock["LDR"] THEN "ldrStart"
              ELSE IF ~lock["APP"] THEN "appStart"
              ELSE "halt"
  /\ src' = "NONE"
  /\ UNCHANGED <<persistent, ramName, locked, stay, delayOver, history>>

(* preldr reads the name (name = NoName: the EEPROM did not answer), checks*)
(* the regions and jumps; with nothing to jump to it loops for ever.       *)
PreldrSelect(name) ==
  /\ run = "preldr"
  /\ LET lock == FwCheck(name) IN
       run' = IF src = "BOOTLOADER" /\ ~lock["APP"] THEN "appStart"
              ELSE IF ~lock["LDR"] THEN "ldrStart"
              ELSE IF ~lock["APP"] THEN "appStart"
              ELSE "halt"
  /\ src' = "NONE"
  /\ UNCHANGED <<persistent, ramName, locked, stay, delayOver, history>>

(* Start of the loader or the application: read the name, check the        *)
(* regions, leave the mark for the pre-loader.                             *)
FirmwareInit(name, mark) ==
  /\ ramName' = name
  /\ locked' = FwCheck(name)
  /\ loadSrc' = mark
  /\ UNCHANGED <<img, devName, src, stay, delayOver, appRenamed>>

(* Faulty variant: the application leaves the mark of the loader.          *)
AppInitLdrMark(name) ==
  /\ run = "appStart" /\ run' = "app"
  /\ FirmwareInit(name, "BOOTLOADER")
  /\ window' = "shut"

LdrInit(name) ==
  /\ run = "ldrStart" /\ run' = "ldr"
  /\ FirmwareInit(name, "BOOTLOADER")
  /\ window' = "open"

AppInit(name) ==
  /\ run = "appStart" /\ run' = "app"
  /\ FirmwareInit(name, "APP")
  /\ window' = "shut"

(* ldr main loop: the boot delay runs down, then the loader resets into the*)
(* application unless somebody talked to it or there is none.              *)
BootDelayElapsed ==
  /\ run = "ldr" /\ ~delayOver
  /\ delayOver' = TRUE
  /\ Given
  /\ UNCHANGED <<persistent, run, src, ramName, locked, stay>>

(* Faulty variant: g_stay_in_boot is not looked at.                        *)
AutoResetAnyway ==
  /\ run = "ldr" /\ delayOver /\ ~locked["APP"]
  /\ Reset
  /\ UNCHANGED <<persistent, history>>

AutoReset ==
  /\ run = "ldr" /\ delayOver /\ ~stay /\ ~locked["APP"]
  /\ Reset
  /\ UNCHANGED <<persistent, history>>

-----------------------------------------------------------------------------
(* Requests of the CANopen master to a running firmware.                   *)
Serving == run \in {"ldr", "app"}

(* flash_data_wr_cb: every access keeps the loader in place, also one that *)
(* is rejected or only asks for a read-out, and so do the commands STOP,   *)
(* RESET_STAT and CLEAR, and every LSS callback.                           *)
KeepInBoot ==
  /\ Serving
  /\ stay' = TRUE
  /\ UNCHANGED <<persistent, run, src, ramName, locked, delayOver, history>>

(* A block was programmed and the image is incomplete, or now complete.    *)
DownloadBlock ==
  /\ Serving
  /\ stay' = TRUE
  /\ Store!Touch(Target)
  /\ UNCHANGED <<devName, loadSrc, run, src, ramName, locked, delayOver, history>>

DownloadLastBlock(i) ==
  /\ Serving
  /\ stay' = TRUE
  /\ Store!Complete(Target, i)
  /\ UNCHANGED <<devName, loadSrc, run, src, ramName, locked, delayOver, history>>

(* flash_cmd_cb, CHECK_SIGNATURE: check again, with the name held in RAM.  *)
CheckSignature ==
  /\ Serving
  /\ stay' = TRUE
  /\ locked' = FwCheck(ramName)
  /\ UNCHANGED <<persistent, run, src, ramName, delayOver, history>>

(* flash_cmd_cb, START and START_BOOTLOADER: a reset if the target is      *)
(* accepted, status NOVALPROG otherwise.                                   *)
StartProgram ==
  /\ Serving
  /\ IF FwCheck(ramName)[Target]
     THEN /\ stay' = TRUE
          /\ locked' = FwCheck(ramName)
          /\ UNCHANGED <<run, src, ramName, delayOver, history>>
     ELSE Reset /\ Given
  /\ UNCHANGED persistent

(* NMT reset node: the main loop leaves through PLATFORM_RESET.            *)
NmtResetNode ==
  /\ Serving
  /\ Reset
  /\ Given
  /\ UNCHANGED persistent

(* fw_hdr_eep_wr: object 0x1F58 goes to the EEPROM and nowhere else.       *)
WriteDevName(name) ==
  /\ Serving
  /\ devName' = name
  /\ appRenamed' = (appRenamed \/ run = "app")
  /\ UNCHANGED <<img, loadSrc, run, ram, window>>

(* fw_hdr_eep_rd: reading the object refreshes the name in RAM.            *)
ReadDevName ==
  /\ Serving
  /\ ramName' = devName
  /\ UNCHANGED <<persistent, run, src, locked, stay, delayOver, history>>

Requests ==
  \/ KeepInBoot
  \/ DownloadBlock
  \/ \E i \in Images : DownloadLastBlock(i)
  \/ CheckSignature
  \/ StartProgram
  \/ NmtResetNode
  \/ \E name \in Names : WriteDevName(name)
  \/ ReadDevName

EepromFails ==
  PreldrSelect(NoName) \/ LdrInit(NoName) \/ AppInit(NoName)

(* What the node does by itself when the EEPROM answers.                   *)
Booting ==
  \/ PreldrStart
  \/ PreldrSelect(devName)
  \/ LdrInit(devName)
  \/ AppInit(devName)
  \/ BootDelayElapsed
  \/ AutoReset

Next == Booting \/ EepromFails \/ PowerLoss \/ WatchdogReset \/ Requests

Spec == Init /\ [][Next]_vars

(* The processor runs: booting goes on unless something else happens.      *)
FairSpec == Spec /\ WF_vars(Booting)

-----------------------------------------------------------------------------
(* The types of the variables.                                             *)
TypeOK ==
  /\ img \in [Regions -> Images \cup {Torn}]
  /\ devName \in Names
  /\ loadSrc \in Sources
  /\ run \in Stages
  /\ src \in Sources
  /\ ramName \in Names
  /\ locked \in [Regions -> BOOLEAN]
  /\ stay \in BOOLEAN
  /\ delayOver \in BOOLEAN
  /\ window \in {"shut", "open", "given", "cut"}
  /\ appRenamed \in BOOLEAN

(* A firmware never rewrites the region it runs from: what was fit to run  *)
(* when the pre-loader jumped to it is still whole.                        *)
RunsWhole ==
  /\ run \in {"ldrStart", "ldr"} => ~LdrLocked(img["LDR"])
  /\ run \in {"appStart", "app"} => ~AppUnfit(img["APP"])

(* Whatever the master uploads and wherever power fails, one region holds  *)
(* a firmware that is fit to run, so at worst the device name in the EEPROM*)
(* keeps the pre-loader from starting it.                                  *)
IntactImage == ~LdrLocked(img["LDR"]) \/ ~AppUnfit(img["APP"])

(* As long as the device name is only written to loaders, the pre-loader   *)
(* always finds something to start, in the middle of an update too: it     *)
(* cannot brick the node ("everything-is-bad variant" of                   *)
(* boot_and_update_logic.md is always recoverable).                        *)
NeverBricked ==
  appRenamed \/ ~LdrLocked(img["LDR"]) \/ ~AppLocked(img["APP"], devName)

(* Until somebody talks to the loader, what it has cached about the regions*)
(* is what a check of their present contents gives, with some device name: *)
(* the name in RAM may have been read again since, the contents have not   *)
(* changed.                                                                *)
CacheFresh == run = "ldr" /\ ~stay => \E name \in Names : locked = FwCheck(name)

(* The loader never resets by itself into an application that is being     *)
(* downloaded or was left half-written.                                    *)
NoStartOfTorn == [][AutoReset => ~AppUnfit(img["APP"])]_vars

(* Between two starts of the application the loader has run, and run for   *)
(* the whole boot delay or until the master reset it, unless there is no   *)
(* loader to run: the mark in the backup register cannot make the          *)
(* pre-loader skip the loader twice, and the loader does not leave early.  *)
(* Only a watchdog reset or a power loss (with a battery) inside the delay *)
(* cuts the window short: the mark stays, the application starts, and the  *)
(* window it then lacks comes with its next reset.                         *)
UpdateWindow == run = "appStart" => window \in {"given", "cut"} \/ LdrLocked(img["LDR"])

Settled ==
  \/ run = "app"
  \/ run = "ldr" /\ (stay \/ locked["APP"])
  \/ run = "halt" /\ LdrLocked(img["LDR"])

(* No boot loop: once nobody disturbs the node, it ends in the application,*)
(* or in a loader that was addressed or has no application, or halts for   *)
(* want of a loader.                                                       *)
Settles == <>[][Booting]_vars => <>[]Settled
=============================================================================
