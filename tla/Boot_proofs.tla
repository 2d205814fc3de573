---------------------------- MODULE Boot_proofs ----------------------------
(***************************************************************************)
(* Proofs about the boot chain, for every set of images, device names and  *)
(* header fields. The only hypothesis is ImagesAssumption of Boot.         *)
(***************************************************************************)
EXTENDS Boot, TLAPS

(* The application that the pre-loader jumped to is accepted under the name*)
(* in the EEPROM, as long as that name is not written in the application.  *)
RunsAccepted ==
  ~appRenamed /\ run \in {"appStart", "app"} =>
    ~AppLocked(img["APP"], devName)

(* The mark BOOTLOADER, in the register or already taken by the pre-loader,*)
(* was left by a loader that ran after the last application, and a window  *)
(* is only open while that loader waits for its boot delay.                *)
MarkIsLoader ==
  /\ loadSrc = "BOOTLOADER" \/ src = "BOOTLOADER" => window # "shut"
  /\ src # "NONE" => run = "preldr"
  /\ window = "open" => run = "ldr"
  /\ delayOver => run = "ldr" /\ window # "open"

Safe ==
  /\ RunsWhole
  /\ IntactImage
  /\ NeverBricked
  /\ CacheFresh
  /\ UpdateWindow

(* The inductive invariant.                                                *)
IInv == TypeOK /\ Safe /\ RunsAccepted /\ MarkIsLoader

-----------------------------------------------------------------------------
(* A check of the regions yields one Boolean per region.                   *)
LEMMA FwCheckType ==
  ASSUME NEW name
  PROVE  /\ FwCheck(name) \in [Regions -> BOOLEAN]
         /\ FwCheck(name)["LDR"] = LdrLocked(img["LDR"])
         /\ FwCheck(name)["APP"] = AppLocked(img["APP"], name)
BY DEF FwCheck, Regions, LdrLocked, AppLocked, AppUnfit, IdMismatch

(* An unread name is accepted only where no name is compared at all.       *)
LEMMA UnreadName ==
  ASSUME NEW i, ~AppLocked(i, NoName)
  PROVE  \A name : ~AppLocked(i, name)
BY ImagesAssumption DEF AppLocked, IdMismatch

LEMMA InitIInv == Init => IInv
BY ImagesAssumption DEF Init, IInv, TypeOK, Safe, RunsWhole, IntactImage,
   NeverBricked, CacheFresh, UpdateWindow, RunsAccepted, MarkIsLoader,
   AppLocked, Regions, Sources, Stages, AllLocked

(* A reset keeps the invariant, whatever becomes of the backup register.   *)
LEMMA ResetStep ==
  ASSUME IInv, Reset, loadSrc' \in {loadSrc, "NONE"},
         window' \in {"shut", "open", "given", "cut"}, window' # "open",
         window' = "shut" => window = "shut",
         UNCHANGED <<img, devName, appRenamed>>
  PROVE  IInv'
BY ImagesAssumption DEF Reset, IInv, TypeOK, Safe, RunsWhole, IntactImage,
   NeverBricked, CacheFresh, UpdateWindow, RunsAccepted, MarkIsLoader,
   Regions, Sources, Stages, AllLocked, LdrLocked, AppUnfit, AppLocked,
   ProductMismatch, IdMismatch

(* The pre-loader takes the mark out of the register before it acts on it. *)
LEMMA PreldrStartStep ==
  ASSUME IInv, PreldrStart
  PROVE  IInv'
BY DEF PreldrStart, history, IInv, TypeOK, Safe, RunsWhole, IntactImage, NeverBricked,
   CacheFresh, UpdateWindow, RunsAccepted, MarkIsLoader, Sources, Stages,
   LdrLocked, AppUnfit, AppLocked, ProductMismatch, IdMismatch

(* The pre-loader jumps to what it has just accepted, with the name in the *)
(* EEPROM or with no name at all.                                          *)
LEMMA PreldrSelectStep ==
  ASSUME IInv, NEW name \in {devName, NoName}, PreldrSelect(name)
  PROVE  IInv'
<1> USE DEF PreldrSelect, persistent, history
<1>1. /\ FwCheck(name)["LDR"] = LdrLocked(img["LDR"])
      /\ FwCheck(name)["APP"] = AppLocked(img["APP"], name)
  BY FwCheckType
<1>2. UNCHANGED <<img, devName, loadSrc, ramName, locked, stay, delayOver, window, appRenamed>>
  OBVIOUS
<1>3. /\ run' \in {"appStart", "ldrStart", "halt"}
      /\ run' = "ldrStart" => ~LdrLocked(img["LDR"])
      /\ run' = "appStart" => ~AppLocked(img["APP"], name)
      /\ run' = "appStart" => src = "BOOTLOADER" \/ LdrLocked(img["LDR"])
  BY <1>1
<1>4. ~AppLocked(img["APP"], name) => ~AppLocked(img["APP"], devName)
  BY UnreadName
<1>5. /\ LdrLocked(img["LDR"])' = LdrLocked(img["LDR"])
      /\ AppUnfit(img["APP"])' = AppUnfit(img["APP"])
      /\ AppLocked(img["APP"], devName)' = AppLocked(img["APP"], devName)
  BY <1>2 DEF LdrLocked, AppUnfit, AppLocked, ProductMismatch, IdMismatch
<1>6. AppUnfit(img["APP"]) => AppLocked(img["APP"], devName)
  BY DEF AppLocked
<1> HIDE DEF PreldrSelect
<1>7. src' = "NONE"
  BY DEF PreldrSelect
<1>8. TypeOK'
  BY <1>2, <1>3, <1>7 DEF IInv, TypeOK, Stages, Sources
<1>9. /\ window # "open" /\ ~delayOver
      /\ src = "BOOTLOADER" => window \in {"given", "cut"}
  <2>1. run = "preldr"
    BY DEF PreldrSelect
  <2> QED
    BY <2>1 DEF IInv, MarkIsLoader, TypeOK
<1>10. UpdateWindow'
  BY <1>2, <1>3, <1>5, <1>9 DEF UpdateWindow
<1>11. RunsWhole' /\ IntactImage' /\ NeverBricked' /\ CacheFresh'
  BY <1>2, <1>3, <1>4, <1>5, <1>6 DEF IInv, Safe, RunsWhole, IntactImage,
     NeverBricked, CacheFresh
<1>12. RunsAccepted' /\ MarkIsLoader'
  BY <1>2, <1>3, <1>4, <1>5, <1>7, <1>9 DEF IInv, RunsAccepted, MarkIsLoader
<1> QED
  BY <1>8, <1>10, <1>11, <1>12 DEF IInv, Safe

-----------------------------------------------------------------------------
(* The start of a firmware caches the present state of the regions.        *)
LEMMA LdrInitStep ==
  ASSUME IInv, NEW name \in {devName, NoName}, LdrInit(name)
  PROVE  IInv'
<1> USE DEF LdrInit, FirmwareInit
<1>1. UNCHANGED <<img, devName, src, stay, delayOver, appRenamed>>
  OBVIOUS
<1>2. /\ LdrLocked(img["LDR"])' = LdrLocked(img["LDR"])
      /\ AppUnfit(img["APP"])' = AppUnfit(img["APP"])
      /\ AppLocked(img["APP"], devName)' = AppLocked(img["APP"], devName)
  BY <1>1 DEF LdrLocked, AppUnfit, AppLocked, ProductMismatch, IdMismatch
<1>3. name \in Names /\ FwCheck(name) \in [Regions -> BOOLEAN]
  BY FwCheckType, ImagesAssumption DEF IInv, TypeOK
<1>4. FwCheck(name)' = FwCheck(name)
  BY <1>1 DEF FwCheck, LdrLocked, AppUnfit, AppLocked, ProductMismatch, IdMismatch
<1>5. TypeOK'
  BY <1>1, <1>3 DEF IInv, TypeOK, Stages, Sources
<1>6. CacheFresh'
  BY <1>3, <1>4 DEF CacheFresh
<1>7. RunsWhole' /\ IntactImage' /\ NeverBricked' /\ UpdateWindow'
  BY <1>1, <1>2 DEF IInv, Safe, RunsWhole, IntactImage, NeverBricked, UpdateWindow
<1>8. RunsAccepted' /\ MarkIsLoader'
  BY <1>1 DEF IInv, RunsAccepted, MarkIsLoader
<1> QED
  BY <1>5, <1>6, <1>7, <1>8 DEF IInv, Safe

LEMMA AppInitStep ==
  ASSUME IInv, NEW name \in {devName, NoName}, AppInit(name)
  PROVE  IInv'
<1> USE DEF AppInit, FirmwareInit
<1>1. UNCHANGED <<img, devName, src, stay, delayOver, appRenamed>>
  OBVIOUS
<1>2. /\ LdrLocked(img["LDR"])' = LdrLocked(img["LDR"])
      /\ AppUnfit(img["APP"])' = AppUnfit(img["APP"])
      /\ AppLocked(img["APP"], devName)' = AppLocked(img["APP"], devName)
  BY <1>1 DEF LdrLocked, AppUnfit, AppLocked, ProductMismatch, IdMismatch
<1>3. name \in Names /\ FwCheck(name) \in [Regions -> BOOLEAN]
  BY FwCheckType, ImagesAssumption DEF IInv, TypeOK
<1>4. TypeOK'
  BY <1>1, <1>3 DEF IInv, TypeOK, Stages, Sources
<1>5. Safe'
  BY <1>1, <1>2 DEF IInv, Safe, RunsWhole, IntactImage, NeverBricked,
     CacheFresh, UpdateWindow
<1>6. RunsAccepted' /\ MarkIsLoader'
  BY <1>1, <1>2 DEF IInv, RunsAccepted, MarkIsLoader
<1> QED
  BY <1>4, <1>5, <1>6 DEF IInv

-----------------------------------------------------------------------------
(* The steps of a running firmware that leave the regions, the names and   *)
(* the register alone and, where they check again, keep the loader.        *)
LEMMA ServingStep ==
  ASSUME IInv, UNCHANGED <<img, devName, loadSrc, run, src, appRenamed>>,
         Serving, ramName' \in Names, locked' \in [Regions -> BOOLEAN],
         stay' \in BOOLEAN,
         \/ UNCHANGED <<delayOver, window>>
         \/ run = "ldr" /\ delayOver' \in BOOLEAN /\ window' = "given",
         ~stay' => locked' = locked /\ ~stay
  PROVE  IInv'
<1>1. /\ LdrLocked(img["LDR"])' = LdrLocked(img["LDR"])
      /\ AppUnfit(img["APP"])' = AppUnfit(img["APP"])
      /\ AppLocked(img["APP"], devName)' = AppLocked(img["APP"], devName)
      /\ \A name : FwCheck(name)' = FwCheck(name)
  BY DEF FwCheck, LdrLocked, AppUnfit, AppLocked, ProductMismatch, IdMismatch
<1>2. TypeOK'
  BY DEF IInv, TypeOK
<1>3. CacheFresh'
  BY <1>1 DEF IInv, Safe, CacheFresh
<1>4. RunsWhole' /\ IntactImage' /\ NeverBricked' /\ UpdateWindow'
  BY <1>1 DEF IInv, Safe, RunsWhole, IntactImage, NeverBricked, UpdateWindow
<1>5. RunsAccepted' /\ MarkIsLoader'
  BY <1>1 DEF IInv, RunsAccepted, MarkIsLoader
<1> QED
  BY <1>2, <1>3, <1>4, <1>5 DEF IInv, Safe

(* A download writes the region of the firmware that is not running, and   *)
(* keeps the loader in place.                                              *)
LEMMA DownloadStep ==
  ASSUME IInv, Serving, stay' = TRUE,
         NEW c \in Images \cup {Torn}, img' = [img EXCEPT ![Target] = c],
         UNCHANGED <<devName, loadSrc, run, src, ramName, locked, delayOver, window, appRenamed>>
  PROVE  IInv'
<1>1. /\ run = "ldr" => img'["LDR"] = img["LDR"]
      /\ run = "app" => img'["APP"] = img["APP"]
      /\ img' \in [Regions -> Images \cup {Torn}]
  BY DEF IInv, TypeOK, Regions, Target
<1>2. TypeOK'
  BY <1>1 DEF IInv, TypeOK
<1>3. RunsWhole'
  BY <1>1 DEF IInv, Safe, RunsWhole, Serving, LdrLocked, AppUnfit, ProductMismatch
<1>4. IntactImage'
  BY <1>3 DEF RunsWhole, IntactImage, Serving
<1>5. RunsAccepted'
  BY <1>1 DEF IInv, RunsAccepted, Serving, AppLocked, AppUnfit, ProductMismatch, IdMismatch
<1>6. NeverBricked'
  BY <1>3, <1>5 DEF RunsWhole, RunsAccepted, NeverBricked, Serving
<1>7. CacheFresh' /\ UpdateWindow' /\ MarkIsLoader'
  BY DEF IInv, Safe, CacheFresh, UpdateWindow, MarkIsLoader, Serving
<1> QED
  BY <1>2, <1>3, <1>4, <1>5, <1>6, <1>7 DEF IInv, Safe

(* Where the device name may be written, a loader is running.              *)
LEMMA WriteDevNameStep ==
  ASSUME IInv, NEW name \in Names, WriteDevName(name)
  PROVE  IInv'
<1> USE DEF WriteDevName, ram, Serving
<1>1. /\ UNCHANGED <<img, loadSrc, run, src, ramName, locked, stay, delayOver, window>>
      /\ devName' \in Names
      /\ run = "ldr" \/ appRenamed'
      /\ appRenamed' \in BOOLEAN /\ (appRenamed => appRenamed')
      /\ run \in {"ldr", "app"}
  OBVIOUS
<1>2. /\ LdrLocked(img["LDR"])' = LdrLocked(img["LDR"])
      /\ AppUnfit(img["APP"])' = AppUnfit(img["APP"])
      /\ \A x : FwCheck(x)' = FwCheck(x)
  BY <1>1 DEF FwCheck, LdrLocked, AppUnfit, AppLocked, ProductMismatch, IdMismatch
<1> HIDE DEF WriteDevName
<1>3. TypeOK'
  BY <1>1 DEF IInv, TypeOK
<1>4. Safe'
  BY <1>1, <1>2 DEF IInv, Safe, RunsWhole, IntactImage, NeverBricked,
     CacheFresh, UpdateWindow
<1>5. RunsAccepted' /\ MarkIsLoader'
  BY <1>1 DEF IInv, RunsAccepted, MarkIsLoader
<1> QED
  BY <1>3, <1>4, <1>5 DEF IInv

-----------------------------------------------------------------------------
LEMMA NextIInv == IInv /\ [Next]_vars => IInv'
<1> SUFFICES ASSUME IInv, [Next]_vars PROVE IInv'
  OBVIOUS
<1>1. CASE PreldrStart
  BY <1>1, PreldrStartStep
<1>2. CASE \E name \in {devName, NoName} : PreldrSelect(name)
  BY <1>2, PreldrSelectStep
<1>3. CASE \E name \in {devName, NoName} : LdrInit(name)
  BY <1>3, LdrInitStep
<1>4. CASE \E name \in {devName, NoName} : AppInit(name)
  BY <1>4, AppInitStep
<1>5. CASE BootDelayElapsed
  <2>1. Serving /\ UNCHANGED <<persistent, run, src, ramName, locked, stay, appRenamed>>
    BY <1>5 DEF BootDelayElapsed, Given, Serving
  <2>2. run = "ldr" /\ delayOver' \in BOOLEAN /\ window' = "given"
    BY <1>5 DEF BootDelayElapsed, Given
  <2> QED
    BY <2>1, <2>2, ServingStep DEF persistent, history, IInv, TypeOK
<1>6. CASE AutoReset \/ WatchdogReset \/ NmtResetNode
  <2>1. Reset /\ UNCHANGED <<persistent, appRenamed>>
    BY <1>6 DEF AutoReset, WatchdogReset, NmtResetNode, CutShort, Given, history
  <2>2. /\ window' \in {"shut", "open", "given", "cut"} /\ window' # "open"
        /\ window' = "shut" => window = "shut"
    BY <1>6 DEF AutoReset, WatchdogReset, NmtResetNode, CutShort, Given, history,
       IInv, TypeOK, MarkIsLoader
  <2> QED
    BY <2>1, <2>2, ResetStep DEF persistent
<1>7. CASE PowerLoss
  <2>1. /\ window' \in {"shut", "open", "given", "cut"} /\ window' # "open"
        /\ window' = "shut" => window = "shut"
    BY <1>7 DEF PowerLoss, CutShort, IInv, TypeOK
  <2> QED
    BY <1>7, <2>1, ResetStep DEF PowerLoss, CutShort
<1>8. CASE KeepInBoot
  BY <1>8, ServingStep DEF KeepInBoot, persistent, history, IInv, TypeOK
<1>9. CASE DownloadBlock
  BY <1>9, DownloadStep DEF DownloadBlock, history, Store!Touch
<1>10. CASE \E i \in Images : DownloadLastBlock(i)
  BY <1>10, DownloadStep DEF DownloadLastBlock, history, Store!Complete
<1>11. CASE CheckSignature
  <2>1. FwCheck(ramName) \in [Regions -> BOOLEAN]
    BY FwCheckType
  <2> QED
    BY <1>11, <2>1, ServingStep DEF CheckSignature, persistent, history, IInv, TypeOK
<1>12. CASE StartProgram
  <2>1. CASE FwCheck(ramName)[Target]
    <3>1. FwCheck(ramName) \in [Regions -> BOOLEAN]
      BY FwCheckType
    <3> QED
      BY <1>12, <2>1, <3>1, ServingStep DEF StartProgram, persistent, history, IInv, TypeOK
  <2>2. CASE ~FwCheck(ramName)[Target]
    <3>1. Reset /\ UNCHANGED <<persistent, appRenamed>>
      BY <1>12, <2>2 DEF StartProgram, Given
    <3>2. /\ window' \in {"shut", "open", "given", "cut"} /\ window' # "open"
          /\ window' = "shut" => window = "shut"
      BY <1>12, <2>2 DEF StartProgram, Given, IInv, TypeOK, MarkIsLoader
    <3> QED
      BY <3>1, <3>2, ResetStep DEF persistent
  <2> QED
    BY <2>1, <2>2
<1>13. CASE \E name \in Names : WriteDevName(name)
  BY <1>13, WriteDevNameStep
<1>14. CASE ReadDevName
  BY <1>14, ServingStep DEF ReadDevName, persistent, history, IInv, TypeOK
<1>15. CASE UNCHANGED vars
  <2>1. UNCHANGED <<img, devName, loadSrc, run, src, ramName, locked, stay,
                    delayOver, window, appRenamed>>
    BY <1>15 DEF vars, persistent, history, ram
  <2>2. TypeOK' /\ RunsAccepted' /\ MarkIsLoader'
    BY <2>1 DEF IInv, TypeOK, RunsAccepted, MarkIsLoader, AppLocked, AppUnfit,
       ProductMismatch, IdMismatch
  <2>3. RunsWhole' /\ IntactImage' /\ NeverBricked' /\ UpdateWindow'
    BY <2>1 DEF IInv, Safe, RunsWhole, IntactImage, NeverBricked, UpdateWindow,
       LdrLocked, AppLocked, AppUnfit, ProductMismatch, IdMismatch
  <2>4. CacheFresh'
    BY <2>1 DEF IInv, Safe, CacheFresh, FwCheck, LdrLocked, AppLocked, AppUnfit,
       ProductMismatch, IdMismatch
  <2> QED
    BY <2>2, <2>3, <2>4 DEF IInv, Safe
<1> QED
  BY <1>1, <1>2, <1>3, <1>4, <1>5, <1>6, <1>7, <1>8, <1>9, <1>10, <1>11, <1>12,
     <1>13, <1>14, <1>15 DEF Next, Booting, EepromFails, Requests

LEMMA Invariant == Spec => []IInv
BY InitIInv, NextIInv, PTL DEF Spec

(* Whatever the images, the names and the master's requests, and wherever  *)
(* power fails: the firmware that runs is whole, one region can be run, an *)
(* update does not brick the node, the loader's cache is fresh as long as  *)
(* nobody talks to it, and the application is not reached without the      *)
(* loader's update window, unless that window was cut short.               *)
THEOREM BootSafe ==
  Spec => [](TypeOK /\ RunsWhole /\ IntactImage /\ NeverBricked
               /\ CacheFresh /\ UpdateWindow)
<1>1. IInv => TypeOK /\ RunsWhole /\ IntactImage /\ NeverBricked
               /\ CacheFresh /\ UpdateWindow
  BY DEF IInv, Safe
<1> QED
  BY <1>1, Invariant, PTL

(* What the pre-loader found fit to run stays so while it runs: a download *)
(* or an erasure never reaches the region the running firmware is in.      *)
THEOREM RunningStaysWhole == Spec => []RunsWhole
BY BootSafe, PTL

(* No application starts after another one without a loader in between     *)
(* that ran for its whole boot delay, was reset by the master, or was cut  *)
(* short by a watchdog reset or a power loss.                              *)
THEOREM WindowNotSkipped == Spec => []UpdateWindow
BY BootSafe, PTL

(* The loader resets by itself only into an application that a check of    *)
(* its present contents finds whole and of the right kind.                 *)
THEOREM NoTornAutoStart == Spec => NoStartOfTorn
<1>1. IInv /\ AutoReset => ~AppUnfit(img["APP"])
  <2> SUFFICES ASSUME IInv, AutoReset PROVE ~AppUnfit(img["APP"])
    OBVIOUS
  <2>1. run = "ldr" /\ ~stay /\ ~locked["APP"]
    BY DEF AutoReset
  <2>2. PICK name \in Names : locked = FwCheck(name)
    BY <2>1 DEF IInv, Safe, CacheFresh
  <2>3. ~AppLocked(img["APP"], name)
    BY <2>1, <2>2, FwCheckType
  <2> QED
    BY <2>3 DEF AppLocked
<1> QED
  BY <1>1, Invariant, PTL DEF NoStartOfTorn
=============================================================================
