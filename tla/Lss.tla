--------------------------------- MODULE Lss ---------------------------------
(***************************************************************************)
(* A node as an LSS slave: the protocol (canopennode/305/CO_LSSslave.c),   *)
(* the callbacks that set the bit rate and store the configuration         *)
(* (canopendriver/lss_cb.c), and the part of the main loop (ldr/ldr.c,     *)
(* common/app_common.h) that initialises CAN with what LSS has left        *)
(* pending, at power-up and at every communication reset.                  *)
(*                                                                         *)
(* A round of the loop takes at most one frame (Receive...), then answers  *)
(* it (Process). The frames sent in answer are left out. A fastscan frame  *)
(* asks for some bits of a part of the address; here it says whether these *)
(* bits are the node's.                                                    *)
(***************************************************************************)
EXTENDS Integers, Sequences

CONSTANTS
  LastPart,     (* index of the last part of an address: 3                 *)
  Ids,          (* contents of a part                                      *)
  Address,      (* lssAddress of this node                                 *)
  Zero,         (* what memset leaves in a part                            *)
  Fosc,         (* F_OSC_CAN                                               *)
  DefaultId, DefaultRate,  (* pending_can_node_id, pending_can_baud        *)
  NodeIds,      (* node ids a master sends: bytes                          *)
  Indexes,      (* indexes of the bit timing table it sends: bytes         *)
  Delays,       (* switch delays it sends, in rounds of the loop           *)
  Torn          (* a configuration block that is not whole                 *)

Parts      == 0 .. LastPart
Unassigned == 255                         (* CO_LSS_NODE_ID_ASSIGNMENT     *)
NodeIdValid(nid) == nid \in 1 .. 127 \/ nid = Unassigned

(* can_drv_check_set_bitrate finds a prescaler and a number of quanta.     *)
Supported(rate) ==
  \E brp \in 1 .. 1023 :
    LET tqs == (Fosc \div brp) \div (rate * 1000)
    IN tqs \in 5 .. 16 /\ (Fosc \div brp) \div tqs = rate * 1000

(* CO_CANmodule_init returns without an error.                             *)
CANinitOk(rate) == rate \in 10 .. 1000 /\ Supported(rate)

BitTiming == <<1000, 800, 500, 250, 125, 0, 50, 20, 10, 0>>
TableRate(i) == BitTiming[i + 1]
BitTimingValid(i) == i # 5 /\ i \in 0 .. 9

ASSUME LssAssumption ==
  /\ LastPart \in Nat /\ Address \in [Parts -> Ids] /\ Zero \in Ids
  /\ NodeIdValid(DefaultId) /\ CANinitOk(DefaultRate)
  /\ NodeIds \subseteq Nat /\ Indexes \subseteq Nat /\ Delays \subseteq Nat

Rates  == {r \in 10 .. 1000 : Supported(r)}
Config == [id : {n \in 1 .. 255 : NodeIdValid(n)}, rate : Rates]

Commands ==
  [cs : {"node id"}, nid : NodeIds]
    \cup [cs : {"bit timing"}, selector : {0, 1}, index : Indexes]
    \cup [cs : {"activate"}, delay : Delays]
    \cup [cs : {"store", "leave", "inquire"}]

ASSUME TornAssumption == Torn \notin Config

VARIABLES
  power,          (* "reset": until CAN is initialised; "up"; "halted":    *)
                  (* main() has returned                                   *)
  lssState,       (* "waiting" or "configuration"                          *)
  lssSelect,
  fastscanPos,
  activeNodeID,   (* also g_active_can_node_id                             *)
  pendingNodeID,
  pendingBitRate,
  service,        (* service and CANdata if sendResponse is set, or <<>>   *)
  bitRate,        (* what the CAN controller runs at                       *)
  delay,          (* lss_br_set_delay_counter, in rounds                   *)
  stay,           (* g_stay_in_boot                                        *)
  stored,         (* id and rate in the configuration block, or Torn       *)
  heard           (* history: each part in the last frame that named it    *)

slave   == <<lssState, lssSelect, fastscanPos>>
pending == <<pendingNodeID, pendingBitRate>>
vars    == <<power, slave, activeNodeID, pending, service, bitRate, delay, stay, stored, heard>>

NoService == <<>>
Cleared   == [p \in Parts |-> Zero]
Loaded(s) == IF s = Torn THEN [id |-> DefaultId, rate |-> DefaultRate] ELSE s

Init ==
  /\ power = "reset"
  /\ lssState = "waiting" /\ lssSelect = Cleared /\ fastscanPos = 0
  /\ pendingNodeID = DefaultId /\ activeNodeID = DefaultId
  /\ pendingBitRate = DefaultRate /\ bitRate = DefaultRate
  /\ service = NoService /\ delay = 0 /\ stay = FALSE
  /\ stored = Torn
  /\ heard = Cleared

-----------------------------------------------------------------------------
(* The head of the loop: CO_CANinit, CO_LSSinit, CO_CANopenInit.           *)
Start ==
  /\ power = "reset"
  /\ IF CANinitOk(pendingBitRate) /\ NodeIdValid(pendingNodeID)
       THEN /\ power' = "up"
            /\ bitRate' = pendingBitRate
            /\ activeNodeID' = pendingNodeID
       ELSE /\ power' = "halted"
            /\ UNCHANGED <<bitRate, activeNodeID>>
  /\ lssState' = "waiting"
  /\ lssSelect' = Cleared
  /\ fastscanPos' = 0
  /\ service' = NoService
  /\ UNCHANGED <<pending, delay, stay, stored, heard>>

(* platform_reset, the watchdog, or power loss: the variables get their    *)
(* initial values, or those of the configuration block.                    *)
Restart ==
  /\ power' = "reset"
  /\ pendingNodeID' = Loaded(stored).id
  /\ pendingBitRate' = Loaded(stored).rate
  /\ delay' = 0
  /\ stay' = FALSE
  /\ heard' = Cleared
  /\ service' = NoService
  /\ UNCHANGED <<slave, activeNodeID, bitRate, stored>>

PowerCycle == Restart

(* The boot delay is over and nothing holds the loader.                    *)
LeaveLoader == power = "up" /\ service = NoService /\ ~stay /\ Restart

Configured == activeNodeID # Unassigned

(* NMT, which an unconfigured node does not process: reset node and reset  *)
(* communication.                                                          *)
NmtResetNode == power = "up" /\ service = NoService /\ Configured /\ Restart

NmtResetCommunication ==
  /\ power = "up" /\ service = NoService /\ Configured
  /\ power' = "reset"
  /\ UNCHANGED <<slave, activeNodeID, pending, service, bitRate, delay, stay, stored, heard>>

-----------------------------------------------------------------------------
(* CO_LSSslave_receive: what is done at once.                              *)
Receiving == power = "up" /\ service = NoService

(* An unconfigured node that has been given an id is to start again with it*)
(* Faulty variants: it is not asked to; the selection is kept.             *)
SwitchWaitingNoReset ==
  /\ Receiving
  /\ lssState' = "waiting"
  /\ lssSelect' = Cleared
  /\ UNCHANGED <<power, fastscanPos, activeNodeID, pending, service, bitRate, delay, stay, stored, heard>>

SwitchWaitingKeeps ==
  /\ Receiving
  /\ lssState' = "waiting"
  /\ UNCHANGED <<power, lssSelect, fastscanPos, activeNodeID, pending, service, bitRate, delay,
                 stay, stored, heard>>

SwitchWaiting ==
  /\ Receiving
  /\ service' = IF /\ lssState = "configuration"
                   /\ activeNodeID = Unassigned /\ pendingNodeID # Unassigned
                THEN [cs |-> "leave"] ELSE NoService
  /\ lssState' = "waiting"
  /\ lssSelect' = Cleared
  /\ UNCHANGED <<power, fastscanPos, activeNodeID, pending, bitRate, delay, stay, stored, heard>>

SwitchConfiguration ==
  /\ Receiving
  /\ lssState' = "configuration"
  /\ UNCHANGED <<power, lssSelect, fastscanPos, activeNodeID, pending, service, bitRate, delay,
                 stay, stored, heard>>

(* Selective switch: a node that waits takes down the part, and compares   *)
(* when it has the last one.                                               *)
SelectPart(p, v) ==
  /\ Receiving
  /\ heard' = [heard EXCEPT ![p] = v]
  /\ lssSelect' = IF lssState = "waiting" THEN [lssSelect EXCEPT ![p] = v] ELSE lssSelect
  /\ lssState' = IF p = LastPart /\ lssSelect' = Address THEN "configuration" ELSE lssState
  /\ UNCHANGED <<power, fastscanPos, activeNodeID, pending, service, bitRate, delay, stay, stored>>

(* bit: "confirm", "all" (the whole part is compared) or "some".           *)
(* Faulty variant: the position to go on with is not checked.              *)
FastscanValidSub(sub, next) == sub \in Parts
FastscanValid(sub, next)    == sub \in Parts /\ next \in Parts

Fastscan(bit, sub, next, match) ==
  /\ Receiving
  /\ lssState = "waiting"
  /\ pendingNodeID = Unassigned /\ activeNodeID = Unassigned
  /\ FastscanValid(sub, next)
  /\ \/ bit = "confirm" /\ fastscanPos' = 0 /\ UNCHANGED lssState
     \/ /\ bit # "confirm" /\ match
        /\ fastscanPos = sub
        /\ fastscanPos' = next
        /\ lssState' = IF bit = "all" /\ next < sub THEN "configuration" ELSE lssState
  /\ UNCHANGED <<power, lssSelect, activeNodeID, pending, service, bitRate, delay, stay, stored,
                 heard>>

(* Anything else is taken for CO_LSSslave_process in configuration only.   *)
TakeCommand(c) ==
  /\ Receiving
  /\ lssState = "configuration"
  /\ c.cs # "leave"
  /\ service' = c
  /\ UNCHANGED <<power, slave, activeNodeID, pending, bitRate, delay, stay, stored, heard>>

-----------------------------------------------------------------------------
(* CO_LSSslave_process with the callbacks, and lss_cb_poll after it.       *)
CheckBr(rate) == rate # 0 /\ Supported(rate)

AfterPoll(d, rate) ==
  /\ delay' = IF d = 0 THEN 0 ELSE d - 1
  /\ bitRate' = IF d = 1 THEN pendingBitRate ELSE rate

(* A round of the loop without an LSS service to answer.                   *)
Idle ==
  /\ power = "up" /\ service = NoService
  /\ AfterPoll(delay, bitRate)
 
  /\ UNCHANGED <<power, slave, activeNodeID, pending, service, stay, stored, heard>>

Answering(cs) ==
  /\ power = "up" /\ service # NoService
  /\ service.cs = cs
  /\ service' = NoService
  /\ UNCHANGED <<slave, activeNodeID, heard>>

ProcessLeave ==
  /\ Answering("leave")
  /\ AfterPoll(delay, bitRate)
  /\ power' = "reset"
  /\ UNCHANGED <<pending, stay, stored>>

ProcessInquire ==
  /\ Answering("inquire")
  /\ AfterPoll(delay, bitRate)
  /\ UNCHANGED <<power, pending, stay, stored>>

ProcessNodeId ==
  /\ Answering("node id")
  /\ pendingNodeID' = IF NodeIdValid(service.nid) THEN service.nid ELSE pendingNodeID
  /\ AfterPoll(delay, bitRate)
  /\ UNCHANGED <<power, pendingBitRate, stay, stored>>

(* Faulty variant: the rate is taken over before it is checked.            *)
TimingInTable == service.selector = 0 /\ BitTimingValid(service.index)

ProcessBitTimingUnchecked ==
  /\ Answering("bit timing")
  /\ stay' = (stay \/ TimingInTable)
  /\ pendingBitRate' = IF TimingInTable THEN TableRate(service.index) ELSE pendingBitRate
  /\ AfterPoll(delay, bitRate)
  /\ UNCHANGED <<power, pendingNodeID, stored>>

ProcessBitTiming ==
  /\ Answering("bit timing")
  /\ stay' = (stay \/ TimingInTable)
  /\ pendingBitRate' = IF TimingInTable /\ CheckBr(TableRate(service.index))
                       THEN TableRate(service.index) ELSE pendingBitRate
  /\ AfterPoll(delay, bitRate)
  /\ UNCHANGED <<power, pendingNodeID, stored>>

(* lss_activate_br: with a delay, set_br at once; without one, the delay   *)
(* is put into the counter.                                                *)
ProcessActivate ==
  /\ Answering("activate")
  /\ IF service.delay # 0 THEN AfterPoll(delay, pendingBitRate)
                          ELSE AfterPoll(service.delay, bitRate)
  /\ stay' = TRUE
  /\ UNCHANGED <<power, pending, stored>>

(* config_write_storage and config_validate, in outline (ConfigStore): the *)
(* block is written, is left alone, or is torn.                            *)
WriteStorage ==
  \/ stored' = [id |-> pendingNodeID, rate |-> pendingBitRate]
  \/ UNCHANGED stored
  \/ stored' = Torn

ProcessStore ==
  /\ Answering("store")
  /\ WriteStorage
  /\ stay' = TRUE
  /\ AfterPoll(delay, bitRate)
  /\ UNCHANGED <<power, pending>>

(* Objects 1010h and 1011h, which only a configured node has.              *)
StoreParameters ==
  /\ Receiving /\ Configured
  /\ WriteStorage
  /\ UNCHANGED <<power, slave, activeNodeID, pending, service, bitRate, delay, stay, heard>>

RestoreParameters ==
  /\ Receiving /\ Configured
  /\ stored # Torn
  /\ pendingNodeID' = stored.id
  /\ pendingBitRate' = stored.rate
  /\ UNCHANGED <<power, slave, activeNodeID, service, bitRate, delay, stay, stored, heard>>

-----------------------------------------------------------------------------
Receive ==
  \/ SwitchWaiting
  \/ SwitchConfiguration
  \/ \E p \in Parts, v \in Ids : SelectPart(p, v)
  \/ \E bit \in {"confirm", "some", "all"}, sub, next \in 0 .. LastPart + 1, match \in BOOLEAN :
       Fastscan(bit, sub, next, match)
  \/ \E c \in Commands : TakeCommand(c)

Process ==
  \/ Idle \/ ProcessLeave \/ ProcessInquire \/ ProcessNodeId
  \/ ProcessBitTiming \/ ProcessActivate \/ ProcessStore

Next ==
  \/ Start \/ PowerCycle \/ LeaveLoader \/ NmtResetNode \/ NmtResetCommunication
  \/ Receive \/ Process
  \/ StoreParameters \/ RestoreParameters

Spec == Init /\ [][Next]_vars

-----------------------------------------------------------------------------
(* Every variable has its type: the position of a fastscan is a part of    *)
(* the address, and what is pending, stored or set is an id and a rate     *)
(* that the code accepts. ("halted" is ruled out by AlwaysStarts.)         *)
TypeOK ==
  /\ power \in {"reset", "up", "halted"}
  /\ lssState \in {"waiting", "configuration"}
  /\ lssSelect \in [Parts -> Ids] /\ heard \in [Parts -> Ids]
  /\ fastscanPos \in Parts
  /\ [id |-> pendingNodeID, rate |-> pendingBitRate] \in Config
  /\ [id |-> activeNodeID, rate |-> bitRate] \in Config
  /\ service \in Commands \cup {NoService}
  /\ delay \in Nat
  /\ stay \in BOOLEAN
  /\ stored \in Config \cup {Torn}

(* ldr.c:115-143 return from main() if CAN cannot be initialised, and the  *)
(* node, reset by its watchdog, would do so again for ever if the reason   *)
(* is in the configuration block. Whatever LSS sets, stores, restores or   *)
(* loses, the head of the loop succeeds.                                   *)
AlwaysStarts == power # "halted"

(* CO_LSSslave.c:85-112: a selective switch is four frames, in any order   *)
(* but for the last, that every node takes down while it waits. A node     *)
(* selected by the fourth was named by the last frames of all kinds that   *)
(* it received, whatever global switches and scans came in between; but    *)
(* for a part that is zero, as the first one is, the serial number: memset *)
(* leaves that one matched.                                                *)
SelectedByAll ==
  [][\A v \in Ids : SelectPart(LastPart, v) /\ lssState # lssState' =>
       \A p \in Parts : Address[p] # Zero => heard'[p] = Address[p]]_vars

(* CO_LSSslave.c:65-76: an unconfigured node has neither SDO nor NMT, only *)
(* LSS. Once it has been given an id and has been sent back to waiting, it *)
(* is on its way to a communication reset that makes it a CANopen node.    *)
NotStranded ==
  power = "up" /\ ~Configured /\ pendingNodeID # Unassigned
    => lssState = "configuration" \/ service = [cs |-> "leave"]

=============================================================================
