----------------------------- MODULE Lss_proofs ------------------------------
(***************************************************************************)
(* Proofs about Lss, for any address, bit timing oscillator and inputs.    *)
(***************************************************************************)
EXTENDS Lss, TLAPS

(* A command that is being answered was taken in configuration state.      *)
TakenInConfiguration ==
  power = "up" /\ service # NoService /\ service.cs # "leave" => lssState = "configuration"

IInv == TypeOK /\ AlwaysStarts /\ NotStranded /\ TakenInConfiguration

LEMMA TableRates ==
  ASSUME NEW i \in 0 .. 9, i # 5, i # 9
  PROVE  TableRate(i) \in 10 .. 1000
  <1>1. i \in {0, 1, 2, 3, 4, 6, 7, 8}
    OBVIOUS
  <1> QED BY <1>1 DEF TableRate, BitTiming

LEMMA TableZero == TableRate(9) = 0
  BY DEF TableRate, BitTiming

(* The callback refuses exactly what the head of the loop would.           *)
LEMMA CheckedRates ==
  ASSUME NEW i, BitTimingValid(i), CheckBr(TableRate(i))
  PROVE  TableRate(i) \in Rates
  <1>1. i # 9
    BY TableZero DEF CheckBr
  <1> QED BY <1>1, TableRates DEF BitTimingValid, CheckBr, Rates

LEMMA PendingTypes == TypeOK => /\ NodeIdValid(pendingNodeID) /\ pendingNodeID \in 1 .. 255
                                /\ pendingBitRate \in Rates
  BY DEF TypeOK, Config

LEMMA RatesStart == \A r \in Rates : CANinitOk(r)
  BY DEF Rates, CANinitOk

LEMMA InitInv == Init => IInv
  <1> SUFFICES ASSUME Init PROVE IInv
    OBVIOUS
  <1>1. Cleared \in [Parts -> Ids]
    BY LssAssumption DEF Cleared
  <1>2. [id |-> DefaultId, rate |-> DefaultRate] \in Config
    BY LssAssumption DEF Config, Rates, CANinitOk, NodeIdValid, Unassigned
  <1>3. 0 \in Parts
    BY LssAssumption DEF Parts
  <1>4. TypeOK
    BY <1>1, <1>2, <1>3 DEF Init, TypeOK
  <1> QED BY <1>4 DEF Init, IInv, AlwaysStarts, NotStranded, TakenInConfiguration, NoService
LEMMA ConfigRecord ==
  ASSUME NEW n, NEW r
  PROVE  [id |-> n, rate |-> r] \in Config <=> n \in 1 .. 255 /\ NodeIdValid(n) /\ r \in Rates
  BY DEF Config

LEMMA LoadedTypes == TypeOK => Loaded(stored) \in Config
  <1>1. [id |-> DefaultId, rate |-> DefaultRate] \in Config
    BY LssAssumption DEF Config, Rates, CANinitOk, NodeIdValid, Unassigned
  <1> QED BY <1>1 DEF TypeOK, Loaded

LEMMA ZeroPart == 0 \in Parts /\ Cleared \in [Parts -> Ids]
  BY LssAssumption DEF Cleared, Parts

LEMMA StartStep == IInv /\ Start => IInv'
  <1> SUFFICES ASSUME IInv, Start PROVE IInv'
    OBVIOUS
  <1>1. TypeOK
    BY DEF IInv
  <1>2. CANinitOk(pendingBitRate) /\ NodeIdValid(pendingNodeID)
    BY <1>1, PendingTypes, RatesStart
  <1>3. power' = "up" /\ bitRate' = pendingBitRate /\ activeNodeID' = pendingNodeID
    BY <1>2 DEF Start
  <1>4. TypeOK'
    BY <1>1, <1>3, ZeroPart DEF Start, TypeOK, pending, NoService
  <1>5. AlwaysStarts' /\ NotStranded' /\ TakenInConfiguration'
    BY <1>3 DEF Start, AlwaysStarts, NotStranded, TakenInConfiguration, Configured, pending, NoService
  <1> QED BY <1>4, <1>5 DEF IInv

LEMMA RestartStep == IInv /\ Restart => IInv'
  <1> SUFFICES ASSUME IInv, Restart PROVE IInv'
    OBVIOUS
  <1>1. TypeOK
    BY DEF IInv
  <1>2. Loaded(stored).id \in 1 .. 255 /\ NodeIdValid(Loaded(stored).id) /\ Loaded(stored).rate \in Rates
    BY <1>1, LoadedTypes DEF Config
  <1>3. [id |-> pendingNodeID', rate |-> pendingBitRate'] \in Config
    BY <1>2, ConfigRecord DEF Restart
  <1>4. TypeOK'
    BY <1>1, <1>3, ZeroPart DEF Restart, TypeOK, slave, NoService
  <1>5. AlwaysStarts' /\ NotStranded' /\ TakenInConfiguration'
    BY DEF Restart, AlwaysStarts, NotStranded, TakenInConfiguration
  <1> QED BY <1>4, <1>5 DEF IInv

(* What a node takes at once leaves power and everything pending alone.    *)
LEMMA ReceiveStep == IInv /\ Receive => IInv'
  <1> SUFFICES ASSUME IInv, Receive PROVE IInv'
    OBVIOUS
  <1>1. TypeOK /\ AlwaysStarts /\ NotStranded /\ TakenInConfiguration
    BY DEF IInv
  <1>2. UNCHANGED <<power, activeNodeID, pendingNodeID, pendingBitRate, bitRate, delay, stay, stored>>
    BY DEF Receive, SwitchWaiting, SwitchConfiguration, SelectPart, Fastscan, TakeCommand, pending,
           slave
  <1>3. AlwaysStarts'
    BY <1>1, <1>2 DEF AlwaysStarts
  <1>4. CASE SwitchWaiting
    <2>1. [cs |-> "leave"] \in Commands
      BY DEF Commands
    <2>2. TypeOK'
      BY <1>1, <1>2, <1>4, <2>1, ZeroPart DEF SwitchWaiting, TypeOK, NoService
    <2>3. lssState = "waiting" => Configured \/ pendingNodeID = Unassigned
      BY <1>1, <1>4 DEF NotStranded, SwitchWaiting, Receiving, NoService
    <2>4. NotStranded' /\ TakenInConfiguration'
      BY <1>1, <1>2, <1>4, <2>3 DEF SwitchWaiting, NotStranded, TakenInConfiguration, Configured, NoService,
                                    TypeOK
    <2> QED BY <1>3, <2>2, <2>4 DEF IInv
  <1>5. CASE SwitchConfiguration
    <2>1. TypeOK'
      BY <1>1, <1>2, <1>5 DEF SwitchConfiguration, TypeOK
    <2>2. NotStranded' /\ TakenInConfiguration'
      BY <1>1, <1>5 DEF SwitchConfiguration, NotStranded, TakenInConfiguration
    <2> QED BY <1>3, <2>1, <2>2 DEF IInv
  <1>6. ASSUME NEW p \in Parts, NEW v \in Ids, SelectPart(p, v) PROVE IInv'
    <2>1. TypeOK'
      BY <1>1, <1>2, <1>6 DEF SelectPart, TypeOK
    <2>2. lssState' = "configuration" \/ lssState' = lssState
      BY <1>6 DEF SelectPart
    <2>3. NotStranded' /\ TakenInConfiguration'
      BY <1>1, <1>2, <1>6, <2>2 DEF SelectPart, NotStranded, TakenInConfiguration, Configured
    <2> QED BY <1>3, <2>1, <2>3 DEF IInv
  <1>7. ASSUME NEW bit, NEW sub, NEW next, NEW match, Fastscan(bit, sub, next, match) PROVE IInv'
    <2>1. fastscanPos' \in Parts /\ lssState' \in {lssState, "configuration"}
      BY <1>7, ZeroPart DEF Fastscan, FastscanValid
    <2>2. TypeOK'
      BY <1>1, <1>2, <1>7, <2>1 DEF Fastscan, TypeOK
    <2>3. NotStranded' /\ TakenInConfiguration'
      BY <1>1, <1>2, <1>7, <2>1 DEF Fastscan, NotStranded, TakenInConfiguration, Configured
    <2> QED BY <1>3, <2>2, <2>3 DEF IInv
  <1>8. ASSUME NEW c \in Commands, TakeCommand(c) PROVE IInv'
    <2>1. TypeOK'
      BY <1>1, <1>2, <1>8 DEF TakeCommand, TypeOK, slave
    <2>2. NotStranded' /\ TakenInConfiguration'
      BY <1>1, <1>8 DEF TakeCommand, NotStranded, TakenInConfiguration, slave
    <2> QED BY <1>3, <2>1, <2>2 DEF IInv
  <1> QED BY <1>4, <1>5, <1>6, <1>7, <1>8 DEF Receive

(* The counter and the rate after a round of the loop.                     *)
LEMMA PollTypes ==
  ASSUME TypeOK, NEW d \in Nat, NEW r \in Rates, AfterPoll(d, r)
  PROVE  delay' \in Nat /\ bitRate' \in Rates
  BY PendingTypes DEF AfterPoll

(* A round that answers clears the service; what it needs to keep the      *)
(* invariant is the type of what it puts into the pending variables, the   *)
(* rate and the block, and that the node is in configuration state or is   *)
(* about to start again.                                                   *)
LEMMA AnsweredStep ==
  ASSUME IInv, service' = NoService, power' \in {"up", "reset"},
         UNCHANGED <<slave, activeNodeID, heard>>,
         power' = "up" => lssState = "configuration",
         NodeIdValid(pendingNodeID') /\ pendingNodeID' \in 1 .. 255, pendingBitRate' \in Rates,
         bitRate' \in Rates, delay' \in Nat, stay' \in BOOLEAN,
         stored' \in Config \cup {Torn}
  PROVE  IInv'
  <1>1. TypeOK
    BY DEF IInv
  <1>2. [id |-> pendingNodeID', rate |-> pendingBitRate'] \in Config
    BY ConfigRecord
  <1>3. activeNodeID \in 1 .. 255 /\ NodeIdValid(activeNodeID)
    BY <1>1 DEF TypeOK, Config
  <1>4. [id |-> activeNodeID', rate |-> bitRate'] \in Config
    BY <1>3, ConfigRecord
  <1>5. TypeOK'
    BY <1>1, <1>2, <1>4 DEF TypeOK, slave
  <1>6. AlwaysStarts' /\ NotStranded' /\ TakenInConfiguration'
    BY DEF AlwaysStarts, NotStranded, TakenInConfiguration, slave, NoService
  <1> QED BY <1>5, <1>6 DEF IInv

LEMMA WriteStorageType == TypeOK /\ WriteStorage => stored' \in Config \cup {Torn}
  BY DEF TypeOK, WriteStorage

LEMMA ProcessStep == IInv /\ Process => IInv'
  <1> SUFFICES ASSUME IInv, Process PROVE IInv'
    OBVIOUS
  <1>1. TypeOK /\ AlwaysStarts /\ NotStranded /\ TakenInConfiguration
    BY DEF IInv
  <1>2. /\ NodeIdValid(pendingNodeID) /\ pendingNodeID \in 1 .. 255 /\ pendingBitRate \in Rates
        /\ bitRate \in Rates /\ delay \in Nat /\ stay \in BOOLEAN
        /\ stored \in Config \cup {Torn}
    BY <1>1, PendingTypes DEF TypeOK, Config
  <1>3. AfterPoll(delay, bitRate) => delay' \in Nat /\ bitRate' \in Rates
    BY <1>1, <1>2, PollTypes
  <1>4. \A cs : Answering(cs) => /\ service' = NoService /\ UNCHANGED <<slave, activeNodeID, heard>>
                                /\ power = "up" /\ (cs # "leave" => lssState = "configuration")
    BY <1>1 DEF Answering, TakenInConfiguration
  <1>5. CASE Idle
    <2>1. TypeOK'
      <3>1. activeNodeID \in 1 .. 255 /\ NodeIdValid(activeNodeID)
        BY <1>1 DEF TypeOK, Config
      <3>2. [id |-> activeNodeID', rate |-> bitRate'] \in Config
        BY <1>3, <1>5, <3>1, ConfigRecord DEF Idle
      <3> QED BY <1>1, <1>2, <1>3, <1>5, <3>2 DEF Idle, TypeOK, slave, pending
    <2>2. AlwaysStarts' /\ NotStranded' /\ TakenInConfiguration'
      BY <1>1, <1>5 DEF Idle, AlwaysStarts, NotStranded, TakenInConfiguration, Configured, slave, pending
    <2> QED BY <2>1, <2>2 DEF IInv
  <1>6. CASE ProcessLeave
    BY <1>2, <1>3, <1>4, <1>6, AnsweredStep DEF ProcessLeave, pending
  <1>7. CASE ProcessInquire
    BY <1>2, <1>3, <1>4, <1>7, AnsweredStep DEF ProcessInquire, pending
  <1>8. CASE ProcessNodeId
    <2>1. service \in Commands /\ service.cs = "node id"
      BY <1>1, <1>8 DEF ProcessNodeId, Answering, TypeOK
    <2>2. service.nid \in Nat
      BY <2>1, LssAssumption DEF Commands
    <2>3. \A n \in Nat : NodeIdValid(n) => n \in 1 .. 255
      BY DEF NodeIdValid, Unassigned
    <2>4. pendingNodeID' = IF NodeIdValid(service.nid) THEN service.nid ELSE pendingNodeID
      BY <1>8 DEF ProcessNodeId
    <2>5. NodeIdValid(pendingNodeID') /\ pendingNodeID' \in 1 .. 255
      BY <1>2, <2>2, <2>3, <2>4
    <2>6. /\ UNCHANGED <<power, pendingBitRate, stay, stored>> /\ AfterPoll(delay, bitRate)
          /\ Answering("node id")
      BY <1>8 DEF ProcessNodeId
    <2>7. /\ service' = NoService /\ UNCHANGED <<slave, activeNodeID, heard>>
          /\ power = "up" /\ lssState = "configuration"
      BY <1>1, <2>6 DEF Answering, TakenInConfiguration
    <2> QED BY <1>2, <1>3, <2>5, <2>6, <2>7, AnsweredStep
  <1>9. CASE ProcessBitTiming
    <2>1. pendingBitRate' \in Rates
      BY <1>2, <1>9, CheckedRates DEF ProcessBitTiming, TimingInTable
    <2>2. stay' \in BOOLEAN
      BY <1>2, <1>9 DEF ProcessBitTiming, TimingInTable
    <2>3. /\ UNCHANGED <<power, pendingNodeID, stored>> /\ AfterPoll(delay, bitRate)
          /\ Answering("bit timing")
      BY <1>9 DEF ProcessBitTiming
    <2>4. /\ service' = NoService /\ UNCHANGED <<slave, activeNodeID, heard>>
          /\ power = "up" /\ lssState = "configuration"
      BY <1>1, <2>3 DEF Answering, TakenInConfiguration
    <2> QED BY <1>2, <1>3, <2>1, <2>2, <2>3, <2>4, AnsweredStep
  <1>10. CASE ProcessActivate
    <2>1. service \in Commands /\ service.cs = "activate"
      BY <1>1, <1>10 DEF ProcessActivate, Answering, TypeOK
    <2>2. service.delay \in Nat
      BY <2>1, LssAssumption DEF Commands
    <2>3. delay' \in Nat /\ bitRate' \in Rates
      BY <1>1, <1>2, <1>10, <2>2, PollTypes DEF ProcessActivate
    <2> QED BY <1>2, <1>4, <1>10, <2>2, <2>3, AnsweredStep DEF ProcessActivate, pending
  <1>11. CASE ProcessStore
    <2>1. stored' \in Config \cup {Torn}
      BY <1>1, <1>11, WriteStorageType DEF ProcessStore
    <2> QED BY <1>2, <1>3, <1>4, <1>11, <2>1, AnsweredStep DEF ProcessStore, pending
  <1> QED BY <1>5, <1>6, <1>7, <1>8, <1>9, <1>10, <1>11 DEF Process

LEMMA ParametersStep == IInv /\ (StoreParameters \/ RestoreParameters) => IInv'
  <1> SUFFICES ASSUME IInv, StoreParameters \/ RestoreParameters PROVE IInv'
    OBVIOUS
  <1>1. TypeOK /\ AlwaysStarts
    BY DEF IInv
  <1>2. UNCHANGED <<power, slave, activeNodeID, service, bitRate, delay, stay, heard>>
    BY DEF StoreParameters, RestoreParameters
  <1>3. stored' \in Config \cup {Torn}
    BY <1>1, WriteStorageType DEF StoreParameters, RestoreParameters, TypeOK
  <1>4. [id |-> pendingNodeID', rate |-> pendingBitRate'] \in Config
    <2>1. CASE StoreParameters
      BY <1>1, <2>1 DEF StoreParameters, pending, TypeOK
    <2>2. CASE RestoreParameters
      BY <1>1, <2>2, ConfigRecord DEF RestoreParameters, TypeOK, Config
    <2> QED BY <2>1, <2>2
  <1>5. TypeOK'
    BY <1>1, <1>2, <1>3, <1>4 DEF TypeOK, slave
  <1>6. AlwaysStarts' /\ NotStranded' /\ TakenInConfiguration'
    BY <1>1, <1>2 DEF AlwaysStarts, NotStranded, TakenInConfiguration, StoreParameters,
                      RestoreParameters, Receiving, Configured
  <1> QED BY <1>5, <1>6 DEF IInv

LEMMA NextInv == IInv /\ [Next]_vars => IInv'
  <1> SUFFICES ASSUME IInv, [Next]_vars PROVE IInv'
    OBVIOUS
  <1>1. CASE NmtResetCommunication
    <2>1. TypeOK' /\ AlwaysStarts' /\ NotStranded' /\ TakenInConfiguration'
      BY <1>1 DEF NmtResetCommunication, IInv, TypeOK, AlwaysStarts, NotStranded,
                  TakenInConfiguration, slave, pending
    <2> QED BY <2>1 DEF IInv
  <1>2. CASE UNCHANGED vars
    <2>1. TypeOK' /\ AlwaysStarts' /\ NotStranded' /\ TakenInConfiguration'
      BY <1>2 DEF vars, IInv, TypeOK, AlwaysStarts, NotStranded, TakenInConfiguration, Configured,
                  slave, pending
    <2> QED BY <2>1 DEF IInv
  <1>3. PowerCycle \/ LeaveLoader \/ NmtResetNode => Restart
    BY DEF PowerCycle, LeaveLoader, NmtResetNode
  <1> QED BY <1>1, <1>2, <1>3, StartStep, RestartStep, ReceiveStep, ProcessStep, ParametersStep DEF Next

LEMMA Invariance == Spec => []IInv
  BY InitInv, NextInv, PTL DEF Spec

(* Every variable has its type: what is pending, stored or set is an id    *)
(* and a rate the code accepts.                                            *)
THEOREM LssTypes == Spec => []TypeOK
  <1>1. IInv => TypeOK
    BY DEF IInv
  <1> QED BY <1>1, Invariance, PTL

(* The head of the loop (ldr.c:105-150): main() never returns because of   *)
(* what LSS has made pending, stored, restored or lost.                    *)
THEOREM LoopAlwaysStarts == Spec => []AlwaysStarts
  <1>1. IInv => AlwaysStarts
    BY DEF IInv
  <1> QED BY <1>1, Invariance, PTL

(* CO_LSSslave.c:65-76: an unconfigured node that was given an id and sent *)
(* back to waiting is on its way to a communication reset.                 *)
THEOREM NodeNotStranded == Spec => []NotStranded
  <1>1. IInv => NotStranded
    BY DEF IInv
  <1> QED BY <1>1, Invariance, PTL

-----------------------------------------------------------------------------
(* While a node waits, a part it has taken down is the last one it heard,  *)
(* or has been cleared.                                                    *)
SelectionIsHeard ==
  power = "up" /\ lssState = "waiting" =>
    \A p \in Parts : lssSelect[p] = heard[p] \/ lssSelect[p] = Zero

LEMMA SelectionStep == TypeOK /\ SelectionIsHeard /\ [Next]_vars => SelectionIsHeard'
  <1> SUFFICES ASSUME TypeOK, SelectionIsHeard, [Next]_vars PROVE SelectionIsHeard'
    OBVIOUS
  <1> USE DEF SelectionIsHeard
  <1>1. CASE lssSelect' = Cleared
    BY <1>1 DEF Cleared
  <1>2. CASE power' # "up" \/ lssState' = "configuration"
    BY <1>2
  <1>3. CASE UNCHANGED <<lssState, lssSelect, heard, power>>
    BY <1>3
  <1>4. ASSUME NEW q \in Parts, NEW v \in Ids, SelectPart(q, v) PROVE SelectionIsHeard'
    <2>1. CASE lssState = "waiting"
      <3>1. lssSelect' = [lssSelect EXCEPT ![q] = v] /\ heard' = [heard EXCEPT ![q] = v]
        BY <1>4, <2>1 DEF SelectPart
      <3>2. power = "up"
        BY <1>4 DEF SelectPart, Receiving
      <3>3. \A p \in Parts : lssSelect'[p] = heard'[p] \/ lssSelect'[p] = Zero
        BY <2>1, <3>1, <3>2 DEF TypeOK
      <3> QED BY <3>3
    <2>2. CASE lssState # "waiting"
      BY <1>4, <2>2 DEF SelectPart, TypeOK
    <2> QED BY <2>1, <2>2
  <1>5. Receive => \/ lssSelect' = Cleared \/ lssState' = "configuration"
                   \/ UNCHANGED <<lssState, lssSelect, heard, power>>
                   \/ \E q \in Parts, v \in Ids : SelectPart(q, v)
    BY DEF Receive, SwitchWaiting, SwitchConfiguration, Fastscan, TakeCommand, slave
  <1>6. Process => power' # "up" \/ UNCHANGED <<lssState, lssSelect, heard, power>>
    BY DEF Process, Idle, ProcessLeave, ProcessInquire, ProcessNodeId, ProcessBitTiming,
           ProcessActivate, ProcessStore, Answering, slave
  <1>7. StoreParameters \/ RestoreParameters => UNCHANGED <<lssState, lssSelect, heard, power>>
    BY DEF StoreParameters, RestoreParameters, slave
  <1>8. Start => lssSelect' = Cleared
    BY DEF Start
  <1>9. PowerCycle \/ LeaveLoader \/ NmtResetNode \/ NmtResetCommunication => power' # "up"
    BY DEF PowerCycle, LeaveLoader, NmtResetNode, NmtResetCommunication, Restart
  <1>10. UNCHANGED vars => UNCHANGED <<lssState, lssSelect, heard, power>>
    BY DEF vars, slave
  <1> QED BY <1>1, <1>2, <1>3, <1>4, <1>5, <1>6, <1>7, <1>8, <1>9, <1>10 DEF Next

(* CO_LSSslave.c:85-119: only a node whose parts were named by the last    *)
(* frames of all kinds that it heard is selected (SelectedByAll).          *)
THEOREM OnlyAddressedSelected == Spec => SelectedByAll
  <1>1. Init => SelectionIsHeard
    BY DEF Init, SelectionIsHeard
  <1>2. TypeOK /\ SelectionIsHeard /\ [Next]_vars =>
          [\A v \in Ids : SelectPart(LastPart, v) /\ lssState # lssState' =>
             \A p \in Parts : Address[p] # Zero => heard'[p] = Address[p]]_vars
    <2> SUFFICES ASSUME TypeOK, SelectionIsHeard, NEW v \in Ids, SelectPart(LastPart, v),
                        lssState # lssState', NEW p \in Parts, Address[p] # Zero
                 PROVE  heard'[p] = Address[p]
      OBVIOUS
    <2>1. lssState' = "configuration" /\ lssState = "waiting" /\ lssSelect' = Address /\ power = "up"
      BY DEF SelectPart, TypeOK, Receiving
    <2>2. lssSelect' = [lssSelect EXCEPT ![LastPart] = v] /\ heard' = [heard EXCEPT ![LastPart] = v]
      BY <2>1 DEF SelectPart
    <2>3. lssSelect[p] = heard[p] \/ lssSelect[p] = Zero
      BY <2>1 DEF SelectionIsHeard
    <2> QED BY <2>1, <2>2, <2>3 DEF TypeOK
  <1>3. IInv => TypeOK
    BY DEF IInv
  <1> QED BY <1>1, <1>2, <1>3, Invariance, SelectionStep, PTL DEF Spec, SelectedByAll
=============================================================================
