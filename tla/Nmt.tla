--------------------------------- MODULE Nmt ---------------------------------
(***************************************************************************)
(* The NMT slave of an application with its heartbeats, those it produces  *)
(* and those of other nodes it watches: CO_NMT_Heartbeat.c and             *)
(* CO_HBconsumer.c, called one after the other by the main loop of         *)
(* app_common.h. Each function is a step of its own; one CAN frame is      *)
(* taken per pass. (Module Emergency has the messages about the errors,    *)
(* module CanTx the way of a heartbeat to the bus.)                        *)
(*                                                                         *)
(* Time is counted in units of which a pass takes 1 to MaxStep. The node   *)
(* leaves OPERATIONAL when a node it watches falls silent or starts anew   *)
(* (NMT_CONTROL), and returns only by command.                             *)
(***************************************************************************)
EXTENDS Naturals

CONSTANTS
  Count,         (* sub-indexes of x1016                                   *)
  Nodes, None,   (* the nodes that may be watched                          *)
  Defaults,      (* x1016 when an application starts                       *)
  ConsumerTime,  (* the time of its entries                                *)
  ProducerTimes, (* values of x1017                                        *)
  FirstTime,     (* firstHBTime_ms                                         *)
  MaxStep        (* longest pass of the main loop                          *)

Entries   == 1 .. Count
Forgotten == ConsumerTime + 2 * MaxStep        (* silent counts up to here *)

ASSUME NmtAssumption ==
  /\ {Count, ConsumerTime, MaxStep} \subseteq Nat \ {0}
  /\ None \notin Nodes
  /\ Defaults \in [Entries -> Nodes \cup {None}]
  /\ ProducerTimes \subseteq Nat /\ FirstTime \in Nat

VARIABLES
  at,           (* the function the main loop calls next                   *)
  dt,           (* timeDifference_us                                       *)
  (* CO_NMT_t *)
  operatingState, operatingStatePrev, internalCommand, reset,
  HBproducerTime, HBproducerTimer,
  (* CO_HBconsumer_t, with the nodes that the receive buffers take         *)
  nodeId, HBstate, CANrxNew, timeoutTimer, rxNode,
  allMonitoredActive, NMTisPreOrOperationalPrev,
  x1016,
  hbErrors,     (* errorStatusBits of the heartbeat consumer               *)
  (* history *)
  sent,         (* the heartbeat last given to CO_CANsend                  *)
  silent,       (* time since a heartbeat of the entry's node was taken    *)
  heard         (* one was taken since the monitoring began                *)

nmt   == <<operatingState, operatingStatePrev, internalCommand, reset,
           HBproducerTime, HBproducerTimer, sent>>
watch == <<HBstate, CANrxNew, timeoutTimer, allMonitoredActive, NMTisPreOrOperationalPrev,
           hbErrors>>
conf  == <<nodeId, rxNode, x1016>>
nmtVars  == <<at, dt, nmt, watch, conf, silent, heard>>

Errors   == {"HEARTBEAT", "REMOTE_RESET"}
Commands == {"ENTER_OPERATIONAL", "ENTER_STOPPED", "ENTER_PRE_OPERATIONAL",
             "RESET_NODE", "RESET_COMMUNICATION"}
Smaller(a, b) == IF a < b THEN a ELSE b
PreOrOperational == operatingState \in {"PRE_OPERATIONAL", "OPERATIONAL"}

-----------------------------------------------------------------------------
(* CO_HBconsumer_init sets up one entry after the other with the node that *)
(* x1016 has for it (CO_HBconsumer_initEntry). An entry is refused, and    *)
(* left as it was, when another has that node already - of those before it *)
(* the new ones, of those after it the old: they are not cleared first.    *)
Unwatched == [e \in Entries |-> None]
Refused(old, x, new, e) ==
  /\ x[e] # None
  /\ \E other \in Entries \ {e} : x[e] = IF other < e THEN new[other] ELSE old[other]
InitEntries(old, x) ==
  {new \in [Entries -> Nodes \cup {None}] :
     \A e \in Entries : new[e] = IF Refused(old, x, new, e) THEN old[e] ELSE x[e]}
InitState(n) == IF n = None THEN "UNCONFIGURED" ELSE "UNKNOWN"

(* CO_NMT_init, CO_CANmodule_init (no frame is taken any more) and         *)
(* CO_HBconsumer_init. The error bits are in x2000 and stay (app_common.h),*)
(* the timers stay as well.                                                *)
CommunicationStart(time, old, oldState, x, errors) ==
  /\ at' = "receive"
  /\ operatingState' = "INITIALIZING" /\ operatingStatePrev' = "INITIALIZING"
  /\ internalCommand' = "NO_COMMAND" /\ reset' = "NOT"
  /\ HBproducerTime' = time /\ HBproducerTimer' = Smaller(FirstTime, time)
  /\ nodeId' \in InitEntries(old, x)
  /\ LET refused(e) == Refused(old, x, nodeId', e) IN
     /\ HBstate' = [e \in Entries |-> IF refused(e) THEN oldState[e] ELSE InitState(x[e])]
     /\ rxNode' = [e \in Entries |-> IF refused(e) THEN None ELSE x[e]]
     /\ CANrxNew' = [e \in Entries |-> IF refused(e) THEN CANrxNew[e] ELSE "none"]
  /\ allMonitoredActive' = FALSE /\ NMTisPreOrOperationalPrev' = FALSE
  /\ hbErrors' = errors
  /\ sent' = "none"

NmtInit ==
  /\ at = "receive" /\ dt = 1
  /\ operatingState = "INITIALIZING" /\ operatingStatePrev = "INITIALIZING"
  /\ internalCommand = "NO_COMMAND" /\ reset = "NOT"
  /\ HBproducerTime \in ProducerTimes
  /\ HBproducerTimer = Smaller(FirstTime, HBproducerTime)
  /\ nodeId \in InitEntries(Unwatched, Defaults) /\ rxNode = nodeId
  /\ HBstate = [e \in Entries |-> InitState(nodeId[e])]
  /\ CANrxNew = [e \in Entries |-> "none"] /\ timeoutTimer = [e \in Entries |-> 0]
  /\ allMonitoredActive = FALSE /\ NMTisPreOrOperationalPrev = FALSE
  /\ x1016 = Defaults /\ hbErrors = {} /\ sent = "none"
  /\ silent = [e \in Entries |-> Forgotten] /\ heard = [e \in Entries |-> FALSE]

-----------------------------------------------------------------------------
(* The main loop begins a pass: time has gone on, and CO_CANinterrupt takes*)
(* a frame if there is one.                                                *)
Silence == [e \in Entries |-> Smaller(silent[e] + dt', Forgotten)]
Pass ==
  /\ at = "receive" /\ at' = "nmt"
  /\ dt' \in 1 .. MaxStep
  /\ UNCHANGED <<operatingState, operatingStatePrev, reset, HBproducerTime, HBproducerTimer, sent,
                 HBstate, timeoutTimer, allMonitoredActive, NMTisPreOrOperationalPrev, hbErrors,
                 conf>>

ReceiveNothing ==
  /\ Pass
  /\ silent' = Silence
  /\ UNCHANGED <<internalCommand, CANrxNew, heard>>

(* CO_NMT_receive.                                                         *)
ReceiveCommand(c) ==
  /\ Pass
  /\ internalCommand' = c
  /\ silent' = Silence
  /\ UNCHANGED <<CANrxNew, heard>>

(* CO_HBcons_receive: a heartbeat or a boot-up message of the node that the*)
(* receive buffer of entry e takes, whatever state this node is in.        *)
ReceiveHeartbeat(e, kind) ==
  /\ Pass
  /\ rxNode[e] # None
  /\ CANrxNew' = [CANrxNew EXCEPT ![e] = kind]
  /\ silent' = [Silence EXCEPT ![e] = IF kind = "beat" THEN 0 ELSE @]
  /\ heard' = [heard EXCEPT ![e] = @ \/ (kind = "beat" /\ PreOrOperational)]
  /\ UNCHANGED internalCommand

-----------------------------------------------------------------------------
(* CO_NMT_process.                                                         *)
TimerLeft == IF HBproducerTimer > dt THEN HBproducerTimer - dt ELSE 0

(* Faulty variant: a change of state is told with the next heartbeat only, *)
(* and that one when the timer was started for it.                         *)
SendsHeartbeatUntimed ==
  \/ operatingState = "INITIALIZING"
  \/ HBproducerTime # 0 /\ HBproducerTimer # 0 /\ TimerLeft = 0

SendsHeartbeat ==
  \/ operatingState = "INITIALIZING"
  \/ HBproducerTime # 0 /\ (TimerLeft = 0 \/ operatingState # operatingStatePrev)

(* The state after self-starting, and after the command if there is one.   *)
Started == IF operatingState = "INITIALIZING" THEN "OPERATIONAL" ELSE operatingState
Commanded ==
  CASE internalCommand = "ENTER_OPERATIONAL"     -> "OPERATIONAL"
    [] internalCommand = "ENTER_STOPPED"         -> "STOPPED"
    [] internalCommand = "ENTER_PRE_OPERATIONAL" -> "PRE_OPERATIONAL"
    [] OTHER                                     -> Started
ErrorsAllow(s) == IF s = "OPERATIONAL" /\ hbErrors # {} THEN "PRE_OPERATIONAL" ELSE s

CO_NMT_process ==
  /\ at = "nmt" /\ at' = "sdo"
  /\ sent' = IF SendsHeartbeat THEN operatingState ELSE sent
  /\ HBproducerTimer' = IF SendsHeartbeat /\ operatingState # "INITIALIZING"
                        THEN HBproducerTime ELSE TimerLeft
  /\ operatingStatePrev' = Started
  /\ reset' = CASE internalCommand = "RESET_NODE"          -> "APP"
                [] internalCommand = "RESET_COMMUNICATION" -> "COMM"
                [] OTHER                                   -> "NOT"
  /\ internalCommand' = "NO_COMMAND"
  /\ operatingState' = ErrorsAllow(Commanded)
  /\ heard' = IF operatingState' = "STOPPED" THEN [e \in Entries |-> FALSE] ELSE heard
  /\ UNCHANGED <<dt, HBproducerTime, watch, conf, silent>>

(* CO_SDOserver_process: nothing that matters here, or a write to x1017,   *)
(* which takes effect at once, or to x1016, which does when communication  *)
(* is reset.                                                               *)
NoWrite ==
  /\ at = "sdo" /\ at' = "hb"
  /\ UNCHANGED <<dt, nmt, watch, conf, silent, heard>>

OD_write_1017(v) ==
  /\ at = "sdo" /\ at' = "hb"
  /\ PreOrOperational
  /\ HBproducerTime' = v /\ HBproducerTimer' = 0
  /\ UNCHANGED <<dt, operatingState, operatingStatePrev, internalCommand, reset, sent,
                 watch, conf, silent, heard>>

Write1016(e, n) ==
  /\ at = "sdo" /\ at' = "hb"
  /\ PreOrOperational
  /\ x1016' = [x1016 EXCEPT ![e] = n]
  /\ UNCHANGED <<dt, nmt, watch, nodeId, rxNode, silent, heard>>

-----------------------------------------------------------------------------
(* CO_HBconsumer_process.                                                  *)
Message(e) == IF HBstate[e] = "UNCONFIGURED" THEN "none" ELSE CANrxNew[e]
Met(e) == CASE Message(e) = "boot" -> "UNKNOWN"
            [] Message(e) = "beat" -> "ACTIVE"
            [] OTHER               -> HBstate[e]
Timer(e) ==
  CASE Message(e) = "beat" -> 0
    [] Message(e) # "beat" /\ Met(e) = "ACTIVE" -> timeoutTimer[e] + dt
    [] OTHER               -> timeoutTimer[e]

(* Faulty variant: the end of the time itself is still in time.            *)
TimedOutLate(e) == Met(e) = "ACTIVE" /\ Timer(e) > ConsumerTime

TimedOut(e) == Met(e) = "ACTIVE" /\ Timer(e) >= ConsumerTime
Reported ==
  hbErrors \cup {b \in {"HEARTBEAT"} : \E e \in Entries : TimedOut(e)}
       \cup {b \in {"REMOTE_RESET"} :
               \E e \in Entries : Message(e) = "boot" /\ HBstate[e] = "ACTIVE"}

(* Faulty variant: one of the two errors stays.                            *)
ClearedPartly(active, errors) ==
  IF active /\ ~allMonitoredActive THEN errors \ {"HEARTBEAT"} ELSE errors

(* All are active: the errors are over.                                    *)
Cleared(active, errors) == IF active /\ ~allMonitoredActive THEN {} ELSE errors

Monitor ==
  LET active == \A e \in Entries : HBstate'[e] \in {"UNCONFIGURED", "ACTIVE"} IN
  /\ HBstate' = [e \in Entries |-> IF TimedOut(e) THEN "TIMEOUT" ELSE Met(e)]
  /\ timeoutTimer' = [e \in Entries |-> Timer(e)]
  /\ CANrxNew' = [e \in Entries |-> IF HBstate[e] = "UNCONFIGURED" THEN CANrxNew[e] ELSE "none"]
  /\ hbErrors' = Cleared(active, Reported)
  /\ allMonitoredActive' = active

(* The first pass in PRE_OPERATIONAL or OPERATIONAL, or out of them.       *)
StartOver ==
  /\ HBstate' = [e \in Entries |->
                   IF HBstate[e] = "UNCONFIGURED" THEN "UNCONFIGURED" ELSE "UNKNOWN"]
  /\ CANrxNew' = [e \in Entries |-> "none"]
  /\ allMonitoredActive' = FALSE
  /\ UNCHANGED <<timeoutTimer, hbErrors>>

(* Nothing is monitored, and all is taken for active.                      *)
Idle ==
  /\ hbErrors' = Cleared(TRUE, hbErrors)
  /\ allMonitoredActive' = TRUE
  /\ UNCHANGED <<HBstate, CANrxNew, timeoutTimer>>

CO_HBconsumer_process ==
  /\ at = "hb" /\ at' = IF reset = "NOT" THEN "receive" ELSE "reset"
  /\ CASE PreOrOperational /\ NMTisPreOrOperationalPrev   -> Monitor
       [] PreOrOperational # NMTisPreOrOperationalPrev    -> StartOver
       [] ~PreOrOperational /\ ~NMTisPreOrOperationalPrev -> Idle
  /\ NMTisPreOrOperationalPrev' = PreOrOperational
  /\ UNCHANGED <<dt, nmt, conf, silent, heard>>

-----------------------------------------------------------------------------
(* The main loop starts communication again. What is watched from then on  *)
(* is what CO_HBconsumer_init made of x1016.                               *)
CommunicationReset ==
  /\ at = "reset" /\ reset = "COMM"
  /\ CommunicationStart(HBproducerTime, nodeId, HBstate, x1016, hbErrors)
  /\ heard' = [e \in Entries |-> heard[e] /\ nodeId'[e] = nodeId[e] /\ hbErrors # {}]
  /\ UNCHANGED <<dt, timeoutTimer, x1016, silent>>

(* PLATFORM_RESET: the application starts from its configuration, in which *)
(* any x1017 may have been stored.                                         *)
PLATFORM_RESET ==
  /\ at = "reset" /\ reset = "APP"
  /\ \E time \in ProducerTimes :
       CommunicationStart(time, Unwatched, [e \in Entries |-> "UNCONFIGURED"], Defaults, {})
  /\ timeoutTimer' = [e \in Entries |-> 0]
  /\ x1016' = Defaults
  /\ heard' = [e \in Entries |-> FALSE]
  /\ UNCHANGED <<dt, silent>>

Receive ==
  \/ ReceiveNothing
  \/ \E c \in Commands : ReceiveCommand(c)
  \/ \E e \in Entries, kind \in {"boot", "beat"} : ReceiveHeartbeat(e, kind)

CO_SDOserver_process ==
  \/ NoWrite
  \/ \E v \in ProducerTimes : OD_write_1017(v)
  \/ \E e \in Entries, n \in Nodes \cup {None} : Write1016(e, n)

NmtNext ==
  \/ Receive \/ CO_NMT_process \/ CO_SDOserver_process \/ CO_HBconsumer_process
  \/ CommunicationReset \/ PLATFORM_RESET

NmtSpec == NmtInit /\ [][NmtNext]_nmtVars

(* The main loop goes on.                                                  *)
NmtFairSpec == NmtSpec /\ WF_nmtVars(NmtNext)

-----------------------------------------------------------------------------
(* A node whose master, or another node it watches, has fallen silent does *)
(* not stay OPERATIONAL and cannot be brought back to it - by a command, a *)
(* communication reset or a boot-up message of that node - before it is    *)
(* heard again. (Monitoring begins with the first heartbeat; STOPPED ends  *)
(* it, and so does a communication reset without an error.)                *)
SilentStops ==
  operatingState = "OPERATIONAL" => \A e \in Entries : heard[e] => silent[e] < Forgotten

(* Heartbeats tell the state: one that lasts is seen in them.              *)
StateTold ==
  \A s \in {"PRE_OPERATIONAL", "OPERATIONAL", "STOPPED"} :
    <>[](operatingState = s /\ HBproducerTime # 0) => <>[](sent = s)

(* A node brought to PRE_OPERATIONAL by errors can be brought back: once   *)
(* the nodes it watches are heard in time, and apart from commands to start*)
(* nothing is commanded, it ends up OPERATIONAL.                           *)
Disturbed ==
  \/ \E c \in Commands \ {"ENTER_OPERATIONAL"} : ReceiveCommand(c)
  \/ \E e \in Entries : ReceiveHeartbeat(e, "boot")
Recovers ==
  /\ <>[](\A e \in Entries : HBstate[e] # "UNCONFIGURED" => silent[e] + MaxStep < ConsumerTime)
  /\ <>[][~Disturbed]_nmtVars
  /\ []<><<ReceiveCommand("ENTER_OPERATIONAL")>>_nmtVars
  => <>[](operatingState = "OPERATIONAL")

=============================================================================
