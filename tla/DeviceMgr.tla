----------------------------- MODULE DeviceMgr -----------------------------
(***************************************************************************)
(* device_mgr's status map and, of pho_conn_pool, which phones have a      *)
(* connection.  Two writers share the map without a protocol: the IO       *)
(* thread, when a phone connects or goes away, and the session threads.    *)
(* device_info in the database is written and never read back, so it is    *)
(* left out.                                                               *)
(***************************************************************************)
EXTENDS Naturals, FiniteSets

CONSTANT Devices

VARIABLES
  status,      \* devices_pro[ip].status
  connected    \* the ips with a connection in pho_conn_pool

deviceVars == <<status, connected>>

\* The DEVICE_STATUS_* constants.
Statuses == {"ONLINE_IDLE", "OFFLINE", "TASK_BEGIN", "WX_VOTING",
             "WX_VOTE_END", "DAILY_TASK", "DAILY_TASK_END"}

DeviceTypeOK ==
  /\ status \in [Devices -> Statuses]
  /\ connected \in SUBSET Devices

\* device_mgr::init: every known device is offline until its phone calls in.
DeviceInit ==
  /\ status = [d \in Devices |-> "OFFLINE"]
  /\ connected = {}

SetStatus(d, s) == status' = [status EXCEPT ![d] = s]

GetStatusCount(s) == Cardinality({d \in Devices : status[d] = s})

\* pho_conn_pool::start.  A phone that connects again is PhoneStop, PhoneStart.
PhoneStart(d) ==
  /\ d \notin connected
  /\ SetStatus(d, "ONLINE_IDLE")
  /\ connected' = connected \cup {d}

\* pho_conn_pool::stop.
PhoneStop(d) ==
  /\ d \in connected
  /\ SetStatus(d, "OFFLINE")
  /\ connected' = connected \ {d}

\* pho_conn_pool::stop_all, when the program is told to stop.
PhonesStop ==
  /\ status' = [d \in Devices |-> IF d \in connected THEN "OFFLINE" ELSE status[d]]
  /\ connected' = {}

\* The statuses as the IO thread alone changes them.
DeviceNext == (\E d \in Devices : PhoneStart(d) \/ PhoneStop(d)) \/ PhonesStop

DeviceSpec == DeviceInit /\ [][DeviceNext]_deviceVars
=============================================================================
