------------------------- MODULE ConnectivityStats -------------------------
(* The private data of the Connectivity Statistics object (/7) and what     *)
(* changes it (object_connectivity_stat.cpp).  Nothing counts SMS, and      *)
(* nothing calls conn_s_updateTxStatistic.                                  *)
EXTENDS Integers

ResetCounter(start) ==
    [txDataByte |-> 0, rxDataByte |-> 0, maxMessageSize |-> 0, avrMessageSize |-> 0,
     messageCount |-> 0, collectDataStarted |-> start]

\* Datagrams are counted also when no server has started that.
UpdateRxUnasked(st, octets) ==
    [st EXCEPT !.rxDataByte = @ + octets,
               !.messageCount = @ + 1,
               !.avrMessageSize = (st.txDataByte + st.rxDataByte + octets)
                                      \div (st.messageCount + 1),
               !.maxMessageSize = IF octets > @ THEN octets ELSE @,
               !.txDataByte = @ + octets]

\* conn_s_updateRxStatistic: the octets count as sent as well, but only after
\* the average has been taken.
UpdateRx(st, octets) ==
    IF ~st.collectDataStarted THEN st
    ELSE [st EXCEPT !.rxDataByte = @ + octets,
                    !.messageCount = @ + 1,
                    !.avrMessageSize = (st.txDataByte + st.rxDataByte + octets)
                                           \div (st.messageCount + 1),
                    !.maxMessageSize = IF octets > @ THEN octets ELSE @,
                    !.txDataByte = @ + octets]

\* prv_exec.
StatisticsExecCode(res, length) ==
    IF length # 0 THEN 400 ELSE IF res = 6 THEN 204 ELSE 405

StatisticsExecuted(st, res, length) ==
    IF StatisticsExecCode(res, length) = 204 THEN ResetCounter(TRUE) ELSE st
=============================================================================
