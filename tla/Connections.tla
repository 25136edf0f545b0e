---------------------------- MODULE Connections ----------------------------
(***************************************************************************)
(* The connections of a client that has been started: the list of          *)
(* tools/connection.c, the receive buffer of a DTLS connection             *)
(* (tools/mbedtlsconnection.c), what the main loop does with a datagram    *)
(* (lwm2mclient.cpp 1225-1283) and the shutdown (1315-1327).               *)
(*                                                                         *)
(* The engine and mbedTLS are external: the engine connects, sends and     *)
(* closes when it likes, and mbedTLS fetches what it likes of a datagram.  *)
(***************************************************************************)
EXTENDS Startup, ConnectivityStats, SequencesExt

CONSTANTS
    Servers,            \* instances of the Security object
    Hardcoded,          \* the one the command line gives
    Provisioned,        \* the accounts of the others
    BrokenHosts,        \* hosts with a bracket that is not closed
    Cells,              \* memory for connections
    Sizes,              \* lengths of datagrams
    Slices,             \* lengths mbedTLS may ask for
    MaxHeard            \* bound on the datagrams counted

PskMaxLen == 16         \* MBEDTLS_PSK_MAX_LEN

ASSUME ServersAssumption ==
    /\ Hardcoded \in Servers
    /\ Provisioned \in [Servers \ {Hardcoded} ->
                          [scheme : STRING, host : Texts, port : Texts,
                           psk : BOOLEAN, identity : BOOLEAN, key : Nat]]
    /\ Sizes \subseteq Nat \ {0} /\ Slices \subseteq Nat \ {0}
    /\ MaxHeard \in Nat

\* What the memory of a connection holds; NULL is no cell, no place in a buffer
\* and no connection.
Connection == [addr : Texts \X Texts, send : {"plain", "dtls"}, recv : {"plain", "dtls"},
               deinit : {"none", "garbage", "dtls"}, ready : BOOLEAN,
               recvBuffer : Nat \cup {None}, len : Nat]

ASSUME NoneAssumption == None \notin Cells /\ None \notin Nat /\ None \notin Connection

VARIABLES
    conn,           \* what a cell holds, None if it is free
    connList,       \* the connection layer's list
    session,        \* the engine's session of each server
    call,           \* the call in progress that uses a datagram or mbedTLS
    stats,          \* userData of object 7
    \* History, read by no step of the client:
    heard,          \* lengths of the datagrams handled since the last reset
    exposed         \* a message of an account with a key was sent in the clear

connVars == <<conn, connList, session, call, stats, heard, exposed>>
vars     == <<startVars, connVars>>

Idle == [op |-> "idle", cell |-> None, size |-> 0, got |-> 0]

AccountOf(s) ==
    IF s = Hardcoded
    THEN [scheme |-> "coaps", host |-> account.host, port |-> account.port,
          psk |-> account.psk, identity |-> account.identity, key |-> account.key]
    ELSE Provisioned[s]

AddressOf(s) == <<AccountOf(s).host, AccountOf(s).port>>

Init ==
    /\ StartInit
    /\ conn = [c \in Cells |-> None]
    /\ connList = <<>>
    /\ session = [s \in Servers |-> None]
    /\ call = Idle
    /\ stats = ResetCounter(FALSE)
    /\ heard = <<>> /\ exposed = FALSE

Start == StartNext /\ UNCHANGED connVars

-----------------------------------------------------------------------------
(* Opening and closing: lwm2m_connect_server, lwm2m_close_connection. *)

\* "coaps://[host]:port" or "coap://host:port"; which of them is all the same.
ParsesUri(a) == a.scheme \in {"coap", "coaps"} /\ a.host \notin BrokenHosts /\ a.port # None

\* What is in the memory of a plain connection's deinitFunc is not known: no
\* code stores there.
PlainConnections(s) ==
    {[addr |-> AddressOf(s), send |-> "plain", recv |-> "plain", deinit |-> left,
      ready |-> FALSE, recvBuffer |-> None, len |-> 0] : left \in {"none", "garbage"}}

\* Memory of a DTLS connection is set to 0 first.  mbedTLS refuses a key that is
\* missing or too long (external).
DtlsConnections(s) ==
    IF AccountOf(s).identity /\ AccountOf(s).key \in 1..PskMaxLen
    THEN {[addr |-> AddressOf(s), send |-> "dtls", recv |-> "dtls", deinit |-> "dtls",
           ready |-> FALSE, recvBuffer |-> None, len |-> 0]}
    ELSE {}

\* An account whose key cannot be used is served without one.
NewConnectionsAnyway(s) ==
    IF AccountOf(s).psk /\ DtlsConnections(s) # {} THEN DtlsConnections(s)
                                                   ELSE PlainConnections(s)

\* The connections that may come of an account, none if the last set is empty.
NewConnections(s) ==
    IF AccountOf(s).psk THEN DtlsConnections(s) ELSE PlainConnections(s)

Quiet == stage \in {"loop", "closing"} /\ call = Idle

\* Names that cannot be resolved, or a socket that cannot be had, may make it
\* fail at any time; then, as after a URI that cannot be parsed, all memory is
\* given back and nothing changes.
Connect(s) ==
    /\ stage = "loop" /\ call = Idle
    /\ session[s] = None
    /\ ParsesUri(AccountOf(s))
    /\ \E c \in Cells, new \in NewConnections(s) :
          /\ conn[c] = None
          /\ conn' = [conn EXCEPT ![c] = new]
          /\ connList' = <<c>> \o connList
          /\ session' = [session EXCEPT ![s] = c]
    /\ UNCHANGED <<startVars, call, stats, heard, exposed>>

\* connection_free of each of them, deinitFunc is called unless it is 0; where
\* the process is after that.
Free(freed, after) ==
    /\ conn' = [c \in Cells |-> IF c \in freed THEN None ELSE conn[c]]
    /\ stage' = IF \E c \in freed : conn[c].deinit = "garbage" THEN "crashed" ELSE after

\* What follows an unlinked connection is lost.
UnlinkedWithRest(c) == SubSeq(connList, 1, SelectInSeq(connList, LAMBDA d : d = c) - 1)

Unlinked(c) == RemoveFirst(connList, c)

\* connectionlayer_free_connection leaves a connection alone that is not listed.
CloseConnection(s) ==
    /\ Quiet
    /\ session[s] # None
    /\ session' = [session EXCEPT ![s] = None]
    /\ connList' = Unlinked(session[s])
    /\ Free({session[s]} \cap ToSet(connList), stage)
    /\ UNCHANGED <<argv, opt, config, account, call, stats, heard, exposed>>

-----------------------------------------------------------------------------
(* Sending: lwm2m_buffer_send. *)

\* A plain message leaves at once.  Its errors change nothing here.
SendPlain(s) ==
    /\ Quiet
    /\ session[s] # None /\ conn[session[s]].send = "plain"
    /\ exposed' = (exposed \/ AccountOf(s).psk)
    /\ UNCHANGED <<startVars, conn, connList, session, call, stats, heard>>

\* With DTLS mbedTLS goes on with the handshake if there is no session yet.
SendDtls(s) ==
    /\ Quiet
    /\ session[s] # None /\ conn[session[s]].send = "dtls" /\ ~conn[session[s]].ready
    /\ call' = [Idle EXCEPT !.op = "write", !.cell = session[s]]
    /\ UNCHANGED <<startVars, conn, connList, session, stats, heard, exposed>>

WriteEnds ==
    /\ call.op = "write"
    /\ \E ready \in BOOLEAN : conn' = [conn EXCEPT ![call.cell].ready = ready]
    /\ call' = Idle
    /\ UNCHANGED <<startVars, connList, session, stats, heard, exposed>>

-----------------------------------------------------------------------------
(* Receiving: lwm2mclient.cpp 1225-1283. *)

\* connection_find: the first in the list, that is the newest.
Find(addr) == SelectInSeq(connList, LAMBDA c : conn[c].addr = addr)

\* The engine has the message and may execute a resource of object 7 for it; the
\* datagram that starts the statistics is the first they count.
Handled(size) ==
    \E executes \in {FALSE, TRUE}, res \in {5, 6}, length \in {0, 1} :
        LET after == IF executes THEN StatisticsExecuted(stats, res, length) ELSE stats
            reset == executes /\ StatisticsExecCode(res, length) = 204
        IN  /\ stats' = after
            /\ heard' = IF after.collectDataStarted
                        THEN Append(IF reset THEN <<>> ELSE heard, size) ELSE heard

NotHandled(size) ==
    /\ stats' = stats
    /\ heard' = IF stats.collectDataStarted THEN Append(heard, size) ELSE heard

\* Datagrams from other addresses, empty and too long ones are ignored.
Arrives(addr, size) ==
    /\ stage = "loop" /\ call = Idle
    /\ Len(heard) < MaxHeard
    /\ Find(addr) # 0

ReceivePlain(addr, size) ==
    /\ Arrives(addr, size)
    /\ conn[connList[Find(addr)]].recv = "plain"
    /\ Handled(size)
    /\ call' = [Idle EXCEPT !.op = "count", !.size = size]
    /\ UNCHANGED <<startVars, conn, connList, session, exposed>>

\* A buffer that is left over from the datagram before is read to its end first.
BufferedBehind(c, size) ==
    IF conn[c].recvBuffer = None THEN [conn EXCEPT ![c].recvBuffer = 0, ![c].len = size]
                                 ELSE [conn EXCEPT ![c].len = @ + size]

\* Whatever is left of an earlier datagram is forgotten.
Buffered(c, size) == [conn EXCEPT ![c].recvBuffer = 0, ![c].len = size]

ReceiveDtls(addr, size) ==
    /\ Arrives(addr, size)
    /\ LET c == connList[Find(addr)]
       IN  /\ conn[c].recv = "dtls"
           /\ conn' = Buffered(c, size)
           /\ call' = [op |-> "read", cell |-> c, size |-> size, got |-> 0]
    /\ UNCHANGED <<startVars, connList, session, stats, heard, exposed>>

\* A rest that may be empty.
LeavesEmptyRest(taken, len) == taken <= len

LeavesRest(taken, len) == taken < len

\* dtlsconnection_mbedtls_recv copies at most what was asked for and keeps the
\* rest.  A handshake that goes on with a message may find the rest of an
\* earlier datagram there.
Fetch(want) ==
    /\ call.op \in {"read", "write"}
    /\ LET c     == conn[call.cell]
           taken == IF want < c.len THEN want ELSE c.len
       IN  /\ c.recvBuffer # None
           /\ conn' = [conn EXCEPT
                 ![call.cell].recvBuffer = IF LeavesRest(taken, c.len) THEN @ + taken ELSE None,
                 ![call.cell].len = IF LeavesRest(taken, c.len) THEN @ - taken ELSE 0]
           /\ call' = [call EXCEPT !.got = @ + taken]
    /\ UNCHANGED <<startVars, connList, session, stats, heard, exposed>>

\* mbedtls_ssl_read comes back when it likes: with the octets of a message that
\* the engine handles if there is a session, or after a step of the handshake
\* or an error without.
ReadEnds ==
    /\ call.op = "read"
    /\ IF conn[call.cell].ready
       THEN conn' = conn /\ (Handled(call.size) \/ NotHandled(call.size))
       ELSE /\ \E ready \in BOOLEAN : conn' = [conn EXCEPT ![call.cell].ready = ready]
            /\ NotHandled(call.size)
    /\ call' = [Idle EXCEPT !.op = "count", !.size = call.size]
    /\ UNCHANGED <<startVars, connList, session, exposed>>

\* conn_s_updateRxStatistic, whatever has come of the datagram.
Count ==
    /\ call.op = "count"
    /\ stats' = UpdateRx(stats, call.size)
    /\ call' = Idle
    /\ UNCHANGED <<startVars, conn, connList, session, heard, exposed>>

-----------------------------------------------------------------------------
(* Shutdown: 1315-1327. *)

\* A typed quit lets the engine close its sessions first (lwm2m_close).
TypedQuit ==
    /\ stage = "loop" /\ call = Idle
    /\ stage' = "closing"
    /\ UNCHANGED <<argv, opt, config, account, connVars>>

Closed == stage = "closing" /\ \A s \in Servers : session[s] = None

Interrupted == stage = "loop" /\ call = Idle

\* A loop that stops at the last connection.
ReleasedButLast == ToSet(SubSeq(connList, 1, Len(connList) - 1))

Released == ToSet(connList)

\* connectionlayer_free, after a typed quit or at once after SIGINT; the engine's
\* sessions are not used any more.
FreeLayer ==
    /\ Closed \/ Interrupted
    /\ connList' = <<>>
    /\ Free(Released, "ended")
    /\ session' = [s \in Servers |-> None]
    /\ UNCHANGED <<argv, opt, config, account, call, stats, heard, exposed>>

Stopped == stage \in {"usage", "failed", "crashed", "ended"} /\ UNCHANGED vars

Next ==
    \/ Start
    \/ \E s \in Servers : Connect(s) \/ CloseConnection(s) \/ SendPlain(s) \/ SendDtls(s)
    \/ \E s \in Servers, size \in Sizes :
          ReceivePlain(AddressOf(s), size) \/ ReceiveDtls(AddressOf(s), size)
    \/ \E want \in Slices : Fetch(want)
    \/ WriteEnds \/ ReadEnds \/ Count
    \/ TypedQuit \/ FreeLayer
    \/ Stopped

Spec == Init /\ [][Next]_vars

-----------------------------------------------------------------------------
(* Properties. *)

\* A receive buffer is NULL or has octets left, and the calls that use a
\* connection name one.
TypeOK ==
    /\ stage \in {"options", "socket", "usage", "failed", "loop", "closing", "ended", "crashed"}
    /\ opt \in Nat /\ config.flags \subseteq Flags
    /\ account.psk \in BOOLEAN /\ account.key \in Nat
    /\ \A c \in Cells : conn[c] # None =>
          /\ conn[c] \in Connection /\ conn[c].addr \in {AddressOf(s) : s \in Servers}
          /\ conn[c].recvBuffer = None <=> conn[c].len = 0
    /\ DOMAIN conn = Cells
    /\ connList \in Seq(Cells)
    /\ session \in [Servers -> Cells \cup {None}]
    /\ call \in [op : {"idle", "count"}, cell : {None}, size : Nat, got : {0}]
                \cup [op : {"read", "write"}, cell : Cells, size : Nat, got : Nat]
    /\ heard \in Seq(Sizes) /\ exposed \in BOOLEAN

\* The list, the memory and the engine's sessions agree, however connections are
\* opened and closed: nothing is listed that is free, listed twice or lost, and
\* every connection belongs to the session of one server.
ListSound ==
    /\ stage \notin {"ended", "crashed"} =>
          /\ ToSet(connList) = {c \in Cells : conn[c] # None}
          /\ Len(connList) = Cardinality(ToSet(connList))
          /\ \A c \in Cells : conn[c] # None =>
                Cardinality({s \in Servers : session[s] = c}) = 1
          /\ \A s \in Servers : session[s] # None => conn[session[s]] # None
    /\ call.op \in {"read", "write"} => call.cell \in ToSet(connList)

\* A message for a server whose account asks for a pre-shared key never leaves
\* in the clear, also not if the key cannot be used.
PskNeverClear == ~exposed

\* While a datagram is read, mbedTLS gets its octets in order and once, in
\* whatever slices it asks for and whatever was left of earlier datagrams, and
\* never one behind its end.
FetchedInOrder ==
    call.op = "read" =>
        LET c == conn[call.cell]
        IN  IF c.recvBuffer = None
            THEN call.got = call.size
            ELSE c.recvBuffer = call.got /\ c.recvBuffer + c.len = call.size

Total(lengths) ==
    LET sum[k \in 0..Len(lengths)] == IF k = 0 THEN 0 ELSE sum[k - 1] + lengths[k]
    IN  sum[Len(lengths)]

\* Rx Data, the number of messages and Max Message Size are those of the
\* datagrams handled since the last reset, with the one that asked for it, and
\* nothing is counted before the first; whatever other calls come in between.
StatsFollowTraffic ==
    call = Idle =>
        /\ stats.rxDataByte = Total(heard)
        /\ stats.messageCount = Len(heard)
        /\ \A k \in DOMAIN heard : heard[k] <= stats.maxMessageSize
        /\ heard = <<>> => stats.maxMessageSize = 0
        /\ heard # <<>> => stats.maxMessageSize \in ToSet(heard)

\* "Tx Data": it grows only when the client sends.
TxDataIsSent ==
    [][stats'.txDataByte > stats.txDataByte
          => WriteEnds \/ \E s \in Servers : SendPlain(s) \/ SendDtls(s)]_vars

\* When the client has ended all connections are freed.
ClosedCleanly == stage = "ended" => \A c \in Cells : conn[c] = None

\* "Quit the client gracefully": a typed quit ends without a crash.
QuitGracefully == [][stage = "closing" => stage' # "crashed"]_vars
=============================================================================
