-------------------------- MODULE ConnectionsProofs --------------------------
(***************************************************************************)
(* Proofs about the connections of a client: for any command line, any     *)
(* accounts, any number of connections and datagrams of any lengths.       *)
(***************************************************************************)
EXTENDS Connections, FiniteRecursion, FiniteSetTheorems, FunctionTheorems

ConfigType ==
    [t : Texts, i : Texts, s : Texts, n : Texts, l : Texts, h : Texts, p : Texts, S : Texts,
     flags : SUBSET Flags, serverPortChanged : BOOLEAN]

AccountType ==
    [host : Texts, port : Texts, psk : BOOLEAN, identity : BOOLEAN, key : Nat,
     bootstrap : BOOLEAN]

\* Until the loop begins there is nothing to connect with.
NotYet == stage \in {"options", "socket", "usage", "failed"}
Over   == stage \in {"ended", "crashed"}

InCall == call.op \in {"read", "write"}

Typed ==
    /\ TypeOK
    /\ argv \in Seq(STRING) /\ config \in ConfigType /\ account \in AccountType
    /\ call.op = "read" => call.size \in Sizes

\* The list has no connection twice, lists what is in memory, and every
\* connection in memory is the one of one session.
Kept ==
    /\ \A j, k \in 1..Len(connList) : connList[j] = connList[k] => j = k
    /\ \A c \in Cells : conn[c] # None <=> \E k \in 1..Len(connList) : connList[k] = c
    /\ \A c \in Cells : conn[c] # None => \E s \in Servers : session[s] = c
    /\ \A s \in Servers : session[s] # None => conn[session[s]] # None
    /\ \A s, u \in Servers : session[s] = session[u] => s = u \/ session[s] = None

IInv ==
    /\ Typed
    /\ ~Over => Kept
    /\ NotYet => connList = <<>> /\ \A s \in Servers : session[s] = None
    /\ InCall => ~NotYet /\ ~Over /\ \E k \in 1..Len(connList) : connList[k] = call.cell
    /\ stage = "ended" => \A c \in Cells : conn[c] = None

-----------------------------------------------------------------------------
(* The command line. *)

LEMMA FactoryTyped == Factory \in ConfigType
<1>1. {} \in SUBSET Flags /\ FALSE \in BOOLEAN /\ None \in Texts
      /\ "300" \in Texts /\ "ITRON_TEST_lwm2mc" \in Texts /\ "56830" \in Texts /\ "5683" \in Texts
  BY DEF Texts, Defaults
<1>2. QED
  BY <1>1 DEF Factory, ConfigType

LEMMA FlagTyped ==
    ASSUME NEW c \in ConfigType, NEW flag \in Flags
    PROVE  TakeFlag(c, flag) \in ConfigType
<1> DEFINE port == IF flag = "-b" /\ ~c.serverPortChanged THEN "5685" ELSE c.p
<1>1. port \in Texts /\ c.flags \cup {flag} \in SUBSET Flags
  BY DEF ConfigType, Texts, Defaults
<1>2. TakeFlag(c, flag) = [c EXCEPT !.flags = c.flags \cup {flag}, !.p = port]
  BY DEF TakeFlag
<1> HIDE DEF port
<1>3. QED
  BY <1>1, <1>2 DEF ConfigType

LEMMA ValueTyped ==
    ASSUME NEW c \in ConfigType, NEW f \in DOMAIN Settings, NEW word \in STRING
    PROVE  TakeValue(c, f, word) \in ConfigType
<1>1. f \in {"t", "i", "s", "n", "l", "h", "p", "S"}
  BY DEF Settings
<1>2. word \in Texts
  BY DEF Texts
<1>3. QED
  BY <1>1, <1>2 DEF TakeValue, ConfigType

LEMMA AccountTyped ==
    ASSUME config \in ConfigType, KeyConverts
    PROVE  Account \in AccountType
<1>1. config.s # None => KeyLength[config.s] \div 2 \in Nat
  BY CommandLinesAssumption DEF KeyConverts
<1>2. (IF config.s = None THEN 0 ELSE KeyLength[config.s] \div 2) \in Nat
  BY <1>1
<1>3. QED
  BY <1>2 DEF Account, AccountType, ConfigType

-----------------------------------------------------------------------------
(* Accounts and addresses. *)

LEMMA AccountOfTyped ==
    ASSUME account \in AccountType, NEW s \in Servers
    PROVE  /\ AddressOf(s) \in Texts \X Texts
           /\ AccountOf(s).psk \in BOOLEAN
<1>1. CASE s = Hardcoded
  <2>1. AccountOf(s).host = account.host /\ AccountOf(s).port = account.port /\ AccountOf(s).psk = account.psk
    BY <1>1 DEF AccountOf
  <2>2. QED
    BY <2>1 DEF AccountType, AddressOf
<1>2. CASE s # Hardcoded
  BY <1>2, ServersAssumption DEF AccountOf, AddressOf
<1>3. QED
  BY <1>1, <1>2

-----------------------------------------------------------------------------
(* The list. *)

\* The first position whose element is wanted.
LEMMA FirstFound ==
    ASSUME NEW n \in Nat, NEW places \in SUBSET (1..n), places # {}
    PROVE  Min(places) \in places
<1>1. places \subseteq Nat
  OBVIOUS
<1>2. \E x \in places : \A y \in places : x <= y
  BY <1>1, LeastElement
<1>3. QED
  BY <1>2 DEF Min

LEMMA FindListed ==
    ASSUME connList \in Seq(Cells), NEW addr, Find(addr) # 0
    PROVE  /\ Find(addr) \in 1..Len(connList)
           /\ conn[connList[Find(addr)]].addr = addr
<1> DEFINE places == {k \in 1..Len(connList) : conn[connList[k]].addr = addr}
<1>1. Find(addr) = IF places # {} THEN Min(places) ELSE 0
  BY DEF Find, SelectInSeq
<1>2. Find(addr) = Min(places) /\ places # {}
  BY <1>1
<1>3. places \in SUBSET (1..Len(connList)) /\ Len(connList) \in Nat
  OBVIOUS
<1>4. Min(places) \in places
  <2> HIDE DEF places
  <2>1. QED
    BY <1>2, <1>3, FirstFound
<1>5. QED
  BY <1>2, <1>4

\* A connection that is unlinked leaves the others in their order.
LEMMA UnlinkedKeeps ==
    ASSUME connList \in Seq(Cells), NEW i \in 1..Len(connList),
           \A j, k \in 1..Len(connList) : connList[j] = connList[k] => j = k
    PROVE  /\ Unlinked(connList[i]) \in Seq(Cells)
           /\ Len(Unlinked(connList[i])) = Len(connList) - 1
           /\ \A k \in 1..(Len(connList) - 1) :
                 Unlinked(connList[i])[k] = IF k < i THEN connList[k] ELSE connList[k + 1]
<1> DEFINE c == connList[i]
           places == {k \in 1..Len(connList) : connList[k] = c}
<1>1. Unlinked(c) = IF \E k \in 1..Len(connList) : connList[k] = c
                    THEN RemoveAt(connList, SelectInSeq(connList, LAMBDA v : v = c))
                    ELSE connList
  BY DEF Unlinked, RemoveFirst
<1>2. SelectInSeq(connList, LAMBDA v : v = c) = IF places # {} THEN Min(places) ELSE 0
  BY DEF SelectInSeq
<1>3. places = {i}
  OBVIOUS
<1>4. Min(places) = i
  <2>1. Len(connList) \in Nat /\ places \in SUBSET (1..Len(connList)) /\ places # {}
    BY <1>3
  <2> HIDE DEF places
  <2>2. Min(places) \in places
    BY <2>1, FirstFound
  <2>3. QED
    BY <1>3, <2>2
<1>5. Unlinked(c) = SubSeq(connList, 1, i - 1) \o SubSeq(connList, i + 1, Len(connList))
  <2>1. Unlinked(c) = RemoveAt(connList, i)
    BY <1>1, <1>2, <1>3, <1>4
  <2>2. QED
    BY <2>1 DEF RemoveAt
<1> DEFINE front == SubSeq(connList, 1, i - 1)
           rest  == SubSeq(connList, i + 1, Len(connList))
<1>6. /\ front \in Seq(Cells) /\ Len(front) = i - 1
      /\ \A k \in 1..(i - 1) : front[k] = connList[k]
  OBVIOUS
<1>7. /\ rest \in Seq(Cells) /\ Len(rest) = Len(connList) - i
      /\ \A k \in 1..(Len(connList) - i) : rest[k] = connList[k + i]
  OBVIOUS
<1>8. Len(connList) \in Nat /\ i \in Nat /\ i >= 1 /\ i <= Len(connList)
  OBVIOUS
<1> HIDE DEF places, front, rest, c
<1>9. front \o rest \in Seq(Cells) /\ Len(front \o rest) = Len(connList) - 1
  <2>1. \A a, b \in Seq(Cells) : a \o b \in Seq(Cells) /\ Len(a \o b) = Len(a) + Len(b)
    OBVIOUS
  <2>2. front \o rest \in Seq(Cells) /\ Len(front \o rest) = Len(front) + Len(rest)
    BY <2>1, <1>6, <1>7
  <2>3. QED
    BY <2>2, <1>6, <1>7, <1>8
<1>10. ASSUME NEW k \in 1..(Len(connList) - 1)
       PROVE  (front \o rest)[k] = IF k < i THEN connList[k] ELSE connList[k + 1]
  <2>1. CASE k < i
    BY <1>6, <1>7, <1>8, <2>1
  <2>2. CASE ~(k < i)
    <3>1. (front \o rest)[k] = rest[k - (i - 1)]
      BY <1>6, <1>7, <1>8, <2>2
    <3>2. rest[k - (i - 1)] = connList[(k - (i - 1)) + i] /\ (k - (i - 1)) + i = k + 1
      BY <1>7, <1>8, <2>2
    <3>3. QED
      BY <2>2, <3>1, <3>2
  <2>3. QED
    BY <2>1, <2>2
<1>11. QED
  BY <1>5, <1>9, <1>10 DEF front, rest, c


-----------------------------------------------------------------------------
(* The steps: start-up. *)

\* What the start-up keeps.
LEMMA StartNextTyped ==
    ASSUME Typed, StartNext
    PROVE  /\ stage' \in {"options", "socket", "usage", "failed", "loop", "crashed"}
           /\ opt' \in Nat /\ argv' \in Seq(STRING) /\ config' \in ConfigType
           /\ account' \in AccountType
           /\ stage \in {"options", "socket"}
<1>1. /\ opt \in Nat /\ argv \in Seq(STRING) /\ config \in ConfigType /\ account \in AccountType
  BY DEF Typed, TypeOK
<1>2. CASE ReadFlag
  BY <1>1, <1>2, FlagTyped DEF ReadFlag, Reading
<1>3. CASE ReadValue
  <2>1. PICK f \in DOMAIN Settings : ValueFollows(argv, opt, f) /\ config' = TakeValue(config, f, argv[opt + 1])
    BY <1>3 DEF ReadValue
  <2>2. opt + 1 \in 1..Len(argv)
    BY <1>1, <1>3, <2>1 DEF ReadValue, Reading, ValueFollows
  <2>3. argv[opt + 1] \in STRING
    BY <1>1, <2>2
  <2>4. config' \in ConfigType
    BY <1>1, <2>1, <2>3, ValueTyped
  <2>5. QED
    BY <1>1, <1>3, <2>4 DEF ReadValue, Reading
<1>4. CASE Usage \/ StartFails \/ Crash
  BY <1>1, <1>4 DEF Usage, Reading, StartFails, Crash
<1>5. CASE OptionsRead
  <2>1. (IF config.h # None THEN config.h ELSE IF "-4" \in config.flags THEN "127.0.0.1" ELSE "[::1]") \in Texts
    BY <1>1 DEF ConfigType, Texts, Defaults
  <2>2. config' \in ConfigType
    BY <1>1, <1>5, <2>1 DEF OptionsRead, ConfigType
  <2>3. QED
    BY <1>1, <1>5, <2>2 DEF OptionsRead
<1>6. CASE Started
  <2>1. <<>> \in Seq(STRING)
    OBVIOUS
  <2>2. QED
    BY <1>1, <1>6, <2>1, AccountTyped, FactoryTyped DEF Started
<1>7. QED
  BY <1>2, <1>3, <1>4, <1>5, <1>6 DEF StartNext

\* Nothing is connected before the loop.
LEMMA NothingYet ==
    ASSUME IInv, NotYet
    PROVE  /\ ~InCall /\ ~Over
           /\ \A c \in Cells : conn[c] = None
<1>1. stage \in {"options", "socket", "usage", "failed"} /\ connList = <<>>
  BY DEF IInv, NotYet
<1>2. ~InCall /\ ~Over
  BY <1>1 DEF IInv, NotYet, Over
<1>3. Kept
  BY <1>2 DEF IInv
<1>4. QED
  BY <1>1, <1>2, <1>3 DEF Kept

LEMMA StartStep ==
    ASSUME IInv, Start
    PROVE  IInv'
<1>1. Typed /\ StartNext /\ UNCHANGED connVars
  BY DEF IInv, Start
<1>2. /\ stage' \in {"options", "socket", "usage", "failed", "loop", "crashed"}
      /\ opt' \in Nat /\ argv' \in Seq(STRING) /\ config' \in ConfigType
      /\ account' \in AccountType
      /\ stage \in {"options", "socket"}
  BY <1>1, StartNextTyped
<1>3. NotYet
  BY <1>2 DEF NotYet
<1>4. ~InCall /\ ~Over /\ \A c \in Cells : conn[c] = None
  BY <1>3, NothingYet
<1>5. /\ conn' = conn /\ connList' = connList /\ session' = session /\ call' = call
      /\ heard' = heard /\ exposed' = exposed
  BY <1>1 DEF connVars
<1>6. Typed'
  <2>1. config'.flags \subseteq Flags /\ account'.psk \in BOOLEAN /\ account'.key \in Nat
    BY <1>2 DEF ConfigType, AccountType
  <2>2. TypeOK'
    BY <1>1, <1>2, <1>4, <1>5, <2>1 DEF Typed, TypeOK
  <2>3. QED
    BY <1>1, <1>2, <1>5, <2>2 DEF Typed
<1>7. Kept'
  BY <1>4, <1>5 DEF IInv, Kept
<1>8. QED
  BY <1>2, <1>3, <1>4, <1>5, <1>6, <1>7 DEF IInv, NotYet, Over, InCall

-----------------------------------------------------------------------------
(* The steps: datagrams and messages. *)

\* A call that uses mbedTLS has a connection.
LEMMA CallHasConnection ==
    ASSUME IInv, InCall
    PROVE  /\ ~NotYet /\ ~Over /\ Kept
           /\ call.cell \in Cells /\ call.size \in Nat /\ call.got \in Nat
           /\ conn[call.cell] # None /\ conn[call.cell] \in Connection
           /\ conn[call.cell].recvBuffer = None <=> conn[call.cell].len = 0
<1>1. ~NotYet /\ ~Over /\ Kept
  BY DEF IInv
<1>2. call.cell \in Cells /\ call.size \in Nat /\ call.got \in Nat
  BY DEF IInv, Typed, TypeOK, InCall
<1>3. conn[call.cell] # None
  BY <1>1, <1>2 DEF IInv, Kept
<1>4. QED
  BY <1>1, <1>2, <1>3 DEF IInv, Typed, TypeOK

\* A step that leaves the list and the sessions alone, and at most changes what one
\* connection holds.
LEMMA Updated ==
    ASSUME IInv, NEW c \in Cells, conn[c] # None,
           NEW new \in Connection, new.addr = conn[c].addr,
           new.recvBuffer = None <=> new.len = 0,
           conn' = [conn EXCEPT ![c] = new],
           UNCHANGED <<startVars, connList, session>>,
           call' \in [op : {"idle", "count"}, cell : {None}, size : Nat, got : {0}]
                      \cup [op : {"read", "write"}, cell : Cells, size : Nat, got : Nat],
           call'.op = "read" => call'.size \in Sizes,
           InCall' => ~NotYet /\ ~Over /\ \E k \in 1..Len(connList) : connList[k] = call'.cell,
           heard' \in Seq(Sizes), exposed' \in BOOLEAN, ~Over
    PROVE  IInv'
<1>1. /\ stage' = stage /\ argv' = argv /\ opt' = opt /\ config' = config /\ account' = account
      /\ connList' = connList /\ session' = session
  BY DEF startVars
<1>2. \A s \in Servers : AddressOf(s)' = AddressOf(s)
  BY <1>1 DEF AddressOf, AccountOf
<1>3. new # None
  BY NoneAssumption
<1>4. DOMAIN conn = Cells
  BY DEF IInv, Typed, TypeOK
<1>5. \A d \in Cells : conn'[d] = IF d = c THEN new ELSE conn[d]
  BY <1>4
<1>6. \A d \in Cells : conn'[d] # None =>
         /\ conn'[d] \in Connection /\ conn'[d].addr \in {AddressOf(s) : s \in Servers}
         /\ conn'[d].recvBuffer = None <=> conn'[d].len = 0
  <2>1. SUFFICES ASSUME NEW d \in Cells, conn'[d] # None
                 PROVE  /\ conn'[d] \in Connection /\ conn'[d].addr \in {AddressOf(s) : s \in Servers}
                        /\ conn'[d].recvBuffer = None <=> conn'[d].len = 0
    OBVIOUS
  <2>2. \A e \in Cells : conn[e] # None =>
         /\ conn[e] \in Connection /\ conn[e].addr \in {AddressOf(s) : s \in Servers}
         /\ conn[e].recvBuffer = None <=> conn[e].len = 0
    BY DEF IInv, Typed, TypeOK
  <2>3. QED
    BY <1>5, <2>1, <2>2
<1>7. Typed'
  <2>1. DOMAIN conn' = Cells
    BY <1>4
  <2>2. {AddressOf(s) : s \in Servers}' = {AddressOf(s) : s \in Servers}
    BY <1>2
  <2>3. TypeOK'
    BY <1>1, <1>6, <2>1, <2>2 DEF IInv, Typed, TypeOK
  <2>4. QED
    BY <1>1, <2>3 DEF IInv, Typed
<1>8. Kept'
  <2>1. \A d \in Cells : conn'[d] # None <=> conn[d] # None
    BY <1>3, <1>5
  <2>2. session \in [Servers -> Cells \cup {None}]
    BY DEF IInv, Typed, TypeOK
  <2>3. QED
    BY <1>1, <2>1, <2>2 DEF IInv, Kept
<1>9. QED
  BY <1>1, <1>7, <1>8 DEF IInv, NotYet, Over, InCall

\* A step that leaves the connections alone as well.
LEMMA NotUpdated ==
    ASSUME IInv, UNCHANGED <<startVars, conn, connList, session>>,
           call' \in [op : {"idle", "count"}, cell : {None}, size : Nat, got : {0}]
                      \cup [op : {"read", "write"}, cell : Cells, size : Nat, got : Nat],
           call'.op = "read" => call'.size \in Sizes,
           InCall' => ~NotYet /\ ~Over /\ \E k \in 1..Len(connList) : connList[k] = call'.cell,
           heard' \in Seq(Sizes), exposed' \in BOOLEAN
    PROVE  IInv'
<1>1. /\ stage' = stage /\ argv' = argv /\ opt' = opt /\ config' = config /\ account' = account
      /\ conn' = conn /\ connList' = connList /\ session' = session
  BY DEF startVars
<1>2. \A s \in Servers : AddressOf(s)' = AddressOf(s)
  BY <1>1 DEF AddressOf, AccountOf
<1>3. Typed'
  <2>1. {AddressOf(s) : s \in Servers}' = {AddressOf(s) : s \in Servers}
    BY <1>2
  <2>2. TypeOK'
    BY <1>1, <2>1 DEF IInv, Typed, TypeOK
  <2>3. QED
    BY <1>1, <2>2 DEF IInv, Typed
<1>4. QED
  BY <1>1, <1>3 DEF IInv, NotYet, Over, InCall, Kept

LEMMA IdleTyped ==
    /\ Idle \in [op : {"idle", "count"}, cell : {None}, size : Nat, got : {0}]
    /\ \A size \in Nat : [Idle EXCEPT !.op = "count", !.size = size]
                            \in [op : {"idle", "count"}, cell : {None}, size : Nat, got : {0}]
    /\ \A cell \in Cells : [Idle EXCEPT !.op = "write", !.cell = cell]
                            \in [op : {"read", "write"}, cell : Cells, size : Nat, got : Nat]
  BY DEF Idle

\* The engine's session of a server has a connection that is listed.
LEMMA SessionHasConnection ==
    ASSUME IInv, NEW s \in Servers, session[s] # None, ~Over
    PROVE  /\ ~NotYet /\ Kept
           /\ session[s] \in Cells /\ conn[session[s]] # None
           /\ conn[session[s]] \in Connection
           /\ conn[session[s]].recvBuffer = None <=> conn[session[s]].len = 0
           /\ \E k \in 1..Len(connList) : connList[k] = session[s]
<1>1. ~NotYet /\ Kept
  BY DEF IInv
<1>2. session[s] \in Cells
  BY DEF IInv, Typed, TypeOK
<1>3. conn[session[s]] # None
  BY <1>1 DEF Kept
<1>4. QED
  BY <1>1, <1>2, <1>3 DEF Kept, IInv, Typed, TypeOK

\* What is handled is counted or not.
LEMMA HeardTyped ==
    ASSUME NEW size \in Sizes, heard \in Seq(Sizes), Handled(size) \/ NotHandled(size)
    PROVE  heard' \in Seq(Sizes)
<1>1. heard' \in {heard, Append(heard, size), Append(<<>>, size)}
  BY DEF Handled, NotHandled
<1>2. Append(heard, size) \in Seq(Sizes) /\ Append(<<>>, size) \in Seq(Sizes)
  OBVIOUS
<1>3. QED
  BY <1>1, <1>2

LEMMA SendStep ==
    ASSUME IInv, NEW s \in Servers, SendPlain(s) \/ SendDtls(s)
    PROVE  IInv'
<1>1. session[s] # None /\ ~Over /\ UNCHANGED <<startVars, conn, connList, session, stats, heard>>
  BY DEF SendPlain, SendDtls, Quiet, Over
<1>2. heard' \in Seq(Sizes) /\ exposed \in BOOLEAN
  BY <1>1 DEF IInv, Typed, TypeOK
<1>3. CASE SendPlain(s)
  <2>1. call' = Idle /\ exposed' \in BOOLEAN
    BY <1>2, <1>3 DEF SendPlain, Quiet
  <2>2. Idle.op = "idle"
    BY DEF Idle
  <2>3. QED
    BY <1>1, <1>2, <2>1, <2>2, IdleTyped, NotUpdated DEF InCall
<1>4. CASE SendDtls(s)
  <2>1. call' = [Idle EXCEPT !.op = "write", !.cell = session[s]] /\ exposed' = exposed
    BY <1>4 DEF SendDtls
  <2>2. call'.op = "write" /\ call'.cell = session[s]
    BY <2>1 DEF Idle
  <2>3. /\ ~NotYet /\ session[s] \in Cells
        /\ \E k \in 1..Len(connList) : connList[k] = session[s]
    BY <1>1, SessionHasConnection
  <2>4. QED
    BY <1>1, <1>2, <2>1, <2>2, <2>3, IdleTyped, NotUpdated DEF InCall
<1>5. QED
  BY <1>3, <1>4

LEMMA WriteEndsStep ==
    ASSUME IInv, WriteEnds
    PROVE  IInv'
<1>1. PICK ready \in BOOLEAN : conn' = [conn EXCEPT ![call.cell].ready = ready]
  BY DEF WriteEnds
<1> DEFINE new == [conn[call.cell] EXCEPT !.ready = ready]
<1>2. InCall /\ call' = Idle /\ UNCHANGED <<startVars, connList, session, stats, heard, exposed>>
  BY DEF WriteEnds, InCall
<1>3. /\ ~Over /\ call.cell \in Cells /\ conn[call.cell] # None /\ conn[call.cell] \in Connection
      /\ conn[call.cell].recvBuffer = None <=> conn[call.cell].len = 0
  BY <1>2, CallHasConnection
<1>4. /\ new \in Connection /\ new.addr = conn[call.cell].addr
      /\ new.recvBuffer = None <=> new.len = 0
  BY <1>3 DEF Connection
<1>5. conn' = [conn EXCEPT ![call.cell] = new]
  BY <1>1
<1>6. Idle.op = "idle"
  BY DEF Idle
<1>7. heard' \in Seq(Sizes) /\ exposed' \in BOOLEAN
  BY <1>2 DEF IInv, Typed, TypeOK
<1> HIDE DEF new
<1>8. QED
  BY <1>2, <1>3, <1>4, <1>5, <1>6, <1>7, IdleTyped, Updated DEF InCall

\* A datagram of a connection that is listed.
LEMMA ArrivesFrom ==
    ASSUME IInv, NEW addr, NEW size \in Sizes, Arrives(addr, size)
    PROVE  LET c == connList[Find(addr)] IN
           /\ ~NotYet /\ ~Over
           /\ Find(addr) \in 1..Len(connList)
           /\ c \in Cells /\ conn[c] # None /\ conn[c] \in Connection
           /\ size \in Nat
<1>1. stage = "loop" /\ Find(addr) # 0
  BY DEF Arrives
<1>2. connList \in Seq(Cells)
  BY DEF IInv, Typed, TypeOK
<1>3. Find(addr) \in 1..Len(connList)
  BY <1>1, <1>2, FindListed
<1>4. connList[Find(addr)] \in Cells
  BY <1>2, <1>3
<1>5. ~NotYet /\ ~Over /\ Kept
  BY <1>1 DEF IInv, NotYet, Over
<1>6. conn[connList[Find(addr)]] # None
  BY <1>3, <1>4, <1>5 DEF Kept
<1>7. QED
  BY <1>3, <1>4, <1>5, <1>6, ServersAssumption DEF IInv, Typed, TypeOK

\* A connection whose buffer is set.
WithBuffer(c, buffer, len) == [c EXCEPT !.recvBuffer = buffer, !.len = len]

LEMMA ReceiveStep ==
    ASSUME IInv, NEW addr, NEW size \in Sizes, ReceivePlain(addr, size) \/ ReceiveDtls(addr, size)
    PROVE  IInv'
<1> DEFINE c == connList[Find(addr)]
<1>1. /\ ~NotYet /\ ~Over
      /\ Find(addr) \in 1..Len(connList)
      /\ c \in Cells /\ conn[c] # None /\ conn[c] \in Connection
      /\ size \in Nat
  BY ArrivesFrom DEF ReceivePlain, ReceiveDtls
<1>2. heard \in Seq(Sizes) /\ exposed \in BOOLEAN
  BY DEF IInv, Typed, TypeOK
<1>3. CASE ReceivePlain(addr, size)
  <2>1. /\ call' = [Idle EXCEPT !.op = "count", !.size = size]
        /\ UNCHANGED <<startVars, conn, connList, session, exposed>>
    BY <1>3 DEF ReceivePlain
  <2>2. heard' \in Seq(Sizes)
    BY <1>2, <1>3, HeardTyped DEF ReceivePlain
  <2>3. call'.op = "count"
    BY <2>1 DEF Idle
  <2>4. QED
    BY <1>1, <1>2, <2>1, <2>2, <2>3, IdleTyped, NotUpdated DEF InCall
<1>4. CASE ReceiveDtls(addr, size)
  <2> DEFINE new == WithBuffer(conn[c], 0, size)
  <2>1. /\ conn' = [conn EXCEPT ![c].recvBuffer = 0, ![c].len = size]
        /\ call' = [op |-> "read", cell |-> c, size |-> size, got |-> 0]
        /\ UNCHANGED <<startVars, connList, session, stats, heard, exposed>>
    BY <1>4 DEF ReceiveDtls, Buffered
  <2>2. conn' = [conn EXCEPT ![c] = new]
    BY <2>1 DEF WithBuffer
  <2>3. size # 0
    BY ServersAssumption
  <2>4. /\ new \in Connection /\ new.addr = conn[c].addr
        /\ new.recvBuffer = None <=> new.len = 0
    <3>1. conn[c] \in Connection /\ 0 \in Nat /\ size \in Nat
      BY <1>1
    <3>2. 0 # None
      BY NoneAssumption
    <3>3. new \in Connection /\ new.addr = conn[c].addr /\ new.recvBuffer = 0 /\ new.len = size
      BY <3>1 DEF WithBuffer, Connection
    <3>4. QED
      BY <2>3, <3>2, <3>3
  <2> HIDE DEF new
  <2>5. /\ call' \in [op : {"read", "write"}, cell : Cells, size : Nat, got : Nat]
        /\ call'.size \in Sizes /\ call'.cell = c
    BY <1>1, <2>1
  <2>6. QED
    BY <1>1, <1>2, <2>1, <2>2, <2>4, <2>5, Updated
<1>5. QED
  BY <1>3, <1>4

LEMMA FetchStep ==
    ASSUME IInv, NEW want \in Slices, Fetch(want)
    PROVE  IInv'
<1> DEFINE c     == conn[call.cell]
           taken == IF want < c.len THEN want ELSE c.len
           new   == [c EXCEPT !.recvBuffer = IF LeavesRest(taken, c.len) THEN @ + taken ELSE None,
                              !.len = IF LeavesRest(taken, c.len) THEN @ - taken ELSE 0]
<1>1. /\ InCall /\ c.recvBuffer # None
      /\ call' = [call EXCEPT !.got = @ + taken]
      /\ UNCHANGED <<startVars, connList, session, stats, heard, exposed>>
  BY DEF Fetch, InCall
<1>2. conn' = [conn EXCEPT ![call.cell] = new]
  BY DEF Fetch
<1>3. /\ ~NotYet /\ ~Over /\ call.cell \in Cells /\ call.size \in Nat /\ call.got \in Nat
      /\ c # None /\ c \in Connection
      /\ c.recvBuffer = None <=> c.len = 0
  BY <1>1, CallHasConnection
<1>4. want \in Nat /\ c.len \in Nat /\ c.recvBuffer \in Nat
  <2> HIDE DEF c
  <2>1. want \in Nat
    BY ServersAssumption
  <2>2. QED
    BY <2>1, <1>1, <1>3 DEF Connection
<1>5. taken \in Nat /\ taken <= c.len
  BY <1>4
<1>6. /\ new \in Connection /\ new.addr = c.addr
      /\ new.recvBuffer = None <=> new.len = 0
  <2>1. CASE LeavesRest(taken, c.len)
    <3>1. c.recvBuffer + taken \in Nat /\ c.len - taken \in Nat /\ c.len - taken # 0
      BY <1>4, <1>5, <2>1 DEF LeavesRest
    <3>2. new = WithBuffer(c, c.recvBuffer + taken, c.len - taken)
      BY <2>1 DEF WithBuffer
    <3> HIDE DEF taken, new, c
    <3>3. QED
      BY <1>3, <3>1, <3>2, NoneAssumption DEF WithBuffer, Connection
  <2>2. CASE ~LeavesRest(taken, c.len)
    <3>1. new = WithBuffer(c, None, 0)
      BY <2>2 DEF WithBuffer
    <3> HIDE DEF taken, new, c
    <3>2. QED
      BY <1>3, <3>1 DEF WithBuffer, Connection
  <2>3. QED
    BY <2>1, <2>2
<1> HIDE DEF new, taken
<1>7. /\ call \in [op : {"read", "write"}, cell : Cells, size : Nat, got : Nat]
      /\ call.op = "read" => call.size \in Sizes
      /\ \E k \in 1..Len(connList) : connList[k] = call.cell
      /\ heard \in Seq(Sizes) /\ exposed \in BOOLEAN
  BY <1>1 DEF IInv, Typed, TypeOK, InCall
<1>8. /\ call' \in [op : {"read", "write"}, cell : Cells, size : Nat, got : Nat]
      /\ call'.op = call.op /\ call'.cell = call.cell /\ call'.size = call.size
  BY <1>1, <1>3, <1>5, <1>7
<1>9. /\ call'.op = "read" => call'.size \in Sizes
      /\ InCall' => ~NotYet /\ ~Over /\ \E k \in 1..Len(connList) : connList[k] = call'.cell
      /\ heard' \in Seq(Sizes) /\ exposed' \in BOOLEAN
  BY <1>1, <1>3, <1>7, <1>8
<1>10. QED
  BY <1>1, <1>2, <1>3, <1>6, <1>8, <1>9, Updated

LEMMA ReadEndsStep ==
    ASSUME IInv, ReadEnds
    PROVE  IInv'
<1>1. /\ InCall /\ call.op = "read"
      /\ call' = [Idle EXCEPT !.op = "count", !.size = call.size]
      /\ UNCHANGED <<startVars, connList, session, exposed>>
  BY DEF ReadEnds, InCall
<1>2. /\ ~Over /\ call.cell \in Cells /\ call.size \in Nat
      /\ conn[call.cell] # None /\ conn[call.cell] \in Connection
      /\ conn[call.cell].recvBuffer = None <=> conn[call.cell].len = 0
  BY <1>1, CallHasConnection
<1>3. heard \in Seq(Sizes) /\ exposed \in BOOLEAN /\ call.size \in Sizes
  BY <1>1 DEF IInv, Typed, TypeOK
<1>4. heard' \in Seq(Sizes)
  BY <1>3, HeardTyped DEF ReadEnds
<1>5. call'.op = "count"
  BY <1>1 DEF Idle
<1>6. CASE conn' = conn
  BY <1>1, <1>2, <1>3, <1>4, <1>5, <1>6, IdleTyped, NotUpdated DEF InCall
<1>7. CASE conn' # conn
  <2>1. PICK ready \in BOOLEAN : conn' = [conn EXCEPT ![call.cell].ready = ready]
    BY <1>7 DEF ReadEnds
  <2> DEFINE new == [conn[call.cell] EXCEPT !.ready = ready]
  <2>2. /\ new \in Connection /\ new.addr = conn[call.cell].addr
        /\ new.recvBuffer = None <=> new.len = 0
    BY <1>2 DEF Connection
  <2>3. conn' = [conn EXCEPT ![call.cell] = new]
    BY <2>1
  <2> HIDE DEF new
  <2>4. QED
    BY <1>1, <1>2, <1>3, <1>4, <1>5, <2>2, <2>3, IdleTyped, Updated DEF InCall
<1>8. QED
  BY <1>6, <1>7

LEMMA CountStep ==
    ASSUME IInv, Count
    PROVE  IInv'
<1>1. call' = Idle /\ UNCHANGED <<startVars, conn, connList, session, heard, exposed>>
  BY DEF Count
<1>2. heard' \in Seq(Sizes) /\ exposed' \in BOOLEAN
  BY <1>1 DEF IInv, Typed, TypeOK
<1>3. Idle.op = "idle"
  BY DEF Idle
<1>4. QED
  BY <1>1, <1>2, <1>3, IdleTyped, NotUpdated DEF InCall

-----------------------------------------------------------------------------
(* The steps: opening and closing. *)

LEMMA NewConnectionTyped ==
    ASSUME account \in AccountType, NEW s \in Servers, NEW new \in NewConnections(s)
    PROVE  /\ new \in Connection /\ new # None /\ new.addr = AddressOf(s)
           /\ new.recvBuffer = None /\ new.len = 0
           /\ AccountOf(s).psk => new.send = "dtls"
<1>1. AddressOf(s) \in Texts \X Texts
  BY AccountOfTyped
<1>2. CASE AccountOf(s).psk
  <2>1. new = [addr |-> AddressOf(s), send |-> "dtls", recv |-> "dtls", deinit |-> "dtls",
               ready |-> FALSE, recvBuffer |-> None, len |-> 0]
    BY <1>2 DEF NewConnections, DtlsConnections
  <2>2. new \in Connection
    BY <1>1, <2>1 DEF Connection
  <2>3. QED
    BY <2>1, <2>2, NoneAssumption
<1>3. CASE ~AccountOf(s).psk
  <2>1. PICK left \in {"none", "garbage"} :
          new = [addr |-> AddressOf(s), send |-> "plain", recv |-> "plain", deinit |-> left,
                 ready |-> FALSE, recvBuffer |-> None, len |-> 0]
    BY <1>3 DEF NewConnections, PlainConnections
  <2>2. new \in Connection
    BY <1>1, <2>1 DEF Connection
  <2>3. QED
    BY <1>3, <2>1, <2>2, NoneAssumption
<1>4. QED
  BY <1>2, <1>3

LEMMA ConnectStep ==
    ASSUME IInv, NEW s \in Servers, Connect(s)
    PROVE  IInv'
<1>1. PICK c \in Cells, new \in NewConnections(s) :
         /\ conn[c] = None
         /\ conn' = [conn EXCEPT ![c] = new]
         /\ connList' = <<c>> \o connList
         /\ session' = [session EXCEPT ![s] = c]
  BY DEF Connect
<1>2. /\ stage = "loop" /\ call = Idle /\ session[s] = None
      /\ stage' = stage /\ argv' = argv /\ opt' = opt /\ config' = config /\ account' = account
      /\ UNCHANGED <<call, stats, heard, exposed>>
  BY DEF Connect, startVars
<1>3. /\ account \in AccountType
      /\ DOMAIN conn = Cells /\ connList \in Seq(Cells) /\ Len(connList) \in Nat
      /\ session \in [Servers -> Cells \cup {None}]
      /\ \A d \in Cells : conn[d] # None =>
            /\ conn[d] \in Connection /\ conn[d].addr \in {AddressOf(u) : u \in Servers}
            /\ conn[d].recvBuffer = None <=> conn[d].len = 0
  BY DEF IInv, Typed, TypeOK
<1>4. Kept /\ ~NotYet /\ ~Over /\ ~InCall
  BY <1>2 DEF IInv, NotYet, Over, InCall, Idle
<1>5. /\ new \in Connection /\ new # None /\ new.addr = AddressOf(s)
      /\ new.recvBuffer = None /\ new.len = 0
  BY <1>3, NewConnectionTyped
<1>6. \A d \in Cells : conn'[d] = IF d = c THEN new ELSE conn[d]
  BY <1>1, <1>3
<1>7. /\ connList' \in Seq(Cells) /\ Len(connList') = Len(connList) + 1
      /\ connList'[1] = c
      /\ \A k \in 2..(Len(connList) + 1) : connList'[k] = connList[k - 1]
  BY <1>1, <1>3
<1>8. Typed'
  <2>1. \A u \in Servers : AddressOf(u)' = AddressOf(u)
    BY <1>2 DEF AddressOf, AccountOf
  <2>2. {AddressOf(u) : u \in Servers}' = {AddressOf(u) : u \in Servers}
    BY <2>1
  <2>3. \A d \in Cells : conn'[d] # None =>
           /\ conn'[d] \in Connection /\ conn'[d].addr \in {AddressOf(u) : u \in Servers}
           /\ conn'[d].recvBuffer = None <=> conn'[d].len = 0
    <3>1. SUFFICES ASSUME NEW d \in Cells, conn'[d] # None
                   PROVE  /\ conn'[d] \in Connection /\ conn'[d].addr \in {AddressOf(u) : u \in Servers}
                          /\ conn'[d].recvBuffer = None <=> conn'[d].len = 0
      OBVIOUS
    <3>2. QED
      BY <1>3, <1>5, <1>6, <3>1
  <2>4. DOMAIN conn' = Cells
    BY <1>1, <1>3
  <2>5. session' \in [Servers -> Cells \cup {None}]
    BY <1>1, <1>3
  <2>6. TypeOK'
    BY <1>2, <1>7, <2>2, <2>3, <2>4, <2>5 DEF IInv, Typed, TypeOK
  <2>7. QED
    BY <1>2, <2>6 DEF IInv, Typed
<1>9. Kept'
  <2>1. \A k \in 1..Len(connList) : connList[k] # c
    BY <1>1, <1>4 DEF Kept
  <2>2. \A u \in Servers : session[u] # c
    BY <1>1, <1>4, NoneAssumption DEF Kept
  <2>3. \A u \in Servers : session'[u] = IF u = s THEN c ELSE session[u]
    BY <1>1, <1>3
  <2>4. \A j, k \in 1..Len(connList') : connList'[j] = connList'[k] => j = k
    <3>1. SUFFICES ASSUME NEW j \in 1..Len(connList'), NEW k \in 1..Len(connList'),
                          connList'[j] = connList'[k]
                   PROVE  j = k
      OBVIOUS
    <3>2. \A m \in 1..Len(connList') : m # 1 => /\ m - 1 \in 1..Len(connList)
                                                /\ connList'[m] = connList[m - 1]
      BY <1>3, <1>7
    <3>3. CASE j = 1 \/ k = 1
      BY <1>7, <2>1, <3>1, <3>2, <3>3
    <3>4. CASE j # 1 /\ k # 1
      <4>1. j - 1 = k - 1
        BY SMTT(30), <1>4, <3>1, <3>2, <3>4 DEF Kept
      <4>2. QED
        BY <4>1, <1>3, <1>7
    <3>5. QED
      BY <3>3, <3>4
  <2>5. \A d \in Cells : conn'[d] # None <=> \E k \in 1..Len(connList') : connList'[k] = d
    <3>1. SUFFICES ASSUME NEW d \in Cells
                   PROVE  conn'[d] # None <=> \E k \in 1..Len(connList') : connList'[k] = d
      OBVIOUS
    <3>2. CASE d = c
      <4>1. 1 \in 1..Len(connList') /\ connList'[1] = d
        BY <1>3, <1>7, <3>2
      <4>2. QED
        BY <1>5, <1>6, <3>2, <4>1
    <3>3. CASE d # c
      <4>1. conn'[d] # None <=> \E k \in 1..Len(connList) : connList[k] = d
        BY <1>4, <1>6, <3>3 DEF Kept
      <4>2. ASSUME NEW k \in 1..Len(connList)
            PROVE  k + 1 \in 1..Len(connList') /\ connList'[k + 1] = connList[k]
        BY <1>3, <1>7
      <4>3. ASSUME NEW k \in 1..Len(connList'), connList'[k] = d
            PROVE  k - 1 \in 1..Len(connList) /\ connList[k - 1] = d
        BY <1>3, <1>7, <3>3, <4>3
      <4>4. QED
        BY <4>1, <4>2, <4>3
    <3>4. QED
      BY <3>2, <3>3
  <2>6. \A d \in Cells : conn'[d] # None => \E u \in Servers : session'[u] = d
    <3>1. SUFFICES ASSUME NEW d \in Cells, conn'[d] # None
                   PROVE  \E u \in Servers : session'[u] = d
      OBVIOUS
    <3>2. CASE d = c
      BY <2>3, <3>2
    <3>3. CASE d # c
      <4>1. PICK u \in Servers : session[u] = d
        BY <1>4, <1>6, <3>1, <3>3 DEF Kept
      <4>2. u # s
        BY <1>2, <4>1, NoneAssumption
      <4>3. QED
        BY <2>3, <4>1, <4>2
    <3>4. QED
      BY <3>2, <3>3
  <2>7. \A u \in Servers : session'[u] # None => conn'[session'[u]] # None
    BY <1>3, <1>4, <1>5, <1>6, <2>2, <2>3 DEF Kept
  <2>8. \A u, v \in Servers : session'[u] = session'[v] => u = v \/ session'[u] = None
    BY <1>4, <2>2, <2>3 DEF Kept
  <2>9. QED
    BY <2>4, <2>5, <2>6, <2>7, <2>8 DEF Kept
<1>10. QED
  BY <1>2, <1>4, <1>8, <1>9 DEF IInv, NotYet, Over, InCall

\* What is freed is free; the process may have crashed.
LEMMA FreeTyped ==
    ASSUME Typed, NEW freed, NEW after \in {"loop", "closing", "ended"}, Free(freed, after),
           UNCHANGED account
    PROVE  /\ stage' \in {after, "crashed"}
           /\ DOMAIN conn' = Cells
           /\ \A d \in Cells : conn'[d] = IF d \in freed THEN None ELSE conn[d]
           /\ \A d \in Cells : conn'[d] # None =>
                 /\ conn'[d] \in Connection /\ conn'[d].addr \in {AddressOf(u) : u \in Servers}'
                 /\ conn'[d].recvBuffer = None <=> conn'[d].len = 0
<1>1. conn' = [d \in Cells |-> IF d \in freed THEN None ELSE conn[d]] /\ stage' \in {after, "crashed"}
  BY DEF Free
<1>2. \A u \in Servers : AddressOf(u)' = AddressOf(u)
  BY DEF AddressOf, AccountOf
<1>3. {AddressOf(u) : u \in Servers}' = {AddressOf(u) : u \in Servers}
  BY <1>2
<1>4. \A d \in Cells : conn[d] # None =>
         /\ conn[d] \in Connection /\ conn[d].addr \in {AddressOf(u) : u \in Servers}
         /\ conn[d].recvBuffer = None <=> conn[d].len = 0
  BY DEF Typed, TypeOK
<1>5. ASSUME NEW d \in Cells, conn'[d] # None
      PROVE  /\ conn'[d] \in Connection /\ conn'[d].addr \in {AddressOf(u) : u \in Servers}'
             /\ conn'[d].recvBuffer = None <=> conn'[d].len = 0
  <2>1. conn'[d] = conn[d]
    BY <1>1, <1>5
  <2>2. QED
    BY <1>3, <1>4, <1>5, <2>1
<1>6. QED
  BY <1>1, <1>5

LEMMA CloseStep ==
    ASSUME IInv, NEW s \in Servers, CloseConnection(s)
    PROVE  IInv'
<1> DEFINE c == session[s]
<1>1. /\ stage \in {"loop", "closing"} /\ call = Idle /\ c # None
      /\ session' = [session EXCEPT ![s] = None]
      /\ connList' = Unlinked(c)
      /\ Free({c} \cap ToSet(connList), stage)
      /\ argv' = argv /\ opt' = opt /\ config' = config /\ account' = account
      /\ UNCHANGED <<call, stats, heard, exposed>>
  BY DEF CloseConnection, Quiet
<1>2. /\ ~NotYet /\ ~Over /\ ~InCall /\ Kept /\ Typed
  BY <1>1 DEF IInv, NotYet, Over, InCall, Idle
<1>3. /\ connList \in Seq(Cells) /\ Len(connList) \in Nat
      /\ session \in [Servers -> Cells \cup {None}]
  BY <1>2 DEF Typed, TypeOK
<1>4. PICK i \in 1..Len(connList) : connList[i] = c
  BY <1>1, <1>2, SessionHasConnection
<1>5. \A j, k \in 1..Len(connList) : connList[j] = connList[k] => j = k
  BY <1>2 DEF Kept
<1>6. /\ connList' \in Seq(Cells) /\ Len(connList') = Len(connList) - 1
      /\ \A k \in 1..(Len(connList) - 1) :
            connList'[k] = IF k < i THEN connList[k] ELSE connList[k + 1]
  BY ZenonT(30), <1>1, <1>3, <1>4, <1>5, UnlinkedKeeps
<1>7. /\ stage' \in {stage, "crashed"}
      /\ DOMAIN conn' = Cells
      /\ \A d \in Cells : conn'[d] = IF d \in {c} \cap ToSet(connList) THEN None ELSE conn[d]
      /\ \A d \in Cells : conn'[d] # None =>
            /\ conn'[d] \in Connection /\ conn'[d].addr \in {AddressOf(u) : u \in Servers}'
            /\ conn'[d].recvBuffer = None <=> conn'[d].len = 0
  BY <1>1, <1>2, FreeTyped
<1>8. c \in ToSet(connList)
  BY <1>3, <1>4 DEF ToSet
<1>9. \A d \in Cells : conn'[d] = IF d = c THEN None ELSE conn[d]
  BY <1>7, <1>8
<1>10. \A u \in Servers : session'[u] = IF u = s THEN None ELSE session[u]
  BY <1>1, <1>3
<1>11. Typed'
  <2>1. session' \in [Servers -> Cells \cup {None}]
    BY <1>1, <1>3
  <2>2. TypeOK'
    BY <1>1, <1>2, <1>6, <1>7, <2>1 DEF Typed, TypeOK
  <2>3. QED
    BY <1>1, <1>2, <2>2 DEF Typed
<1>12. Kept'
  <2>1. \A j, k \in 1..Len(connList') : connList'[j] = connList'[k] => j = k
    <3>1. SUFFICES ASSUME NEW j \in 1..Len(connList'), NEW k \in 1..Len(connList'),
                          connList'[j] = connList'[k]
                   PROVE  j = k
      OBVIOUS
    <3> DEFINE old(m) == IF m < i THEN m ELSE m + 1
    <3>2. \A m \in 1..Len(connList') : old(m) \in 1..Len(connList) /\ connList'[m] = connList[old(m)]
      BY <1>3, <1>6
    <3>3. old(j) = old(k)
      <4> HIDE DEF old
      <4>1. QED
        BY <1>5, <3>1, <3>2
    <3>4. QED
      BY <1>3, <1>6, <3>3
  <2>2. \A d \in Cells : conn'[d] # None <=> \E k \in 1..Len(connList') : connList'[k] = d
    <3>1. SUFFICES ASSUME NEW d \in Cells
                   PROVE  conn'[d] # None <=> \E k \in 1..Len(connList') : connList'[k] = d
      OBVIOUS
    <3>2. ASSUME NEW k \in 1..Len(connList'), connList'[k] = d
          PROVE  conn'[d] # None
      <4>1. PICK m \in 1..Len(connList) : m # i /\ connList[m] = d
        <5>1. CASE k < i
          BY <1>3, <1>6, <3>2, <5>1
        <5>2. CASE ~(k < i)
          <6>1. k + 1 \in 1..Len(connList) /\ k + 1 # i /\ connList[k + 1] = d
            BY <1>3, <1>6, <3>2, <5>2
          <6>2. QED
            BY <6>1
        <5>3. QED
          BY <5>1, <5>2
      <4>2. d # c
        BY <1>4, <1>5, <4>1
      <4>3. conn[d] # None
        BY <1>2, <4>1 DEF Kept
      <4>4. QED
        BY <1>9, <4>2, <4>3
    <3>3. ASSUME conn'[d] # None
          PROVE  \E k \in 1..Len(connList') : connList'[k] = d
      <4>1. d # c /\ conn[d] # None
        BY <1>9, <3>3
      <4>2. PICK m \in 1..Len(connList) : connList[m] = d
        BY <1>2, <4>1 DEF Kept
      <4>3. m # i
        BY <1>4, <4>1, <4>2
      <4>4. CASE m < i
        <5>1. m \in 1..Len(connList') /\ connList'[m] = d
          BY <1>3, <1>6, <4>2, <4>4
        <5>2. QED
          BY <5>1
      <4>5. CASE m > i
        <5>1. m - 1 \in 1..Len(connList') /\ connList'[m - 1] = d
          BY <1>3, <1>6, <4>2, <4>5
        <5>2. QED
          BY <5>1
      <4>6. QED
        BY <4>3, <4>4, <4>5
    <3>4. QED
      BY <3>2, <3>3
  <2>3. \A d \in Cells : conn'[d] # None => \E u \in Servers : session'[u] = d
    BY <1>2, <1>9, <1>10 DEF Kept
  <2>4. \A u \in Servers : session'[u] # None => conn'[session'[u]] # None
    <3>1. SUFFICES ASSUME NEW u \in Servers, session'[u] # None
                   PROVE  conn'[session'[u]] # None
      OBVIOUS
    <3>2. u # s /\ session'[u] = session[u] /\ session[u] # None /\ session[u] \in Cells
      BY <1>3, <1>10, <3>1
    <3>3. session[u] # c /\ conn[session[u]] # None
      BY <1>2, <3>2 DEF Kept
    <3>4. QED
      BY <1>9, <3>2, <3>3
  <2>5. \A u, v \in Servers : session'[u] = session'[v] => u = v \/ session'[u] = None
    BY <1>2, <1>10 DEF Kept
  <2>6. QED
    BY <2>1, <2>2, <2>3, <2>4, <2>5 DEF Kept
<1>13. ~NotYet' /\ stage' # "ended" /\ ~InCall'
  BY <1>1, <1>2, <1>7 DEF NotYet, Over, InCall
<1>14. QED
  BY <1>11, <1>12, <1>13 DEF IInv

\* The connections are not freed under a call that uses one: the engine's sessions
\* are closed first, or no call is in progress.
LEMMA FreeLayerIdle ==
    ASSUME IInv, FreeLayer
    PROVE  ~InCall
<1>1. CASE Interrupted
  BY <1>1 DEF Interrupted, InCall, Idle
<1>2. CASE Closed
  <2>1. SUFFICES ASSUME InCall PROVE FALSE
    OBVIOUS
  <2>2. conn[call.cell] # None /\ call.cell \in Cells /\ Kept
    BY <2>1, CallHasConnection
  <2>3. PICK s \in Servers : session[s] = call.cell
    BY <2>2 DEF Kept
  <2>4. QED
    BY <1>2, <2>2, <2>3, NoneAssumption DEF Closed
<1>3. QED
  BY <1>1, <1>2 DEF FreeLayer

LEMMA FreeLayerStep ==
    ASSUME IInv, FreeLayer
    PROVE  IInv'
<1>1. /\ stage \in {"loop", "closing"}
      /\ connList' = <<>> /\ Free(Released, "ended")
      /\ session' = [s \in Servers |-> None]
      /\ argv' = argv /\ opt' = opt /\ config' = config /\ account' = account
      /\ UNCHANGED <<call, stats, heard, exposed>>
  BY DEF FreeLayer, Closed, Interrupted
<1>2. ~NotYet /\ ~Over /\ Kept /\ Typed
  BY <1>1 DEF IInv, NotYet, Over
<1>3. ~InCall
  BY FreeLayerIdle
<1>4. /\ stage' \in {"ended", "crashed"}
      /\ DOMAIN conn' = Cells
      /\ \A d \in Cells : conn'[d] = IF d \in Released THEN None ELSE conn[d]
      /\ \A d \in Cells : conn'[d] # None =>
            /\ conn'[d] \in Connection /\ conn'[d].addr \in {AddressOf(u) : u \in Servers}'
            /\ conn'[d].recvBuffer = None <=> conn'[d].len = 0
  BY <1>1, <1>2, FreeTyped
<1>5. Typed'
  <2>1. session' \in [Servers -> Cells \cup {None}] /\ connList' \in Seq(Cells)
    BY <1>1
  <2>2. TypeOK'
    BY <1>1, <1>2, <1>4, <2>1 DEF Typed, TypeOK
  <2>3. QED
    BY <1>1, <1>2, <2>2 DEF Typed
<1>6. \A d \in Cells : conn'[d] = None
  <2>1. SUFFICES ASSUME NEW d \in Cells, conn[d] # None PROVE d \in Released
    BY <1>4
  <2>2. PICK k \in 1..Len(connList) : connList[k] = d
    BY <1>2, <2>1 DEF Kept
  <2>3. connList \in Seq(Cells)
    BY <1>2 DEF Typed, TypeOK
  <2>4. QED
    BY <2>2, <2>3 DEF Released, ToSet
<1>7. QED
  BY <1>1, <1>3, <1>4, <1>5, <1>6 DEF IInv, NotYet, Over, InCall

LEMMA TypedQuitStep ==
    ASSUME IInv, TypedQuit
    PROVE  IInv'
<1>1. /\ stage = "loop" /\ stage' = "closing" /\ call = Idle
      /\ argv' = argv /\ opt' = opt /\ config' = config /\ account' = account
      /\ conn' = conn /\ connList' = connList /\ session' = session /\ call' = call
      /\ heard' = heard /\ exposed' = exposed
  BY DEF TypedQuit, connVars
<1>2. {AddressOf(u) : u \in Servers}' = {AddressOf(u) : u \in Servers}
  <2>1. \A u \in Servers : AddressOf(u)' = AddressOf(u)
    BY <1>1 DEF AddressOf, AccountOf
  <2>2. QED
    BY <2>1
<1>3. TypeOK'
  BY <1>1, <1>2 DEF IInv, Typed, TypeOK
<1>4. Typed'
  BY <1>1, <1>3 DEF IInv, Typed
<1>5. QED
  BY <1>1, <1>4 DEF IInv, NotYet, Over, InCall, Kept, Idle

-----------------------------------------------------------------------------
(* Memory, list and sessions. *)

LEMMA InitIInv == Init => IInv
<1>1. SUFFICES ASSUME Init PROVE IInv
  OBVIOUS
<1>2. /\ stage = "options" /\ argv \in CommandLines /\ opt = 1 /\ config = Factory
      /\ account = NoAccount
      /\ conn = [c \in Cells |-> None] /\ connList = <<>>
      /\ session = [s \in Servers |-> None] /\ call = Idle /\ heard = <<>> /\ exposed = FALSE
  <2>1. /\ stage = "options" /\ argv \in CommandLines /\ opt = 1 /\ config = Factory
        /\ account = NoAccount
    BY <1>1 DEF Init, StartInit
  <2>2. /\ conn = [c \in Cells |-> None] /\ connList = <<>>
        /\ session = [s \in Servers |-> None] /\ call = Idle /\ heard = <<>>
    BY <1>1 DEF Init
  <2>3. exposed = FALSE
    BY <1>1 DEF Init
  <2>4. QED
    BY <2>1, <2>2, <2>3
<1>3. argv \in Seq(STRING) /\ config \in ConfigType
  BY <1>2, CommandLinesAssumption, FactoryTyped
<1>4. account \in AccountType
  BY <1>2 DEF NoAccount, AccountType, Texts
<1>5. /\ call \in [op : {"idle", "count"}, cell : {None}, size : Nat, got : {0}]
      /\ call.op = "idle"
  BY <1>2, IdleTyped DEF Idle
<1>6. config.flags \subseteq Flags /\ account.psk \in BOOLEAN /\ account.key \in Nat
  BY <1>3, <1>4 DEF ConfigType, AccountType
<1>7. TypeOK
  <2>1. /\ \A c \in Cells : conn[c] = None
        /\ DOMAIN conn = Cells /\ connList \in Seq(Cells) /\ heard \in Seq(Sizes)
        /\ session \in [Servers -> Cells \cup {None}]
        /\ opt \in Nat
    BY <1>2
  <2>2. exposed \in BOOLEAN
    BY <1>2
  <2>3. QED
    BY <1>2, <1>5, <1>6, <2>1, <2>2 DEF TypeOK
<1>8. Typed
  BY <1>3, <1>4, <1>5, <1>7 DEF Typed
<1>9. QED
  BY <1>2, <1>5, <1>8 DEF IInv, NotYet, Over, InCall, Kept

LEMMA IInvStep == IInv /\ [Next]_vars => IInv'
<1>1. SUFFICES ASSUME IInv, [Next]_vars PROVE IInv'
  OBVIOUS
<1>2. CASE Start
  BY <1>1, <1>2, StartStep
<1>3. CASE \E s \in Servers : Connect(s) \/ CloseConnection(s) \/ SendPlain(s) \/ SendDtls(s)
  BY <1>1, <1>3, ConnectStep, CloseStep, SendStep
<1>4. CASE \E s \in Servers, size \in Sizes :
             ReceivePlain(AddressOf(s), size) \/ ReceiveDtls(AddressOf(s), size)
  BY <1>1, <1>4, ReceiveStep
<1>5. CASE \E want \in Slices : Fetch(want)
  BY <1>1, <1>5, FetchStep
<1>6. CASE WriteEnds \/ ReadEnds \/ Count
  BY <1>1, <1>6, WriteEndsStep, ReadEndsStep, CountStep
<1>7. CASE TypedQuit \/ FreeLayer
  BY <1>1, <1>7, TypedQuitStep, FreeLayerStep
<1>8. CASE Stopped \/ UNCHANGED vars
  <2>1. UNCHANGED <<startVars, connVars>>
    BY <1>8 DEF Stopped, vars
  <2>2. UNCHANGED <<startVars, conn, connList, session, call, heard, exposed>>
    BY <2>1 DEF connVars
  <2>3. /\ call \in [op : {"idle", "count"}, cell : {None}, size : Nat, got : {0}]
                     \cup [op : {"read", "write"}, cell : Cells, size : Nat, got : Nat]
        /\ call.op = "read" => call.size \in Sizes
        /\ InCall => ~NotYet /\ ~Over /\ \E k \in 1..Len(connList) : connList[k] = call.cell
        /\ heard \in Seq(Sizes) /\ exposed \in BOOLEAN
    BY <1>1 DEF IInv, Typed, TypeOK
  <2>4. InCall' <=> InCall
    BY <2>2 DEF InCall
  <2>5. QED
    BY <1>1, <2>2, <2>3, <2>4, NotUpdated
<1>9. QED
  BY <1>1, <1>2, <1>3, <1>4, <1>5, <1>6, <1>7, <1>8 DEF Next

\* A sequence without repetitions has as many elements as places.
LEMMA DistinctElements ==
    ASSUME NEW S, NEW seq \in Seq(S),
           \A j, k \in 1..Len(seq) : seq[j] = seq[k] => j = k
    PROVE  Cardinality(ToSet(seq)) = Len(seq)
<1>1. seq \in [1..Len(seq) -> ToSet(seq)] /\ Len(seq) \in Nat
  BY DEF ToSet
<1>2. \A y \in ToSet(seq) : \E k \in 1..Len(seq) : seq[k] = y
  BY DEF ToSet
<1>3. seq \in Bijection(1..Len(seq), ToSet(seq))
  BY <1>1, <1>2, Fun_IsBij
<1>4. ExistsBijection(1..Len(seq), ToSet(seq))
  BY <1>3 DEF ExistsBijection
<1>5. IsFiniteSet(1..Len(seq)) /\ Cardinality(1..Len(seq)) = Len(seq)
  <2>1. IsFiniteSet(1..Len(seq)) /\ Cardinality(1..Len(seq)) = IF 1 > Len(seq) THEN 0 ELSE Len(seq) - 1 + 1
    BY <1>1, FS_Interval
  <2>2. QED
    BY <1>1, <2>1
<1>6. QED
  BY <1>4, <1>5, FS_Bijection

LEMMA IInvListSound == IInv => ListSound
<1>1. SUFFICES ASSUME IInv PROVE ListSound
  OBVIOUS
<1>2. connList \in Seq(Cells)
  BY <1>1 DEF IInv, Typed, TypeOK
<1>3. ASSUME ~Over
      PROVE  /\ ToSet(connList) = {c \in Cells : conn[c] # None}
             /\ Len(connList) = Cardinality(ToSet(connList))
             /\ \A c \in Cells : conn[c] # None =>
                   Cardinality({s \in Servers : session[s] = c}) = 1
             /\ \A s \in Servers : session[s] # None => conn[session[s]] # None
  <2>1. Kept
    BY <1>1, <1>3 DEF IInv
  <2>2. ToSet(connList) = {c \in Cells : conn[c] # None}
    BY <1>2, <2>1 DEF Kept, ToSet
  <2>3. Len(connList) = Cardinality(ToSet(connList))
    BY <1>2, <2>1, DistinctElements DEF Kept
  <2>4. ASSUME NEW c \in Cells, conn[c] # None
        PROVE  Cardinality({s \in Servers : session[s] = c}) = 1
    <3>1. PICK s \in Servers : session[s] = c
      BY <2>1, <2>4 DEF Kept
    <3>2. {u \in Servers : session[u] = c} = {s}
      BY <2>1, <3>1, NoneAssumption DEF Kept
    <3>3. QED
      BY <3>2, FS_Singleton
  <2>5. QED
    BY <2>1, <2>2, <2>3, <2>4 DEF Kept
<1>4. InCall => call.cell \in ToSet(connList)
  BY <1>1, <1>2 DEF IInv, ToSet
<1>5. QED
  BY <1>3, <1>4 DEF ListSound, Over, InCall

\* Type correctness: a receive buffer is NULL or has octets left, and the calls
\* that use a connection name one.
THEOREM TypeCorrect == Spec => []TypeOK
<1>1. IInv => TypeOK
  BY DEF IInv, Typed
<1>2. QED
  BY <1>1, InitIInv, IInvStep, PTL DEF Spec

\* However connections are opened and closed, nothing is listed that is free,
\* listed twice or lost, and every connection belongs to one session (ListSound).
THEOREM ListCorrect == Spec => []ListSound
  BY InitIInv, IInvStep, IInvListSound, PTL DEF Spec

\* When the client has ended, no connection is left in memory (ClosedCleanly).
THEOREM ClosedCorrect == Spec => []ClosedCleanly
<1>1. IInv => ClosedCleanly
  BY DEF IInv, ClosedCleanly
<1>2. QED
  BY <1>1, InitIInv, IInvStep, PTL DEF Spec

-----------------------------------------------------------------------------
(* Pre-shared keys. *)

\* The session of an account with a key has a DTLS connection.
PskInv ==
    /\ ~exposed
    /\ ~Over => \A s \in Servers :
                   session[s] # None /\ AccountOf(s).psk => conn[session[s]].send = "dtls"

\* mbedTLS and the receive buffer leave alone how a connection sends.
LEMMA SendKept ==
    ASSUME IInv, WriteEnds \/ ReadEnds \/ (\E want \in Slices : Fetch(want))
                 \/ (\E addr : \E size \in Sizes : ReceiveDtls(addr, size))
    PROVE  \A d \in Cells : conn'[d] # None => conn'[d].send = conn[d].send
<1>1. DOMAIN conn = Cells
  BY DEF IInv, Typed, TypeOK
<1>2. ASSUME InCall, NEW ready, conn' = [conn EXCEPT ![call.cell].ready = ready]
      PROVE  \A d \in Cells : conn'[d].send = conn[d].send
  <2>1. conn[call.cell] \in Connection /\ call.cell \in Cells
    BY <1>2, CallHasConnection
  <2>2. QED
    BY <1>1, <1>2, <2>1 DEF Connection
<1>3. CASE WriteEnds
  BY <1>2, <1>3 DEF WriteEnds, InCall
<1>4. CASE ReadEnds
  BY <1>2, <1>4 DEF ReadEnds, InCall
<1>5. ASSUME NEW want \in Slices, Fetch(want)
      PROVE  \A d \in Cells : conn'[d].send = conn[d].send
  <2>1. conn[call.cell] \in Connection /\ call.cell \in Cells
    BY <1>5, CallHasConnection DEF Fetch, InCall
  <2>2. PICK buffer, len : conn' = [conn EXCEPT ![call.cell].recvBuffer = buffer, ![call.cell].len = len]
    BY <1>5 DEF Fetch
  <2>3. QED
    BY <1>1, <2>1, <2>2 DEF Connection
<1>6. ASSUME NEW addr, NEW size \in Sizes, ReceiveDtls(addr, size)
      PROVE  \A d \in Cells : conn'[d].send = conn[d].send
  <2> DEFINE c == connList[Find(addr)]
  <2>1. conn[c] \in Connection /\ c \in Cells
    BY <1>6, ArrivesFrom DEF ReceiveDtls
  <2>2. conn' = [conn EXCEPT ![c].recvBuffer = 0, ![c].len = size]
    BY <1>6 DEF ReceiveDtls, Buffered
  <2> HIDE DEF c
  <2>3. QED
    BY <1>1, <2>1, <2>2 DEF Connection
<1>7. QED
  BY <1>3, <1>4, <1>5, <1>6

LEMMA InitPskInv == Init => PskInv
  BY DEF Init, PskInv

LEMMA PskInvStep ==
    ASSUME IInv, PskInv, [Next]_vars
    PROVE  PskInv'
<1>1. IInv'
  BY IInvStep
<1>2. ASSUME exposed' = exposed, session' = session, account' = account,
             \A d \in Cells : conn'[d] # None => conn'[d].send = conn[d].send,
             ~Over' => ~Over
      PROVE  PskInv'
  <2>1. \A s \in Servers : AccountOf(s)' = AccountOf(s)
    BY <1>2 DEF AccountOf
  <2>2. ~exposed'
    BY <1>2 DEF PskInv
  <2>3. ASSUME ~Over', NEW s \in Servers, session'[s] # None, AccountOf(s)'.psk
        PROVE  conn'[session'[s]].send = "dtls"
    <3>1. session[s] # None /\ session[s] \in Cells /\ ~Over /\ AccountOf(s).psk
      BY <1>2, <2>1, <2>3 DEF IInv, Typed, TypeOK
    <3>2. conn'[session[s]] # None
      BY <1>1, <1>2, <2>3 DEF IInv, Kept
    <3>3. QED
      BY <1>2, <3>1, <3>2 DEF PskInv
  <2>4. QED
    BY <2>2, <2>3 DEF PskInv
<1>3. CASE Start
  <2>1. exposed' = exposed /\ session' = session
    BY <1>3 DEF Start, connVars
  <2>2. NotYet
    BY <1>3, StartNextTyped DEF Start, IInv, NotYet
  <2>3. \A s \in Servers : session[s] = None
    BY <2>2 DEF IInv
  <2>4. QED
    BY <2>1, <2>3 DEF PskInv
<1>4. ASSUME NEW s \in Servers, Connect(s)
      PROVE  PskInv'
  <2>1. PICK c \in Cells, new \in NewConnections(s) :
           /\ conn[c] = None
           /\ conn' = [conn EXCEPT ![c] = new]
           /\ session' = [session EXCEPT ![s] = c]
    BY <1>4 DEF Connect
  <2>2. /\ stage = "loop" /\ account' = account /\ exposed' = exposed
    BY <1>4 DEF Connect, startVars
  <2>3. /\ account \in AccountType /\ DOMAIN conn = Cells
        /\ session \in [Servers -> Cells \cup {None}]
    BY DEF IInv, Typed, TypeOK
  <2>4. AccountOf(s).psk => new.send = "dtls"
    BY <2>3, NewConnectionTyped
  <2>5. Kept /\ ~Over
    BY <2>2 DEF IInv, Over
  <2>6. \A u \in Servers : AccountOf(u)' = AccountOf(u)
    BY <2>2 DEF AccountOf
  <2>7. ASSUME NEW u \in Servers, session'[u] # None, AccountOf(u).psk
        PROVE  conn'[session'[u]].send = "dtls"
    <3>1. CASE u = s
      BY <2>1, <2>3, <2>4, <2>7, <3>1
    <3>2. CASE u # s
      <4>1. session'[u] = session[u] /\ session[u] # None
        BY <2>1, <2>3, <2>7, <3>2
      <4>2. session[u] # c
        BY <2>1, <2>5, <4>1 DEF Kept
      <4>3. conn[session[u]].send = "dtls"
        BY <2>5, <2>7, <4>1 DEF PskInv
      <4>4. session[u] \in Cells
        BY <2>3, <4>1
      <4>5. QED
        BY <2>1, <2>3, <4>1, <4>2, <4>3, <4>4
    <3>3. QED
      BY <3>1, <3>2
  <2>8. QED
    BY <2>2, <2>6, <2>7 DEF PskInv
<1>5. ASSUME NEW s \in Servers, CloseConnection(s)
      PROVE  PskInv'
  <2> DEFINE c == session[s]
  <2>1. /\ stage \in {"loop", "closing"}
        /\ session' = [session EXCEPT ![s] = None]
        /\ Free({c} \cap ToSet(connList), stage) /\ c # None
        /\ account' = account /\ exposed' = exposed
    BY <1>5 DEF CloseConnection, Quiet
  <2>2. Kept /\ ~Over /\ session \in [Servers -> Cells \cup {None}]
    BY <2>1 DEF IInv, Over, Typed, TypeOK
  <2>3. \A d \in Cells : d # c => conn'[d] = conn[d]
    BY <2>1 DEF Free
  <2>4. \A u \in Servers : AccountOf(u)' = AccountOf(u)
    BY <2>1 DEF AccountOf
  <2>5. ASSUME NEW u \in Servers, session'[u] # None, AccountOf(u).psk
        PROVE  conn'[session'[u]].send = "dtls"
    <3>1. u # s /\ session'[u] = session[u] /\ session[u] # None /\ session[u] \in Cells
      BY <2>1, <2>2, <2>5
    <3>2. session[u] # c
      BY <2>2, <3>1 DEF Kept
    <3>3. QED
      BY <2>2, <2>3, <2>5, <3>1, <3>2 DEF PskInv
  <2>6. QED
    BY <2>1, <2>4, <2>5 DEF PskInv
<1>6. ASSUME NEW s \in Servers, SendPlain(s)
      PROVE  PskInv'
  <2>1. /\ ~Over /\ session[s] # None /\ conn[session[s]].send = "plain"
        /\ exposed' = (exposed \/ AccountOf(s).psk)
        /\ UNCHANGED <<startVars, conn, session>>
    BY <1>6 DEF SendPlain, Quiet, Over
  <2>2. ~AccountOf(s).psk
    BY <2>1 DEF PskInv
  <2>3. ~exposed'
    BY <2>1, <2>2 DEF PskInv
  <2>4. exposed' = exposed
    <3>1. exposed \in BOOLEAN /\ exposed' \in BOOLEAN
      BY <1>1 DEF IInv, Typed, TypeOK
    <3>2. QED
      BY <2>3, <3>1 DEF PskInv
  <2>5. QED
    BY <1>2, <2>1, <2>4 DEF startVars
<1>7. ASSUME NEW s \in Servers, SendDtls(s)
      PROVE  PskInv'
  BY <1>2, <1>7 DEF SendDtls, Quiet, Over, startVars
<1>8. ASSUME NEW addr, NEW size \in Sizes, ReceivePlain(addr, size)
      PROVE  PskInv'
  BY <1>2, <1>8 DEF ReceivePlain, Arrives, Over, startVars
<1>9. ASSUME NEW addr, NEW size \in Sizes, ReceiveDtls(addr, size)
      PROVE  PskInv'
  BY <1>2, <1>9, SendKept DEF ReceiveDtls, Arrives, Over, startVars
<1>10. CASE \E want \in Slices : Fetch(want)
  BY <1>2, <1>10, SendKept DEF Fetch, Over, startVars
<1>11. CASE WriteEnds
  BY <1>2, <1>11, SendKept DEF WriteEnds, Over, startVars
<1>12. CASE ReadEnds
  BY <1>2, <1>12, SendKept DEF ReadEnds, Over, startVars
<1>13. CASE Count \/ TypedQuit \/ Stopped \/ UNCHANGED vars
  <2>1. /\ exposed' = exposed /\ session' = session /\ account' = account /\ conn' = conn
        /\ ~Over' => ~Over
    BY <1>13 DEF Count, TypedQuit, Stopped, vars, startVars, connVars, Over
  <2>2. QED
    BY <1>2, <2>1
<1>14. CASE FreeLayer
  <2>1. session' = [s \in Servers |-> None] /\ exposed' = exposed
    BY <1>14 DEF FreeLayer
  <2>2. QED
    BY <2>1 DEF PskInv
<1>15. QED
  BY <1>3, <1>4, <1>5, <1>6, <1>7, <1>8, <1>9, <1>10, <1>11, <1>12, <1>13, <1>14 DEF Next

\* A message for a server whose account asks for a pre-shared key never leaves in
\* the clear, whatever accounts there are and however connections come and go
\* (PskNeverClear).
THEOREM PskCorrect == Spec => []PskNeverClear
<1>1. IInv /\ PskInv /\ [Next]_vars => (IInv /\ PskInv)'
  BY IInvStep, PskInvStep
<1>2. PskInv => PskNeverClear
  BY DEF PskInv, PskNeverClear
<1>3. QED
  BY <1>1, <1>2, InitIInv, InitPskInv, PTL DEF Spec

-----------------------------------------------------------------------------
(* The octets of a datagram. *)

LEMMA FetchedStep ==
    ASSUME IInv, FetchedInOrder, [Next]_vars
    PROVE  FetchedInOrder'
<1>1. SUFFICES ASSUME call'.op = "read"
               PROVE  IF conn'[call'.cell].recvBuffer = None
                      THEN call'.got = call'.size
                      ELSE /\ conn'[call'.cell].recvBuffer = call'.got
                           /\ conn'[call'.cell].recvBuffer + conn'[call'.cell].len = call'.size
  BY DEF FetchedInOrder
<1>2. /\ call.op = "read" => /\ call.size \in Nat /\ call.got \in Nat /\ call.cell \in Cells
                             /\ conn[call.cell] \in Connection
                             /\ conn[call.cell].recvBuffer = None <=> conn[call.cell].len = 0
  BY CallHasConnection DEF InCall
<1>3. Idle.op = "idle" /\ DOMAIN conn = Cells
  BY DEF Idle, IInv, Typed, TypeOK
<1>4. CASE call' = call /\ conn' = conn
  BY <1>1, <1>4 DEF FetchedInOrder
<1>5. CASE call' = Idle
  BY <1>1, <1>3, <1>5
<1>6. CASE call = Idle /\ call' = call
  BY <1>1, <1>3, <1>6
<1>7. ASSUME NEW size, call' = [Idle EXCEPT !.op = "count", !.size = size] PROVE FALSE
  BY <1>1, <1>7 DEF Idle
<1>8. CASE Start
  BY <1>4, <1>8 DEF Start, connVars
<1>9. ASSUME NEW s \in Servers, Connect(s) \/ CloseConnection(s) \/ SendPlain(s)
      PROVE  call = Idle /\ call' = call
  BY <1>9 DEF Connect, CloseConnection, SendPlain, Quiet
<1>10. ASSUME NEW s \in Servers, SendDtls(s) PROVE FALSE
  BY <1>1, <1>10 DEF SendDtls, Idle
<1>11. ASSUME NEW addr, NEW size \in Sizes, ReceivePlain(addr, size) PROVE FALSE
  BY <1>7, <1>11 DEF ReceivePlain
<1>12. ASSUME NEW addr, NEW size \in Sizes, ReceiveDtls(addr, size)
       PROVE  /\ conn'[call'.cell].recvBuffer = 0 /\ conn'[call'.cell].len = size
              /\ call'.got = 0 /\ call'.size = size /\ size \in Nat
  <2> DEFINE c == connList[Find(addr)]
  <2>1. conn[c] \in Connection /\ c \in Cells /\ size \in Nat
    BY <1>12, ArrivesFrom DEF ReceiveDtls
  <2>2. /\ conn' = [conn EXCEPT ![c].recvBuffer = 0, ![c].len = size]
        /\ call' = [op |-> "read", cell |-> c, size |-> size, got |-> 0]
    BY <1>12 DEF ReceiveDtls, Buffered
  <2> HIDE DEF c
  <2>3. QED
    BY <1>3, <2>1, <2>2 DEF Connection
<1>13. ASSUME NEW want \in Slices, Fetch(want)
       PROVE  IF conn'[call'.cell].recvBuffer = None
              THEN call'.got = call'.size
              ELSE /\ conn'[call'.cell].recvBuffer = call'.got
                   /\ conn'[call'.cell].recvBuffer + conn'[call'.cell].len = call'.size
  <2> DEFINE c     == conn[call.cell]
             taken == IF want < c.len THEN want ELSE c.len
  <2>1. /\ c.recvBuffer # None
        /\ conn' = [conn EXCEPT
             ![call.cell].recvBuffer = IF LeavesRest(taken, c.len) THEN c.recvBuffer + taken ELSE None,
             ![call.cell].len = IF LeavesRest(taken, c.len) THEN c.len - taken ELSE 0]
        /\ call' = [call EXCEPT !.got = call.got + taken]
    BY <1>13 DEF Fetch
  <2>2. call \in [op : {"read", "write"}, cell : Cells, size : Nat, got : Nat]
    BY <1>13 DEF Fetch, IInv, Typed, TypeOK
  <2>3. /\ call.op = "read" /\ call'.cell = call.cell /\ call'.size = call.size
        /\ call'.got = call.got + taken
    BY <1>1, <2>1, <2>2
  <2>4. c \in Connection /\ call.size \in Nat /\ call.got \in Nat /\ call.cell \in Cells
    BY <1>2, <2>3
  <2>5. want \in Nat /\ c.len \in Nat /\ c.recvBuffer \in Nat
    <3>1. want \in Nat
      BY ServersAssumption
    <3> HIDE DEF c
    <3>2. QED
      BY <2>1, <2>4, <3>1 DEF Connection
  <2>6. taken \in Nat /\ taken <= c.len
    BY <2>5
  <2>7. c.recvBuffer = call.got /\ c.recvBuffer + c.len = call.size
    BY <2>1, <2>3 DEF FetchedInOrder
  <2>8. CASE LeavesRest(taken, c.len)
    <3>1. conn' = [conn EXCEPT ![call.cell].recvBuffer = c.recvBuffer + taken,
                               ![call.cell].len = c.len - taken]
      BY <2>1, <2>8
    <3> HIDE DEF taken
    <3>2. conn'[call.cell].recvBuffer = c.recvBuffer + taken /\ conn'[call.cell].len = c.len - taken
      BY <1>3, <2>4, <3>1 DEF Connection
    <3>3. c.recvBuffer + taken \in Nat /\ (c.recvBuffer + taken) + (c.len - taken) = call.size
      BY <2>5, <2>6, <2>7
    <3>4. QED
      BY <2>3, <2>7, <3>2, <3>3, NoneAssumption
  <2>9. CASE ~LeavesRest(taken, c.len)
    <3>1. taken = c.len
      BY <2>5, <2>6, <2>9 DEF LeavesRest
    <3>2. conn' = [conn EXCEPT ![call.cell].recvBuffer = None, ![call.cell].len = 0]
      BY <2>1, <2>9
    <3> HIDE DEF taken
    <3>3. conn'[call.cell].recvBuffer = None
      BY <1>3, <2>4, <3>2 DEF Connection
    <3>4. QED
      BY <2>3, <2>7, <3>1, <3>3
  <2>10. QED
    BY <2>8, <2>9
<1>14. CASE WriteEnds \/ Count
  BY <1>5, <1>14 DEF WriteEnds, Count
<1>15. CASE ReadEnds
  BY <1>7, <1>15 DEF ReadEnds
<1>16. CASE TypedQuit
  BY <1>4, <1>16 DEF TypedQuit, connVars
<1>17. CASE FreeLayer
  <2>1. ~InCall /\ call' = call
    BY <1>17, FreeLayerIdle DEF FreeLayer
  <2>2. QED
    BY <1>1, <2>1 DEF InCall
<1>18. CASE Stopped \/ UNCHANGED vars
  BY <1>4, <1>18 DEF Stopped, vars, connVars
<1>19. QED
  <2>1. CASE \E s \in Servers : Connect(s) \/ CloseConnection(s) \/ SendPlain(s) \/ SendDtls(s)
    BY <1>6, <1>9, <1>10, <2>1
  <2>2. CASE \E s \in Servers, size \in Sizes :
               ReceivePlain(AddressOf(s), size) \/ ReceiveDtls(AddressOf(s), size)
    BY <1>11, <1>12, <2>2, NoneAssumption
  <2>3. CASE \E want \in Slices : Fetch(want)
    BY <1>13, <2>3
  <2>4. QED
    BY <1>8, <1>14, <1>15, <1>16, <1>17, <1>18, <2>1, <2>2, <2>3 DEF Next

\* While a datagram is read, mbedTLS gets its octets in order and once, in whatever
\* slices it asks for and whatever was left of earlier datagrams (FetchedInOrder).
THEOREM FetchedCorrect == Spec => []FetchedInOrder
<1>1. Init => FetchedInOrder
  BY DEF Init, FetchedInOrder, Idle
<1>2. IInv /\ FetchedInOrder /\ [Next]_vars => (IInv /\ FetchedInOrder)'
  BY IInvStep, FetchedStep
<1>3. QED
  BY <1>1, <1>2, InitIInv, PTL DEF Spec

-----------------------------------------------------------------------------
(* The statistics. *)

\* The steps of a sum.
Adding(lengths) == [k \in 1..Len(lengths) |-> [v \in Nat |-> v + lengths[k]]]

LEMMA AddingRuns ==
    ASSUME NEW lengths \in Seq(Nat), NEW f, Runs(f, Len(lengths), Nat, 0, Adding(lengths))
    PROVE  /\ f \in [0..Len(lengths) -> Nat] /\ f[0] = 0
           /\ \A k \in 1..Len(lengths) : f[k] = f[k - 1] + lengths[k]
<1>1. /\ f \in [0..Len(lengths) -> Nat] /\ f[0] = 0
      /\ \A k \in 1..Len(lengths) : f[k] = Adding(lengths)[k][f[k - 1]]
  BY DEF Runs
<1>2. ASSUME NEW k \in 1..Len(lengths)
      PROVE  f[k] = f[k - 1] + lengths[k]
  <2>1. k - 1 \in 0..Len(lengths)
    OBVIOUS
  <2>2. f[k - 1] \in Nat
    BY <1>1, <2>1
  <2>3. Adding(lengths)[k] = [v \in Nat |-> v + lengths[k]]
    BY DEF Adding
  <2>4. QED
    BY <1>1, <2>2, <2>3
<1>3. QED
  BY <1>1, <1>2

LEMMA TotalRuns ==
    ASSUME NEW lengths \in Seq(Nat)
    PROVE  \E sum : /\ Total(lengths) = sum[Len(lengths)]
                    /\ Runs(sum, Len(lengths), Nat, 0, Adding(lengths))
<1> DEFINE sum[k \in 0..Len(lengths)] == IF k = 0 THEN 0 ELSE sum[k - 1] + lengths[k]
<1>1. Total(lengths) = sum[Len(lengths)]
  BY DEF Total
<1>2. Len(lengths) \in Nat /\ 0 \in Nat
  OBVIOUS
<1>3. Steps(Adding(lengths), Len(lengths), Nat)
  BY DEF Steps, Adding
<1>4. PICK f : Runs(f, Len(lengths), Nat, 0, Adding(lengths))
  <2> HIDE DEF sum
  <2>1. QED
    BY <1>2, <1>3, Recursion
<1>5. f = [k \in 0..Len(lengths) |-> IF k = 0 THEN 0 ELSE f[k - 1] + lengths[k]]
  <2> HIDE DEF sum
  <2>1. /\ f \in [0..Len(lengths) -> Nat] /\ f[0] = 0
        /\ \A k \in 1..Len(lengths) : f[k] = f[k - 1] + lengths[k]
    BY <1>4, AddingRuns
  <2>2. QED
    BY <1>2, <2>1
<1>6. sum = [k \in 0..Len(lengths) |-> IF k = 0 THEN 0 ELSE sum[k - 1] + lengths[k]]
  BY <1>5
<1>7. Runs(sum, Len(lengths), Nat, 0, Adding(lengths))
  <2> HIDE DEF sum
  <2>1. \A k \in 0..Len(lengths) : sum[k] = f[k]
    <3> DEFINE same == {k \in 0..Len(lengths) : sum[k] = f[k]}
    <3>1. 0 \in same
      BY <1>2, <1>5, <1>6
    <3>2. ASSUME NEW k \in 1..Len(lengths), k - 1 \in same
          PROVE  k \in same
      <4>1. k \in 0..Len(lengths) /\ k # 0 /\ sum[k - 1] = f[k - 1]
        BY <1>2, <3>2
      <4>2. f[k] = f[k - 1] + lengths[k]
        BY <1>5, <4>1
      <4>3. sum[k] = sum[k - 1] + lengths[k]
        BY <1>6, <4>1
      <4>4. QED
        BY <4>1, <4>2, <4>3
    <3>3. 0..Len(lengths) \subseteq same
      <4> HIDE DEF same
      <4>1. QED
        BY <1>2, <3>1, <3>2, SetInduction
    <3>4. QED
      BY <3>3
  <2>2. sum = f
    BY <1>5, <1>6, <2>1
  <2>3. QED
    BY <1>4, <2>2
<1> HIDE DEF sum
<1>8. QED
  BY <1>1, <1>7

LEMMA TotalProperties ==
    /\ Total(<<>>) = 0
    /\ \A lengths \in Seq(Nat) : Total(lengths) \in Nat
    /\ \A lengths \in Seq(Nat), x \in Nat : Total(Append(lengths, x)) = Total(lengths) + x
<1>1. ASSUME NEW lengths \in Seq(Nat)
      PROVE  Total(lengths) \in Nat
  <2>1. PICK sum : /\ Total(lengths) = sum[Len(lengths)]
                   /\ Runs(sum, Len(lengths), Nat, 0, Adding(lengths))
    BY TotalRuns
  <2>2. QED
    BY <2>1 DEF Runs
<1>2. Total(<<>>) = 0
  <2>1. <<>> \in Seq(Nat) /\ Len(<<>>) = 0
    OBVIOUS
  <2>2. PICK sum : /\ Total(<<>>) = sum[Len(<<>>)]
                   /\ Runs(sum, Len(<<>>), Nat, 0, Adding(<<>>))
    BY <2>1, TotalRuns
  <2>3. QED
    BY <2>1, <2>2 DEF Runs
<1>3. ASSUME NEW lengths \in Seq(Nat), NEW x \in Nat
      PROVE  Total(Append(lengths, x)) = Total(lengths) + x
  <2> DEFINE n == Len(lengths)
             longer == Append(lengths, x)
  <2>1. /\ longer \in Seq(Nat) /\ Len(longer) = n + 1 /\ n \in Nat
        /\ longer[n + 1] = x
        /\ \A k \in 1..n : longer[k] = lengths[k]
    OBVIOUS
  <2> HIDE DEF longer
  <2>2. PICK f : /\ Total(lengths) = f[n]
                 /\ Runs(f, n, Nat, 0, Adding(lengths))
    BY TotalRuns
  <2>3. PICK g : /\ Total(longer) = g[n + 1]
                 /\ Runs(g, n + 1, Nat, 0, Adding(longer))
    BY <2>1, TotalRuns
  <2>4. /\ f \in [0..n -> Nat] /\ f[0] = 0
        /\ \A k \in 1..n : f[k] = f[k - 1] + lengths[k]
    BY <2>2, AddingRuns
  <2>5. /\ g \in [0..(n + 1) -> Nat] /\ g[0] = 0
        /\ \A k \in 1..(n + 1) : g[k] = g[k - 1] + longer[k]
    <3>1. Runs(g, Len(longer), Nat, 0, Adding(longer))
      BY <2>1, <2>3
    <3>2. /\ g \in [0..Len(longer) -> Nat] /\ g[0] = 0
          /\ \A k \in 1..Len(longer) : g[k] = g[k - 1] + longer[k]
      BY <2>1, <3>1, AddingRuns
    <3>3. QED
      BY <2>1, <3>2
  <2>6. 0..n \subseteq {k \in 0..n : f[k] = g[k]}
    <3> DEFINE same == {k \in 0..n : f[k] = g[k]}
    <3>1. 0 \in same
      BY <2>1, <2>4, <2>5
    <3>2. ASSUME NEW k \in 1..n, k - 1 \in same
          PROVE  k \in same
      BY <2>1, <2>4, <2>5, <3>2
    <3> HIDE DEF same
    <3>3. 0..n \subseteq same
      BY <2>1, <3>1, <3>2, SetInduction
    <3>4. QED
      BY <3>3 DEF same
  <2>7. g[n + 1] = g[n] + x /\ f[n] = g[n]
    <3>1. n + 1 \in 1..(n + 1) /\ (n + 1) - 1 = n /\ n \in 0..n
      BY <2>1
    <3>2. QED
      BY <2>1, <2>5, <2>6, <3>1
  <2>8. QED
    BY <2>2, <2>3, <2>7 DEF longer
<1>4. QED
  BY <1>1, <1>2, <1>3

\* The statistics of the datagrams of some lengths.
Follows(st, lengths) ==
    /\ st.rxDataByte = Total(lengths)
    /\ st.messageCount = Len(lengths)
    /\ st.maxMessageSize \in Nat
    /\ \A k \in 1..Len(lengths) : lengths[k] <= st.maxMessageSize
    /\ lengths = <<>> => st.maxMessageSize = 0
    /\ lengths # <<>> => \E k \in 1..Len(lengths) : lengths[k] = st.maxMessageSize

StatsType ==
    [txDataByte : Nat, rxDataByte : Nat, maxMessageSize : Nat, avrMessageSize : Int,
     messageCount : Nat, collectDataStarted : BOOLEAN]

\* The datagram in hand is heard, but not counted yet.
StatsInv ==
    /\ stats \in StatsType
    /\ ~stats.collectDataStarted => heard = <<>>
    /\ IF call.op = "count" /\ stats.collectDataStarted
       THEN \E earlier \in Seq(Sizes) : /\ call.size \in Sizes
                                        /\ heard = Append(earlier, call.size)
                                        /\ Follows(stats, earlier)
       ELSE Follows(stats, heard)

LEMMA ResetFollows ==
    ASSUME NEW start \in BOOLEAN
    PROVE  /\ ResetCounter(start) \in StatsType
           /\ ResetCounter(start).collectDataStarted = start
           /\ Follows(ResetCounter(start), <<>>)
  BY TotalProperties DEF ResetCounter, StatsType, Follows

\* A datagram that is counted.
LEMMA UpdateFollows ==
    ASSUME NEW st \in StatsType, st.collectDataStarted,
           NEW earlier \in Seq(Sizes), NEW size \in Sizes, Follows(st, earlier)
    PROVE  /\ UpdateRx(st, size) \in StatsType
           /\ UpdateRx(st, size).collectDataStarted
           /\ Follows(UpdateRx(st, size), Append(earlier, size))
<1> DEFINE total  == Total(earlier)
           n      == Len(earlier)
           longer == Append(earlier, size)
           max    == IF size > st.maxMessageSize THEN size ELSE st.maxMessageSize
           avr    == (st.txDataByte + st.rxDataByte + size) \div (st.messageCount + 1)
<1>1. size \in Nat /\ size > 0 /\ Sizes \subseteq Nat
  BY ServersAssumption
<1>2. earlier \in Seq(Nat)
  <2>1. \A k \in 1..Len(earlier) : earlier[k] \in Sizes
    OBVIOUS
  <2>2. \A k \in 1..Len(earlier) : earlier[k] \in Nat
    BY <1>1, <2>1
  <2>3. QED
    BY <2>2
<1>3. total \in Nat /\ Total(longer) = total + size
  BY <1>1, <1>2, TotalProperties
<1>4. /\ longer \in Seq(Nat) /\ Len(longer) = n + 1 /\ n \in Nat /\ longer # <<>>
      /\ longer[n + 1] = size
      /\ \A k \in 1..n : longer[k] = earlier[k] /\ earlier[k] \in Nat
  BY <1>1, <1>2
<1>5. /\ st.rxDataByte = total /\ st.txDataByte \in Nat /\ st.messageCount = n
      /\ st.maxMessageSize \in Nat
      /\ \A k \in 1..n : earlier[k] <= st.maxMessageSize
      /\ earlier = <<>> => st.maxMessageSize = 0
      /\ earlier # <<>> => \E k \in 1..n : earlier[k] = st.maxMessageSize
  BY DEF Follows, StatsType
<1>6. max \in Nat /\ avr \in Int
  BY <1>1, <1>3, <1>4, <1>5
<1>7. UpdateRx(st, size) =
        [st EXCEPT !.rxDataByte = total + size, !.messageCount = n + 1, !.avrMessageSize = avr,
                   !.maxMessageSize = max, !.txDataByte = st.txDataByte + size]
  BY <1>5 DEF UpdateRx
<1>8. \A k \in 1..(n + 1) : longer[k] <= max
  <2>1. SUFFICES ASSUME NEW k \in 1..(n + 1) PROVE longer[k] <= max
    OBVIOUS
  <2>2. CASE k = n + 1
    BY <1>1, <1>4, <1>5, <2>2
  <2>3. CASE k # n + 1
    <3>1. k \in 1..n
      BY <1>4, <2>3
    <3>2. QED
      BY <1>1, <1>4, <1>5, <3>1
  <2>4. QED
    BY <2>2, <2>3
<1>9. \E k \in 1..(n + 1) : longer[k] = max
  <2>1. CASE size > st.maxMessageSize
    BY <1>4, <2>1
  <2>2. CASE ~(size > st.maxMessageSize)
    <3>1. earlier # <<>>
      BY <1>1, <1>5, <2>2
    <3>2. PICK k \in 1..n : earlier[k] = st.maxMessageSize
      BY <1>5, <3>1
    <3>3. k \in 1..(n + 1) /\ longer[k] = max
      BY <1>4, <2>2, <3>2
    <3>4. QED
      BY <3>3
  <2>3. QED
    BY <2>1, <2>2
<1> HIDE DEF max, avr, total, longer, n
<1>10. /\ UpdateRx(st, size) \in StatsType
       /\ UpdateRx(st, size).collectDataStarted = st.collectDataStarted
       /\ UpdateRx(st, size).rxDataByte = total + size
       /\ UpdateRx(st, size).messageCount = n + 1
       /\ UpdateRx(st, size).maxMessageSize = max
  <2>1. total + size \in Nat /\ n + 1 \in Nat /\ st.txDataByte + size \in Nat
    BY <1>1, <1>3, <1>4, <1>5
  <2>2. QED
    BY <1>6, <1>7, <2>1 DEF StatsType
<1>11. Follows(UpdateRx(st, size), longer)
  BY <1>3, <1>4, <1>6, <1>8, <1>9, <1>10 DEF Follows
<1>12. QED
  BY <1>10, <1>11 DEF longer

\* A datagram that is taken, whatever the engine does with it.
LEMMA TakenFollows ==
    ASSUME StatsInv, call.op # "count", heard \in Seq(Sizes), NEW size \in Sizes,
           Handled(size) \/ NotHandled(size),
           call' = [Idle EXCEPT !.op = "count", !.size = size]
    PROVE  StatsInv'
<1>1. call'.op = "count" /\ call'.size = size
  BY DEF Idle
<1>2. stats \in StatsType /\ Follows(stats, heard)
  BY DEF StatsInv
<1>3. CASE stats' = stats /\ heard' = IF stats.collectDataStarted THEN Append(heard, size) ELSE heard
  <2>1. CASE stats.collectDataStarted
    <3>1. heard' = Append(heard, size) /\ Follows(stats', heard)
      BY <1>2, <1>3, <2>1
    <3>2. QED
      BY <1>1, <1>2, <1>3, <2>1, <3>1 DEF StatsInv
  <2>2. CASE ~stats.collectDataStarted
    BY <1>1, <1>2, <1>3, <2>2 DEF StatsInv
  <2>3. QED
    BY <2>1, <2>2
<1>4. CASE stats' = ResetCounter(TRUE) /\ heard' = Append(<<>>, size)
  <2>1. /\ ResetCounter(TRUE) \in StatsType /\ ResetCounter(TRUE).collectDataStarted
        /\ Follows(ResetCounter(TRUE), <<>>)
    BY ResetFollows
  <2>2. <<>> \in Seq(Sizes)
    OBVIOUS
  <2>3. QED
    BY <1>1, <1>4, <2>1, <2>2 DEF StatsInv
<1>5. QED
  <2>1. CASE NotHandled(size)
    BY <1>3, <2>1 DEF NotHandled
  <2>2. CASE Handled(size)
    <3>1. PICK executes \in {FALSE, TRUE}, res \in {5, 6}, length \in {0, 1} :
            LET after == IF executes THEN StatisticsExecuted(stats, res, length) ELSE stats
                reset == executes /\ StatisticsExecCode(res, length) = 204
            IN  /\ stats' = after
                /\ heard' = IF after.collectDataStarted
                            THEN Append(IF reset THEN <<>> ELSE heard, size) ELSE heard
      BY <2>2 DEF Handled
    <3>2. CASE executes /\ StatisticsExecCode(res, length) = 204
      <4>1. stats' = ResetCounter(TRUE) /\ ResetCounter(TRUE).collectDataStarted
        BY <3>1, <3>2, ResetFollows DEF StatisticsExecuted
      <4>2. (IF executes THEN StatisticsExecuted(stats, res, length) ELSE stats) = ResetCounter(TRUE)
        BY <3>2 DEF StatisticsExecuted
      <4>3. heard' = Append(<<>>, size)
        BY <3>1, <3>2, <4>1, <4>2
      <4>4. QED
        BY <1>4, <4>1, <4>3
    <3>3. CASE ~(executes /\ StatisticsExecCode(res, length) = 204)
      <4>1. stats' = stats
        BY <3>1, <3>3 DEF StatisticsExecuted
      <4>2. heard' = IF stats.collectDataStarted THEN Append(heard, size) ELSE heard
        BY <3>1, <3>3 DEF StatisticsExecuted
      <4>3. QED
        BY <1>3, <4>1, <4>2
    <3>4. QED
      BY <3>2, <3>3
  <2>3. QED
    BY <2>1, <2>2

LEMMA StatsInvStep ==
    ASSUME IInv, StatsInv, [Next]_vars
    PROVE  StatsInv'
<1>1. heard \in Seq(Sizes) /\ (call.op = "read" => call.size \in Sizes)
  BY DEF IInv, Typed, TypeOK
<1>2. Idle.op = "idle"
  BY DEF Idle
<1>3. ASSUME call' = call, stats' = stats, heard' = heard
      PROVE  StatsInv'
  BY <1>3 DEF StatsInv
<1>4. ASSUME call.op # "count", call'.op # "count", stats' = stats, heard' = heard
      PROVE  StatsInv'
  BY <1>4 DEF StatsInv
<1>5. CASE Start
  BY <1>3, <1>5 DEF Start, connVars
<1>6. CASE \E s \in Servers : Connect(s) \/ CloseConnection(s) \/ SendPlain(s)
  BY <1>3, <1>6 DEF Connect, CloseConnection, SendPlain
<1>7. ASSUME NEW s \in Servers, SendDtls(s)
      PROVE  StatsInv'
  <2>1. call.op # "count" /\ stats' = stats /\ heard' = heard
    BY <1>2, <1>7 DEF SendDtls, Quiet
  <2>2. call'.op = "write"
    BY <1>7 DEF SendDtls, Idle
  <2>3. QED
    BY <1>4, <2>1, <2>2
<1>8. ASSUME NEW addr, NEW size \in Sizes, ReceivePlain(addr, size)
      PROVE  StatsInv'
  <2>1. /\ call.op # "count" /\ Handled(size)
        /\ call' = [Idle EXCEPT !.op = "count", !.size = size]
    BY <1>2, <1>8 DEF ReceivePlain, Arrives
  <2>2. QED
    BY <1>1, <2>1, TakenFollows
<1>9. ASSUME NEW addr, NEW size \in Sizes, ReceiveDtls(addr, size)
      PROVE  StatsInv'
  <2>1. call.op # "count" /\ call'.op = "read" /\ stats' = stats /\ heard' = heard
    BY <1>2, <1>9 DEF ReceiveDtls, Arrives
  <2>2. QED
    BY <1>4, <2>1
<1>10. ASSUME NEW want \in Slices, Fetch(want)
       PROVE  StatsInv'
  <2>1. call.op \in {"read", "write"} /\ stats' = stats /\ heard' = heard
    BY <1>10 DEF Fetch
  <2>2. PICK got : call' = [call EXCEPT !.got = got]
    BY <1>10 DEF Fetch
  <2>3. call \in [op : {"read", "write"}, cell : Cells, size : Nat, got : Nat]
    BY <2>1 DEF IInv, Typed, TypeOK
  <2>4. call'.op = call.op
    BY <2>2, <2>3
  <2>5. QED
    BY <1>4, <2>1, <2>4
<1>11. CASE WriteEnds
  BY <1>2, <1>4, <1>11 DEF WriteEnds
<1>12. CASE ReadEnds
  <2>1. /\ call.op = "read"
        /\ Handled(call.size) \/ NotHandled(call.size)
        /\ call' = [Idle EXCEPT !.op = "count", !.size = call.size]
    BY <1>12 DEF ReadEnds
  <2>2. QED
    BY <1>1, <2>1, TakenFollows
<1>13. CASE Count
  <2>1. /\ call.op = "count" /\ call'.op = "idle" /\ heard' = heard
        /\ stats' = UpdateRx(stats, call.size)
    BY <1>2, <1>13 DEF Count
  <2>2. CASE stats.collectDataStarted
    <3>1. PICK earlier \in Seq(Sizes) : /\ call.size \in Sizes
                                        /\ heard = Append(earlier, call.size)
                                        /\ Follows(stats, earlier)
      BY <2>1, <2>2 DEF StatsInv
    <3>2. stats \in StatsType
      BY DEF StatsInv
    <3>3. /\ UpdateRx(stats, call.size) \in StatsType
          /\ UpdateRx(stats, call.size).collectDataStarted
          /\ Follows(UpdateRx(stats, call.size), Append(earlier, call.size))
      BY <2>2, <3>1, <3>2, UpdateFollows
    <3>4. QED
      BY <2>1, <3>1, <3>3 DEF StatsInv
  <2>3. CASE ~stats.collectDataStarted
    <3>1. stats' = stats
      BY <2>1, <2>3 DEF UpdateRx
    <3>2. QED
      BY <2>1, <2>3, <3>1 DEF StatsInv
  <2>4. QED
    BY <2>2, <2>3
<1>14. CASE TypedQuit \/ FreeLayer \/ Stopped \/ UNCHANGED vars
  <2>1. call' = call /\ stats' = stats /\ heard' = heard
    BY <1>14 DEF TypedQuit, FreeLayer, Stopped, vars, connVars
  <2>2. QED
    BY <1>3, <2>1
<1>15. QED
  <2>1. CASE \E s \in Servers : Connect(s) \/ CloseConnection(s) \/ SendPlain(s) \/ SendDtls(s)
    BY <1>6, <1>7, <2>1
  <2>2. CASE \E s \in Servers, size \in Sizes :
               ReceivePlain(AddressOf(s), size) \/ ReceiveDtls(AddressOf(s), size)
    BY <1>8, <1>9, <2>2
  <2>3. CASE \E want \in Slices : Fetch(want)
    BY <1>10, <2>3
  <2>4. QED
    BY <1>5, <1>11, <1>12, <1>13, <1>14, <2>1, <2>2, <2>3 DEF Next

\* Rx Data, the number of messages and the maximum are those of the datagrams
\* handled since the last reset, however many there are and however long
\* (StatsFollowTraffic).
THEOREM StatsCorrect == Spec => []StatsFollowTraffic
<1>1. Init => StatsInv
  <2>1. SUFFICES ASSUME Init PROVE StatsInv
    OBVIOUS
  <2>2. stats = ResetCounter(FALSE) /\ heard = <<>> /\ call.op = "idle"
    BY <2>1 DEF Init, Idle
  <2>3. QED
    BY <2>2, ResetFollows DEF StatsInv
<1>2. IInv /\ StatsInv /\ [Next]_vars => (IInv /\ StatsInv)'
  BY IInvStep, StatsInvStep
<1>3. IInv /\ StatsInv => StatsFollowTraffic
  <2>1. SUFFICES ASSUME IInv, StatsInv, call = Idle PROVE StatsFollowTraffic
    BY DEF StatsFollowTraffic
  <2>2. Follows(stats, heard)
    BY <2>1 DEF StatsInv, Idle
  <2>3. heard \in Seq(Sizes)
    BY <2>1 DEF IInv, Typed, TypeOK
  <2>4. DOMAIN heard = 1..Len(heard)
    BY <2>3
  <2>5. heard # <<>> => stats.maxMessageSize \in ToSet(heard)
    BY <2>2, <2>4 DEF Follows, ToSet
  <2>6. QED
    BY <2>2, <2>4, <2>5 DEF Follows, StatsFollowTraffic
<1>4. QED
  BY <1>1, <1>2, <1>3, InitIInv, PTL DEF Spec

-----------------------------------------------------------------------------
(* What a command line asks for. *)

\* The places of a command line read before m.
Before(m) == {k \in OptionPlaces(argv) : k < m}

\* What the options at some places ask for.
AskedAt(line, places, f, default) ==
    LET ks == {k \in places : line[k] = Settings[f]}
    IN  IF ks = {} THEN default
        ELSE line[(CHOOSE k \in ks : \A j \in ks : j <= k) + 1]

IsOption(line, k) ==
    line[k] \in Flags \/ \E f \in DOMAIN Settings : ValueFollows(line, k, f)

Others == {"t", "i", "s", "n", "l", "S", "h"}

GivenAt(places, word) == \E k \in places : argv[k] = word

\* While the options are read, the next one stands at a place of an option, those
\* before it lead to it, and the settings are what they ask for.
OptionsInv ==
    stage = "options" =>
        /\ opt \in 1..(Len(argv) + 1)
        /\ opt <= Len(argv) => opt \in OptionPlaces(argv)
        /\ \A k \in Before(opt) : NextPlace(argv, k) <= opt /\ IsOption(argv, k)
        /\ config.serverPortChanged <=> GivenAt(Before(opt), "-p")
        /\ config.p = AskedAt(argv, Before(opt), "p",
                              IF GivenAt(Before(opt), "-b") THEN "5685" ELSE "5683")
        /\ \A f \in Others : config[f] = AskedAt(argv, Before(opt), f, Factory[f])
        /\ config.flags = {flag \in Flags : GivenAt(Before(opt), flag)}

LEMMA AskedIsAskedAt ==
    \A line, f, default : Asked(line, f, default) = AskedAt(line, OptionPlaces(line), f, default)
  BY DEF Asked, AskedAt

Earlier(places, m) == places \in SUBSET Nat /\ m \in Nat /\ \A k \in places : k < m

\* The option read last counts.
LEMMA AskedLast ==
    ASSUME NEW line, NEW places, NEW m, Earlier(places, m), NEW f, NEW default
    PROVE  AskedAt(line, places \cup {m}, f, default)
              = IF line[m] = Settings[f] THEN line[m + 1] ELSE AskedAt(line, places, f, default)
<1> DEFINE ks  == {k \in places : line[k] = Settings[f]}
           all == {k \in places \cup {m} : line[k] = Settings[f]}
<1>0. places \in SUBSET Nat /\ m \in Nat /\ \A k \in places : k < m
  BY DEF Earlier
<1>1. CASE line[m] = Settings[f]
  <2>1. m \in all /\ \A j \in all : j <= m
    <3>1. m \in all
      BY <1>1
    <3>2. ASSUME NEW j \in all PROVE j <= m
      <4>1. j = m \/ (j \in Nat /\ j < m)
        BY <1>0
      <4>2. QED
        BY <1>0, <4>1
    <3>3. QED
      BY <3>1, <3>2
  <2>2. \A k \in all : (\A j \in all : j <= k) => k = m
    <3>1. SUFFICES ASSUME NEW k \in all, \A j \in all : j <= k PROVE k = m
      OBVIOUS
    <3>2. k \in Nat /\ k <= m /\ m <= k
      BY <1>0, <2>1, <3>1
    <3>3. QED
      BY <1>0, <3>2
  <2>3. (CHOOSE k \in all : \A j \in all : j <= k) = m
    <3> HIDE DEF all
    <3>1. QED
      BY <2>1, <2>2
  <2>4. AskedAt(line, places \cup {m}, f, default)
          = IF all = {} THEN default ELSE line[(CHOOSE k \in all : \A j \in all : j <= k) + 1]
    BY DEF AskedAt
  <2> HIDE DEF all
  <2>5. QED
    BY <1>1, <2>1, <2>3, <2>4
<1>2. CASE line[m] # Settings[f]
  <2>1. all = ks
    BY <1>2
  <2>2. /\ AskedAt(line, places \cup {m}, f, default)
             = IF all = {} THEN default ELSE line[(CHOOSE k \in all : \A j \in all : j <= k) + 1]
        /\ AskedAt(line, places, f, default)
             = IF ks = {} THEN default ELSE line[(CHOOSE k \in ks : \A j \in ks : j <= k) + 1]
    BY DEF AskedAt
  <2> HIDE DEF all, ks
  <2>3. QED
    BY <1>2, <2>1, <2>2
<1>3. QED
  BY <1>1, <1>2

\* What is asked for does not depend on the default; what is not, is the default.
LEMMA AskedOrDefault ==
    ASSUME NEW line, NEW places, NEW f, NEW default, NEW other
    PROVE  /\ (\E k \in places : line[k] = Settings[f]) =>
                 AskedAt(line, places, f, default) = AskedAt(line, places, f, other)
           /\ ~(\E k \in places : line[k] = Settings[f]) =>
                 AskedAt(line, places, f, default) = default
<1> DEFINE ks == {k \in places : line[k] = Settings[f]}
<1>1. CASE ks = {}
  <2>1. AskedAt(line, places, f, default) = default
    BY <1>1 DEF AskedAt
  <2>2. QED
    BY <1>1, <2>1
<1>2. CASE ks # {}
  <2>1. \E k \in places : line[k] = Settings[f]
    BY <1>2
  <2>2. AskedAt(line, places, f, default) = AskedAt(line, places, f, other)
    BY <1>2 DEF AskedAt
  <2>3. QED
    BY <2>1, <2>2
<1>3. QED
  BY <1>1, <1>2

\* The places of options are followed by places of options.
LEMMA PlacesFollowed ==
    ASSUME NEW line \in Seq(STRING)
    PROVE  /\ OptionPlaces(line) \in SUBSET (1..Len(line))
           /\ Len(line) > 0 => 1 \in OptionPlaces(line)
           /\ \A k \in OptionPlaces(line) :
                 NextPlace(line, k) <= Len(line) => NextPlace(line, k) \in OptionPlaces(line)
<1>1. OptionPlaces(line) \in SUBSET (1..Len(line))
  BY DEF OptionPlaces
<1>2. Len(line) > 0 => 1 \in OptionPlaces(line)
  BY DEF OptionPlaces, Followed
<1>3. ASSUME NEW k \in OptionPlaces(line), NextPlace(line, k) <= Len(line)
      PROVE  NextPlace(line, k) \in OptionPlaces(line)
  <2>1. k \in 1..Len(line) /\ NextPlace(line, k) \in 1..Len(line)
    BY <1>1, <1>3 DEF NextPlace
  <2>2. ASSUME NEW places \in SUBSET (1..Len(line)), Followed(line, places)
        PROVE  NextPlace(line, k) \in places
    <3>1. k \in places
      BY <2>2 DEF OptionPlaces
    <3>2. QED
      BY <1>3, <2>2, <3>1 DEF Followed
  <2>3. QED
    BY <2>1, <2>2 DEF OptionPlaces
<1>4. QED
  BY <1>1, <1>2, <1>3

\* No place between the option that is read and the next is a place of an option.
LEMMA ReadPlace ==
    ASSUME argv \in Seq(STRING), opt \in OptionPlaces(argv),
           \A k \in Before(opt) : NextPlace(argv, k) <= opt
    PROVE  Before(NextPlace(argv, opt)) = Before(opt) \cup {opt}
<1> DEFINE P == OptionPlaces(argv)
<1>1. /\ P \in SUBSET (1..Len(argv)) /\ 1 \in P
      /\ \A k \in P : NextPlace(argv, k) <= Len(argv) => NextPlace(argv, k) \in P
      /\ opt \in Nat /\ opt >= 1
  BY PlacesFollowed
<1>2. CASE NextPlace(argv, opt) = opt + 1
  BY <1>1, <1>2 DEF Before
<1>3. CASE NextPlace(argv, opt) = opt + 2
  <2>1. opt + 1 \notin P
    <3> DEFINE rest == P \ {opt + 1}
    <3>1. 1 \in rest
      BY <1>1
    <3>2. ASSUME NEW k \in rest, NextPlace(argv, k) <= Len(argv)
          PROVE  NextPlace(argv, k) \in rest
      <4>1. NextPlace(argv, k) \in P
        BY <1>1, <3>2
      <4>2. k \in Nat
        BY <1>1
      <4>3. CASE k < opt
        BY <1>1, <4>1, <4>3 DEF Before
      <4>4. CASE k = opt
        BY <1>1, <1>3, <4>1, <4>4
      <4>5. CASE k > opt
        <5>1. k > opt + 1
          BY <1>1, <4>2, <4>5
        <5>2. NextPlace(argv, k) > opt + 1
          BY <1>1, <4>2, <5>1 DEF NextPlace
        <5>3. QED
          BY <1>1, <4>1, <5>2
      <4>6. QED
        BY <1>1, <4>2, <4>3, <4>4, <4>5
    <3>3. Followed(argv, rest)
      BY <3>1, <3>2 DEF Followed
    <3>4. rest \in SUBSET (1..Len(argv))
      BY <1>1
    <3>5. \A k \in P : k \in rest
      <4> HIDE DEF rest
      <4>1. QED
        BY <3>3, <3>4 DEF OptionPlaces
    <3>6. QED
      BY <3>5
  <2>2. QED
    BY <1>1, <1>3, <2>1 DEF Before
<1>4. QED
  BY <1>2, <1>3 DEF NextPlace

LEMMA OptionNames ==
    /\ DOMAIN Settings = Others \cup {"p"}
    /\ \A f, g \in DOMAIN Settings : Settings[f] = Settings[g] => f = g
    /\ \A f \in DOMAIN Settings : Settings[f] \notin Flags /\ Settings[f] \in Valued
    /\ Settings["p"] = "-p" /\ \A f \in Others : Settings[f] # "-p"
    /\ \A flag \in Flags : flag \notin Valued
<1>1. DOMAIN Settings = {"t", "i", "s", "n", "l", "h", "p", "S"}
  BY DEF Settings
<1>2. /\ Settings["t"] = "-t" /\ Settings["i"] = "-i" /\ Settings["s"] = "-s"
      /\ Settings["n"] = "-n" /\ Settings["l"] = "-l" /\ Settings["h"] = "-h"
      /\ Settings["p"] = "-p" /\ Settings["S"] = "-S"
  BY DEF Settings
<1>3. \A f, g \in DOMAIN Settings : Settings[f] = Settings[g] => f = g
  BY <1>1, <1>2
<1>4. \A f \in DOMAIN Settings : Settings[f] \notin Flags /\ Settings[f] \in Valued
  BY <1>1, <1>2 DEF Flags, Valued
<1>5. \A flag \in Flags : flag \notin Valued
  BY <1>4 DEF Flags, Valued
<1>6. QED
  BY <1>1, <1>2, <1>3, <1>4, <1>5 DEF Others

\* What the places read are, once the option at opt has been read too.
LEMMA OptionRead ==
    ASSUME argv \in Seq(STRING), OptionsInv, Reading, IsOption(argv, opt),
           NEW next, next = NextPlace(argv, opt), next <= Len(argv) + 1
    PROVE  /\ next \in 1..(Len(argv) + 1)
           /\ next <= Len(argv) => next \in OptionPlaces(argv)
           /\ \A k \in Before(next) : NextPlace(argv, k) <= next /\ IsOption(argv, k)
           /\ \A word : GivenAt(Before(next), word) <=> GivenAt(Before(opt), word) \/ argv[opt] = word
           /\ \A f, default :
                 AskedAt(argv, Before(next), f, default)
                    = IF argv[opt] = Settings[f] THEN argv[opt + 1]
                      ELSE AskedAt(argv, Before(opt), f, default)
<1>1. /\ opt \in 1..Len(argv) /\ opt \in OptionPlaces(argv)
      /\ \A k \in Before(opt) : NextPlace(argv, k) <= opt /\ IsOption(argv, k)
      /\ Len(argv) \in Nat
  BY DEF OptionsInv, Reading
<1>2. next \in 1..(Len(argv) + 1) /\ opt < next
  BY <1>1 DEF NextPlace
<1>3. next <= Len(argv) => next \in OptionPlaces(argv)
  BY <1>1, PlacesFollowed
<1>4. Before(next) = Before(opt) \cup {opt}
  BY <1>1, ReadPlace
<1>5. ASSUME NEW k \in Before(next) PROVE NextPlace(argv, k) <= next /\ IsOption(argv, k)
  <2>1. CASE k = opt
    BY <1>1, <1>2, <2>1
  <2>2. CASE k # opt
    <3>1. k \in Before(opt)
      BY <1>4, <2>2
    <3>2. k \in Nat
      BY <3>1, PlacesFollowed DEF Before
    <3>3. NextPlace(argv, k) \in Nat
      BY <3>2 DEF NextPlace
    <3>4. QED
      BY <1>1, <1>2, <3>1, <3>3
  <2>3. QED
    BY <2>1, <2>2
<1>6. \A word : GivenAt(Before(next), word) <=> GivenAt(Before(opt), word) \/ argv[opt] = word
  BY <1>4 DEF GivenAt
<1>7. ASSUME NEW f, NEW default
      PROVE  AskedAt(argv, Before(next), f, default)
                = IF argv[opt] = Settings[f] THEN argv[opt + 1]
                  ELSE AskedAt(argv, Before(opt), f, default)
  <2>1. Earlier(Before(opt), opt)
    BY <1>1, PlacesFollowed DEF Before, Earlier
  <2>2. QED
    BY <1>4, <2>1, AskedLast
<1>8. QED
  BY <1>2, <1>3, <1>5, <1>6, <1>7

\* A flag is taken.
LEMMA ReadFlagStep ==
    ASSUME Typed, OptionsInv, ReadFlag
    PROVE  OptionsInv'
<1> DEFINE flag == argv[opt]
           next == NextPlace(argv, opt)
           port(bootstrap) == IF bootstrap THEN "5685" ELSE "5683"
<1>1. /\ argv \in Seq(STRING) /\ config \in ConfigType /\ Reading /\ flag \in Flags
      /\ config' = TakeFlag(config, flag) /\ opt' = opt + 1 /\ stage' = stage /\ argv' = argv
  BY DEF Typed, ReadFlag
<1>2. opt \in 1..Len(argv) /\ Len(argv) \in Nat /\ stage = "options"
  BY <1>1 DEF OptionsInv, Reading
<1>3. next = opt + 1
  BY <1>1, OptionNames DEF NextPlace
<1>4. IsOption(argv, opt)
  BY <1>1 DEF IsOption
<1>5. /\ opt' = next
      /\ next \in 1..(Len(argv) + 1)
      /\ next <= Len(argv) => next \in OptionPlaces(argv)
      /\ \A k \in Before(next) : NextPlace(argv, k) <= next /\ IsOption(argv, k)
      /\ \A word : GivenAt(Before(next), word) <=> GivenAt(Before(opt), word) \/ flag = word
      /\ \A f, default :
            AskedAt(argv, Before(next), f, default)
               = IF flag = Settings[f] THEN argv[opt + 1]
                 ELSE AskedAt(argv, Before(opt), f, default)
  <2> HIDE DEF flag, next
  <2>1. next <= Len(argv) + 1 /\ opt' = next
    BY <1>1, <1>2, <1>3
  <2>2. QED
    BY <1>1, <1>4, <2>1, OptionRead DEF flag, next
<1>6. \A f \in DOMAIN Settings : \A default :
         AskedAt(argv, Before(next), f, default) = AskedAt(argv, Before(opt), f, default)
  <2> HIDE DEF flag, next
  <2>1. \A f \in DOMAIN Settings : flag # Settings[f]
    BY <1>1, OptionNames
  <2>2. QED
    BY <1>5, <2>1
<1>7. /\ config'.flags = config.flags \cup {flag}
      /\ config'.serverPortChanged = config.serverPortChanged
      /\ config'.p = IF flag = "-b" /\ ~config.serverPortChanged THEN "5685" ELSE config.p
      /\ \A f \in Others : config'[f] = config[f]
  BY <1>1 DEF TakeFlag, ConfigType, Others
<1>8. /\ config.serverPortChanged <=> GivenAt(Before(opt), "-p")
      /\ config.p = AskedAt(argv, Before(opt), "p", port(GivenAt(Before(opt), "-b")))
      /\ \A f \in Others : config[f] = AskedAt(argv, Before(opt), f, Factory[f])
      /\ config.flags = {g \in Flags : GivenAt(Before(opt), g)}
  BY <1>2 DEF OptionsInv
<1>9. config'.serverPortChanged <=> GivenAt(Before(next), "-p")
  <2> HIDE DEF flag, next
  <2>1. flag # "-p"
    BY <1>1 DEF Flags
  <2>2. QED
    BY <1>5, <1>7, <1>8, <2>1
<1>10. \A f \in Others : config'[f] = AskedAt(argv, Before(next), f, Factory[f])
  <2> HIDE DEF flag, next
  <2>1. \A f \in Others : f \in DOMAIN Settings
    BY OptionNames
  <2>2. QED
    BY <1>6, <1>7, <1>8, <2>1
<1>11. config'.flags = {g \in Flags : GivenAt(Before(next), g)}
  <2> HIDE DEF flag, next
  <2>1. QED
    BY <1>1, <1>5, <1>7, <1>8
<1>12. config'.p = AskedAt(argv, Before(next), "p", port(GivenAt(Before(next), "-b")))
  <2> HIDE DEF flag, next, port
  <2>1. "p" \in DOMAIN Settings /\ Settings["p"] = "-p"
    BY OptionNames
  <2>2. /\ GivenAt(Before(opt), "-p") => \A default, other :
              AskedAt(argv, Before(opt), "p", default) = AskedAt(argv, Before(opt), "p", other)
        /\ ~GivenAt(Before(opt), "-p") => \A default :
              AskedAt(argv, Before(opt), "p", default) = default
    BY <2>1, AskedOrDefault DEF GivenAt
  <2>3. AskedAt(argv, Before(next), "p", port(GivenAt(Before(next), "-b")))
           = AskedAt(argv, Before(opt), "p", port(GivenAt(Before(next), "-b")))
    BY <1>6, <2>1
  <2>4. CASE GivenAt(Before(opt), "-p")
    BY <1>7, <1>8, <2>2, <2>3, <2>4
  <2>5. CASE ~GivenAt(Before(opt), "-p")
    <3>1. config'.p = IF flag = "-b" THEN "5685" ELSE port(GivenAt(Before(opt), "-b"))
      BY <1>7, <1>8, <2>2, <2>5
    <3>2. AskedAt(argv, Before(next), "p", port(GivenAt(Before(next), "-b")))
             = port(GivenAt(Before(next), "-b"))
      BY <2>2, <2>3, <2>5
    <3>3. GivenAt(Before(next), "-b") <=> GivenAt(Before(opt), "-b") \/ flag = "-b"
      BY <1>5
    <3>4. QED
      BY <3>1, <3>2, <3>3 DEF port
  <2>6. QED
    BY <2>4, <2>5
<1>13. QED
  <2> HIDE DEF flag, next
  <2>1. /\ opt' \in 1..(Len(argv') + 1)
        /\ opt' <= Len(argv') => opt' \in OptionPlaces(argv')
        /\ \A k \in Before(opt)' : NextPlace(argv', k) <= opt' /\ IsOption(argv', k)
    BY <1>1, <1>5 DEF Before
  <2>2. /\ config'.serverPortChanged <=> GivenAt(Before(opt), "-p")'
        /\ config'.p = AskedAt(argv', Before(opt)', "p",
                               IF GivenAt(Before(opt), "-b")' THEN "5685" ELSE "5683")
        /\ \A f \in Others : config'[f] = AskedAt(argv', Before(opt)', f, Factory[f])
        /\ config'.flags = {g \in Flags : GivenAt(Before(opt), g)'}
    <3>1. Before(opt)' = Before(next)
      BY <1>1, <1>5 DEF Before
    <3>2. \A word : GivenAt(Before(opt), word)' <=> GivenAt(Before(next), word)
      BY <1>1, <3>1 DEF GivenAt
    <3>3. QED
      BY <1>1, <1>9, <1>10, <1>11, <1>12, <3>1, <3>2
  <2>3. QED
    BY <2>1, <2>2 DEF OptionsInv

\* A value is taken.
LEMMA ReadValueStep ==
    ASSUME Typed, OptionsInv, ReadValue
    PROVE  OptionsInv'
<1> DEFINE next == NextPlace(argv, opt)
           port(bootstrap) == IF bootstrap THEN "5685" ELSE "5683"
<1>1. /\ argv \in Seq(STRING) /\ config \in ConfigType /\ Reading
      /\ opt' = opt + 2 /\ stage' = stage /\ argv' = argv
  BY DEF Typed, ReadValue
<1>2. opt \in 1..Len(argv) /\ Len(argv) \in Nat /\ stage = "options"
  BY <1>1 DEF OptionsInv, Reading
<1>3. PICK f \in DOMAIN Settings :
         /\ ValueFollows(argv, opt, f)
         /\ config' = TakeValue(config, f, argv[opt + 1])
  BY DEF ReadValue
<1>4. argv[opt] = Settings[f] /\ opt < Len(argv)
  BY <1>3 DEF ValueFollows
<1>5. next = opt + 2 /\ opt' = next /\ next <= Len(argv) + 1
  BY <1>1, <1>2, <1>4, OptionNames DEF NextPlace
<1>6. IsOption(argv, opt)
  BY <1>3 DEF IsOption
<1>7. /\ next \in 1..(Len(argv) + 1)
      /\ next <= Len(argv) => next \in OptionPlaces(argv)
      /\ \A k \in Before(next) : NextPlace(argv, k) <= next /\ IsOption(argv, k)
      /\ \A word : GivenAt(Before(next), word) <=> GivenAt(Before(opt), word) \/ argv[opt] = word
      /\ \A g, default :
            AskedAt(argv, Before(next), g, default)
               = IF argv[opt] = Settings[g] THEN argv[opt + 1]
                 ELSE AskedAt(argv, Before(opt), g, default)
  <2> HIDE DEF next
  <2>1. QED
    BY <1>1, <1>5, <1>6, OptionRead DEF next
<1> HIDE DEF next, port
<1>8. \A g \in DOMAIN Settings : \A default :
         AskedAt(argv, Before(next), g, default)
            = IF g = f THEN argv[opt + 1] ELSE AskedAt(argv, Before(opt), g, default)
  <2>1. \A g \in DOMAIN Settings : argv[opt] = Settings[g] <=> g = f
    BY <1>4, OptionNames
  <2>2. QED
    BY <1>7, <2>1
<1>9. f \in {"t", "i", "s", "n", "l", "h", "p", "S"}
  BY OptionNames DEF Others
<1>10. /\ config'.flags = config.flags
       /\ config'.serverPortChanged = (config.serverPortChanged \/ f = "p")
       /\ \A g \in DOMAIN Settings : config'[g] = IF g = f THEN argv[opt + 1] ELSE config[g]
  BY <1>1, <1>3, <1>9, OptionNames DEF TakeValue, ConfigType, Others
<1>11. /\ config.serverPortChanged <=> GivenAt(Before(opt), "-p")
       /\ config.p = AskedAt(argv, Before(opt), "p", port(GivenAt(Before(opt), "-b")))
       /\ \A g \in Others : config[g] = AskedAt(argv, Before(opt), g, Factory[g])
       /\ config.flags = {g \in Flags : GivenAt(Before(opt), g)}
  BY <1>2 DEF OptionsInv, port
<1>12. \A flag \in Flags : GivenAt(Before(next), flag) <=> GivenAt(Before(opt), flag)
  BY <1>4, <1>7, OptionNames
<1>13. config'.serverPortChanged <=> GivenAt(Before(next), "-p")
  <2>1. argv[opt] = "-p" <=> f = "p"
    BY <1>4, OptionNames
  <2>2. QED
    BY <1>7, <1>10, <1>11, <2>1
<1>14. \A g \in Others : config'[g] = AskedAt(argv, Before(next), g, Factory[g])
  <2>1. \A g \in Others : g \in DOMAIN Settings
    BY OptionNames
  <2>2. QED
    BY <1>8, <1>10, <1>11, <2>1
<1>15. config'.flags = {g \in Flags : GivenAt(Before(next), g)}
  BY <1>10, <1>11, <1>12
<1>16. config'.p = AskedAt(argv, Before(next), "p", port(GivenAt(Before(next), "-b")))
  <2>1. "p" \in DOMAIN Settings /\ "-b" \in Flags
    BY OptionNames DEF Flags
  <2>2. GivenAt(Before(next), "-b") <=> GivenAt(Before(opt), "-b")
    BY <1>12, <2>1
  <2>3. port(GivenAt(Before(next), "-b")) = port(GivenAt(Before(opt), "-b"))
    BY <2>2 DEF port
  <2>4. QED
    BY <1>8, <1>10, <1>11, <2>1, <2>3
<1>17. QED
  <2>1. /\ opt' \in 1..(Len(argv') + 1)
        /\ opt' <= Len(argv') => opt' \in OptionPlaces(argv')
        /\ \A k \in Before(opt)' : NextPlace(argv', k) <= opt' /\ IsOption(argv', k)
    BY <1>1, <1>5, <1>7 DEF Before
  <2>2. /\ config'.serverPortChanged <=> GivenAt(Before(opt), "-p")'
        /\ config'.p = AskedAt(argv', Before(opt)', "p",
                               IF GivenAt(Before(opt), "-b")' THEN "5685" ELSE "5683")
        /\ \A g \in Others : config'[g] = AskedAt(argv', Before(opt)', g, Factory[g])
        /\ config'.flags = {g \in Flags : GivenAt(Before(opt), g)'}
    <3>1. Before(opt)' = Before(next)
      BY <1>1, <1>5 DEF Before
    <3>2. \A word : GivenAt(Before(opt), word)' <=> GivenAt(Before(next), word)
      BY <1>1, <3>1 DEF GivenAt
    <3>3. QED
      BY <1>1, <1>13, <1>14, <1>15, <1>16, <3>1, <3>2 DEF port
  <2>3. QED
    BY <2>1, <2>2 DEF OptionsInv

\* The options have been read, or cannot be.
LEMMA OptionsEndStep ==
    ASSUME Typed, OptionsInv, OptionsRead \/ Usage
    PROVE  SettingsAsGiven'
<1>1. argv \in Seq(STRING) /\ config \in ConfigType /\ Len(argv) \in Nat /\ argv' = argv
  BY DEF Typed, OptionsRead, Usage
<1>2. CASE Usage
  <2>1. opt \in OptionPlaces(argv) /\ ~IsOption(argv, opt)
    BY <1>2 DEF Usage, Reading, OptionsInv, IsOption
  <2>2. ~WellFormed(argv)
    BY <2>1 DEF WellFormed, IsOption
  <2>3. stage' = "usage"
    BY <1>2 DEF Usage
  <2>4. QED
    BY <1>1, <2>2, <2>3 DEF SettingsAsGiven
<1>3. CASE OptionsRead
  <2> DEFINE P == OptionPlaces(argv)
             host(v4) == IF v4 THEN "127.0.0.1" ELSE "[::1]"
             port(bootstrap) == IF bootstrap THEN "5685" ELSE "5683"
  <2>1. stage = "options" /\ opt > Len(argv) /\ stage' = "socket" /\ opt \in Nat
    BY <1>3 DEF OptionsRead, Typed, TypeOK
  <2>2. Before(opt) = P
    BY <1>1, <2>1, PlacesFollowed DEF Before
  <2>3. \A word : GivenAt(P, word) <=> Given(argv, word)
    BY DEF GivenAt, Given
  <2>4. \A f, default : AskedAt(argv, P, f, default) = Asked(argv, f, default)
    BY AskedIsAskedAt
  <2> HIDE DEF P
  <2>5. /\ \A k \in P : IsOption(argv, k)
        /\ config.p = AskedAt(argv, P, "p", port(GivenAt(P, "-b")))
        /\ \A f \in Others : config[f] = AskedAt(argv, P, f, Factory[f])
        /\ config.flags = {flag \in Flags : GivenAt(P, flag)}
    BY <2>1, <2>2 DEF OptionsInv
  <2>6. WellFormed(argv)
    BY <2>5 DEF WellFormed, IsOption, P
  <2>7. /\ config'.p = config.p /\ config'.flags = config.flags
        /\ \A f \in {"t", "i", "s", "n", "l", "S"} : config'[f] = config[f]
        /\ config'.h = IF config.h # None THEN config.h ELSE host("-4" \in config.flags)
    BY <1>1, <1>3 DEF OptionsRead, ConfigType
  <2> HIDE DEF host, port
  <2>8. config'.h = Asked(argv, "h", host(Given(argv, "-4")))
    <3>1. config.h = AskedAt(argv, P, "h", None)
      BY <2>5 DEF Others, Factory
    <3>2. "-4" \in config.flags <=> Given(argv, "-4")
      BY <2>3, <2>5 DEF Flags
    <3>3. host("-4" \in config.flags) = host(Given(argv, "-4"))
      BY <3>2 DEF host
    <3>4. CASE \E k \in P : argv[k] = Settings["h"]
      <4>1. AskedAt(argv, P, "h", None) = AskedAt(argv, P, "h", host(Given(argv, "-4")))
        BY <3>4, AskedOrDefault
      <4>2. config.h # None
        <5> DEFINE ks == {k \in P : argv[k] = Settings["h"]}
                   last == CHOOSE k \in ks : \A j \in ks : j <= k
        <5>1. config.h = argv[last + 1]
          BY <3>1, <3>4 DEF AskedAt
        <5>2. last \in ks
          <6>1. ks \subseteq 0..Len(argv) /\ ks # {}
            BY <1>1, <3>4, PlacesFollowed DEF P
          <6> HIDE DEF ks
          <6>2. \E k \in ks : \A j \in ks : j <= k
            BY <1>1, <6>1, GreatestElement
          <6>3. QED
            BY <6>2
        <5>3. last \in P /\ argv[last] = Settings["h"] /\ last \in 1..Len(argv)
          BY <1>1, <5>2, PlacesFollowed DEF P
        <5> HIDE DEF last
        <5>4. last < Len(argv)
          <6>1. IsOption(argv, last)
            BY <2>5, <5>3
          <6>2. "h" \in DOMAIN Settings
            BY OptionNames DEF Others
          <6>3. argv[last] \notin Flags
            BY <5>3, <6>2, OptionNames
          <6>4. QED
            BY <6>1, <6>3 DEF IsOption, ValueFollows
        <5>5. argv[last + 1] \in STRING
          BY <1>1, <5>3, <5>4
        <5>6. QED
          BY <5>1, <5>5, CommandLinesAssumption
      <4>3. QED
        BY <2>4, <2>7, <3>1, <4>1, <4>2
    <3>5. CASE ~\E k \in P : argv[k] = Settings["h"]
      <4>1. /\ AskedAt(argv, P, "h", None) = None
            /\ AskedAt(argv, P, "h", host(Given(argv, "-4"))) = host(Given(argv, "-4"))
        BY <3>5, AskedOrDefault
      <4>2. QED
        BY <2>4, <2>7, <3>1, <3>3, <4>1
    <3>6. QED
      BY <3>4, <3>5
  <2>9. config'.p = Asked(argv, "p", port(Given(argv, "-b")))
    <3>1. port(GivenAt(P, "-b")) = port(Given(argv, "-b"))
      BY <2>3 DEF port
    <3>2. QED
      BY <2>4, <2>5, <2>7, <3>1
  <2>10. \A f \in {"t", "i", "s", "n", "l", "S"} : config'[f] = Asked(argv, f, Factory[f])
    BY <2>4, <2>5, <2>7 DEF Others
  <2>11. config'.flags = {flag \in Flags : Given(argv, flag)}
    BY <2>3, <2>5, <2>7
  <2>12. QED
    BY <1>1, <2>1, <2>6, <2>8, <2>9, <2>10, <2>11 DEF SettingsAsGiven, host, port
<1>4. QED
  BY <1>2, <1>3

LEMMA SettingsStep ==
    ASSUME IInv, OptionsInv, SettingsAsGiven, [Next]_vars
    PROVE  OptionsInv' /\ SettingsAsGiven'
<1>1. Typed
  BY DEF IInv
<1>2. ASSUME UNCHANGED startVars
      PROVE  OptionsInv' /\ SettingsAsGiven'
  <2>1. stage' = stage /\ argv' = argv /\ opt' = opt /\ config' = config
    BY <1>2 DEF startVars
  <2>2. SettingsAsGiven'
    BY <2>1 DEF SettingsAsGiven
  <2>3. Before(opt)' = Before(opt)
    BY <2>1 DEF Before
  <2>4. \A word : GivenAt(Before(opt), word)' <=> GivenAt(Before(opt), word)
    BY <2>1, <2>3 DEF GivenAt
  <2>5. OptionsInv'
    BY <2>1, <2>3, <2>4 DEF OptionsInv
  <2>6. QED
    BY <2>2, <2>5
<1>3. ASSUME stage' \notin {"options", "usage", "socket"}
      PROVE  OptionsInv' /\ SettingsAsGiven'
  BY <1>3 DEF OptionsInv, SettingsAsGiven
<1>4. CASE Start
  <2>1. CASE ReadFlag
    <3>1. stage' = "options"
      BY <2>1 DEF ReadFlag, Reading
    <3>2. QED
      BY <1>1, <2>1, <3>1, ReadFlagStep DEF SettingsAsGiven
  <2>2. CASE ReadValue
    <3>1. stage' = "options"
      BY <2>2 DEF ReadValue, Reading
    <3>2. QED
      BY <1>1, <2>2, <3>1, ReadValueStep DEF SettingsAsGiven
  <2>3. CASE OptionsRead \/ Usage
    <3>1. stage' # "options"
      BY <2>3 DEF OptionsRead, Usage
    <3>2. QED
      BY <1>1, <2>3, <3>1, OptionsEndStep DEF OptionsInv
  <2>4. CASE StartFails \/ Crash \/ Started
    BY <1>3, <2>4 DEF StartFails, Crash, Started
  <2>5. QED
    BY <1>4, <2>1, <2>2, <2>3, <2>4 DEF Start, StartNext
<1>5. ASSUME NEW s \in Servers, Connect(s) \/ SendPlain(s) \/ SendDtls(s)
      PROVE  OptionsInv' /\ SettingsAsGiven'
  BY <1>2, <1>5 DEF Connect, SendPlain, SendDtls
<1>6. ASSUME NEW s \in Servers, CloseConnection(s)
      PROVE  OptionsInv' /\ SettingsAsGiven'
  <2>1. stage' \in {"crashed", "loop", "closing"}
    BY <1>6 DEF CloseConnection, Quiet, Free
  <2>2. QED
    BY <1>3, <2>1
<1>7. CASE \E s \in Servers, size \in Sizes :
             ReceivePlain(AddressOf(s), size) \/ ReceiveDtls(AddressOf(s), size)
  BY <1>2, <1>7 DEF ReceivePlain, ReceiveDtls
<1>8. CASE (\E want \in Slices : Fetch(want)) \/ WriteEnds \/ ReadEnds \/ Count \/ Stopped \/ UNCHANGED vars
  BY <1>2, <1>8 DEF Fetch, WriteEnds, ReadEnds, Count, Stopped, vars
<1>9. CASE TypedQuit
  BY <1>3, <1>9 DEF TypedQuit
<1>10. CASE FreeLayer
  <2>1. stage' \in {"crashed", "ended"}
    BY <1>10 DEF FreeLayer, Free
  <2>2. QED
    BY <1>3, <2>1
<1>11. QED
  BY <1>4, <1>5, <1>6, <1>7, <1>8, <1>9, <1>10 DEF Next

\* The options mean what they ask for, for command lines of any length
\* (SettingsAsGiven).
THEOREM SettingsCorrect == Spec => []SettingsAsGiven
<1>1. Init => OptionsInv /\ SettingsAsGiven
  <2>1. SUFFICES ASSUME Init PROVE OptionsInv /\ SettingsAsGiven
    OBVIOUS
  <2>2. stage = "options" /\ opt = 1 /\ config = Factory /\ argv \in Seq(STRING)
    BY <2>1, CommandLinesAssumption DEF Init, StartInit
  <2>3. Before(opt) = {}
    BY <2>2, PlacesFollowed DEF Before
  <2>4. /\ \A word : ~GivenAt({}, word)
        /\ \A f, default : AskedAt(argv, {}, f, default) = default
    BY DEF GivenAt, AskedAt
  <2>5. /\ config.p = "5683" /\ config.flags = {} /\ config.serverPortChanged = FALSE
        /\ \A f \in Others : config[f] = Factory[f]
    BY <2>2 DEF Factory, Others
  <2>6. opt \in 1..(Len(argv) + 1) /\ (opt <= Len(argv) => opt \in OptionPlaces(argv))
    BY <2>2, PlacesFollowed
  <2>7. OptionsInv
    BY <2>3, <2>4, <2>5, <2>6 DEF OptionsInv
  <2>8. QED
    BY <2>2, <2>7 DEF SettingsAsGiven
<1>2. IInv /\ OptionsInv /\ SettingsAsGiven /\ [Next]_vars
         => (IInv /\ OptionsInv /\ SettingsAsGiven)'
  BY IInvStep, SettingsStep
<1>3. QED
  BY <1>1, <1>2, InitIInv, PTL DEF Spec

=============================================================================
