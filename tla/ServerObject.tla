---------------------------- MODULE ServerObject ----------------------------
(***************************************************************************)
(* The LwM2M Server object (object_server.cpp): an instance's resources,   *)
(* some of which may not exist, how a request made of several resources is *)
(* applied up to the first one refused, how instances are created,         *)
(* replaced and deleted, and what reading and discovering then return.     *)
(***************************************************************************)
EXTENDS Integers, Sequences

CONSTANTS
    Ids,            \* instance ids
    Requests,       \* the sequences of resources a server may send
    MaxShort,       \* 0xFFFF
    MaxInt,         \* INT_MAX
    MaxUint,        \* UINT32_MAX
    Char, Nul,      \* the characters of a binding, and its terminator
    FactoryId, FactoryLifetime, FactoryBinding,     \* as main gives them
    NoInst

Periods   == {"lifetime", "defaultMinPeriod", "defaultMaxPeriod", "disableTimeout"}
OptionalInts == {"registrationPriorityOrder", "initialRegistrationDelayTimer",
                 "communicationRetryCount", "communicationRetryTimer",
                 "communicationSequenceDelayTimer", "communicationSequenceRetryCount"}
OptionalFlags == {"registrationFailureBlock", "bootstrapOnRegistrationFailure"}
Optional  == OptionalInts \cup OptionalFlags
Mandatory == {"shortServerId", "storing", "binding"} \cup Periods
Actions   == {"disable", "update"}      \* executed, neither read nor written

\* A resource of a request: a number, a Boolean, a string or opaque value, a
\* value of no use to the resource, or a multiple resource.
Resource ==
    [res : Mandatory \cup Optional \cup Actions \cup {"unknown"}, kind : {"int"}, value : Int]
    \cup [res : Mandatory \cup Optional, kind : {"bool"}, value : {0, 1}]
    \cup [res : Mandatory, kind : {"string"}, value : Seq(Char \cup {Nul})]
    \cup [res : Mandatory \cup Optional, kind : {"multiple", "unreadable"}, value : {0}]

ASSUME ConstantsAssumption ==
    /\ MaxShort \in Nat \ {0} /\ MaxInt \in Nat \ {0}
    /\ MaxUint = 2 * MaxInt + 1 /\ MaxShort < MaxUint
    /\ Nul \notin Char
    /\ FactoryId \in 1..MaxShort /\ FactoryLifetime \in 0..MaxUint
    /\ FactoryBinding \in Seq(Char) /\ Len(FactoryBinding) \in 1..3
    /\ Requests \subseteq Seq(Resource) \ {<<>>}

VARIABLES instances         \* objectP->instanceList

\* server_instance_t.  A negative optional resource does not exist.
Instance ==
    [shortServerId : 0..MaxShort, binding : [1..4 -> Char \cup {Nul}], storing : {0, 1},
     period : [Periods -> 0..MaxUint],
     optional : [Optional -> (-MaxInt - 1)..MaxInt]]

\* The fields of object_server.cpp's server_instance_t hold only what they were
\* given within their ranges; the short id is 0 until one is written.
TypeOK == instances \in [Ids -> Instance \cup {NoInst}]

Nothing == [r \in Optional |-> -1]
NoBinding == [k \in 1..4 |-> Nul]

\* strncpy(binding, s, Len(s)): a zero in s fills up the rest of the Len(s)
\* characters, and those after them stay.
Strncpy(old, s) ==
    [k \in 1..4 |-> IF k > Len(s) THEN old[k]
                    ELSE IF \E m \in 1..k : s[m] = Nul THEN Nul ELSE s[k]]

\* get_server_object.
Factory ==
    [shortServerId |-> FactoryId, binding |-> Strncpy(NoBinding, FactoryBinding),
     storing |-> 0,
     period |-> [p \in Periods |-> IF p = "lifetime" THEN FactoryLifetime ELSE 0],
     optional |-> Nothing]

Init == \E i \in Ids : instances = [j \in Ids |-> IF j = i THEN Factory ELSE NoInst]

-----------------------------------------------------------------------------
(* One resource of a write. *)

IntIn(t, low, high) == t.kind = "int" /\ t.value \in low..high

\* No range check but that of the 32 bits.
AcceptedAnyInt(t) ==
    \/ t.res \in Periods \cup OptionalInts \cup {"shortServerId"} /\ IntIn(t, 0, MaxUint)
    \/ t.res \in OptionalFlags \cup {"storing"} /\ t.kind = "bool"
    \/ t.res = "binding" /\ t.kind = "string" /\ Len(t.value) \in 1..3

\* A binding that fills the field.
AcceptedFour(t) ==
    \/ t.res = "shortServerId" /\ IntIn(t, 1, MaxShort)
    \/ t.res \in Periods /\ IntIn(t, 0, MaxUint)
    \/ t.res \in OptionalInts /\ IntIn(t, 0, MaxInt)
    \/ t.res \in OptionalFlags \cup {"storing"} /\ t.kind = "bool"
    \/ t.res = "binding" /\ t.kind = "string" /\ Len(t.value) \in 1..4

\* What is not accepted ends the request with an error; the executable and the
\* unknown resources never are.
Accepted(t) ==
    \/ t.res = "shortServerId" /\ IntIn(t, 1, MaxShort)
    \/ t.res \in Periods /\ IntIn(t, 0, MaxUint)
    \/ t.res \in OptionalInts /\ IntIn(t, 0, MaxInt)
    \/ t.res \in OptionalFlags \cup {"storing"} /\ t.kind = "bool"
    \/ t.res = "binding" /\ t.kind = "string" /\ Len(t.value) \in 1..3

\* The conversion from 64 bits to int.
AsInt(v) == ((v + MaxInt + 1) % (MaxUint + 1)) - (MaxInt + 1)

Stored(instance, t) ==
    CASE t.res \in Periods  -> [instance EXCEPT !.period[t.res] = t.value]
      [] t.res \in Optional -> [instance EXCEPT !.optional[t.res] = AsInt(t.value)]
      [] t.res = "binding"  -> [instance EXCEPT !.binding = Strncpy(@, t.value)]
      [] OTHER              -> [instance EXCEPT ![t.res] = t.value]

\* The loop of prv_server_write: from left to right, up to the first resource
\* that is refused.  Those before it stay written.
Written(instance, request) ==
    LET after[k \in 0..Len(request)] ==
          IF k = 0 THEN [ok |-> TRUE, instance |-> instance]
          ELSE IF after[k - 1].ok /\ Accepted(request[k])
               THEN [ok |-> TRUE, instance |-> Stored(after[k - 1].instance, request[k])]
               ELSE [after[k - 1] EXCEPT !.ok = FALSE]
    IN  after[Len(request)]

-----------------------------------------------------------------------------
(* The object's operations. *)

Zeroed == [shortServerId |-> 0, binding |-> NoBinding, storing |-> 0,
           period |-> [p \in Periods |-> 0], optional |-> Nothing]

\* prv_server_create: a new instance is written, and deleted if that is refused.
Created(request) == LET written == Written(Zeroed, request)
                    IN  IF written.ok THEN written.instance ELSE NoInst

Create(i, request) ==
    /\ instances[i] = NoInst
    /\ instances' = [instances EXCEPT ![i] = Created(request)]

Write(i, request) ==
    /\ instances[i] # NoInst
    /\ instances' = [instances EXCEPT ![i] = Written(@, request).instance]

\* A write that replaces the instance deletes it and creates it anew.
ReplaceInstance(i, request) ==
    /\ instances[i] # NoInst
    /\ instances' = [instances EXCEPT ![i] = Created(request)]

\* prv_server_delete.
Delete(i) ==
    /\ instances[i] # NoInst
    /\ instances' = [instances EXCEPT ![i] = NoInst]

Next ==
    \E i \in Ids :
        \/ Delete(i)
        \/ \E request \in Requests :
             Create(i, request) \/ Write(i, request) \/ ReplaceInstance(i, request)

Spec == Init /\ [][Next]_instances

-----------------------------------------------------------------------------
(* Reading and discovering, which change nothing.  Resources have the ids of *)
(* the table at the head of object_server.cpp: 4 is Disable, 8 is            *)
(* Registration Update Trigger, and 13 to 20 need not exist.                 *)

\* A pair is a field, and the resource that does not exist if it is negative.
Missing(instance, tests) == {t[2] : t \in {u \in tests : instance.optional[u[1]] < 0}}

\* prv_get_value, which refuses 4 and 8 as well.
ValueTests ==
    {<<"registrationPriorityOrder", 13>>, <<"initialRegistrationDelayTimer", 14>>,
     <<"registrationFailureBlock", 15>>, <<"bootstrapOnRegistrationFailure", 16>>,
     <<"communicationRetryCount", 17>>, <<"communicationRetryTimer", 18>>,
     <<"communicationSequenceDelayTimer", 19>>, <<"communicationSequenceRetryCount", 20>>}
Readable(instance) ==
    ({0, 1, 2, 3, 5, 6, 7} \cup 13..20) \ Missing(instance, ValueTests)

\* The removals of prv_server_read with the test of 17 left over in that of 18.
ReadRemovalsPasted ==
    {<<"registrationPriorityOrder", 13>>, <<"initialRegistrationDelayTimer", 14>>,
     <<"registrationFailureBlock", 15>>, <<"bootstrapOnRegistrationFailure", 16>>,
     <<"communicationRetryCount", 17>>, <<"communicationRetryCount", 18>>,
     <<"communicationSequenceDelayTimer", 19>>, <<"communicationSequenceRetryCount", 20>>}

\* prv_server_read of the whole instance: a list, from which each loop takes one.
ReadList == {0, 1, 2, 3, 5, 6, 7, 13, 14, 15, 16, 17, 18, 19, 20}
ReadRemovals ==
    {<<"registrationPriorityOrder", 13>>, <<"initialRegistrationDelayTimer", 14>>,
     <<"registrationFailureBlock", 15>>, <<"bootstrapOnRegistrationFailure", 16>>,
     <<"communicationRetryCount", 17>>, <<"communicationRetryTimer", 18>>,
     <<"communicationSequenceDelayTimer", 19>>, <<"communicationSequenceRetryCount", 20>>}
Listed(instance) == ReadList \ Missing(instance, ReadRemovals)

\* prv_server_discover of the whole instance: the same with another list.
DiscoverList == {0, 1, 2, 3, 4, 5, 6, 7, 8, 13, 14, 15, 16, 17, 18, 19, 20}
DiscoverRemovals ==
    {<<"registrationPriorityOrder", 13>>, <<"initialRegistrationDelayTimer", 14>>,
     <<"registrationFailureBlock", 15>>, <<"bootstrapOnRegistrationFailure", 16>>,
     <<"communicationRetryCount", 17>>, <<"communicationRetryTimer", 18>>,
     <<"communicationSequenceDelayTimer", 19>>, <<"communicationSequenceRetryCount", 20>>}
DiscoveredAll(instance) == DiscoverList \ Missing(instance, DiscoverRemovals)

\* A discovery of single resources that always finds the two flags.
DiscoverTestsButFlags ==
    {<<"registrationPriorityOrder", 13>>, <<"initialRegistrationDelayTimer", 14>>,
     <<"communicationRetryCount", 17>>, <<"communicationRetryTimer", 18>>,
     <<"communicationSequenceDelayTimer", 19>>, <<"communicationSequenceRetryCount", 20>>}

\* prv_server_discover of single resources: a switch with tests of its own.
DiscoverTests ==
    {<<"registrationPriorityOrder", 13>>, <<"initialRegistrationDelayTimer", 14>>,
     <<"registrationFailureBlock", 15>>, <<"bootstrapOnRegistrationFailure", 16>>,
     <<"communicationRetryCount", 17>>, <<"communicationRetryTimer", 18>>,
     <<"communicationSequenceDelayTimer", 19>>, <<"communicationSequenceRetryCount", 20>>}
Discovered(instance) == (0..8 \cup 13..20) \ Missing(instance, DiscoverTests)

-----------------------------------------------------------------------------
(* Properties. *)

Live == {i \in Ids : instances[i] # NoInst}

\* No sequence of writes fills the four characters of a binding, which prv_get_value,
\* display_server_object and copy_server_object read up to its terminator.
BindingTerminated == \A i \in Live : instances[i].binding[4] = Nul

\* A read of a whole instance succeeds whichever optional resources a server has
\* brought into being: prv_server_read strikes from its list what prv_get_value would
\* refuse, in loops of its own, and one refusal would fail the whole read.
FullReadSucceeds == \A i \in Live : Listed(instances[i]) \subseteq Readable(instances[i])

\* Discovering an instance, discovering its resources one by one, reading them and
\* reading the instance agree on what exists, but for the two that are executed:
\* prv_get_value, prv_server_read and prv_server_discover (twice) each say it anew.
DiscoverAgreesWithRead ==
    \A i \in Live :
        /\ DiscoveredAll(instances[i]) = Discovered(instances[i])
        /\ DiscoveredAll(instances[i]) = Listed(instances[i]) \cup {4, 8}
        /\ Readable(instances[i]) \subseteq Listed(instances[i])

Exists(instance, r) == instance.optional[r] >= 0

\* A resource that has come into being stays for as long as its instance: no value a
\* server writes turns it into the negative number that means there is none.
OptionalStays ==
    [][\A i \in Live, r \in Optional :
          Exists(instances[i], r) /\ instances'[i] # NoInst /\ ~Exists(instances'[i], r)
             => \E request \in Requests : ReplaceInstance(i, request)]_instances

=============================================================================
