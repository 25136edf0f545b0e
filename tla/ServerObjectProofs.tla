------------------------- MODULE ServerObjectProofs -------------------------
(***************************************************************************)
(* Proofs about the Server object: for any requests of any length, any     *)
(* integer limits and any number of instances.                             *)
(***************************************************************************)
EXTENDS ServerObject, FiniteRecursion

\* What a write has come to: whether it goes on, and the instance so far.
Progress == [ok : BOOLEAN, instance : Instance]

WriteOne(before, t) ==
    IF before.ok /\ Accepted(t)
    THEN [ok |-> TRUE, instance |-> Stored(before.instance, t)]
    ELSE [before EXCEPT !.ok = FALSE]

Terminated(instance) == instance.binding[4] = Nul

\* What exists in one exists in the other.
StillExists(old, new) == \A r \in Optional : Exists(old, r) => Exists(new, r)

-----------------------------------------------------------------------------
(* One resource. *)

LEMMA IntOfInt ==
    ASSUME NEW v \in 0..MaxInt
    PROVE  AsInt(v) = v
<1>1. MaxInt \in Nat /\ MaxUint + 1 = 2 * MaxInt + 2
  BY ConstantsAssumption
<1>2. v + MaxInt + 1 \in 0..MaxUint /\ MaxUint + 1 \in Nat \ {0}
  BY <1>1, ConstantsAssumption
<1>3. \A m \in Nat \ {0} : \A x \in 0..(m - 1) : x % m = x
  OBVIOUS
<1>4. (v + MaxInt + 1) % (MaxUint + 1) = v + MaxInt + 1
  BY <1>1, <1>2, <1>3
<1>5. QED
  BY <1>1, <1>4 DEF AsInt

LEMMA CopyTyped ==
    ASSUME NEW old \in [1..4 -> Char \cup {Nul}], NEW s \in Seq(Char \cup {Nul}), Len(s) \in 1..3
    PROVE  /\ Strncpy(old, s) \in [1..4 -> Char \cup {Nul}]
           /\ Strncpy(old, s)[4] = old[4]
<1>1. \A k \in 1..4 : ~(k > Len(s)) => s[k] \in Char \cup {Nul}
  OBVIOUS
<1>2. QED
  BY <1>1 DEF Strncpy

LEMMA ResourceKinds ==
    ASSUME NEW t \in Resource, Accepted(t)
    PROVE  \/ t.res = "shortServerId" /\ t.value \in 1..MaxShort
           \/ t.res = "storing" /\ t.value \in {0, 1}
           \/ t.res \in Periods /\ t.value \in 0..MaxUint
           \/ t.res \in Optional /\ t.value \in 0..MaxInt
           \/ /\ t.res = "binding"
              /\ t.value \in Seq(Char \cup {Nul}) /\ Len(t.value) \in 1..3
<1>1. {0, 1} \subseteq 0..MaxInt
  BY ConstantsAssumption
<1>2. t.kind = "bool" => t.value \in {0, 1}
  BY DEF Resource
<1>3. t.kind = "string" => t.value \in Seq(Char \cup {Nul})
  BY DEF Resource
<1>4. CASE t.res \in OptionalFlags \cup {"storing"} /\ t.kind = "bool"
  BY <1>1, <1>2, <1>4 DEF Optional
<1>5. CASE t.res \in OptionalInts /\ IntIn(t, 0, MaxInt)
  BY <1>5 DEF Optional, IntIn
<1>6. CASE t.res = "binding" /\ t.kind = "string" /\ Len(t.value) \in 1..3
  BY <1>3, <1>6
<1>7. CASE (t.res = "shortServerId" /\ IntIn(t, 1, MaxShort)) \/ (t.res \in Periods /\ IntIn(t, 0, MaxUint))
  BY <1>7 DEF IntIn
<1>8. QED
  BY <1>4, <1>5, <1>6, <1>7 DEF Accepted

\* An accepted resource fits its field.
LEMMA StoredKeeps ==
    ASSUME NEW instance \in Instance, NEW t \in Resource, Accepted(t)
    PROVE  /\ Stored(instance, t) \in Instance
           /\ Terminated(instance) => Terminated(Stored(instance, t))
           /\ StillExists(instance, Stored(instance, t))
<1> DEFINE new == Stored(instance, t)
<1>1. /\ "shortServerId" \notin Periods \cup Optional /\ "storing" \notin Periods \cup Optional
      /\ "binding" \notin Periods \cup Optional /\ Periods \cap Optional = {}
  BY DEF Periods, Optional, OptionalInts, OptionalFlags
<1>2. CASE t.res = "shortServerId" /\ t.value \in 1..MaxShort
  <2>1. new = [instance EXCEPT !.shortServerId = t.value]
    BY <1>1, <1>2 DEF Stored
  <2>2. t.value \in 0..MaxShort
    BY <1>2, ConstantsAssumption
  <2>3. QED
    BY <2>1, <2>2 DEF Instance, Terminated, StillExists, Exists
<1>3. CASE t.res = "storing" /\ t.value \in {0, 1}
  <2>1. new = [instance EXCEPT !.storing = t.value]
    BY <1>1, <1>3 DEF Stored
  <2>2. QED
    BY <1>3, <2>1 DEF Instance, Terminated, StillExists, Exists
<1>4. CASE t.res \in Periods /\ t.value \in 0..MaxUint
  <2>1. new = [instance EXCEPT !.period = [instance.period EXCEPT ![t.res] = t.value]]
    BY <1>1, <1>4 DEF Stored
  <2>2. [instance.period EXCEPT ![t.res] = t.value] \in [Periods -> 0..MaxUint]
    BY <1>4 DEF Instance
  <2>3. QED
    BY <2>1, <2>2 DEF Instance, Terminated, StillExists, Exists
<1>5. CASE t.res \in Optional /\ t.value \in 0..MaxInt
  <2> DEFINE optional == [instance.optional EXCEPT ![t.res] = t.value]
  <2>1. new = [instance EXCEPT !.optional = optional]
    BY <1>1, <1>5, IntOfInt DEF Stored
  <2>2. /\ optional \in [Optional -> (-MaxInt - 1)..MaxInt]
        /\ \A r \in Optional : instance.optional[r] >= 0 => optional[r] >= 0
    <3>1. t.value \in (-MaxInt - 1)..MaxInt /\ t.value >= 0
      BY <1>5, ConstantsAssumption
    <3>2. instance.optional \in [Optional -> (-MaxInt - 1)..MaxInt]
      BY DEF Instance
    <3>3. QED
      BY <1>5, <3>1, <3>2
  <2> HIDE DEF optional
  <2>3. QED
    BY <2>1, <2>2 DEF Instance, Terminated, StillExists, Exists
<1>6. CASE /\ t.res = "binding"
           /\ t.value \in Seq(Char \cup {Nul}) /\ Len(t.value) \in 1..3
  <2> DEFINE binding == Strncpy(instance.binding, t.value)
  <2>1. new = [instance EXCEPT !.binding = binding]
    BY <1>1, <1>6 DEF Stored
  <2>2. binding \in [1..4 -> Char \cup {Nul}] /\ binding[4] = instance.binding[4]
    BY <1>6, CopyTyped DEF Instance
  <2> HIDE DEF binding
  <2>3. QED
    BY <2>1, <2>2 DEF Instance, Terminated, StillExists, Exists
<1>7. QED
  BY <1>2, <1>3, <1>4, <1>5, <1>6, ResourceKinds

LEMMA WriteOneKeeps ==
    ASSUME NEW before \in Progress, NEW t \in Resource
    PROVE  /\ WriteOne(before, t) \in Progress
           /\ Terminated(before.instance) => Terminated(WriteOne(before, t).instance)
           /\ StillExists(before.instance, WriteOne(before, t).instance)
<1>1. before.instance \in Instance /\ before.ok \in BOOLEAN
  BY DEF Progress
<1>2. CASE before.ok /\ Accepted(t)
  <2>1. WriteOne(before, t) = [ok |-> TRUE, instance |-> Stored(before.instance, t)]
    BY <1>2 DEF WriteOne
  <2>2. QED
    BY <1>1, <1>2, <2>1, StoredKeeps DEF Progress
<1>3. CASE ~(before.ok /\ Accepted(t))
  <2>1. WriteOne(before, t) = [before EXCEPT !.ok = FALSE]
    BY <1>3 DEF WriteOne
  <2>2. QED
    BY <1>1, <2>1 DEF Progress, StillExists
<1>4. QED
  BY <1>2, <1>3

-----------------------------------------------------------------------------
(* A request. *)

\* Written is what the resources of a request make of an instance one by one.
LEMMA WrittenSteps ==
    ASSUME NEW instance \in Instance, NEW request \in Seq(Resource)
    PROVE  \E after :
              /\ after[0] = [ok |-> TRUE, instance |-> instance]
              /\ \A k \in 1..Len(request) : after[k] = WriteOne(after[k - 1], request[k])
              /\ Written(instance, request) = after[Len(request)]
<1> DEFINE n     == Len(request)
           first == [ok |-> TRUE, instance |-> instance]
           after[k \in 0..n] ==
              IF k = 0 THEN [ok |-> TRUE, instance |-> instance]
              ELSE IF after[k - 1].ok /\ Accepted(request[k])
                   THEN [ok |-> TRUE, instance |-> Stored(after[k - 1].instance, request[k])]
                   ELSE [after[k - 1] EXCEPT !.ok = FALSE]
           step == [k \in 1..n |-> [before \in Progress |-> WriteOne(before, request[k])]]
<1>1. Written(instance, request) = after[n]
  BY DEF Written
<1>2. n \in Nat /\ first \in Progress /\ \A k \in 1..n : request[k] \in Resource
  BY DEF Progress
<1>3. Steps(step, n, Progress)
  <2>1. \A k \in 1..n, before \in Progress : WriteOne(before, request[k]) \in Progress
    BY <1>2, WriteOneKeeps
  <2>2. QED
    BY <2>1 DEF Steps
<1>4. PICK f : Runs(f, n, Progress, first, step)
  <2> HIDE DEF after, step, first, n
  <2>1. QED
    BY <1>2, <1>3, Recursion
<1>5. /\ f \in [0..n -> Progress] /\ f[0] = first
      /\ \A k \in 1..n : f[k] = WriteOne(f[k - 1], request[k])
  <2>1. /\ f \in [0..n -> Progress] /\ f[0] = first
        /\ \A k \in 1..n : f[k] = step[k][f[k - 1]]
    BY <1>4 DEF Runs
  <2>2. ASSUME NEW k \in 1..n PROVE f[k] = WriteOne(f[k - 1], request[k])
    <3>1. f[k - 1] \in Progress
      BY <1>2, <2>1
    <3>2. QED
      BY <2>1, <3>1
  <2>3. QED
    BY <2>1, <2>2
<1>6. f = [k \in 0..n |->
              IF k = 0 THEN [ok |-> TRUE, instance |-> instance]
              ELSE IF f[k - 1].ok /\ Accepted(request[k])
                   THEN [ok |-> TRUE, instance |-> Stored(f[k - 1].instance, request[k])]
                   ELSE [f[k - 1] EXCEPT !.ok = FALSE]]
  <2> HIDE DEF n, after, step
  <2>1. ASSUME NEW k \in 0..n, k # 0
        PROVE  f[k] = IF f[k - 1].ok /\ Accepted(request[k])
                      THEN [ok |-> TRUE, instance |-> Stored(f[k - 1].instance, request[k])]
                      ELSE [f[k - 1] EXCEPT !.ok = FALSE]
    <3>1. k \in 1..n
      BY <1>2, <2>1
    <3>2. QED
      BY <1>5, <3>1 DEF WriteOne
  <2>2. QED
    BY <1>5, <2>1
<1>7. after = [k \in 0..n |->
              IF k = 0 THEN [ok |-> TRUE, instance |-> instance]
              ELSE IF after[k - 1].ok /\ Accepted(request[k])
                   THEN [ok |-> TRUE, instance |-> Stored(after[k - 1].instance, request[k])]
                   ELSE [after[k - 1] EXCEPT !.ok = FALSE]]
  <2> HIDE DEF step
  <2>1. QED
    BY <1>6
<1> HIDE DEF after, step
<1>8. after[0] = first
  BY <1>2, <1>7
<1>9. ASSUME NEW k \in 1..n PROVE after[k] = WriteOne(after[k - 1], request[k])
  <2>1. k \in 0..n /\ k # 0
    BY <1>2
  <2>2. QED
    BY <1>7, <2>1 DEF WriteOne
<1>10. QED
  BY <1>1, <1>8, <1>9

LEMMA WrittenKeeps ==
    ASSUME NEW instance \in Instance, NEW request \in Seq(Resource)
    PROVE  /\ Written(instance, request) \in Progress
           /\ Terminated(instance) => Terminated(Written(instance, request).instance)
           /\ StillExists(instance, Written(instance, request).instance)
<1>1. PICK after :
         /\ after[0] = [ok |-> TRUE, instance |-> instance]
         /\ \A k \in 1..Len(request) : after[k] = WriteOne(after[k - 1], request[k])
         /\ Written(instance, request) = after[Len(request)]
  BY WrittenSteps
<1> DEFINE n    == Len(request)
           good == {k \in 0..n :
                      /\ after[k] \in Progress
                      /\ Terminated(instance) => Terminated(after[k].instance)
                      /\ StillExists(instance, after[k].instance)}
<1>2. n \in Nat /\ \A k \in 1..n : request[k] \in Resource
  OBVIOUS
<1>3. 0 \in good
  <2>1. after[0] \in Progress /\ after[0].instance = instance
    BY <1>1 DEF Progress
  <2>2. StillExists(instance, instance)
    BY DEF StillExists
  <2>3. QED
    BY <1>2, <2>1, <2>2
<1>4. ASSUME NEW k \in 1..n, k - 1 \in good PROVE k \in good
  <2>1. /\ after[k - 1] \in Progress
        /\ Terminated(instance) => Terminated(after[k - 1].instance)
        /\ StillExists(instance, after[k - 1].instance)
    BY <1>4
  <2>2. after[k] = WriteOne(after[k - 1], request[k]) /\ request[k] \in Resource
    BY <1>1, <1>2
  <2>3. /\ after[k] \in Progress
        /\ Terminated(after[k - 1].instance) => Terminated(after[k].instance)
        /\ StillExists(after[k - 1].instance, after[k].instance)
    BY <2>1, <2>2, WriteOneKeeps
  <2>4. StillExists(instance, after[k].instance)
    BY <2>1, <2>3 DEF StillExists
  <2>5. k \in 0..n
    BY <1>2
  <2>6. QED
    BY <2>1, <2>3, <2>4, <2>5
<1>5. n \in good
  <2> HIDE DEF good
  <2>1. 0..n \subseteq good
    BY <1>2, <1>3, <1>4, SetInduction
  <2>2. QED
    BY <1>2, <2>1
<1>6. QED
  BY <1>1, <1>5

-----------------------------------------------------------------------------
(* The object. *)

LEMMA FactoryFits == Factory \in Instance /\ Terminated(Factory)
<1>1. /\ NoBinding \in [1..4 -> Char \cup {Nul}] /\ NoBinding[4] = Nul
      /\ Nothing \in [Optional -> (-MaxInt - 1)..MaxInt]
  BY ConstantsAssumption DEF NoBinding, Nothing
<1>2. FactoryBinding \in Seq(Char \cup {Nul}) /\ Len(FactoryBinding) \in 1..3
  BY ConstantsAssumption
<1>3. /\ Strncpy(NoBinding, FactoryBinding) \in [1..4 -> Char \cup {Nul}]
      /\ Strncpy(NoBinding, FactoryBinding)[4] = Nul
  BY <1>1, <1>2, CopyTyped
<1>4. /\ FactoryId \in 0..MaxShort
      /\ [p \in Periods |-> IF p = "lifetime" THEN FactoryLifetime ELSE 0]
            \in [Periods -> 0..MaxUint]
  BY ConstantsAssumption
<1>5. QED
  BY <1>1, <1>3, <1>4 DEF Factory, Instance, Terminated

LEMMA ZeroedFits == Zeroed \in Instance /\ Terminated(Zeroed)
<1>1. /\ NoBinding \in [1..4 -> Char \cup {Nul}] /\ NoBinding[4] = Nul
      /\ Nothing \in [Optional -> (-MaxInt - 1)..MaxInt]
      /\ [p \in Periods |-> 0] \in [Periods -> 0..MaxUint] /\ 0 \in 0..MaxShort
  BY ConstantsAssumption DEF NoBinding, Nothing
<1>2. QED
  BY <1>1 DEF Zeroed, Instance, Terminated

LEMMA CreatedFits ==
    ASSUME NEW request \in Requests
    PROVE  /\ Created(request) \in Instance \cup {NoInst}
           /\ Created(request) # NoInst => Terminated(Created(request))
<1>1. request \in Seq(Resource)
  BY ConstantsAssumption
<1>2. /\ Written(Zeroed, request) \in Progress
      /\ Terminated(Written(Zeroed, request).instance)
  BY <1>1, ZeroedFits, WrittenKeeps
<1>3. QED
  BY <1>2 DEF Created, Progress

Safe == TypeOK /\ BindingTerminated

LEMMA SafeStep ==
    ASSUME Safe, [Next]_instances
    PROVE  Safe'
<1>1. CASE UNCHANGED instances
  BY <1>1 DEF Safe, TypeOK, BindingTerminated, Live
<1>2. ASSUME NEW i \in Ids, NEW new \in Instance \cup {NoInst}, new # NoInst => Terminated(new),
             instances' = [instances EXCEPT ![i] = new]
      PROVE  Safe'
  <2>1. TypeOK'
    BY <1>2 DEF Safe, TypeOK
  <2>2. BindingTerminated'
    BY <1>2 DEF Safe, TypeOK, BindingTerminated, Live, Terminated
  <2>3. QED
    BY <2>1, <2>2 DEF Safe
<1>3. ASSUME NEW i \in Ids, Delete(i)
      PROVE  Safe'
  <2>1. instances' = [instances EXCEPT ![i] = NoInst]
    BY <1>3 DEF Delete
  <2>2. QED
    BY <1>2, <2>1
<1>4. ASSUME NEW i \in Ids, NEW request \in Requests,
             Create(i, request) \/ ReplaceInstance(i, request)
      PROVE  Safe'
  <2>1. instances' = [instances EXCEPT ![i] = Created(request)]
    BY <1>4 DEF Create, ReplaceInstance
  <2>2. QED
    BY <1>2, <2>1, CreatedFits
<1>5. ASSUME NEW i \in Ids, NEW request \in Requests, Write(i, request)
      PROVE  Safe'
  <2> DEFINE new == Written(instances[i], request).instance
  <2>1. instances[i] \in Instance /\ Terminated(instances[i])
    BY <1>5 DEF Safe, TypeOK, BindingTerminated, Live, Write, Terminated
  <2>2. new \in Instance /\ Terminated(new)
    BY <2>1, WrittenKeeps, ConstantsAssumption DEF Progress
  <2>3. instances' = [instances EXCEPT ![i] = new]
    BY <1>5 DEF Write
  <2> HIDE DEF new
  <2>4. QED
    BY <1>2, <2>2, <2>3
<1>6. QED
  BY <1>1, <1>3, <1>4, <1>5 DEF Next

\* No sequence of requests takes a field out of its range (TypeOK).
THEOREM TypeCorrect == Spec => []TypeOK
<1>1. Init => Safe
  BY FactoryFits DEF Init, Safe, TypeOK, BindingTerminated, Live, Terminated
<1>2. Safe => TypeOK
  BY DEF Safe
<1>3. QED
  BY <1>1, <1>2, SafeStep, PTL DEF Spec

\* A binding always has its terminator (BindingTerminated).
THEOREM BindingCorrect == Spec => []BindingTerminated
<1>1. Init => Safe
  BY FactoryFits DEF Init, Safe, TypeOK, BindingTerminated, Live, Terminated
<1>2. Safe => BindingTerminated
  BY DEF Safe
<1>3. QED
  BY <1>1, <1>2, SafeStep, PTL DEF Spec

\* An optional resource exists for as long as its instance, unless a write replaces
\* the instance (OptionalStays).
THEOREM OptionalCorrect == Spec => OptionalStays
<1> DEFINE Stays == \A i \in Live, r \in Optional :
              Exists(instances[i], r) /\ instances'[i] # NoInst /\ ~Exists(instances'[i], r)
                 => \E request \in Requests : ReplaceInstance(i, request)
<1>1. ASSUME TypeOK, [Next]_instances
      PROVE  [Stays]_instances
  <2>1. SUFFICES ASSUME instances' # instances,
                        NEW i \in Live, NEW r \in Optional,
                        Exists(instances[i], r), instances'[i] # NoInst, ~Exists(instances'[i], r)
                 PROVE  \E request \in Requests : ReplaceInstance(i, request)
    OBVIOUS
  <2>2. i \in Ids /\ instances[i] # NoInst /\ instances[i] \in Instance
    BY <1>1 DEF Live, TypeOK
  <2>3. PICK j \in Ids : \/ Delete(j)
                         \/ \E request \in Requests :
                              Create(j, request) \/ Write(j, request) \/ ReplaceInstance(j, request)
    BY <1>1, <2>1 DEF Next
  <2>4. j = i
    BY <1>1, <2>1, <2>2, <2>3 DEF TypeOK, Delete, Create, Write, ReplaceInstance
  <2>5. ~Delete(i)
    BY <1>1, <2>1, <2>2 DEF TypeOK, Delete
  <2>6. PICK request \in Requests : Write(i, request) \/ ReplaceInstance(i, request)
    BY <2>2, <2>3, <2>4, <2>5 DEF Create
  <2>7. ~Write(i, request)
    <3>1. SUFFICES ASSUME Write(i, request) PROVE FALSE
      OBVIOUS
    <3>2. instances'[i] = Written(instances[i], request).instance
      BY <1>1, <2>2, <3>1 DEF Write, TypeOK
    <3>3. StillExists(instances[i], Written(instances[i], request).instance)
      BY <2>2, WrittenKeeps, ConstantsAssumption
    <3>4. QED
      BY <2>1, <3>2, <3>3 DEF StillExists
  <2>8. QED
    BY <2>6, <2>7
<1>2. QED
  BY <1>1, TypeCorrect, PTL DEF Spec, OptionalStays

\* Each list strikes what its tests say, field by field.
LEMMA ListsTest ==
    \A instance :
        /\ Missing(instance, ReadRemovals) = Missing(instance, ValueTests)
        /\ Missing(instance, DiscoverRemovals) = Missing(instance, ValueTests)
        /\ Missing(instance, DiscoverTests) = Missing(instance, ValueTests)
        /\ Missing(instance, ValueTests) \subseteq 13..20
<1>1. ReadRemovals = ValueTests /\ DiscoverRemovals = ValueTests /\ DiscoverTests = ValueTests
  BY DEF ReadRemovals, DiscoverRemovals, DiscoverTests, ValueTests
<1>2. \A u \in ValueTests : u[2] \in 13..20
  BY DEF ValueTests
<1>3. QED
  BY <1>1, <1>2 DEF Missing

\* A read of a whole instance succeeds, whichever resources have been brought into
\* being: what the loops of prv_server_read leave in the list prv_get_value can
\* give (FullReadSucceeds).
THEOREM FullReadCorrect == Spec => []FullReadSucceeds
<1>1. ReadList \subseteq {0, 1, 2, 3, 5, 6, 7} \cup 13..20
  BY DEF ReadList
<1>2. FullReadSucceeds
  BY <1>1, ListsTest DEF FullReadSucceeds, Listed, Readable
<1>3. QED
  BY <1>2, PTL

\* The two discoveries, the read of an instance and the reads of its resources find
\* the same ones (DiscoverAgreesWithRead).
THEOREM DiscoverCorrect == Spec => []DiscoverAgreesWithRead
<1>1. /\ DiscoverList = 0..8 \cup 13..20
      /\ ReadList = {0, 1, 2, 3, 5, 6, 7} \cup 13..20
  BY DEF DiscoverList, ReadList
<1>2. 0..8 = {0, 1, 2, 3, 5, 6, 7} \cup {4, 8} /\ {4, 8} \cap 13..20 = {}
  OBVIOUS
<1>3. ASSUME NEW instance
      PROVE  /\ DiscoveredAll(instance) = Discovered(instance)
             /\ DiscoveredAll(instance) = Listed(instance) \cup {4, 8}
             /\ Readable(instance) \subseteq Listed(instance)
  BY <1>1, <1>2, ListsTest DEF DiscoveredAll, Discovered, Listed, Readable
<1>4. DiscoverAgreesWithRead
  BY <1>3 DEF DiscoverAgreesWithRead
<1>5. QED
  BY <1>4, PTL

=============================================================================
