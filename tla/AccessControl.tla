--------------------------- MODULE AccessControl ---------------------------
(***************************************************************************)
(* The Access Control object (object_access_control.cpp): how a request    *)
(* made of several resources is applied, resource by resource, up to the   *)
(* first one that is refused; how the list of access rights is rebuilt by  *)
(* a replacing and by a partial write; and how creating, deleting and      *)
(* replacing an instance are built from these.                             *)
(***************************************************************************)
EXTENDS Integers, SequencesExt

CONSTANTS
    Ids,            \* instance ids
    Requests,       \* the sequences of resources a server may write
    Reads,          \* the sequences of resources a server may ask for
    NoInst

\* A resource of a request: a single value, readable as an integer or not
\* ("text"), or a multiple resource with its entries.
Entry == [id : Nat, number : BOOLEAN, value : Int]
Resource == [res : {"objectId", "objectInstId", "acl", "owner", "other"},
             kind : {"int", "text", "multiple"},
             value : Int,
             entries : Seq(Entry)]

\* Every request has a resource; a list may name an entry twice.
ASSUME RequestsAssumption == Requests \subseteq Seq(Resource) \ {<<>>}

\* Whole resources, or some instances of one.
ASSUME ReadsAssumption ==
    Reads \subseteq Seq([res : {"objectId", "objectInstId", "acl", "owner", "other"},
                         whole : BOOLEAN, ids : SUBSET Nat]) \ {<<>>}

VARIABLES instances         \* objectP->instanceList

MaxShort == 65535       \* of a uint16_t

AclEntry == [id : Nat, value : 0..MaxShort]
Instance == [objectId : 0..(MaxShort - 1), objectInstId : 0..MaxShort, owner : 0..MaxShort,
             acl : Seq(AclEntry)]

\* The values fit the 16-bit fields they are stored in (object_access_control.cpp,
\* acc_ctrl_ri_t and acc_ctrl_oi_t), although requests carry 64-bit integers.
TypeOK == instances \in [Ids -> Instance \cup {NoInst}]

\* acc_ctrl_obj_add_inst and acc_ctrl_oi_add_ac_val, called by main: /3/0 is
\* owned by server 123, all servers have all rights, 999 may only read.
Factory == [objectId |-> 3, objectInstId |-> 0, owner |-> 123,
            acl |-> <<[id |-> 0, value |-> 15], [id |-> 999, value |-> 1]>>]

Init == \E i \in Ids : instances = [j \in Ids |-> IF j = i THEN Factory ELSE NoInst]

-----------------------------------------------------------------------------
(* The list of access rights, kept sorted by LWM2M_LIST_ADD. *)

\* Where an entry goes.  LWM2M_LIST_ADD is the engine's: its place among entries
\* with the same id is left open.
PlaceFor(acl, e) ==
    CHOOSE p \in 1..(Len(acl) + 1) :
        /\ \A k \in 1..(p - 1) : acl[k].id <= e.id
        /\ \A k \in p..Len(acl) : acl[k].id >= e.id

\* A list in the order of arrival.
AddedLast(acl, e) == Append(acl, e)

\* prv_add_ac_val, which does not look for the entry.
AddValue(acl, e) == InsertAt(acl, PlaceFor(acl, e), e)

\* A partial write that adds without looking for the entry.
AlwaysAdd(acl, e) == AddValue(acl, e)

\* The first element with the entry's id takes the value; if there is none,
\* the entry is added.
AddOrReplace(acl, e) ==
    LET found == {k \in 1..Len(acl) : acl[k].id = e.id}
    IN  IF found = {} THEN AddValue(acl, e)
        ELSE [acl EXCEPT ![CHOOSE k \in found : \A m \in found : k <= m].value = e.value]

\* A bound that is off by one.
ReadableOffByOne(e) == e.number /\ e.value \in 0..(MaxShort + 1)

Readable(e) == e.number /\ e.value \in 0..MaxShort
Decoded(e)  == [id |-> e.id, value |-> e.value]

\* "Duplicate original list": the elements are added one by one to an empty one.
Duplicate(acl) ==
    LET after[k \in 0..Len(acl)] ==
          IF k = 0 THEN <<>> ELSE AddValue(after[k - 1], acl[k])
    IN  after[Len(acl)]

\* The loop over the entries of a write, up to the first that cannot be read: a
\* partial write adds or replaces, another one adds.
Build(acl, entries, partial) ==
    LET after[k \in 0..Len(entries)] ==
          IF k = 0 THEN [ok |-> TRUE, acl |-> acl]
          ELSE IF ~after[k - 1].ok \/ ~Readable(entries[k])
               THEN [after[k - 1] EXCEPT !.ok = FALSE]
          ELSE [ok  |-> TRUE,
                acl |-> IF partial THEN AddOrReplace(after[k - 1].acl, Decoded(entries[k]))
                                   ELSE AddValue(after[k - 1].acl, Decoded(entries[k]))]
    IN  after[Len(entries)]

\* A refusal that leaves the entries before the refused one in place.
AclWriteKeepingProgress(saved, t, partial) ==
    LET start == IF partial THEN Duplicate(saved) ELSE <<>>
        built == IF t.kind # "multiple" THEN [ok |-> FALSE, acl |-> saved]
                 ELSE IF t.entries = <<>> THEN [ok |-> TRUE, acl |-> <<>>]
                 ELSE Build(start, t.entries, partial)
    IN  built

\* A partial write that does not start from a copy of the old list.
AclWriteOnEmpty(saved, t, partial) ==
    LET built == IF t.entries = <<>> THEN [ok |-> TRUE, acl |-> <<>>]
                                     ELSE Build(<<>>, t.entries, partial)
    IN  IF t.kind = "multiple" /\ built.ok THEN built ELSE [ok |-> FALSE, acl |-> saved]

\* RES_O_ACL: the old list is saved and the instance's emptied; a list without
\* entries leaves it at that; otherwise it is built from a duplicate of the saved one
\* or from nothing.  If that fails what was built is freed and the saved list comes
\* back ("restore old values").
AclWrite(saved, t, partial) ==
    LET start == IF partial THEN Duplicate(saved) ELSE <<>>
        built == IF t.entries = <<>> THEN [ok |-> TRUE, acl |-> <<>>]
                                     ELSE Build(start, t.entries, partial)
    IN  IF t.kind # "multiple" THEN [ok |-> FALSE, acl |-> saved]
        ELSE [ok |-> built.ok, acl |-> IF built.ok THEN built.acl ELSE saved]

-----------------------------------------------------------------------------
(* One resource of a request. *)

IntIn(t, low, high) == t.kind = "int" /\ t.value \in low..high

\* A write that checks ranges but not doCreate.
AcceptedAnyTime(instance, t, doCreate, partial) ==
    CASE t.res = "objectId"     -> IntIn(t, 1, MaxShort - 1)
      [] t.res = "objectInstId" -> IntIn(t, 0, MaxShort)
      [] t.res = "owner"        -> IntIn(t, 0, MaxShort)
      [] t.res = "acl"          -> AclWrite(instance.acl, t, partial).ok
      [] OTHER                  -> FALSE

\* The object and the instance that the rights are about are written on
\* creation only.
Accepted(instance, t, doCreate, partial) ==
    CASE t.res = "objectId"     -> doCreate /\ IntIn(t, 1, MaxShort - 1)
      [] t.res = "objectInstId" -> doCreate /\ IntIn(t, 0, MaxShort)
      [] t.res = "owner"        -> IntIn(t, 0, MaxShort)
      [] t.res = "acl"          -> AclWrite(instance.acl, t, partial).ok
      [] OTHER                  -> FALSE

\* What processing the resource does to the instance, accepted or not.
Written(instance, t, doCreate, partial) ==
    IF t.res = "acl"
      THEN [instance EXCEPT !.acl = AclWrite(instance.acl, t, partial).acl]
    ELSE IF ~Accepted(instance, t, doCreate, partial) THEN instance
    ELSE [instance EXCEPT ![t.res] = t.value]

\* prv_write_resources: from left to right, until one is refused.  The resources
\* before it stay written.
WriteResources(instance, request, doCreate, partial) ==
    LET after[k \in 0..Len(request)] ==
          IF k = 0 THEN [ok |-> TRUE, instance |-> instance]
          ELSE IF ~after[k - 1].ok THEN after[k - 1]
          ELSE [ok |-> Accepted(after[k - 1].instance, request[k], doCreate, partial),
                instance |-> Written(after[k - 1].instance, request[k], doCreate, partial)]
    IN  after[Len(request)]

-----------------------------------------------------------------------------
(* The object's operations. *)

Zeroed == [objectId |-> 0, objectInstId |-> 0, owner |-> 0, acl |-> <<>>]

\* prv_create: a zeroed instance is added and written; a refusal deletes it.
Created(request) ==
    LET written == WriteResources(Zeroed, request, TRUE, FALSE)
    IN  IF written.ok THEN written.instance ELSE NoInst

Create(i, request) ==
    /\ instances[i] = NoInst
    /\ instances' = [instances EXCEPT ![i] = Created(request)]

Write(i, request, partial) ==
    /\ instances[i] # NoInst
    /\ instances' = [instances EXCEPT ![i] =
                       WriteResources(@, request, FALSE, partial).instance]

\* A write that replaces the instance deletes it and creates it anew.
ReplaceInstance(i, request) ==
    /\ instances[i] # NoInst
    /\ instances' = [instances EXCEPT ![i] = Created(request)]

Delete(i) ==
    /\ instances[i] # NoInst
    /\ instances' = [instances EXCEPT ![i] = NoInst]

Next ==
    \E i \in Ids :
        \/ Delete(i)
        \/ \E request \in Requests :
             \/ Create(i, request)
             \/ \E partial \in BOOLEAN : Write(i, request, partial)
             \/ ReplaceInstance(i, request)

Spec == Init /\ [][Next]_instances

-----------------------------------------------------------------------------
(* Reading. *)

\* prv_set_tlv: whether the instance has what is asked for, a resource ("whole")
\* or some of its instances (ids).  A list of rights without entries is not there.
Has(instance, item) ==
    CASE item.res = "acl" -> /\ instance.acl # <<>>
                             /\ item.whole \/ item.ids \subseteq
                                  {instance.acl[k].id : k \in 1..Len(instance.acl)}
      [] item.res = "other" -> FALSE
      [] OTHER -> item.whole

FullRead == [k \in 1..4 |-> [res |-> <<"objectId", "objectInstId", "acl", "owner">>[k],
                             whole |-> TRUE, ids |-> {}]]

\* A copy that always goes back by one place.
CopiedBackByOne(array, k, skipped) ==
    IF skipped = 0 THEN array ELSE [array EXCEPT ![k - 1] = array[k]]

\* One turn of the loop in prv_read for a resource that is there: it moves to the
\* front by as many places as were skipped before it.
CopiedBack(array, k, skipped) ==
    IF skipped = 0 THEN array ELSE [array EXCEPT ![k - skipped] = array[k]]

\* prv_read: what is not there is skipped, and refused only if nothing else was
\* asked for.  The answer is made of the front of the array.
ReadInstance(instance, request) ==
    LET asked == IF request = <<>> THEN FullRead ELSE request
        after[k \in 0..Len(asked)] ==
          IF k = 0 THEN [array |-> asked, skipped |-> 0]
          ELSE LET before == after[k - 1]
               IN  IF Has(instance, before.array[k])
                     THEN [before EXCEPT !.array = CopiedBack(@, k, before.skipped)]
                     ELSE [before EXCEPT !.skipped = @ + 1]
        done == after[Len(asked)]
        data == SubSeq(done.array, 1, Len(asked) - done.skipped)
    IN  [code |-> IF Len(asked) = 1 /\ data = <<>> THEN 404 ELSE 205, data |-> data]

-----------------------------------------------------------------------------
(* Properties. *)

Live == {i \in Ids : instances[i] # NoInst}
Listed(list) == {list[k].id : k \in 1..Len(list)}

\* Two elements have the id.
Doubled(list, id) == \E m, n \in 1..Len(list) : m # n /\ list[m].id = id /\ list[n].id = id

ValuesOf(list, id) == {list[k].value : k \in {m \in 1..Len(list) : list[m].id = id}}

\* The value an id is given last.
LastValue(entries, id) ==
    entries[CHOOSE k \in 1..Len(entries) :
               /\ entries[k].id = id
               /\ \A m \in (k + 1)..Len(entries) : entries[m].id # id].value

\* Whatever mixture of replacing and partial writes built it, the list of access
\* rights holds its entries in the order of their ids.
EntriesOrdered ==
    \A i \in Live : LET acl == instances[i].acl
        IN \A m, n \in 1..Len(acl) : m < n => acl[m].id <= acl[n].id

\* A list of rights comes to hold an id twice only by one list that names it twice, in
\* a creation or a replacing write: no sequence of partial writes, which copy the list
\* and then look each entry up, doubles an id, not even one they name twice.
DoubledByOneList ==
    [][\A i \in Ids : instances'[i] # NoInst => \A id \in Listed(instances'[i].acl) :
          Doubled(instances'[i].acl, id) =>
             \/ instances[i] # NoInst /\ Doubled(instances[i].acl, id)
             \/ \E request \in Requests :
                   /\ \E k \in 1..Len(request) :
                        request[k].res = "acl" /\ Doubled(request[k].entries, id)
                   /\ Create(i, request) \/ Write(i, request, FALSE) \/ ReplaceInstance(i, request)
      ]_instances

\* The object and the instance that the rights of a live instance are about change
\* only when a replacing write deletes it and creates it anew: the last resource of
\* a request cannot turn a write into more than a write.
IdentityFixed ==
    [][\A i \in Live :
          LET identity(instance) == <<instance.objectId, instance.objectInstId>>
          IN  instances'[i] # NoInst /\ identity(instances'[i]) # identity(instances[i])
                => \E request \in Requests : ReplaceInstance(i, request)]_instances

\* An accepted list with entries: a replacing write leaves just the rights it gives.
\* A partial one leaves the rights of the ids it does not name as they were, and each
\* id it names with the last value given; only if the id was doubled before may
\* another value remain, since the first element found takes the new one.
AclWriteAsAsked ==
    \A i \in Live, request \in Requests, partial \in BOOLEAN : \A k \in 1..Len(request) :
        LET old     == instances[i].acl
            entries == request[k].entries
            new     == AclWrite(old, request[k], partial)
        IN  request[k].res = "acl" /\ new.ok /\ entries # <<>> =>
              \A id \in Listed(old) \cup Listed(entries) \cup Listed(new.acl) :
                LET values == ValuesOf(new.acl, id)
                IN  IF ~partial THEN values = ValuesOf(entries, id)
                    ELSE IF id \notin Listed(entries) THEN values = ValuesOf(old, id)
                    ELSE IF Doubled(old, id) THEN LastValue(entries, id) \in values
                    ELSE values = {LastValue(entries, id)}

\* A request that is refused leaves what its resources before the refused one made of
\* the instance, and nothing of the refused one: also if that is a list of which some
\* entries had been taken when another could not be read ("restore old values").
RefusedKeepsRights ==
    \A i \in Live, request \in Requests, partial \in BOOLEAN :
        LET written == WriteResources(instances[i], request, FALSE, partial)
        IN  ~written.ok => \E n \in 0..(Len(request) - 1) :
              LET before == WriteResources(instances[i], SubSeq(request, 1, n), FALSE, partial)
              IN  /\ before.ok /\ ~Accepted(before.instance, request[n + 1], FALSE, partial)
                  /\ written.instance = before.instance

\* A read of several resources, which squeezes those that are missing out of the
\* array it works on, answers with all that the instance has of what was asked, in
\* that order, after any writes of the rights; a read of the whole instance always
\* succeeds, and misses the list of rights just when the list is empty.
ReadGivesWhatIsThere ==
    \A i \in Live :
        /\ \A request \in Reads :
              LET read  == ReadInstance(instances[i], request)
                  there == {k \in 1..Len(request) : Has(instances[i], request[k])}
              IN  /\ Len(read.data) = Cardinality(there)
                  /\ \A k \in there :
                        read.data[Cardinality({m \in there : m <= k})] = request[k]
                  /\ read.code = 404 <=> Len(request) = 1 /\ read.data = <<>>
        /\ LET full == ReadInstance(instances[i], <<>>)
           IN  /\ full.code = 205
               /\ {full.data[k].res : k \in 1..Len(full.data)}
                    = {"objectId", "objectInstId", "owner"}
                        \cup (IF instances[i].acl = <<>> THEN {} ELSE {"acl"})

=============================================================================
