-------------------------- MODULE MCAccessControl --------------------------
(***************************************************************************)
(* Requests for model checking AccessControl: every resource with a value  *)
(* in range, out of range and unreadable, and lists of access rights that  *)
(* meet the factory's entries (0 and 999) or not, or name one twice, alone *)
(* and in pairs.                                                           *)
(***************************************************************************)
EXTENDS AccessControl

Num(res, v)  == [res |-> res, kind |-> "int",  value |-> v, entries |-> <<>>]
Text(res)    == [res |-> res, kind |-> "text", value |-> 0, entries |-> <<>>]
List(res, e) == [res |-> res, kind |-> "multiple", value |-> 0, entries |-> e]
E(id, v)     == [id |-> id, number |-> TRUE, value |-> v]
Bad(id)      == [id |-> id, number |-> FALSE, value |-> 0]

Resources ==
    {Num("objectId", 0), Num("objectId", 65534), Text("objectId"),
     Num("objectInstId", 7), Num("objectInstId", 65536), List("objectInstId", <<>>),
     Num("owner", 123), Num("owner", -1), Text("owner"),
     Num("acl", 1), List("acl", <<>>),
     List("acl", <<E(999, 1)>>), List("acl", <<E(999, 15), E(0, 1)>>),
     List("acl", <<E(5, 1), E(5, 2)>>), List("acl", <<E(5, 3), Bad(0)>>),
     List("acl", <<E(0, 15), Bad(999)>>), List("acl", <<E(999, 15), E(0, 65536)>>),
     Num("other", 1)}

OneOrTwo == {<<r>> : r \in Resources} \cup {<<r, s>> : r, s \in Resources}

Whole(res)    == [res |-> res, whole |-> TRUE, ids |-> {}]
Part(res, is) == [res |-> res, whole |-> FALSE, ids |-> is]

\* Up to three resources: two may be missing before one that is there.
Asked == {Whole("objectId"), Whole("acl"), Whole("owner"), Whole("other"),
          Part("acl", {999}), Part("acl", {0, 5}), Part("owner", {0})}

UpToThree == UNION {[1..n -> Asked] : n \in 1..3}

=============================================================================
