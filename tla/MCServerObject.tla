--------------------------- MODULE MCServerObject ---------------------------
(***************************************************************************)
(* Requests for model checking ServerObject.  The integer limits are small *)
(* (INT_MAX is 3), so that each can be met from both sides.  Of the         *)
(* resources that are treated alike one or two are in the requests; of     *)
(* those that need not exist all are, so every combination occurs.         *)
(***************************************************************************)
EXTENDS ServerObject

Num(res, v)   == [res |-> res, kind |-> "int",  value |-> v]
Flag(res, b)  == [res |-> res, kind |-> "bool", value |-> b]
Bind(s)       == [res |-> "binding", kind |-> "string", value |-> s]
Other(res, k) == [res |-> res, kind |-> k, value |-> 0]

MCFactoryBinding == <<"U">>

Resources ==
    {Num("shortServerId", v) : v \in {0, MaxShort, MaxShort + 1}}
    \cup {Num("lifetime", v) : v \in {MaxUint, MaxUint + 1}}
    \cup {Num("registrationPriorityOrder", v) : v \in {-1, MaxInt, MaxInt + 1}}
    \cup {Bind(s) : s \in {<<>>, <<"S">>, <<"U", "Q", "S">>, <<"U", Nul, "S">>,
                          <<"U", "Q", "S", "U">>}}
    \cup {Other("registrationFailureBlock", "unreadable"), Other("lifetime", "multiple"),
          Num("disable", 0), Num("unknown", 0)}

\* What brings each of the optional resources into being.
Optionals ==
    {Num(r, MaxInt) : r \in OptionalInts} \cup {Flag(r, 0) : r \in OptionalFlags}

\* What is written before another resource is refused, and the other way round.
Mixed ==
    {Num("lifetime", MaxUint), Num("shortServerId", MaxShort), Flag("registrationFailureBlock", 0),
     Bind(<<"U", "Q", "S">>), Num("registrationPriorityOrder", MaxInt + 1), Num("disable", 0)}

OneOrTwo ==
    {<<r>> : r \in Resources \cup Optionals} \cup {<<r, s>> : r, s \in Mixed}

=============================================================================
