-------------------------- MODULE MCManagedClient --------------------------
(* An instance of ManagedClient for TLC, and checks of the pure operators.  *)
EXTENDS ManagedClient

Hour     == <<"+", "0", "1">>
Basic    == <<"-", "1", "2", "3", "0">>
Extended == <<"+", "1", "4", ":", "5", "9">>
Wrong    == <<"-", "1", "3">>

Texts == {<<TextItem(UtcOffset, s)>> : s \in {Basic, Wrong}}

MCTypedChanges ==
    {NumberItem(Battery, 0), NumberItem(Battery, 101), TextItem(Battery, <<"-">>),
     NumberItem(Memory, 7), MultipleItem(Battery), TextItem(Timezone, <<>>)}

\* Single resources, and requests in which one is refused after, or before,
\* others, or that write a resource twice.
MCWriteRequests ==
    Texts \cup {<<item>> : item \in MCTypedChanges}
    \cup {<<TextItem(UtcOffset, Extended), NumberItem(CurrentTime, 10), TextItem(UtcOffset, Hour)>>,
          <<NumberItem(CurrentTime, 30), NumberItem(Error, 5), TextItem(UtcOffset, Basic)>>,
          <<MultipleItem(UtcOffset), TextItem(UtcOffset, Basic)>>}
=============================================================================
