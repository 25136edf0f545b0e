------------------------ MODULE AccessControlProofs ------------------------
(***************************************************************************)
(* Proofs about the Access Control object: for requests of any length and  *)
(* lists of access rights of any length, which may name an id twice.       *)
(***************************************************************************)
EXTENDS AccessControl, FiniteRecursion, FiniteSetTheorems

Rights == Seq(AclEntry)

Sorted(acl) == \A m, n \in 1..Len(acl) : m < n => acl[m].id <= acl[n].id

Ranked == {acl \in Rights : Sorted(acl)}

\* The list gives the value to the id.
Says(acl, id, value) == \E k \in 1..Len(acl) : acl[k].id = id /\ acl[k].value = value

LEMMA EmptyRanked ==
    /\ <<>> \in Ranked
    /\ \A id : ~Doubled(<<>>, id)
    /\ \A id, value : ~Says(<<>>, id, value)
  BY DEF Ranked, Rights, Sorted, Doubled, Says

LEMMA ValuesSaid ==
    ASSUME NEW acl, NEW id, NEW value
    PROVE  value \in ValuesOf(acl, id) <=> Says(acl, id, value)
  BY DEF ValuesOf, Says

-----------------------------------------------------------------------------
(* Adding an entry. *)

LEMMA EntryTyped ==
    /\ \A e \in AclEntry : e.id \in Nat /\ e.value \in 0..MaxShort
    /\ \A acl \in Rights : /\ Len(acl) \in Nat
                            /\ \A k \in 1..Len(acl) : acl[k] \in AclEntry /\ acl[k].id \in Nat
<1>1. \A e \in AclEntry : e.id \in Nat /\ e.value \in 0..MaxShort
  BY DEF AclEntry
<1>2. \A acl \in Rights : Len(acl) \in Nat /\ \A k \in 1..Len(acl) : acl[k] \in AclEntry
  BY DEF Rights
<1>3. QED
  BY <1>1, <1>2

\* In a sorted list there is a place for any entry.
LEMMA PlaceFound ==
    ASSUME NEW acl \in Ranked, NEW e \in AclEntry
    PROVE  /\ PlaceFor(acl, e) \in 1..(Len(acl) + 1)
           /\ \A k \in 1..(PlaceFor(acl, e) - 1) : acl[k].id <= e.id
           /\ \A k \in PlaceFor(acl, e)..Len(acl) : acl[k].id >= e.id
<1> DEFINE later == {k \in 1..Len(acl) : acl[k].id > e.id}
           IsPlace(p) == /\ \A k \in 1..(p - 1) : acl[k].id <= e.id
                         /\ \A k \in p..Len(acl) : acl[k].id >= e.id
<1>1. Len(acl) \in Nat /\ e.id \in Nat /\ \A k \in 1..Len(acl) : acl[k].id \in Nat
  BY EntryTyped DEF Ranked
<1>2. \E p \in 1..(Len(acl) + 1) : IsPlace(p)
  <2>1. CASE later = {}
    <3>1. IsPlace(Len(acl) + 1)
      BY <1>1, <2>1
    <3>2. Len(acl) + 1 \in 1..(Len(acl) + 1)
      BY <1>1
    <3> HIDE DEF IsPlace
    <3>3. QED
      BY <3>1, <3>2
  <2>2. CASE later # {}
    <3>1. PICK p \in later : \A k \in later : p <= k
      <4>1. later \subseteq Nat
        BY <1>1
      <4> HIDE DEF later
      <4>2. QED
        BY <2>2, <4>1, LeastElement
    <3>2. p \in 1..(Len(acl) + 1) /\ p \in 1..Len(acl) /\ acl[p].id > e.id
      BY <1>1, <3>1
    <3>3. ASSUME NEW k \in 1..(p - 1) PROVE acl[k].id <= e.id
      <4>1. k \in 1..Len(acl) /\ ~(p <= k)
        BY <1>1, <3>2
      <4>2. k \notin later
        BY <3>1, <4>1
      <4>3. QED
        BY <1>1, <4>1, <4>2
    <3>4. ASSUME NEW k \in p..Len(acl) PROVE acl[k].id >= e.id
      <4>1. k \in 1..Len(acl) /\ (k = p \/ p < k)
        BY <1>1, <3>2
      <4>2. acl[p].id <= acl[k].id
        BY <1>1, <3>2, <4>1 DEF Ranked, Sorted
      <4>3. QED
        BY <1>1, <3>2, <4>1, <4>2
    <3>5. QED
      BY <3>2, <3>3, <3>4
  <2>3. QED
    BY <2>1, <2>2
<1>3. PlaceFor(acl, e) = CHOOSE p \in 1..(Len(acl) + 1) : IsPlace(p)
  BY DEF PlaceFor
<1>4. PlaceFor(acl, e) \in 1..(Len(acl) + 1) /\ IsPlace(PlaceFor(acl, e))
  <2> HIDE DEF IsPlace
  <2>1. QED
    BY <1>2, <1>3
<1>5. QED
  BY <1>4

LEMMA Inserted ==
    ASSUME NEW acl \in Rights, NEW e \in AclEntry, NEW p \in 1..(Len(acl) + 1)
    PROVE  /\ InsertAt(acl, p, e) \in Rights
           /\ Len(InsertAt(acl, p, e)) = Len(acl) + 1
           /\ \A k \in 1..(Len(acl) + 1) :
                 InsertAt(acl, p, e)[k] = IF k < p THEN acl[k] ELSE IF k = p THEN e ELSE acl[k - 1]
<1> DEFINE front == SubSeq(acl, 1, p - 1)
           rest  == SubSeq(acl, p, Len(acl))
           upto  == front \o <<e>>
<1>1. InsertAt(acl, p, e) = upto \o rest
  BY DEF InsertAt
<1>2. Len(acl) \in Nat /\ p \in Nat /\ p >= 1 /\ p <= Len(acl) + 1
  BY DEF Rights
<1>3. /\ front \in Rights /\ Len(front) = p - 1
      /\ \A k \in 1..(p - 1) : front[k] = acl[k]
  BY <1>2 DEF Rights
<1>4. /\ rest \in Rights /\ Len(rest) = Len(acl) - p + 1
      /\ \A k \in 1..(Len(acl) - p + 1) : rest[k] = acl[k + p - 1]
  BY <1>2 DEF Rights
<1>5. <<e>> \in Rights /\ Len(<<e>>) = 1 /\ <<e>>[1] = e
  BY DEF Rights
<1>6. \A a, b \in Rights : /\ a \o b \in Rights /\ Len(a \o b) = Len(a) + Len(b)
                           /\ \A k \in 1..(Len(a) + Len(b)) :
                                 (a \o b)[k] = IF k <= Len(a) THEN a[k] ELSE b[k - Len(a)]
  BY DEF Rights
<1>7. /\ upto \in Rights /\ Len(upto) = p
      /\ \A k \in 1..p : upto[k] = IF k < p THEN acl[k] ELSE e
  <2> HIDE DEF front
  <2>1. /\ upto \in Rights /\ Len(upto) = p
        /\ \A k \in 1..p : upto[k] = IF k <= p - 1 THEN front[k] ELSE <<e>>[k - (p - 1)]
    BY <1>2, <1>3, <1>5, <1>6
  <2>2. ASSUME NEW k \in 1..p PROVE upto[k] = IF k < p THEN acl[k] ELSE e
    <3>1. CASE k < p
      BY <1>2, <1>3, <2>1, <3>1
    <3>2. CASE k = p
      BY <1>2, <1>5, <2>1, <3>2
    <3>3. k < p \/ k = p
      BY <1>2
    <3>4. QED
      BY <3>1, <3>2, <3>3
  <2>3. QED
    BY <2>1, <2>2
<1> HIDE DEF front, rest, upto
<1>8. upto \o rest \in Rights /\ Len(upto \o rest) = Len(acl) + 1
  BY <1>2, <1>4, <1>6, <1>7
<1>9. ASSUME NEW k \in 1..(Len(acl) + 1)
      PROVE  (upto \o rest)[k] = IF k < p THEN acl[k] ELSE IF k = p THEN e ELSE acl[k - 1]
  <2>1. (upto \o rest)[k] = IF k <= p THEN upto[k] ELSE rest[k - p]
    <3>1. Len(upto) + Len(rest) = Len(acl) + 1 /\ Len(upto) = p
      BY <1>2, <1>4, <1>7
    <3>2. k \in 1..(Len(upto) + Len(rest))
      BY <3>1
    <3>3. (upto \o rest)[k] = IF k <= Len(upto) THEN upto[k] ELSE rest[k - Len(upto)]
      BY <1>4, <1>6, <1>7, <3>2
    <3>4. QED
      BY <3>1, <3>3
  <2>2. CASE k <= p
    BY <1>2, <1>7, <2>1, <2>2
  <2>3. CASE k > p
    <3>1. k - p \in 1..(Len(acl) - p + 1) /\ (k - p) + p - 1 = k - 1
      BY <1>2, <2>3
    <3>2. QED
      BY <1>2, <1>4, <2>1, <2>3, <3>1
  <2>4. k <= p \/ k > p
    BY <1>2
  <2>5. QED
    BY <2>2, <2>3, <2>4
<1>10. QED
  BY <1>1, <1>8, <1>9

\* A new entry finds its place: the list says what it said and what the entry
\* says, and holds an id twice only if it did or if it had the entry's.
LEMMA AddValueAdds ==
    ASSUME NEW acl \in Ranked, NEW e \in AclEntry
    PROVE  /\ AddValue(acl, e) \in Ranked
           /\ \A id, value : Says(AddValue(acl, e), id, value)
                <=> Says(acl, id, value) \/ (e.id = id /\ e.value = value)
           /\ \A id : Doubled(AddValue(acl, e), id)
                => Doubled(acl, id) \/ (id = e.id /\ \E value : Says(acl, id, value))
<1> DEFINE p   == PlaceFor(acl, e)
           new == AddValue(acl, e)
<1>1. /\ p \in 1..(Len(acl) + 1)
      /\ \A k \in 1..(p - 1) : acl[k].id <= e.id
      /\ \A k \in p..Len(acl) : acl[k].id >= e.id
  BY PlaceFound
<1>2. /\ new \in Rights
      /\ Len(new) = Len(acl) + 1
      /\ \A k \in 1..(Len(acl) + 1) :
            new[k] = IF k < p THEN acl[k] ELSE IF k = p THEN e ELSE acl[k - 1]
  <2> HIDE DEF p
  <2>1. new = InsertAt(acl, p, e)
    BY DEF AddValue, p
  <2>2. QED
    BY <1>1, <2>1, Inserted DEF Ranked
<1>3. Len(acl) \in Nat /\ e.id \in Nat /\ \A k \in 1..Len(acl) : acl[k].id \in Nat
  BY EntryTyped DEF Ranked
<1>4. Sorted(acl)
  BY DEF Ranked
<1> HIDE DEF p, new
<1>5. /\ new[p] = e
      /\ \A k \in 1..(p - 1) : k \in 1..Len(acl) /\ new[k] = acl[k]
      /\ \A k \in (p + 1)..(Len(acl) + 1) : k - 1 \in p..Len(acl) /\ new[k] = acl[k - 1]
  BY <1>1, <1>2, <1>3
<1>6. ASSUME NEW m \in 1..(Len(acl) + 1), NEW n \in 1..(Len(acl) + 1), m < n
      PROVE  new[m].id <= new[n].id
  <2>1. CASE n < p
    <3>1. m \in 1..(p - 1) /\ n \in 1..(p - 1)
      BY <1>1, <1>3, <1>6, <2>1
    <3>2. QED
      BY <1>4, <1>5, <1>6, <3>1 DEF Sorted
  <2>2. CASE n = p
    <3>1. m \in 1..(p - 1)
      BY <1>1, <1>3, <1>6, <2>2
    <3>2. QED
      BY <1>1, <1>5, <2>2, <3>1
  <2>3. CASE n > p
    <3>1. n - 1 \in 1..Len(acl) /\ n - 1 \in p..Len(acl) /\ new[n] = acl[n - 1]
      BY <1>1, <1>2, <1>3, <2>3
    <3>2. CASE m < p
      <4>1. m \in 1..Len(acl) /\ m < n - 1 /\ new[m] = acl[m]
        BY <1>1, <1>2, <1>3, <2>3, <3>2
      <4>2. QED
        BY <1>4, <3>1, <4>1 DEF Sorted
    <3>3. CASE m = p
      BY <1>1, <1>3, <1>5, <3>1, <3>3
    <3>4. CASE m > p
      <4>1. m - 1 \in 1..Len(acl) /\ m - 1 < n - 1 /\ new[m] = acl[m - 1]
        BY <1>1, <1>2, <1>3, <1>6, <3>4
      <4>2. QED
        BY <1>4, <3>1, <4>1 DEF Sorted
    <3>5. QED
      BY <1>1, <3>2, <3>3, <3>4
  <2>4. QED
    BY <1>1, <2>1, <2>2, <2>3
<1>7. ASSUME NEW id, NEW value
      PROVE  Says(new, id, value) <=> Says(acl, id, value) \/ (e.id = id /\ e.value = value)
  <2>1. ASSUME Says(new, id, value)
        PROVE  Says(acl, id, value) \/ (e.id = id /\ e.value = value)
    <3>1. PICK k \in 1..(Len(acl) + 1) : new[k].id = id /\ new[k].value = value
      BY <1>2, <2>1 DEF Says
    <3>2. CASE k < p
      <4>1. k \in 1..Len(acl) /\ new[k] = acl[k]
        BY <1>1, <1>2, <1>3, <3>2
      <4>2. QED
        BY <3>1, <4>1 DEF Says
    <3>3. CASE k = p
      BY <1>2, <3>1, <3>3
    <3>4. CASE k > p
      <4>1. k - 1 \in 1..Len(acl) /\ new[k] = acl[k - 1]
        BY <1>1, <1>2, <1>3, <3>4
      <4>2. QED
        BY <3>1, <4>1 DEF Says
    <3>5. QED
      BY <1>1, <3>2, <3>3, <3>4
  <2>2. ASSUME Says(acl, id, value)
        PROVE  Says(new, id, value)
    <3>1. PICK k \in 1..Len(acl) : acl[k].id = id /\ acl[k].value = value
      BY <2>2 DEF Says
    <3>2. CASE k < p
      <4>1. k \in 1..Len(new) /\ new[k] = acl[k]
        BY <1>1, <1>2, <1>3, <3>2
      <4>2. QED
        BY <3>1, <4>1 DEF Says
    <3>3. CASE k >= p
      <4>1. k + 1 \in 1..Len(new) /\ new[k + 1] = acl[k]
        BY <1>1, <1>2, <1>3, <3>3
      <4>2. QED
        BY <3>1, <4>1 DEF Says
    <3>4. QED
      BY <1>1, <3>2, <3>3
  <2>3. e.id = id /\ e.value = value => Says(new, id, value)
    <3>1. p \in 1..Len(new) /\ new[p] = e
      BY <1>1, <1>2, <1>3
    <3>2. QED
      BY <3>1 DEF Says
  <2>4. QED
    BY <2>1, <2>2, <2>3
<1>8. ASSUME NEW id, Doubled(new, id)
      PROVE  Doubled(acl, id) \/ (id = e.id /\ \E value : Says(acl, id, value))
  <2>1. PICK m \in 1..(Len(acl) + 1), n \in 1..(Len(acl) + 1) :
           m # n /\ new[m].id = id /\ new[n].id = id
    BY <1>2, <1>8 DEF Doubled
  <2> DEFINE Old(k) == IF k < p THEN k ELSE k - 1
  <2>2. \A k \in 1..(Len(acl) + 1) : k # p => Old(k) \in 1..Len(acl) /\ new[k] = acl[Old(k)]
    BY <1>1, <1>2, <1>3
  <2>3. CASE m # p /\ n # p
    <3>1. Old(m) # Old(n)
      BY <1>1, <1>3, <2>1, <2>3
    <3> HIDE DEF Old
    <3>2. QED
      BY <2>1, <2>2, <2>3, <3>1 DEF Doubled
  <2>4. CASE m = p
    <3> HIDE DEF Old
    <3>1. Old(n) \in 1..Len(acl) /\ new[n] = acl[Old(n)]
      BY <2>1, <2>2, <2>4
    <3>2. acl[Old(n)].id = id /\ id = e.id
      BY <1>2, <1>3, <2>1, <2>4, <3>1
    <3>3. Says(acl, id, acl[Old(n)].value)
      BY <3>1, <3>2 DEF Says
    <3>4. QED
      BY <3>2, <3>3
  <2>5. CASE n = p
    <3> HIDE DEF Old
    <3>1. Old(m) \in 1..Len(acl) /\ new[m] = acl[Old(m)]
      BY <2>1, <2>2, <2>5
    <3>2. acl[Old(m)].id = id /\ id = e.id
      BY <1>2, <1>3, <2>1, <2>5, <3>1
    <3>3. Says(acl, id, acl[Old(m)].value)
      BY <3>1, <3>2 DEF Says
    <3>4. QED
      BY <3>2, <3>3
  <2>6. QED
    BY <2>3, <2>4, <2>5
<1>9. new \in Ranked
  BY <1>2, <1>6 DEF Ranked, Sorted
<1>10. QED
  BY <1>7, <1>8, <1>9 DEF new

-----------------------------------------------------------------------------
(* Replacing an entry. *)

\* A partial write of an entry either adds it or changes the value of the first
\* one with its id.
LEMMA AddOrReplaceCases ==
    ASSUME NEW acl \in Rights, NEW e \in AclEntry
    PROVE  \/ e.id \notin Listed(acl) /\ AddOrReplace(acl, e) = AddValue(acl, e)
           \/ \E at \in 1..Len(acl) :
                 /\ acl[at].id = e.id
                 /\ AddOrReplace(acl, e) \in Rights
                 /\ Len(AddOrReplace(acl, e)) = Len(acl)
                 /\ AddOrReplace(acl, e)[at] = e
                 /\ \A k \in 1..Len(acl) : k # at => AddOrReplace(acl, e)[k] = acl[k]
<1> DEFINE found == {k \in 1..Len(acl) : acl[k].id = e.id}
           at    == CHOOSE k \in found : \A m \in found : k <= m
           new   == AddOrReplace(acl, e)
<1>1. new = IF found = {} THEN AddValue(acl, e) ELSE [acl EXCEPT ![at].value = e.value]
  BY DEF AddOrReplace
<1>2. CASE found = {}
  <2>1. e.id \notin Listed(acl)
    BY <1>2 DEF Listed
  <2> HIDE DEF new, found, at
  <2>2. new = AddValue(acl, e)
    BY <1>1, <1>2
  <2>3. QED
    BY <2>1, <2>2 DEF new
<1>3. CASE found # {}
  <2>1. at \in found
    <3>1. found \subseteq Nat
      BY EntryTyped
    <3> HIDE DEF found
    <3>2. \E k \in found : \A m \in found : k <= m
      BY <1>3, <3>1, LeastElement
    <3>3. QED
      BY <3>2
  <2>2. at \in 1..Len(acl) /\ acl[at].id = e.id
    BY <2>1
  <2> HIDE DEF at, new, found
  <2>3. acl[at] \in AclEntry
    BY <2>2, EntryTyped
  <2>4. [acl[at] EXCEPT !.value = e.value] = e
    BY <2>2, <2>3 DEF AclEntry
  <2>5. new = [acl EXCEPT ![at] = e]
    <3>1. new = [acl EXCEPT ![at] = [acl[at] EXCEPT !.value = e.value]]
      BY <1>1, <1>3
    <3>2. QED
      BY <2>4, <3>1
  <2>6. /\ new \in Rights /\ Len(new) = Len(acl) /\ new[at] = e
        /\ \A k \in 1..Len(acl) : k # at => new[k] = acl[k]
    BY <2>2, <2>5 DEF Rights
  <2>7. QED
    BY <2>2, <2>6 DEF new
<1>4. QED
  BY <1>2, <1>3

\* The entry's id gets its value, and only that one unless the list had it twice;
\* the other ids are left alone, and no id comes to be there twice.
LEMMA AddOrReplaceSets ==
    ASSUME NEW acl \in Ranked, NEW e \in AclEntry
    PROVE  LET new == AddOrReplace(acl, e) IN
           /\ new \in Ranked
           /\ \A id, value : id # e.id => (Says(new, id, value) <=> Says(acl, id, value))
           /\ Says(new, e.id, e.value)
           /\ ~Doubled(acl, e.id) => \A value : Says(new, e.id, value) => value = e.value
           /\ \A id : Doubled(new, id) => Doubled(acl, id)
<1> DEFINE new == AddOrReplace(acl, e)
<1>0. acl \in Rights /\ Sorted(acl)
  BY DEF Ranked
<1>1. CASE e.id \notin Listed(acl) /\ new = AddValue(acl, e)
  <2> HIDE DEF new
  <2>1. /\ new \in Ranked
        /\ \A id, value : Says(new, id, value)
                <=> Says(acl, id, value) \/ (e.id = id /\ e.value = value)
        /\ \A id : Doubled(new, id)
                => Doubled(acl, id) \/ (id = e.id /\ \E value : Says(acl, id, value))
    BY <1>1, AddValueAdds
  <2>2. \A value : ~Says(acl, e.id, value)
    BY <1>1 DEF Says, Listed
  <2>3. QED
    BY <2>1, <2>2 DEF new
<1>2. ASSUME NEW at \in 1..Len(acl), acl[at].id = e.id, new \in Rights,
             Len(new) = Len(acl), new[at] = e,
             \A k \in 1..Len(acl) : k # at => new[k] = acl[k]
      PROVE  /\ new \in Ranked
             /\ \A id, value : id # e.id => (Says(new, id, value) <=> Says(acl, id, value))
             /\ Says(new, e.id, e.value)
             /\ ~Doubled(acl, e.id) => \A value : Says(new, e.id, value) => value = e.value
             /\ \A id : Doubled(new, id) => Doubled(acl, id)
  <2> HIDE DEF new
  <2>1. \A k \in 1..Len(acl) : new[k].id = acl[k].id
    BY <1>2
  <2>2. new \in Ranked
    BY <1>0, <1>2, <2>1 DEF Ranked, Sorted
  <2>3. ASSUME NEW id, NEW value, id # e.id
        PROVE  Says(new, id, value) <=> Says(acl, id, value)
    <3>1. \A k \in 1..Len(acl) : new[k].id = id \/ acl[k].id = id => new[k] = acl[k]
      BY <1>2, <2>1, <2>3
    <3>2. QED
      BY <1>2, <2>1, <3>1 DEF Says
  <2>4. Says(new, e.id, e.value)
    BY <1>2 DEF Says
  <2>5. ASSUME ~Doubled(acl, e.id), NEW value, Says(new, e.id, value)
        PROVE  value = e.value
    <3>1. PICK k \in 1..Len(acl) : new[k].id = e.id /\ new[k].value = value
      BY <1>2, <2>5 DEF Says
    <3>2. k = at
      BY <1>2, <2>1, <2>5, <3>1 DEF Doubled
    <3>3. QED
      BY <1>2, <3>1, <3>2
  <2>6. ASSUME NEW id, Doubled(new, id) PROVE Doubled(acl, id)
    BY <1>2, <2>1, <2>6 DEF Doubled
  <2>7. QED
    BY <2>2, <2>3, <2>4, <2>5, <2>6
<1>3. QED
  BY <1>0, <1>1, <1>2, AddOrReplaceCases

-----------------------------------------------------------------------------
(* A write of the list. *)

\* The first k entries name an id, give it a value, name it twice, and give it a
\* value that no entry after it changes.
Named(entries, k, id) == \E j \in 1..k : entries[j].id = id

GivenTo(entries, k, id, value) ==
    \E j \in 1..k : entries[j].id = id /\ entries[j].value = value

Twice(entries, k, id) ==
    \E m, n \in 1..k : m # n /\ entries[m].id = id /\ entries[n].id = id

LastGiven(entries, k, id, value) ==
    \E j \in 1..k : /\ entries[j].id = id /\ entries[j].value = value
                    /\ \A m \in (j + 1)..k : entries[m].id # id

\* The list is made of the first k entries.
Collects(list, entries, k) ==
    /\ list \in Ranked
    /\ \A id, value : Says(list, id, value) <=> GivenTo(entries, k, id, value)
    /\ \A id : Doubled(list, id) => Twice(entries, k, id)

\* The list is made of another one by adding or replacing the first k entries.
Updates(list, start, entries, k) ==
    /\ list \in Ranked
    /\ \A id, value : ~Named(entries, k, id) => (Says(list, id, value) <=> Says(start, id, value))
    /\ \A id, value : LastGiven(entries, k, id, value) =>
          /\ Says(list, id, value)
          /\ ~Doubled(start, id) => \A other : Says(list, id, other) => other = value
    /\ \A id : Doubled(list, id) => Doubled(start, id)

LEMMA NothingCollected ==
    ASSUME NEW entries
    PROVE  /\ Collects(<<>>, entries, 0)
           /\ \A start \in Ranked : Updates(start, start, entries, 0)
<1>1. \A id, value : /\ ~Named(entries, 0, id) /\ ~Twice(entries, 0, id)
                     /\ ~GivenTo(entries, 0, id, value) /\ ~LastGiven(entries, 0, id, value)
  BY DEF Named, Twice, GivenTo, LastGiven
<1>2. QED
  BY <1>1, EmptyRanked DEF Collects, Updates

LEMMA CollectsOneMore ==
    ASSUME NEW entries, NEW k \in Nat, k >= 1, NEW list, Collects(list, entries, k - 1),
           NEW e \in AclEntry, e.id = entries[k].id, e.value = entries[k].value
    PROVE  Collects(AddValue(list, e), entries, k)
<1> DEFINE new == AddValue(list, e)
<1>1. /\ list \in Ranked
      /\ \A id, value : Says(list, id, value) <=> GivenTo(entries, k - 1, id, value)
      /\ \A id : Doubled(list, id) => Twice(entries, k - 1, id)
  BY DEF Collects
<1>2. /\ new \in Ranked
      /\ \A id, value : Says(new, id, value)
            <=> Says(list, id, value) \/ (e.id = id /\ e.value = value)
      /\ \A id : Doubled(new, id)
            => Doubled(list, id) \/ (id = e.id /\ \E value : Says(list, id, value))
  BY <1>1, AddValueAdds
<1>3. /\ 1..k = (1..(k - 1)) \cup {k} /\ k \notin 1..(k - 1)
  OBVIOUS
<1> HIDE DEF new
<1>4. \A id, value : GivenTo(entries, k, id, value)
         <=> GivenTo(entries, k - 1, id, value) \/ (e.id = id /\ e.value = value)
  BY <1>3 DEF GivenTo
<1>5. ASSUME NEW id, Doubled(new, id) PROVE Twice(entries, k, id)
  <2>1. CASE Doubled(list, id)
    BY <1>1, <1>3, <2>1 DEF Twice
  <2>2. CASE id = e.id /\ \E value : Says(list, id, value)
    <3>1. PICK j \in 1..(k - 1) : entries[j].id = id
      BY <1>1, <2>2 DEF GivenTo
    <3>2. j \in 1..k /\ k \in 1..k /\ j # k /\ entries[k].id = id
      BY <1>3, <2>2
    <3>3. QED
      BY <3>1, <3>2 DEF Twice
  <2>3. QED
    BY <1>2, <1>5, <2>1, <2>2
<1>6. QED
  BY <1>1, <1>2, <1>4, <1>5 DEF Collects, new

LEMMA UpdatesOneMore ==
    ASSUME NEW entries, NEW k \in Nat, k >= 1,
           NEW list, NEW start, Updates(list, start, entries, k - 1),
           NEW e \in AclEntry, e.id = entries[k].id, e.value = entries[k].value
    PROVE  Updates(AddOrReplace(list, e), start, entries, k)
<1> DEFINE new == AddOrReplace(list, e)
<1>1. /\ list \in Ranked
      /\ \A id, value : ~Named(entries, k - 1, id)
            => (Says(list, id, value) <=> Says(start, id, value))
      /\ \A id, value : LastGiven(entries, k - 1, id, value) =>
            /\ Says(list, id, value)
            /\ ~Doubled(start, id) => \A other : Says(list, id, other) => other = value
      /\ \A id : Doubled(list, id) => Doubled(start, id)
  BY DEF Updates
<1>2. /\ new \in Ranked
      /\ \A id, value : id # e.id => (Says(new, id, value) <=> Says(list, id, value))
      /\ Says(new, e.id, e.value)
      /\ ~Doubled(list, e.id) => \A value : Says(new, e.id, value) => value = e.value
      /\ \A id : Doubled(new, id) => Doubled(list, id)
  BY <1>1, AddOrReplaceSets
<1>3. 1..k = (1..(k - 1)) \cup {k} /\ k \in 1..k
  OBVIOUS
<1> HIDE DEF new
<1>4. ASSUME NEW id, NEW value, ~Named(entries, k, id)
      PROVE  Says(new, id, value) <=> Says(start, id, value)
  <2>1. ~Named(entries, k - 1, id) /\ id # e.id
    BY <1>3, <1>4 DEF Named
  <2>2. QED
    BY <1>1, <1>2, <2>1
<1>5. ASSUME NEW id, NEW value, LastGiven(entries, k, id, value)
      PROVE  /\ Says(new, id, value)
             /\ ~Doubled(start, id) => \A other : Says(new, id, other) => other = value
  <2>1. PICK j \in 1..k : /\ entries[j].id = id /\ entries[j].value = value
                          /\ \A m \in (j + 1)..k : entries[m].id # id
    BY <1>5 DEF LastGiven
  <2>2. CASE id = e.id
    <3>1. j = k
      <4>1. ASSUME j # k PROVE FALSE
        <5>1. k \in (j + 1)..k
          BY <4>1
        <5>2. QED
          BY <2>1, <2>2, <5>1
      <4>2. QED
        BY <4>1
    <3>2. value = e.value
      BY <2>1, <3>1
    <3>3. QED
      BY <1>1, <1>2, <2>2, <3>2
  <2>3. CASE id # e.id
    <3>1. j # k
      BY <2>1, <2>3
    <3>2. j \in 1..(k - 1) /\ \A m \in (j + 1)..(k - 1) : entries[m].id # id
      BY <2>1, <3>1
    <3>3. LastGiven(entries, k - 1, id, value)
      BY <2>1, <3>2 DEF LastGiven
    <3>4. QED
      BY <1>1, <1>2, <2>3, <3>3
  <2>4. QED
    BY <2>2, <2>3
<1>6. \A id : Doubled(new, id) => Doubled(start, id)
  BY <1>1, <1>2
<1>7. QED
  BY <1>2, <1>4, <1>5, <1>6 DEF Updates, new

\* The duplicate of a list says the same, and has no more ids twice.
LEMMA DuplicateSame ==
    ASSUME NEW acl \in Ranked
    PROVE  /\ Duplicate(acl) \in Ranked
           /\ \A id, value : Says(Duplicate(acl), id, value) <=> Says(acl, id, value)
           /\ \A id : Doubled(Duplicate(acl), id) => Doubled(acl, id)
<1> DEFINE n == Len(acl)
           after[k \in 0..n] == IF k = 0 THEN <<>> ELSE AddValue(after[k - 1], acl[k])
           step == [k \in 1..n |-> [before \in Ranked |-> AddValue(before, acl[k])]]
<1>1. Duplicate(acl) = after[n]
  BY DEF Duplicate
<1>2. n \in Nat /\ <<>> \in Ranked /\ \A k \in 1..n : acl[k] \in AclEntry
  BY EntryTyped, EmptyRanked DEF Ranked
<1>3. Steps(step, n, Ranked)
  <2>1. \A k \in 1..n, before \in Ranked : AddValue(before, acl[k]) \in Ranked
    BY <1>2, AddValueAdds
  <2>2. QED
    BY <2>1 DEF Steps
<1>4. PICK f : Runs(f, n, Ranked, <<>>, step)
  <2> HIDE DEF after, step, n
  <2>1. QED
    BY <1>2, <1>3, Recursion
<1>5. /\ f \in [0..n -> Ranked] /\ f[0] = <<>>
      /\ \A k \in 1..n : f[k] = AddValue(f[k - 1], acl[k])
  <2>1. /\ f \in [0..n -> Ranked] /\ f[0] = <<>>
        /\ \A k \in 1..n : f[k] = step[k][f[k - 1]]
    BY <1>4 DEF Runs
  <2>2. ASSUME NEW k \in 1..n PROVE f[k] = AddValue(f[k - 1], acl[k])
    <3>1. f[k - 1] \in Ranked
      BY <1>2, <2>1
    <3>2. QED
      BY <2>1, <3>1
  <2>3. QED
    BY <2>1, <2>2
<1>6. f = [k \in 0..n |-> IF k = 0 THEN <<>> ELSE AddValue(f[k - 1], acl[k])]
  <2> HIDE DEF n, after, step
  <2>1. ASSUME NEW k \in 0..n, k # 0 PROVE f[k] = AddValue(f[k - 1], acl[k])
    <3>1. k \in 1..n
      BY <1>2, <2>1
    <3>2. QED
      BY <1>5, <3>1
  <2>2. QED
    BY <1>5, <2>1
<1>7. after = [k \in 0..n |-> IF k = 0 THEN <<>> ELSE AddValue(after[k - 1], acl[k])]
  <2> HIDE DEF step
  <2>1. QED
    BY <1>6
<1> HIDE DEF after, step
<1>8. after[0] = <<>> /\ \A k \in 1..n : after[k] = AddValue(after[k - 1], acl[k])
  <2>1. \A k \in 1..n : k \in 0..n /\ k # 0
    BY <1>2
  <2>2. 0 \in 0..n
    BY <1>2
  <2>3. QED
    BY <1>7, <2>1, <2>2
<1> DEFINE good == {k \in 0..n : Collects(after[k], acl, k)}
<1>9. 0 \in good
  BY <1>2, <1>8, NothingCollected
<1>10. ASSUME NEW k \in 1..n, k - 1 \in good PROVE k \in good
  <2>1. Collects(after[k - 1], acl, k - 1) /\ k \in Nat /\ k >= 1 /\ k \in 0..n
    BY <1>2, <1>10
  <2>2. Collects(after[k], acl, k)
    BY <1>2, <1>8, <2>1, CollectsOneMore
  <2>3. QED
    BY <2>1, <2>2
<1>11. 0..n \subseteq good
  <2> HIDE DEF n, good
  <2>1. QED
    BY <1>2, <1>9, <1>10, SetInduction
<1>12. Collects(after[n], acl, n)
  BY <1>2, <1>11
<1>13. /\ \A id, value : GivenTo(acl, n, id, value) <=> Says(acl, id, value)
       /\ \A id : Twice(acl, n, id) <=> Doubled(acl, id)
  BY DEF GivenTo, Says, Twice, Doubled
<1> HIDE DEF n
<1>14. QED
  BY <1>1, <1>12, <1>13 DEF Collects

\* What a loop over entries has come to: whether it goes on, and the list so far.
Building == [ok : BOOLEAN, acl : Ranked]

\* One turn of the loop.
TakeEntry(before, entry, partial) ==
    IF ~before.ok \/ ~Readable(entry) THEN [before EXCEPT !.ok = FALSE]
    ELSE [ok |-> TRUE, acl |-> IF partial THEN AddOrReplace(before.acl, Decoded(entry))
                                          ELSE AddValue(before.acl, Decoded(entry))]

LEMMA DecodedTyped ==
    ASSUME NEW entry \in Entry, Readable(entry)
    PROVE  /\ Decoded(entry) \in AclEntry
           /\ Decoded(entry).id = entry.id
           /\ Decoded(entry).value = entry.value
  BY DEF Entry, Readable, Decoded, AclEntry

LEMMA TakeEntryTyped ==
    ASSUME NEW before \in Building, NEW entry \in Entry, NEW partial \in BOOLEAN
    PROVE  TakeEntry(before, entry, partial) \in Building
<1>1. before.ok \in BOOLEAN /\ before.acl \in Ranked
  BY DEF Building
<1>2. CASE ~before.ok \/ ~Readable(entry)
  BY <1>2 DEF TakeEntry, Building
<1>3. CASE before.ok /\ Readable(entry)
  <2> DEFINE new == IF partial THEN AddOrReplace(before.acl, Decoded(entry))
                               ELSE AddValue(before.acl, Decoded(entry))
  <2>1. new \in Ranked
    BY <1>1, <1>3, DecodedTyped, AddOrReplaceSets, AddValueAdds
  <2>2. TakeEntry(before, entry, partial) = [ok |-> TRUE, acl |-> new]
    BY <1>3 DEF TakeEntry
  <2> HIDE DEF new
  <2>3. QED
    BY <2>1, <2>2 DEF Building
<1>4. QED
  BY <1>1, <1>2, <1>3

\* Build is what the entries make of the list one by one.
LEMMA BuildSteps ==
    ASSUME NEW start \in Ranked, NEW entries \in Seq(Entry), NEW partial \in BOOLEAN
    PROVE  \E after :
              /\ after \in [0..Len(entries) -> Building]
              /\ after[0] = [ok |-> TRUE, acl |-> start]
              /\ \A k \in 1..Len(entries) : after[k] = TakeEntry(after[k - 1], entries[k], partial)
              /\ Build(start, entries, partial) = after[Len(entries)]
<1> DEFINE n     == Len(entries)
           first == [ok |-> TRUE, acl |-> start]
           after[k \in 0..n] ==
              IF k = 0 THEN [ok |-> TRUE, acl |-> start]
              ELSE IF ~after[k - 1].ok \/ ~Readable(entries[k])
                   THEN [after[k - 1] EXCEPT !.ok = FALSE]
              ELSE [ok  |-> TRUE,
                    acl |-> IF partial THEN AddOrReplace(after[k - 1].acl, Decoded(entries[k]))
                                       ELSE AddValue(after[k - 1].acl, Decoded(entries[k]))]
           step == [k \in 1..n |-> [before \in Building |-> TakeEntry(before, entries[k], partial)]]
<1>1. Build(start, entries, partial) = after[n]
  BY DEF Build
<1>2. n \in Nat /\ first \in Building /\ \A k \in 1..n : entries[k] \in Entry
  BY DEF Building
<1>3. Steps(step, n, Building)
  <2>1. \A k \in 1..n, before \in Building : TakeEntry(before, entries[k], partial) \in Building
    BY <1>2, TakeEntryTyped
  <2>2. QED
    BY <2>1 DEF Steps
<1>4. PICK f : Runs(f, n, Building, first, step)
  <2> HIDE DEF after, step, first, n
  <2>1. QED
    BY <1>2, <1>3, Recursion
<1>5. /\ f \in [0..n -> Building] /\ f[0] = first
      /\ \A k \in 1..n : f[k] = TakeEntry(f[k - 1], entries[k], partial)
  <2>1. /\ f \in [0..n -> Building] /\ f[0] = first
        /\ \A k \in 1..n : f[k] = step[k][f[k - 1]]
    BY <1>4 DEF Runs
  <2>2. ASSUME NEW k \in 1..n PROVE f[k] = TakeEntry(f[k - 1], entries[k], partial)
    <3>1. f[k - 1] \in Building
      BY <1>2, <2>1
    <3>2. QED
      BY <2>1, <3>1
  <2>3. QED
    BY <2>1, <2>2
<1>6. f = [k \in 0..n |->
              IF k = 0 THEN [ok |-> TRUE, acl |-> start]
              ELSE IF ~f[k - 1].ok \/ ~Readable(entries[k])
                   THEN [f[k - 1] EXCEPT !.ok = FALSE]
              ELSE [ok  |-> TRUE,
                    acl |-> IF partial THEN AddOrReplace(f[k - 1].acl, Decoded(entries[k]))
                                       ELSE AddValue(f[k - 1].acl, Decoded(entries[k]))]]
  <2> HIDE DEF n, after, step
  <2>1. ASSUME NEW k \in 0..n, k # 0
        PROVE  f[k] = TakeEntry(f[k - 1], entries[k], partial)
    <3>1. k \in 1..n
      BY <1>2, <2>1
    <3>2. QED
      BY <1>5, <3>1
  <2>2. QED
    BY <1>5, <2>1 DEF TakeEntry
<1>7. after = [k \in 0..n |->
              IF k = 0 THEN [ok |-> TRUE, acl |-> start]
              ELSE IF ~after[k - 1].ok \/ ~Readable(entries[k])
                   THEN [after[k - 1] EXCEPT !.ok = FALSE]
              ELSE [ok  |-> TRUE,
                    acl |-> IF partial THEN AddOrReplace(after[k - 1].acl, Decoded(entries[k]))
                                       ELSE AddValue(after[k - 1].acl, Decoded(entries[k]))]]
  <2> HIDE DEF step
  <2>1. QED
    BY <1>6
<1> HIDE DEF after, step
<1>8. after[0] = first
  BY <1>2, <1>7
<1>9. ASSUME NEW k \in 1..n PROVE after[k] = TakeEntry(after[k - 1], entries[k], partial)
  <2>1. k \in 0..n /\ k # 0
    BY <1>2
  <2>2. QED
    BY <1>7, <2>1 DEF TakeEntry
<1> DEFINE good == {k \in 0..n : after[k] \in Building}
<1>10. 0..n \subseteq good
  <2>1. 0 \in good
    BY <1>2, <1>8
  <2>2. \A k \in 1..n : k - 1 \in good => k \in good
    BY <1>2, <1>9, TakeEntryTyped
  <2> HIDE DEF good, n
  <2>3. QED
    BY <1>2, <2>1, <2>2, SetInduction
<1>11. after \in [0..n -> Building]
  <2>1. \A k \in 0..n : after[k] \in Building
    BY <1>10
  <2>2. after = [k \in 0..n |-> after[k]]
    BY <1>7
  <2>3. QED
    BY <2>1, <2>2
<1>12. QED
  BY <1>1, <1>8, <1>9, <1>11

\* What the loop makes of a list if it reads all the entries.
Makes(list, start, entries, k, partial) ==
    IF partial THEN Updates(list, start, entries, k) ELSE Collects(list, entries, k)

LEMMA BuildMakes ==
    ASSUME NEW start \in Ranked, NEW entries \in Seq(Entry), NEW partial \in BOOLEAN,
           partial \/ start = <<>>
    PROVE  /\ Build(start, entries, partial) \in Building
           /\ Build(start, entries, partial).ok =>
                 Makes(Build(start, entries, partial).acl, start, entries, Len(entries), partial)
<1>1. PICK after :
         /\ after \in [0..Len(entries) -> Building]
         /\ after[0] = [ok |-> TRUE, acl |-> start]
         /\ \A k \in 1..Len(entries) : after[k] = TakeEntry(after[k - 1], entries[k], partial)
         /\ Build(start, entries, partial) = after[Len(entries)]
  BY BuildSteps
<1> DEFINE n == Len(entries)
           Good(k) == after[k].ok => Makes(after[k].acl, start, entries, k, partial)
           good == {k \in 0..n : Good(k)}
<1>2. n \in Nat /\ \A k \in 1..n : entries[k] \in Entry
  OBVIOUS
<1>3. Good(0)
  <2>1. after[0].acl = start
    BY <1>1
  <2>2. CASE partial
    <3>1. Updates(start, start, entries, 0)
      BY NothingCollected
    <3>2. QED
      BY <2>1, <2>2, <3>1 DEF Makes
  <2>3. CASE ~partial
    <3>1. Collects(<<>>, entries, 0) /\ start = <<>>
      BY <2>3, NothingCollected
    <3>2. QED
      BY <2>1, <2>3, <3>1 DEF Makes
  <2>4. QED
    BY <2>2, <2>3
<1>4. ASSUME NEW k \in 1..n, Good(k - 1) PROVE Good(k)
  <2>1. SUFFICES ASSUME after[k].ok PROVE Makes(after[k].acl, start, entries, k, partial)
    OBVIOUS
  <2>2. after[k - 1] \in Building /\ after[k] = TakeEntry(after[k - 1], entries[k], partial)
    BY <1>1, <1>2
  <2>3. after[k - 1].ok /\ Readable(entries[k])
    BY <2>1, <2>2 DEF TakeEntry, Building
  <2>4. after[k].acl = IF partial THEN AddOrReplace(after[k - 1].acl, Decoded(entries[k]))
                                  ELSE AddValue(after[k - 1].acl, Decoded(entries[k]))
    BY <2>2, <2>3 DEF TakeEntry
  <2>5. /\ Decoded(entries[k]) \in AclEntry
        /\ Decoded(entries[k]).id = entries[k].id
        /\ Decoded(entries[k]).value = entries[k].value
    BY <1>2, <2>3, DecodedTyped
  <2>6. Makes(after[k - 1].acl, start, entries, k - 1, partial) /\ k \in Nat /\ k >= 1
    BY <1>2, <1>4, <2>3
  <2>7. CASE partial
    BY <2>4, <2>5, <2>6, <2>7, UpdatesOneMore DEF Makes
  <2>8. CASE ~partial
    BY <2>4, <2>5, <2>6, <2>8, CollectsOneMore DEF Makes
  <2>9. QED
    BY <2>7, <2>8
<1>5. 0..n \subseteq good
  <2> HIDE DEF n, Good
  <2>1. 0 \in good
    BY <1>2, <1>3
  <2>2. \A k \in 1..n : k - 1 \in good => k \in good
    BY <1>2, <1>4
  <2> HIDE DEF good
  <2>3. QED
    BY <1>2, <2>1, <2>2, SetInduction
<1>6. Good(n) /\ after[n] \in Building
  BY <1>1, <1>2, <1>5
<1>7. QED
  BY <1>1, <1>6

\* What a write of the list does to one that is in order.
LEMMA AclWriteEffect ==
    ASSUME NEW acl \in Ranked, NEW t \in Resource, NEW partial \in BOOLEAN
    PROVE  LET new == AclWrite(acl, t, partial) IN
           /\ new.ok \in BOOLEAN
           /\ new.acl \in Ranked
           /\ ~new.ok => new.acl = acl
           /\ new.ok /\ t.entries = <<>> => new.acl = <<>>
           /\ new.ok /\ t.entries # <<>> => Makes(new.acl, acl, t.entries, Len(t.entries), partial)
<1> DEFINE new   == AclWrite(acl, t, partial)
           start == IF partial THEN Duplicate(acl) ELSE <<>>
           built == IF t.entries = <<>> THEN [ok |-> TRUE, acl |-> <<>>]
                                        ELSE Build(start, t.entries, partial)
<1>1. new = IF t.kind # "multiple" THEN [ok |-> FALSE, acl |-> acl]
            ELSE [ok |-> built.ok, acl |-> IF built.ok THEN built.acl ELSE acl]
  BY DEF AclWrite
<1>2. t.entries \in Seq(Entry)
  BY DEF Resource
<1>3. start \in Ranked /\ (partial \/ start = <<>>)
  BY DuplicateSame, EmptyRanked
<1> HIDE DEF start
<1>4. t.entries # <<>> => /\ built \in Building
                          /\ built.ok => Makes(built.acl, start, t.entries, Len(t.entries), partial)
  BY <1>2, <1>3, BuildMakes
<1>5. t.entries = <<>> => built \in Building /\ built.acl = <<>>
  BY EmptyRanked DEF Building
<1>6. ASSUME NEW list, NEW k, Makes(list, start, t.entries, k, partial)
      PROVE  Makes(list, acl, t.entries, k, partial)
  <2>1. partial => /\ \A id, value : Says(start, id, value) <=> Says(acl, id, value)
                   /\ \A id : Doubled(start, id) => Doubled(acl, id)
    BY DuplicateSame DEF start
  <2>2. QED
    BY <1>6, <2>1 DEF Makes, Updates
<1> HIDE DEF built, new
<1>7. built.ok \in BOOLEAN /\ built.acl \in Ranked
  BY <1>4, <1>5 DEF Building
<1>8. CASE t.kind # "multiple"
  <2>1. new.ok = FALSE /\ new.acl = acl
    BY <1>1, <1>8
  <2>2. QED
    BY <2>1 DEF new
<1>9. CASE t.kind = "multiple"
  <2>1. new.ok = built.ok /\ new.acl = IF built.ok THEN built.acl ELSE acl
    BY <1>1, <1>9
  <2>2. new.ok /\ t.entries # <<>> => Makes(new.acl, acl, t.entries, Len(t.entries), partial)
    BY <1>4, <1>6, <2>1
  <2>3. QED
    BY <1>5, <1>7, <2>1, <2>2 DEF new
<1>10. QED
  BY <1>8, <1>9

-----------------------------------------------------------------------------
(* One resource of a request. *)

FitInstance == {instance \in Instance : Sorted(instance.acl)}

\* What a write has come to: whether it goes on, and the instance so far.
Progress == [ok : BOOLEAN, instance : FitInstance]

Identity(instance) == <<instance.objectId, instance.objectInstId>>

LEMMA AcceptedInRange ==
    ASSUME NEW instance \in FitInstance, NEW t \in Resource,
           NEW doCreate \in BOOLEAN, NEW partial \in BOOLEAN
    PROVE  /\ Accepted(instance, t, doCreate, partial) \in BOOLEAN
           /\ Accepted(instance, t, doCreate, partial) /\ t.res # "acl" =>
                \/ doCreate /\ t.res = "objectId" /\ t.value \in 0..(MaxShort - 1)
                \/ doCreate /\ t.res = "objectInstId" /\ t.value \in 0..MaxShort
                \/ t.res = "owner" /\ t.value \in 0..MaxShort
<1>1. instance.acl \in Ranked
  BY DEF FitInstance, Instance, Ranked, Rights
<1>2. AclWrite(instance.acl, t, partial).ok \in BOOLEAN
  BY <1>1, AclWriteEffect
<1>3. CASE t.res = "objectId"
  <2>1. Accepted(instance, t, doCreate, partial) <=> doCreate /\ IntIn(t, 1, MaxShort - 1)
    BY <1>3 DEF Accepted
  <2>2. Accepted(instance, t, doCreate, partial) \in BOOLEAN
    BY <1>3 DEF Accepted
  <2>3. IntIn(t, 1, MaxShort - 1) => t.value \in 0..(MaxShort - 1)
    BY DEF IntIn
  <2>4. QED
    BY <1>3, <2>1, <2>2, <2>3
<1>4. CASE t.res = "objectInstId"
  <2>1. Accepted(instance, t, doCreate, partial) <=> doCreate /\ IntIn(t, 0, MaxShort)
    BY <1>4 DEF Accepted
  <2>2. Accepted(instance, t, doCreate, partial) \in BOOLEAN
    BY <1>4 DEF Accepted
  <2>3. QED
    BY <1>4, <2>1, <2>2 DEF IntIn
<1>5. CASE t.res = "owner"
  <2>1. Accepted(instance, t, doCreate, partial) <=> IntIn(t, 0, MaxShort)
    BY <1>5 DEF Accepted
  <2>2. Accepted(instance, t, doCreate, partial) \in BOOLEAN
    BY <1>5 DEF Accepted, IntIn
  <2>3. QED
    BY <1>5, <2>1, <2>2 DEF IntIn
<1>6. CASE t.res = "acl"
  BY <1>2, <1>6 DEF Accepted
<1>7. CASE t.res \notin {"objectId", "objectInstId", "owner", "acl"}
  BY <1>7 DEF Accepted
<1>8. QED
  BY <1>3, <1>4, <1>5, <1>6, <1>7

LEMMA WrittenFits ==
    ASSUME NEW instance \in FitInstance, NEW t \in Resource,
           NEW doCreate \in BOOLEAN, NEW partial \in BOOLEAN
    PROVE  LET new == Written(instance, t, doCreate, partial) IN
           /\ new \in FitInstance
           /\ ~doCreate => Identity(new) = Identity(instance)
           /\ new.acl = IF t.res = "acl" THEN AclWrite(instance.acl, t, partial).acl ELSE instance.acl
           /\ ~Accepted(instance, t, doCreate, partial) => new = instance
<1> DEFINE new == Written(instance, t, doCreate, partial)
           acl == AclWrite(instance.acl, t, partial).acl
<1>1. instance \in Instance /\ instance.acl \in Ranked
  BY DEF FitInstance, Instance, Ranked, Rights
<1>2. CASE t.res = "acl"
  <2>1. new = [instance EXCEPT !.acl = acl]
    BY <1>2 DEF Written
  <2>2. acl \in Ranked /\ (~Accepted(instance, t, doCreate, partial) => acl = instance.acl)
    BY <1>1, <1>2, AclWriteEffect DEF Accepted
  <2> HIDE DEF acl, new
  <2>3. new \in Instance /\ new.acl = acl /\ Identity(new) = Identity(instance)
    BY <1>1, <2>1, <2>2 DEF Instance, Ranked, Rights, Identity
  <2>4. new \in FitInstance
    BY <2>2, <2>3 DEF FitInstance, Ranked
  <2>5. acl = instance.acl => new = instance
    BY <1>1, <2>1 DEF Instance
  <2>6. QED
    BY <1>2, <2>2, <2>3, <2>4, <2>5 DEF new, acl
<1>3. CASE t.res # "acl" /\ ~Accepted(instance, t, doCreate, partial)
  <2>1. new = instance
    BY <1>3 DEF Written
  <2>2. QED
    BY <1>3, <2>1
<1>4. CASE t.res # "acl" /\ Accepted(instance, t, doCreate, partial)
  <2>1. new = [instance EXCEPT ![t.res] = t.value]
    BY <1>4 DEF Written
  <2>2. \/ doCreate /\ t.res = "objectId" /\ t.value \in 0..(MaxShort - 1)
        \/ doCreate /\ t.res = "objectInstId" /\ t.value \in 0..MaxShort
        \/ t.res = "owner" /\ t.value \in 0..MaxShort
    BY <1>4, AcceptedInRange
  <2> HIDE DEF new
  <2>3. new \in Instance /\ new.acl = instance.acl /\ (~doCreate => Identity(new) = Identity(instance))
    <3>1. CASE doCreate /\ t.res = "objectId" /\ t.value \in 0..(MaxShort - 1)
      BY <1>1, <2>1, <3>1 DEF Instance
    <3>2. CASE doCreate /\ t.res = "objectInstId" /\ t.value \in 0..MaxShort
      BY <1>1, <2>1, <3>2 DEF Instance
    <3>3. CASE t.res = "owner" /\ t.value \in 0..MaxShort
      BY <1>1, <2>1, <3>3 DEF Instance, Identity
    <3>4. QED
      BY <2>2, <3>1, <3>2, <3>3
  <2>4. new \in FitInstance
    BY <1>1, <2>3 DEF FitInstance, Ranked
  <2>5. QED
    BY <1>4, <2>3, <2>4 DEF new
<1>5. QED
  BY <1>2, <1>3, <1>4

-----------------------------------------------------------------------------
(* A request. *)

WriteOne(before, t, doCreate, partial) ==
    IF ~before.ok THEN before
    ELSE [ok |-> Accepted(before.instance, t, doCreate, partial),
          instance |-> Written(before.instance, t, doCreate, partial)]

\* The list of a creation or of a replacing write names the id twice.
NamesTwice(t, id, partial) == ~partial /\ t.res = "acl" /\ Doubled(t.entries, id)

\* What the write of one resource keeps.
Keeps(old, new, t, doCreate, partial) ==
    /\ ~doCreate => Identity(new) = Identity(old)
    /\ \A id : Doubled(new.acl, id) => Doubled(old.acl, id) \/ NamesTwice(t, id, partial)
    /\ ~Accepted(old, t, doCreate, partial) => new = old

\* A write of the list doubles only what a replacing one names twice.
LEMMA AclWriteDoubles ==
    ASSUME NEW acl \in Ranked, NEW t \in Resource, t.res = "acl", NEW partial \in BOOLEAN,
           NEW id, Doubled(AclWrite(acl, t, partial).acl, id)
    PROVE  Doubled(acl, id) \/ NamesTwice(t, id, partial)
<1> DEFINE new == AclWrite(acl, t, partial)
<1>1. /\ ~new.ok => new.acl = acl
      /\ new.ok /\ t.entries = <<>> => new.acl = <<>>
      /\ new.ok /\ t.entries # <<>> => Makes(new.acl, acl, t.entries, Len(t.entries), partial)
  BY AclWriteEffect
<1> HIDE DEF new
<1>2. Doubled(new.acl, id)
  BY DEF new
<1>3. CASE ~new.ok \/ t.entries = <<>>
  BY <1>1, <1>2, <1>3, EmptyRanked
<1>4. CASE new.ok /\ t.entries # <<>> /\ partial
  <2>1. Updates(new.acl, acl, t.entries, Len(t.entries))
    BY <1>1, <1>4 DEF Makes
  <2>2. QED
    BY <1>2, <2>1 DEF Updates
<1>5. CASE new.ok /\ t.entries # <<>> /\ ~partial
  <2>1. Collects(new.acl, t.entries, Len(t.entries))
    BY <1>1, <1>5 DEF Makes
  <2>2. Twice(t.entries, Len(t.entries), id)
    BY <1>2, <2>1 DEF Collects
  <2>3. QED
    BY <1>5, <2>2 DEF Twice, Doubled, NamesTwice
<1>6. QED
  BY <1>3, <1>4, <1>5

LEMMA WriteOneFits ==
    ASSUME NEW before \in Progress, NEW t \in Resource,
           NEW doCreate \in BOOLEAN, NEW partial \in BOOLEAN
    PROVE  /\ WriteOne(before, t, doCreate, partial) \in Progress
           /\ ~before.ok => WriteOne(before, t, doCreate, partial) = before
           /\ before.ok =>
                 /\ WriteOne(before, t, doCreate, partial).ok
                       = Accepted(before.instance, t, doCreate, partial)
                 /\ Keeps(before.instance, WriteOne(before, t, doCreate, partial).instance,
                          t, doCreate, partial)
<1>1. before.ok \in BOOLEAN /\ before.instance \in FitInstance
  BY DEF Progress
<1>2. CASE ~before.ok
  BY <1>2 DEF WriteOne
<1>3. CASE before.ok
  <2> DEFINE accepted == Accepted(before.instance, t, doCreate, partial)
             new      == Written(before.instance, t, doCreate, partial)
  <2>1. WriteOne(before, t, doCreate, partial) = [ok |-> accepted, instance |-> new]
    BY <1>3 DEF WriteOne
  <2>2. accepted \in BOOLEAN
    BY <1>1, AcceptedInRange
  <2>3. /\ new \in FitInstance
        /\ ~doCreate => Identity(new) = Identity(before.instance)
        /\ new.acl = IF t.res = "acl" THEN AclWrite(before.instance.acl, t, partial).acl
                     ELSE before.instance.acl
        /\ ~accepted => new = before.instance
    BY <1>1, WrittenFits
  <2>4. before.instance.acl \in Ranked
    BY <1>1 DEF FitInstance, Instance, Ranked, Rights
  <2> HIDE DEF new
  <2>5. ASSUME NEW id, Doubled(new.acl, id)
        PROVE  Doubled(before.instance.acl, id) \/ NamesTwice(t, id, partial)
    BY <2>3, <2>4, <2>5, AclWriteDoubles
  <2>6. Keeps(before.instance, new, t, doCreate, partial)
    BY <2>3, <2>5 DEF Keeps
  <2> HIDE DEF accepted
  <2>7. WriteOne(before, t, doCreate, partial) \in Progress
    BY <2>1, <2>2, <2>3 DEF Progress
  <2>8. QED
    BY <1>3, <2>1, <2>6, <2>7 DEF accepted
<1>4. QED
  BY <1>1, <1>2, <1>3

\* WriteResources is what the resources of a request make of an instance one by one.
LEMMA WriteSteps ==
    ASSUME NEW instance \in FitInstance, NEW request \in Seq(Resource),
           NEW doCreate \in BOOLEAN, NEW partial \in BOOLEAN
    PROVE  \E after :
              /\ \A k \in 0..Len(request) : after[k] \in Progress
              /\ after[0] = [ok |-> TRUE, instance |-> instance]
              /\ \A k \in 1..Len(request) :
                    after[k] = WriteOne(after[k - 1], request[k], doCreate, partial)
              /\ WriteResources(instance, request, doCreate, partial) = after[Len(request)]
<1> DEFINE n     == Len(request)
           first == [ok |-> TRUE, instance |-> instance]
           after[k \in 0..n] ==
              IF k = 0 THEN [ok |-> TRUE, instance |-> instance]
              ELSE IF ~after[k - 1].ok THEN after[k - 1]
              ELSE [ok |-> Accepted(after[k - 1].instance, request[k], doCreate, partial),
                    instance |-> Written(after[k - 1].instance, request[k], doCreate, partial)]
           step == [k \in 1..n |->
                      [before \in Progress |-> WriteOne(before, request[k], doCreate, partial)]]
<1>1. WriteResources(instance, request, doCreate, partial) = after[n]
  BY DEF WriteResources
<1>2. n \in Nat /\ first \in Progress /\ \A k \in 1..n : request[k] \in Resource
  BY DEF Progress
<1>3. Steps(step, n, Progress)
  <2>1. \A k \in 1..n, before \in Progress :
           WriteOne(before, request[k], doCreate, partial) \in Progress
    BY <1>2, WriteOneFits
  <2>2. QED
    BY <2>1 DEF Steps
<1>4. PICK f : Runs(f, n, Progress, first, step)
  <2> HIDE DEF after, step, first, n
  <2>1. QED
    BY <1>2, <1>3, Recursion
<1>5. /\ f \in [0..n -> Progress] /\ f[0] = first
      /\ \A k \in 1..n : f[k] = WriteOne(f[k - 1], request[k], doCreate, partial)
  <2>1. /\ f \in [0..n -> Progress] /\ f[0] = first
        /\ \A k \in 1..n : f[k] = step[k][f[k - 1]]
    BY <1>4 DEF Runs
  <2>2. ASSUME NEW k \in 1..n PROVE f[k] = WriteOne(f[k - 1], request[k], doCreate, partial)
    <3>1. f[k - 1] \in Progress
      BY <1>2, <2>1
    <3>2. QED
      BY <2>1, <3>1
  <2>3. QED
    BY <2>1, <2>2
<1>6. f = [k \in 0..n |->
              IF k = 0 THEN [ok |-> TRUE, instance |-> instance]
              ELSE IF ~f[k - 1].ok THEN f[k - 1]
              ELSE [ok |-> Accepted(f[k - 1].instance, request[k], doCreate, partial),
                    instance |-> Written(f[k - 1].instance, request[k], doCreate, partial)]]
  <2> HIDE DEF n, after, step
  <2>1. ASSUME NEW k \in 0..n, k # 0
        PROVE  f[k] = IF ~f[k - 1].ok THEN f[k - 1]
                      ELSE [ok |-> Accepted(f[k - 1].instance, request[k], doCreate, partial),
                            instance |-> Written(f[k - 1].instance, request[k], doCreate, partial)]
    <3>1. k \in 1..n
      BY <1>2, <2>1
    <3>2. QED
      BY <1>5, <3>1 DEF WriteOne
  <2>2. QED
    BY <1>5, <2>1
<1>7. after = [k \in 0..n |->
              IF k = 0 THEN [ok |-> TRUE, instance |-> instance]
              ELSE IF ~after[k - 1].ok THEN after[k - 1]
              ELSE [ok |-> Accepted(after[k - 1].instance, request[k], doCreate, partial),
                    instance |-> Written(after[k - 1].instance, request[k], doCreate, partial)]]
  <2> HIDE DEF step
  <2>1. QED
    BY <1>6
<1> HIDE DEF after, step
<1>8. after[0] = first
  BY <1>2, <1>7
<1>9. ASSUME NEW k \in 1..n
      PROVE  after[k] = WriteOne(after[k - 1], request[k], doCreate, partial)
  <2>1. k \in 0..n /\ k # 0
    BY <1>2
  <2>2. QED
    BY <1>7, <2>1 DEF WriteOne
<1> DEFINE good == {k \in 0..n : after[k] \in Progress}
<1>10. 0..n \subseteq good
  <2>1. 0 \in good
    BY <1>2, <1>8
  <2>2. \A k \in 1..n : k - 1 \in good => k \in good
    BY <1>2, <1>9, WriteOneFits
  <2> HIDE DEF good, n
  <2>3. QED
    BY <1>2, <2>1, <2>2, SetInduction
<1>11. QED
  BY <1>1, <1>8, <1>9, <1>10

\* Some list of a replacing request names the id twice.
ListTwice(request, id, partial) ==
    \E k \in 1..Len(request) : NamesTwice(request[k], id, partial)

LEMMA WriteFits ==
    ASSUME NEW instance \in FitInstance, NEW request \in Seq(Resource),
           NEW doCreate \in BOOLEAN, NEW partial \in BOOLEAN
    PROVE  LET written == WriteResources(instance, request, doCreate, partial) IN
           /\ written \in Progress
           /\ ~doCreate => Identity(written.instance) = Identity(instance)
           /\ \A id : Doubled(written.instance.acl, id)
                 => Doubled(instance.acl, id) \/ ListTwice(request, id, partial)
<1>1. PICK after :
         /\ \A k \in 0..Len(request) : after[k] \in Progress
         /\ after[0] = [ok |-> TRUE, instance |-> instance]
         /\ \A k \in 1..Len(request) :
               after[k] = WriteOne(after[k - 1], request[k], doCreate, partial)
         /\ WriteResources(instance, request, doCreate, partial) = after[Len(request)]
  BY WriteSteps
<1> DEFINE n == Len(request)
           Good(k) == /\ ~doCreate => Identity(after[k].instance) = Identity(instance)
                      /\ \A id : Doubled(after[k].instance.acl, id)
                            => Doubled(instance.acl, id) \/ ListTwice(request, id, partial)
           good == {k \in 0..n : Good(k)}
<1>2. n \in Nat /\ \A k \in 1..n : request[k] \in Resource
  OBVIOUS
<1>3. Good(0)
  <2>1. after[0].instance = instance
    BY <1>1
  <2>2. QED
    BY <2>1
<1>4. ASSUME NEW k \in 1..n, Good(k - 1) PROVE Good(k)
  <2>1. /\ after[k - 1] \in Progress /\ request[k] \in Resource
        /\ after[k] = WriteOne(after[k - 1], request[k], doCreate, partial)
    BY <1>1, <1>2
  <2>2. CASE ~after[k - 1].ok
    BY <1>4, <2>1, <2>2, WriteOneFits
  <2>3. CASE after[k - 1].ok
    <3>1. Keeps(after[k - 1].instance, after[k].instance, request[k], doCreate, partial)
      BY <2>1, <2>3, WriteOneFits
    <3>2. ~doCreate => Identity(after[k].instance) = Identity(instance)
      BY <1>4, <3>1 DEF Keeps
    <3>3. ASSUME NEW id, Doubled(after[k].instance.acl, id)
          PROVE  Doubled(instance.acl, id) \/ ListTwice(request, id, partial)
      <4>1. Doubled(after[k - 1].instance.acl, id) \/ NamesTwice(request[k], id, partial)
        BY <3>1, <3>3 DEF Keeps
      <4>2. QED
        BY <1>4, <4>1 DEF ListTwice
    <3>4. QED
      BY <3>2, <3>3
  <2>4. QED
    BY <2>2, <2>3
<1>5. 0..n \subseteq good
  <2> HIDE DEF n, Good
  <2>1. 0 \in good
    BY <1>2, <1>3
  <2>2. \A k \in 1..n : k - 1 \in good => k \in good
    BY <1>2, <1>4
  <2> HIDE DEF good
  <2>3. QED
    BY <1>2, <2>1, <2>2, SetInduction
<1>6. Good(n) /\ after[n] \in Progress
  BY <1>1, <1>2, <1>5
<1>7. QED
  BY <1>1, <1>6

\* A request that is refused has a first resource that is: the instance is what the
\* resources before it make of it.
LEMMA RefusedAt ==
    ASSUME NEW instance \in FitInstance, NEW request \in Seq(Resource),
           NEW doCreate \in BOOLEAN, NEW partial \in BOOLEAN,
           ~WriteResources(instance, request, doCreate, partial).ok
    PROVE  \E n \in 0..(Len(request) - 1) :
              LET before == WriteResources(instance, SubSeq(request, 1, n), doCreate, partial)
              IN  /\ before.ok /\ ~Accepted(before.instance, request[n + 1], doCreate, partial)
                  /\ WriteResources(instance, request, doCreate, partial).instance
                       = before.instance
<1> DEFINE last == Len(request)
<1>1. PICK after :
         /\ \A k \in 0..last : after[k] \in Progress
         /\ after[0] = [ok |-> TRUE, instance |-> instance]
         /\ \A k \in 1..last :
               after[k] = WriteOne(after[k - 1], request[k], doCreate, partial)
         /\ WriteResources(instance, request, doCreate, partial) = after[last]
  BY WriteSteps
<1> DEFINE refused == {k \in 0..last : ~after[k].ok}
<1>2. last \in Nat
  OBVIOUS
<1>3. PICK r \in refused : \A k \in refused : r <= k
  <2>1. last \in refused
    BY <1>1, <1>2
  <2>2. refused \subseteq Nat
    OBVIOUS
  <2> HIDE DEF refused
  <2>3. QED
    BY <2>1, <2>2, LeastElement
<1> DEFINE n == r - 1
<1>4. r \in 1..last /\ n \in 0..(last - 1) /\ n \in 0..last /\ n + 1 = r /\ after[n].ok /\ ~after[r].ok
  <2>1. r # 0 /\ r \in 0..last /\ ~after[r].ok
    BY <1>1, <1>3
  <2>2. n \in 0..last /\ ~(r <= n)
    BY <1>2, <2>1
  <2>3. n \notin refused
    BY <1>3, <2>2
  <2>4. QED
    BY <1>2, <2>1, <2>2, <2>3
<1> HIDE DEF n
<1>5. /\ ~Accepted(after[n].instance, request[r], doCreate, partial)
      /\ after[r].instance = after[n].instance
  <2>1. /\ after[n] \in Progress /\ request[r] \in Resource
        /\ after[r] = WriteOne(after[n], request[r], doCreate, partial)
    BY <1>1, <1>4 DEF n
  <2>2. /\ after[r].ok = Accepted(after[n].instance, request[r], doCreate, partial)
        /\ Keeps(after[n].instance, after[r].instance, request[r], doCreate, partial)
    BY <1>4, <2>1, WriteOneFits
  <2>3. QED
    BY <1>4, <2>2 DEF Keeps
<1>6. after[last] = after[r]
  <2> DEFINE same == {k \in 0..last : k >= r => after[k] = after[r]}
  <2>1. 0 \in same
    BY <1>2, <1>4
  <2>2. ASSUME NEW k \in 1..last, k - 1 \in same PROVE k \in same
    <3>1. CASE k <= r
      BY <1>2, <1>4, <3>1
    <3>2. CASE k > r
      <4>1. after[k - 1] = after[r]
        BY <1>2, <1>4, <2>2, <3>2
      <4>2. after[k] = WriteOne(after[k - 1], request[k], doCreate, partial)
        BY <1>1
      <4>3. after[k] = after[r]
        BY <1>4, <4>1, <4>2 DEF WriteOne
      <4>4. QED
        BY <1>2, <4>3
    <3>3. QED
      BY <1>2, <1>4, <3>1, <3>2
  <2>3. 0..last \subseteq same
    <3> HIDE DEF same, last
    <3>1. QED
      BY <1>2, <2>1, <2>2, SetInduction
  <2>4. last \in same /\ last >= r
    BY <1>2, <1>4, <2>3
  <2>5. QED
    BY <2>4
<1> DEFINE front == SubSeq(request, 1, n)
<1>7. /\ front \in Seq(Resource) /\ Len(front) = n
      /\ \A k \in 1..n : front[k] = request[k]
  BY <1>2, <1>4
<1> HIDE DEF front, last
<1>8. PICK upto :
         /\ \A k \in 0..Len(front) : upto[k] \in Progress
         /\ upto[0] = [ok |-> TRUE, instance |-> instance]
         /\ \A k \in 1..Len(front) :
               upto[k] = WriteOne(upto[k - 1], front[k], doCreate, partial)
         /\ WriteResources(instance, front, doCreate, partial) = upto[Len(front)]
  BY <1>7, WriteSteps
<1>9. upto[n] = after[n]
  <2> DEFINE same == {k \in 0..n : upto[k] = after[k]}
  <2>1. 0 \in same /\ n \in Nat
    BY <1>1, <1>2, <1>4, <1>8
  <2>2. ASSUME NEW k \in 1..n, k - 1 \in same PROVE k \in same
    <3>1. k \in 1..last /\ k \in 1..Len(front) /\ k \in 0..n
      BY <1>2, <1>4, <1>7
    <3>2. QED
      BY <1>1, <1>7, <1>8, <2>2, <3>1
  <2>3. 0..n \subseteq same
    <3> HIDE DEF same
    <3>1. QED
      BY <2>1, <2>2, SetInduction
  <2>4. QED
    BY <2>1, <2>3
<1>10. WriteResources(instance, front, doCreate, partial) = after[n]
  BY <1>7, <1>8, <1>9
<1>11. QED
  BY <1>1, <1>4, <1>5, <1>6, <1>10 DEF front, last

LEMMA RequestsProper ==
    ASSUME NEW request \in Requests
    PROVE  request \in Seq(Resource)
  BY RequestsAssumption

-----------------------------------------------------------------------------
(* The object. *)

LEMMA FactoryFits == Factory \in FitInstance
<1> DEFINE acl == <<[id |-> 0, value |-> 15], [id |-> 999, value |-> 1]>>
<1>1. /\ 3 \in 0..(MaxShort - 1) /\ 0 \in 0..MaxShort /\ 123 \in 0..MaxShort
      /\ 15 \in 0..MaxShort /\ 1 \in 0..MaxShort
  BY DEF MaxShort
<1>2. [id |-> 0, value |-> 15] \in AclEntry /\ [id |-> 999, value |-> 1] \in AclEntry
  BY <1>1 DEF AclEntry
<1>3. acl \in Seq(AclEntry) /\ Len(acl) = 2 /\ acl[1].id = 0 /\ acl[2].id = 999
  BY <1>2
<1> HIDE DEF acl
<1>4. Sorted(acl)
  <2>1. SUFFICES ASSUME NEW m \in 1..2, NEW n \in 1..2, m < n PROVE acl[m].id <= acl[n].id
    BY <1>3 DEF Sorted
  <2>2. m = 1 /\ n = 2
    BY <2>1
  <2>3. QED
    BY <1>3, <2>2
<1>5. Factory = [objectId |-> 3, objectInstId |-> 0, owner |-> 123, acl |-> acl]
  BY DEF Factory, acl
<1>6. QED
  BY <1>1, <1>3, <1>4, <1>5 DEF FitInstance, Instance

LEMMA ZeroedFits == Zeroed \in FitInstance
<1>1. 0 \in 0..(MaxShort - 1) /\ 0 \in 0..MaxShort
  BY DEF MaxShort
<1>2. <<>> \in Seq(AclEntry) /\ Sorted(<<>>)
  BY DEF Sorted
<1>3. QED
  BY <1>1, <1>2 DEF Zeroed, FitInstance, Instance

LEMMA CreatedFits ==
    ASSUME NEW request \in Requests
    PROVE  Created(request) \in FitInstance \cup {NoInst}
<1>1. WriteResources(Zeroed, request, TRUE, FALSE) \in Progress
  BY RequestsProper, ZeroedFits, WriteFits
<1>2. QED
  BY <1>1 DEF Created, Progress

Safe == instances \in [Ids -> FitInstance \cup {NoInst}]

LEMMA SafeStep ==
    ASSUME Safe, [Next]_instances
    PROVE  Safe'
<1>1. ASSUME NEW i \in Ids, NEW new \in FitInstance \cup {NoInst},
             instances' = [instances EXCEPT ![i] = new]
      PROVE  Safe'
  BY <1>1 DEF Safe
<1>2. CASE UNCHANGED instances
  BY <1>2 DEF Safe
<1>3. ASSUME NEW i \in Ids, Delete(i)
      PROVE  Safe'
  BY <1>1, <1>3 DEF Delete
<1>4. ASSUME NEW i \in Ids, NEW request \in Requests,
             Create(i, request) \/ ReplaceInstance(i, request)
      PROVE  Safe'
  BY <1>1, <1>4, CreatedFits DEF Create, ReplaceInstance
<1>5. ASSUME NEW i \in Ids, NEW request \in Requests, NEW partial \in BOOLEAN,
             Write(i, request, partial)
      PROVE  Safe'
  <2> DEFINE new == WriteResources(instances[i], request, FALSE, partial).instance
  <2>1. instances[i] \in FitInstance
    BY <1>5 DEF Safe, Write
  <2>2. new \in FitInstance
    BY <2>1, RequestsProper, WriteFits DEF Progress
  <2>3. instances' = [instances EXCEPT ![i] = new]
    BY <1>5 DEF Write
  <2> HIDE DEF new
  <2>4. QED
    BY <1>1, <2>2, <2>3
<1>6. QED
  BY <1>2, <1>3, <1>4, <1>5 DEF Next

LEMMA InitSafe == Init => Safe
  BY FactoryFits DEF Init, Safe

\* No sequence of requests takes a field out of its 16 bits (TypeOK).
THEOREM TypeCorrect == Spec => []TypeOK
<1>1. Safe => TypeOK
  <2>1. FitInstance \subseteq Instance
    BY DEF FitInstance
  <2>2. QED
    BY <2>1 DEF Safe, TypeOK
<1>2. QED
  BY <1>1, InitSafe, SafeStep, PTL DEF Spec

\* The rights stay in the order of their ids, also if a list names one twice
\* (EntriesOrdered).
THEOREM OrderCorrect == Spec => []EntriesOrdered
<1>1. Safe => EntriesOrdered
  BY DEF Safe, FitInstance, EntriesOrdered, Live, Sorted
<1>2. QED
  BY <1>1, InitSafe, SafeStep, PTL DEF Spec

\* What an instance is about changes only if it is replaced (IdentityFixed).
THEOREM IdentityCorrect == Spec => IdentityFixed
<1> DEFINE Fixed == \A i \in Live :
              instances'[i] # NoInst /\ Identity(instances'[i]) # Identity(instances[i])
                => \E request \in Requests : ReplaceInstance(i, request)
<1>1. ASSUME Safe, [Next]_instances
      PROVE  [Fixed]_instances
  <2>1. SUFFICES ASSUME instances' # instances, NEW i \in Live,
                        instances'[i] # NoInst, Identity(instances'[i]) # Identity(instances[i])
                 PROVE  \E request \in Requests : ReplaceInstance(i, request)
    OBVIOUS
  <2>2. i \in Ids /\ instances[i] # NoInst /\ instances[i] \in FitInstance
    BY <1>1 DEF Live, Safe
  <2>3. PICK j \in Ids : \/ Delete(j)
                         \/ \E request \in Requests :
                              \/ Create(j, request)
                              \/ \E partial \in BOOLEAN : Write(j, request, partial)
                              \/ ReplaceInstance(j, request)
    BY <1>1, <2>1 DEF Next
  <2>4. j = i
    BY <1>1, <2>1, <2>2, <2>3 DEF Safe, Delete, Create, Write, ReplaceInstance
  <2>5. ~Delete(i)
    BY <1>1, <2>1, <2>2 DEF Safe, Delete
  <2>6. PICK request \in Requests : \/ \E partial \in BOOLEAN : Write(i, request, partial)
                                    \/ ReplaceInstance(i, request)
    BY <2>2, <2>3, <2>4, <2>5 DEF Create
  <2>7. ASSUME NEW partial \in BOOLEAN, Write(i, request, partial) PROVE FALSE
    <3>1. instances'[i] = WriteResources(instances[i], request, FALSE, partial).instance
      BY <1>1, <2>2, <2>7 DEF Write, Safe
    <3>2. Identity(WriteResources(instances[i], request, FALSE, partial).instance)
             = Identity(instances[i])
      BY <2>2, RequestsProper, WriteFits
    <3>3. QED
      BY <2>1, <3>1, <3>2
  <2>8. QED
    BY <2>6, <2>7
<1>2. Spec => [][Fixed]_instances
  BY <1>1, InitSafe, SafeStep, PTL DEF Spec
<1>3. QED
  BY <1>2 DEF IdentityFixed, Identity

\* An id comes to be there twice only by one creation or replacing write whose list
\* names it twice (DoubledByOneList).
THEOREM DoubledCorrect == Spec => DoubledByOneList
<1> DEFINE Once == \A i \in Ids : instances'[i] # NoInst => \A id \in Listed(instances'[i].acl) :
              Doubled(instances'[i].acl, id) =>
                 \/ instances[i] # NoInst /\ Doubled(instances[i].acl, id)
                 \/ \E request \in Requests :
                       /\ \E k \in 1..Len(request) :
                            request[k].res = "acl" /\ Doubled(request[k].entries, id)
                       /\ Create(i, request) \/ Write(i, request, FALSE) \/ ReplaceInstance(i, request)
<1>1. ASSUME Safe, [Next]_instances
      PROVE  [Once]_instances
  <2>1. SUFFICES ASSUME instances' # instances, NEW i \in Ids, instances'[i] # NoInst,
                        NEW id, Doubled(instances'[i].acl, id),
                        ~(instances[i] # NoInst /\ Doubled(instances[i].acl, id))
                 PROVE  \E request \in Requests :
                           /\ \E k \in 1..Len(request) :
                                request[k].res = "acl" /\ Doubled(request[k].entries, id)
                           /\ \/ Create(i, request)
                              \/ Write(i, request, FALSE)
                              \/ ReplaceInstance(i, request)
    OBVIOUS
  <2>2. PICK j \in Ids : \/ Delete(j)
                         \/ \E request \in Requests :
                              \/ Create(j, request)
                              \/ \E partial \in BOOLEAN : Write(j, request, partial)
                              \/ ReplaceInstance(j, request)
    BY <1>1, <2>1 DEF Next
  <2>3. j = i
    BY <1>1, <2>1, <2>2 DEF Safe, Delete, Create, Write, ReplaceInstance
  <2>4. ~Delete(i)
    BY <1>1, <2>1 DEF Safe, Delete
  <2>5. PICK request \in Requests : \/ Create(i, request)
                                    \/ \E partial \in BOOLEAN : Write(i, request, partial)
                                    \/ ReplaceInstance(i, request)
    BY <2>2, <2>3, <2>4
  <2>6. request \in Seq(Resource)
    BY RequestsProper
  <2>7. CASE Create(i, request) \/ ReplaceInstance(i, request)
    <3> DEFINE written == WriteResources(Zeroed, request, TRUE, FALSE)
    <3>1. instances'[i] = Created(request)
      BY <1>1, <2>7 DEF Create, ReplaceInstance, Safe
    <3>2. \A other : Doubled(written.instance.acl, other)
             => Doubled(Zeroed.acl, other) \/ ListTwice(request, other, FALSE)
      BY <2>6, ZeroedFits, WriteFits
    <3>3. ~Doubled(Zeroed.acl, id)
      BY EmptyRanked DEF Zeroed
    <3> HIDE DEF written
    <3>4. instances'[i] = written.instance
      BY <2>1, <3>1 DEF Created, written
    <3>5. ListTwice(request, id, FALSE)
      BY <2>1, <3>2, <3>3, <3>4
    <3>6. QED
      BY <2>7, <3>5 DEF ListTwice, NamesTwice
  <2>8. ASSUME NEW partial \in BOOLEAN, Write(i, request, partial)
        PROVE  \E k \in 1..Len(request) :
                  /\ request[k].res = "acl" /\ Doubled(request[k].entries, id)
                  /\ partial = FALSE
    <3> DEFINE written == WriteResources(instances[i], request, FALSE, partial)
    <3>1. instances[i] \in FitInstance /\ instances[i] # NoInst
      BY <1>1, <2>8 DEF Safe, Write
    <3>2. instances'[i] = written.instance
      BY <1>1, <2>8 DEF Write, Safe
    <3>3. \A other : Doubled(written.instance.acl, other)
             => Doubled(instances[i].acl, other) \/ ListTwice(request, other, partial)
      BY <2>6, <3>1, WriteFits
    <3> HIDE DEF written
    <3>4. ListTwice(request, id, partial)
      BY <2>1, <3>1, <3>2, <3>3
    <3>5. QED
      BY <3>4 DEF ListTwice, NamesTwice
  <2>9. QED
    BY <2>5, <2>7, <2>8
<1>2. Spec => [][Once]_instances
  BY <1>1, InitSafe, SafeStep, PTL DEF Spec
<1>3. QED
  BY <1>2 DEF DoubledByOneList

\* A refused write leaves what the resources before the refused one made, and nothing
\* of the refused one (RefusedKeepsRights).
THEOREM RefusedCorrect == Spec => []RefusedKeepsRights
<1>1. Safe => RefusedKeepsRights
  <2>1. SUFFICES ASSUME Safe, NEW i \in Live, NEW request \in Requests, NEW partial \in BOOLEAN,
                        ~WriteResources(instances[i], request, FALSE, partial).ok
                 PROVE  \E n \in 0..(Len(request) - 1) :
              LET before == WriteResources(instances[i], SubSeq(request, 1, n), FALSE, partial)
              IN  /\ before.ok /\ ~Accepted(before.instance, request[n + 1], FALSE, partial)
                  /\ WriteResources(instances[i], request, FALSE, partial).instance
                       = before.instance
    BY DEF RefusedKeepsRights
  <2>2. instances[i] \in FitInstance
    BY <2>1 DEF Safe, Live
  <2>3. QED
    BY <2>1, <2>2, RequestsProper, RefusedAt
<1>2. QED
  BY <1>1, InitSafe, SafeStep, PTL DEF Spec

\* The value that a list gives an id last is one that no later entry changes.
LEMMA LastValueGiven ==
    ASSUME NEW entries \in Seq(Entry), NEW id \in Listed(entries)
    PROVE  LastGiven(entries, Len(entries), id, LastValue(entries, id))
<1> DEFINE n     == Len(entries)
           named == {k \in 1..n : entries[k].id = id}
           IsLast(k) == entries[k].id = id /\ \A m \in (k + 1)..n : entries[m].id # id
<1>1. n \in Nat /\ named # {} /\ named \subseteq 0..n
  BY DEF Listed
<1>2. PICK k \in named : \A m \in named : m <= k
  <2> HIDE DEF n, named
  <2>1. QED
    BY <1>1, GreatestElement
<1>3. \E j \in 1..n : IsLast(j)
  <2>1. ASSUME NEW m \in (k + 1)..n PROVE entries[m].id # id
    <3>1. m \in 1..n /\ ~(m <= k)
      BY <1>1, <1>2
    <3>2. m \notin named
      BY <1>2, <3>1
    <3>3. QED
      BY <3>1, <3>2
  <2>2. QED
    BY <1>2, <2>1
<1> DEFINE at == CHOOSE j \in 1..n : IsLast(j)
<1>4. at \in 1..n /\ IsLast(at)
  <2> HIDE DEF IsLast
  <2>1. QED
    BY <1>3
<1>5. LastValue(entries, id) = entries[at].value
  BY DEF LastValue
<1> HIDE DEF at
<1>6. QED
  BY <1>4, <1>5 DEF LastGiven

\* What an accepted list with entries makes of the values of an id.
SetsTo(old, t, partial, id) ==
    LET values == ValuesOf(AclWrite(old, t, partial).acl, id)
    IN  IF ~partial THEN values = ValuesOf(t.entries, id)
        ELSE IF id \notin Listed(t.entries) THEN values = ValuesOf(old, id)
        ELSE IF Doubled(old, id) THEN LastValue(t.entries, id) \in values
        ELSE values = {LastValue(t.entries, id)}

\* It is what it asks for.
LEMMA AclWriteSets ==
    ASSUME NEW old \in Ranked, NEW t \in Resource, NEW partial \in BOOLEAN,
           AclWrite(old, t, partial).ok, t.entries # <<>>, NEW id
    PROVE  SetsTo(old, t, partial, id)
<1> DEFINE entries == t.entries
           new     == AclWrite(old, t, partial).acl
           values  == ValuesOf(new, id)
<1>1. Makes(new, old, entries, Len(entries), partial) /\ entries \in Seq(Entry)
  BY AclWriteEffect DEF Resource
<1> HIDE DEF entries, new
<1>2. \A value : value \in values <=> Says(new, id, value)
  BY ValuesSaid
<1> HIDE DEF values
<1>3. CASE ~partial
  <2>1. \A value : Says(new, id, value) <=> Says(entries, id, value)
    <3>1. \A value : Says(new, id, value) <=> GivenTo(entries, Len(entries), id, value)
      BY <1>1, <1>3 DEF Makes, Collects
    <3>2. \A value : GivenTo(entries, Len(entries), id, value) <=> Says(entries, id, value)
      BY DEF GivenTo, Says
    <3>3. QED
      BY <3>1, <3>2
  <2>2. \A value : value \in values <=> value \in ValuesOf(entries, id)
    BY <1>2, <2>1, ValuesSaid
  <2>3. values = ValuesOf(entries, id)
    BY <2>2
  <2>4. QED
    BY <1>3, <2>3 DEF SetsTo, values, new, entries
<1>4. CASE partial
  <2>1. Updates(new, old, entries, Len(entries))
    BY <1>1, <1>4 DEF Makes
  <2>2. CASE id \notin Listed(entries)
    <3>1. ~Named(entries, Len(entries), id)
      BY <2>2 DEF Named, Listed
    <3>2. \A value : Says(new, id, value) <=> Says(old, id, value)
      BY <2>1, <3>1 DEF Updates
    <3>3. values = ValuesOf(old, id)
      BY <1>2, <3>2, ValuesSaid
    <3>4. QED
      BY <1>4, <2>2, <3>3 DEF SetsTo, values, new, entries
  <2>3. CASE id \in Listed(entries)
    <3> DEFINE value == LastValue(entries, id)
    <3>1. LastGiven(entries, Len(entries), id, value)
      BY <1>1, <2>3, LastValueGiven
    <3> HIDE DEF value
    <3>2. /\ Says(new, id, value)
          /\ ~Doubled(old, id) => \A other : Says(new, id, other) => other = value
      BY <2>1, <3>1 DEF Updates
    <3>3. value \in values /\ (~Doubled(old, id) => values = {value})
      BY <1>2, <3>2
    <3>4. QED
      BY <1>4, <2>3, <3>3 DEF SetsTo, value, values, new, entries
  <2>4. QED
    BY <2>2, <2>3
<1>5. QED
  BY <1>3, <1>4

\* The same, as the property says it.
ListAsAsked(instance, t, partial) ==
    LET old     == instance.acl
        entries == t.entries
        new     == AclWrite(old, t, partial)
    IN  t.res = "acl" /\ new.ok /\ entries # <<>> =>
          \A id \in Listed(old) \cup Listed(entries) \cup Listed(new.acl) :
            LET values == ValuesOf(new.acl, id)
            IN  IF ~partial THEN values = ValuesOf(entries, id)
                ELSE IF id \notin Listed(entries) THEN values = ValuesOf(old, id)
                ELSE IF Doubled(old, id) THEN LastValue(entries, id) \in values
                ELSE values = {LastValue(entries, id)}

\* A write of the rights changes what it names, to what it asks for (AclWriteAsAsked).
THEOREM AclWriteCorrect == Spec => []AclWriteAsAsked
<1>1. Safe => AclWriteAsAsked
  <2>1. SUFFICES ASSUME Safe PROVE AclWriteAsAsked
    OBVIOUS
  <2>2. \A i \in Live : instances[i].acl \in Ranked
    BY <2>1 DEF Safe, Live, FitInstance, Instance, Ranked, Rights
  <2>3. \A request \in Requests : \A k \in 1..Len(request) : request[k] \in Resource
    BY RequestsProper
  <2>4. ASSUME NEW i \in Live, NEW request \in Requests, NEW partial \in BOOLEAN,
               NEW k \in 1..Len(request)
        PROVE  ListAsAsked(instances[i], request[k], partial)
    <3>1. instances[i].acl \in Ranked /\ request[k] \in Resource
      BY <2>2, <2>3
    <3>2. ASSUME NEW id, AclWrite(instances[i].acl, request[k], partial).ok,
                 request[k].entries # <<>>
          PROVE  SetsTo(instances[i].acl, request[k], partial, id)
      BY <3>1, <3>2, AclWriteSets
    <3>3. QED
      BY <3>2, Zenon DEF ListAsAsked, SetsTo
  <2>5. AclWriteAsAsked
          <=> \A i \in Live, request \in Requests, partial \in BOOLEAN :
                 \A k \in 1..Len(request) : ListAsAsked(instances[i], request[k], partial)
    BY Zenon DEF AclWriteAsAsked, ListAsAsked
  <2>6. QED
    BY <2>4, <2>5
<1>2. QED
  BY <1>1, InitSafe, SafeStep, PTL DEF Spec

-----------------------------------------------------------------------------
(* Reading. *)

Item == [res : {"objectId", "objectInstId", "acl", "owner", "other"},
         whole : BOOLEAN, ids : SUBSET Nat]

\* Which of the first k items the instance has.
There(instance, items, k) == {m \in 1..k : Has(instance, items[m])}

\* How many.
Found(instance, items, k) == Cardinality(There(instance, items, k))

LEMMA FoundCounts ==
    ASSUME NEW instance, NEW items, NEW n \in Nat
    PROVE  /\ Found(instance, items, 0) = 0
           /\ \A k \in 0..n : Found(instance, items, k) \in 0..k
           /\ \A k \in 1..n : Found(instance, items, k)
                 = Found(instance, items, k - 1) + (IF Has(instance, items[k]) THEN 1 ELSE 0)
           /\ \A k \in 1..n : /\ Found(instance, items, k - 1) \in Nat
                             /\ Found(instance, items, k) \in Nat
                             /\ Found(instance, items, k - 1) <= Found(instance, items, k)
<1> DEFINE T(k) == There(instance, items, k)
           C(k) == Found(instance, items, k)
<1>1. \A k \in 0..n : IsFiniteSet(T(k)) /\ C(k) \in 0..k
  <2>1. SUFFICES ASSUME NEW k \in 0..n PROVE IsFiniteSet(T(k)) /\ C(k) \in 0..k
    OBVIOUS
  <2>2. IsFiniteSet(1..k) /\ Cardinality(1..k) = k
    BY FS_Interval
  <2>3. T(k) \in SUBSET (1..k)
    BY DEF There
  <2>4. IsFiniteSet(T(k)) /\ Cardinality(T(k)) <= k /\ Cardinality(T(k)) \in Nat
    BY <2>2, <2>3, FS_Subset, FS_CardinalityType
  <2>5. QED
    BY <2>4 DEF Found
<1>2. C(0) = 0
  <2>1. T(0) = {}
    BY DEF There
  <2>2. QED
    BY <2>1, FS_EmptySet DEF Found
<1>3. ASSUME NEW k \in 1..n
      PROVE  C(k) = C(k - 1) + (IF Has(instance, items[k]) THEN 1 ELSE 0)
  <2>1. k - 1 \in 0..n /\ 1..k = (1..(k - 1)) \cup {k} /\ k \notin 1..(k - 1)
    OBVIOUS
  <2>2. IsFiniteSet(T(k - 1)) /\ k \notin T(k - 1)
    BY <1>1, <2>1 DEF There
  <2>3. CASE Has(instance, items[k])
    <3>1. T(k) = T(k - 1) \cup {k}
      BY <2>1, <2>3 DEF There
    <3> HIDE DEF T
    <3>2. Cardinality(T(k)) = Cardinality(T(k - 1)) + 1
      BY <2>2, <3>1, FS_AddElement
    <3>3. QED
      BY <2>3, <3>2 DEF Found, T
  <2>4. CASE ~Has(instance, items[k])
    <3>1. T(k) = T(k - 1)
      BY <2>1, <2>4 DEF There
    <3>2. C(k) = C(k - 1) /\ C(k - 1) \in Nat
      BY <1>1, <2>1, <3>1 DEF Found
    <3>3. QED
      BY <2>4, <3>2
  <2>5. QED
    BY <2>3, <2>4
<1> HIDE DEF T, C
<1>4. ASSUME NEW k \in 1..n
      PROVE  C(k - 1) \in Nat /\ C(k) \in Nat /\ C(k - 1) <= C(k)
  <2>1. C(k - 1) \in Nat /\ C(k) \in Nat
    BY <1>1
  <2>2. QED
    BY <1>3, <2>1
<1>5. QED
  BY <1>1, <1>2, <1>3, <1>4 DEF C

\* The array and the number of items skipped.
Loop(n) == [array : [1..n -> Item], skipped : Nat]

ReadOne(instance, before, k) ==
    IF Has(instance, before.array[k])
    THEN [before EXCEPT !.array = CopiedBack(before.array, k, before.skipped)]
    ELSE [before EXCEPT !.skipped = before.skipped + 1]

LEMMA ReadOneTyped ==
    ASSUME NEW instance, NEW n \in Nat, NEW k \in 1..n, NEW before \in Loop(n)
    PROVE  ReadOne(instance, before, k) \in Loop(n)
<1>1. before.array \in [1..n -> Item] /\ before.skipped \in Nat
  BY DEF Loop
<1>2. CopiedBack(before.array, k, before.skipped) \in [1..n -> Item]
  BY <1>1 DEF CopiedBack
<1>3. QED
  BY <1>1, <1>2 DEF ReadOne, Loop

\* A read and the turns of its loop.
ReadTurns(after, instance, request, n, asked) ==
    /\ after[0] = [array |-> asked, skipped |-> 0]
    /\ \A k \in 1..n : after[k] \in Loop(n) /\ after[k] = ReadOne(instance, after[k - 1], k)
    /\ ReadInstance(instance, request).data = SubSeq(after[n].array, 1, n - after[n].skipped)
    /\ ReadInstance(instance, request).code
          = IF n = 1 /\ ReadInstance(instance, request).data = <<>> THEN 404 ELSE 205

LEMMA ReadSteps ==
    ASSUME NEW instance, NEW request, NEW n \in Nat,
           NEW asked \in [1..n -> Item],
           asked = (IF request = <<>> THEN FullRead ELSE request)
    PROVE  \E after : ReadTurns(after, instance, request, n, asked)
<1>0. Len(asked) = n
  OBVIOUS
<1> DEFINE first == [array |-> asked, skipped |-> 0]
           after[k \in 0..Len(asked)] ==
              IF k = 0 THEN [array |-> asked, skipped |-> 0]
              ELSE LET before == after[k - 1]
                   IN  IF Has(instance, before.array[k])
                         THEN [before EXCEPT !.array = CopiedBack(@, k, before.skipped)]
                         ELSE [before EXCEPT !.skipped = @ + 1]
           step == [k \in 1..n |-> [before \in Loop(n) |-> ReadOne(instance, before, k)]]
<1>1. /\ ReadInstance(instance, request).data
             = SubSeq(after[Len(asked)].array, 1, Len(asked) - after[Len(asked)].skipped)
      /\ ReadInstance(instance, request).code
             = IF Len(asked) = 1 /\ ReadInstance(instance, request).data = <<>> THEN 404 ELSE 205
  BY ZenonT(30) DEF ReadInstance
<1>2. first \in Loop(n)
  BY DEF Loop
<1>3. Steps(step, n, Loop(n))
  <2>1. \A k \in 1..n, before \in Loop(n) : ReadOne(instance, before, k) \in Loop(n)
    BY ReadOneTyped
  <2>2. QED
    BY <2>1 DEF Steps
<1>4. PICK f : Runs(f, n, Loop(n), first, step)
  <2> HIDE DEF after, step, first
  <2>1. QED
    BY <1>2, <1>3, Recursion
<1>5. /\ f \in [0..n -> Loop(n)] /\ f[0] = first
      /\ \A k \in 1..n : f[k] = ReadOne(instance, f[k - 1], k)
  <2>1. /\ f \in [0..n -> Loop(n)] /\ f[0] = first
        /\ \A k \in 1..n : f[k] = step[k][f[k - 1]]
    BY <1>4 DEF Runs
  <2>2. ASSUME NEW k \in 1..n PROVE f[k] = ReadOne(instance, f[k - 1], k)
    <3>1. f[k - 1] \in Loop(n)
      BY <2>1
    <3>2. QED
      BY <2>1, <3>1
  <2>3. QED
    BY <2>1, <2>2
<1>6. f = [k \in 0..Len(asked) |->
              IF k = 0 THEN [array |-> asked, skipped |-> 0]
              ELSE LET before == f[k - 1]
                   IN  IF Has(instance, before.array[k])
                         THEN [before EXCEPT !.array = CopiedBack(@, k, before.skipped)]
                         ELSE [before EXCEPT !.skipped = @ + 1]]
  <2> HIDE DEF after, step
  <2>1. ASSUME NEW k \in 0..n, k # 0
        PROVE  f[k] = LET before == f[k - 1]
                      IN  IF Has(instance, before.array[k])
                            THEN [before EXCEPT !.array = CopiedBack(@, k, before.skipped)]
                            ELSE [before EXCEPT !.skipped = @ + 1]
    <3>1. k \in 1..n /\ f[k - 1] \in Loop(n)
      BY <1>5, <2>1
    <3>2. QED
      BY <1>5, <3>1 DEF ReadOne, Loop
  <2>2. QED
    BY <1>0, <1>5, <2>1
<1>7. after = [k \in 0..Len(asked) |->
              IF k = 0 THEN [array |-> asked, skipped |-> 0]
              ELSE LET before == after[k - 1]
                   IN  IF Has(instance, before.array[k])
                         THEN [before EXCEPT !.array = CopiedBack(@, k, before.skipped)]
                         ELSE [before EXCEPT !.skipped = @ + 1]]
  <2> HIDE DEF step
  <2>1. QED
    BY <1>6
<1> DEFINE turn(before, k) ==
              IF Has(instance, before.array[k])
              THEN [before EXCEPT !.array = CopiedBack(@, k, before.skipped)]
              ELSE [before EXCEPT !.skipped = @ + 1]
<1>8. /\ f = [k \in 0..n |-> IF k = 0 THEN first ELSE turn(f[k - 1], k)]
      /\ after = [k \in 0..n |-> IF k = 0 THEN first ELSE turn(after[k - 1], k)]
  <2> HIDE DEF after, step
  <2>1. QED
    BY <1>0, <1>6, <1>7
<1> HIDE DEF after, step, first, turn
<1>9. after = f
  <2> DEFINE same == {k \in 0..n : after[k] = f[k]}
  <2>1. 0 \in same
    BY <1>8
  <2>2. ASSUME NEW k \in 1..n, k - 1 \in same PROVE k \in same
    <3>1. k \in 0..n /\ k # 0 /\ after[k - 1] = f[k - 1]
      BY <2>2
    <3>2. f[k] = turn(f[k - 1], k) /\ after[k] = turn(after[k - 1], k)
      BY <1>8, <3>1
    <3>3. QED
      BY <3>1, <3>2
  <2>3. 0..n \subseteq same
    <3> HIDE DEF same
    <3>1. QED
      BY <2>1, <2>2, SetInduction
  <2>4. \A k \in 0..n : after[k] = f[k]
    BY <2>3
  <2>5. after = [k \in 0..n |-> after[k]] /\ f = [k \in 0..n |-> f[k]]
    BY <1>8
  <2>6. QED
    BY <2>4, <2>5
<1>10. /\ ReadInstance(instance, request).data = SubSeq(f[n].array, 1, n - f[n].skipped)
       /\ ReadInstance(instance, request).code
             = IF n = 1 /\ ReadInstance(instance, request).data = <<>> THEN 404 ELSE 205
  BY <1>0, <1>1, <1>9
<1>11. \A k \in 1..n : f[k] \in Loop(n) /\ f[k] = ReadOne(instance, f[k - 1], k)
  BY <1>5
<1>12. f[0] = [array |-> asked, skipped |-> 0]
  BY <1>5 DEF first
<1>13. ReadTurns(f, instance, request, n, asked)
  BY <1>10, <1>11, <1>12 DEF ReadTurns
<1>14. QED
  BY <1>13

\* After k turns what was found is at the front, in order, and what is behind k has
\* not been touched.
Squeezed(instance, asked, n, state, k) ==
    /\ state \in Loop(n)
    /\ state.skipped = k - Found(instance, asked, k)
    /\ \A j \in (k + 1)..n : state.array[j] = asked[j]
    /\ \A m \in 1..k : Has(instance, asked[m]) =>
          state.array[Found(instance, asked, m)] = asked[m]
    /\ \A j \in 1..Found(instance, asked, k) : \E m \in 1..k :
          Has(instance, asked[m]) /\ Found(instance, asked, m) = j

LEMMA ReadOneSqueezes ==
    ASSUME NEW instance, NEW n \in Nat, NEW asked \in [1..n -> Item], NEW k \in 1..n,
           NEW state, Squeezed(instance, asked, n, state, k - 1)
    PROVE  Squeezed(instance, asked, n, ReadOne(instance, state, k), k)
<1> DEFINE C(m) == Found(instance, asked, m)
           new  == ReadOne(instance, state, k)
<1>1. /\ state \in Loop(n) /\ state.skipped = (k - 1) - C(k - 1)
      /\ \A j \in k..n : state.array[j] = asked[j]
      /\ \A m \in 1..(k - 1) : Has(instance, asked[m]) => state.array[C(m)] = asked[m]
      /\ \A j \in 1..C(k - 1) : \E m \in 1..(k - 1) : Has(instance, asked[m]) /\ C(m) = j
  BY DEF Squeezed
<1>2. /\ \A m \in 0..n : C(m) \in 0..m
      /\ \A m \in 1..n : C(m) = C(m - 1) + (IF Has(instance, asked[m]) THEN 1 ELSE 0)
      /\ \A m \in 1..n : C(m - 1) \in Nat /\ C(m) \in Nat /\ C(m - 1) <= C(m)
  BY FoundCounts
<1>3. state.array \in [1..n -> Item] /\ state.skipped \in Nat /\ state.array[k] = asked[k]
  BY <1>1 DEF Loop
<1>4. new \in Loop(n)
  BY <1>1, ReadOneTyped
<1> HIDE DEF C
<1>5. \A m \in 1..(k - 1) : C(m) <= C(k - 1)
  <2> DEFINE upto == {m \in 0..(k - 1) : \A j \in 0..m : C(j) <= C(m)}
  <2>1. 0 \in upto
    BY <1>2
  <2>2. ASSUME NEW m \in 1..(k - 1), m - 1 \in upto PROVE m \in upto
    <3>1. C(m - 1) <= C(m) /\ C(m) \in Nat /\ C(m - 1) \in Nat
      BY <1>2
    <3>2. ASSUME NEW j \in 0..m PROVE C(j) <= C(m)
      <4>1. C(j) \in Nat
        BY SMTT(30), <1>2
      <4>2. CASE j = m
        BY <4>1, <4>2
      <4>3. CASE j # m
        <5>1. C(j) <= C(m - 1)
          BY <2>2, <4>3
        <5>2. QED
          BY <3>1, <4>1, <5>1
      <4>4. QED
        BY <4>2, <4>3
    <3>3. QED
      BY <3>2
  <2>3. 0..(k - 1) \subseteq upto
    <3> HIDE DEF upto
    <3>1. k - 1 \in Nat
      OBVIOUS
    <3>2. QED
      BY <2>1, <2>2, <3>1, SetInduction
  <2>4. k - 1 \in upto
    BY <2>3
  <2>5. QED
    BY <2>4
<1>6. CASE ~Has(instance, asked[k])
  <2>1. C(k) = C(k - 1) /\ C(k) \in 0..(k - 1)
    BY <1>2, <1>6
  <2>2. new = [state EXCEPT !.skipped = state.skipped + 1]
    BY <1>3, <1>6 DEF ReadOne
  <2> HIDE DEF new
  <2>3. new.array = state.array /\ new.skipped = k - C(k)
    BY <1>1, <2>1, <2>2 DEF Loop
  <2>4. \A m \in 1..k : Has(instance, asked[m]) => new.array[C(m)] = asked[m]
    BY <1>1, <1>6, <2>3
  <2>5. \A j \in 1..C(k) : \E m \in 1..k : Has(instance, asked[m]) /\ C(m) = j
    BY <1>1, <2>1
  <2>6. \A j \in (k + 1)..n : new.array[j] = asked[j]
    BY <1>1, <2>3
  <2>7. QED
    BY <1>4, <2>3, <2>4, <2>5, <2>6 DEF Squeezed, C, new
<1>7. CASE Has(instance, asked[k])
  <2>1. C(k) = C(k - 1) + 1 /\ C(k) \in 1..k /\ k - state.skipped = C(k)
    BY <1>1, <1>2, <1>7
  <2>2. new = [state EXCEPT !.array = CopiedBack(state.array, k, state.skipped)]
    BY <1>3, <1>7 DEF ReadOne
  <2>3. CopiedBack(state.array, k, state.skipped) = [state.array EXCEPT ![C(k)] = asked[k]]
    <3>1. CASE state.skipped = 0
      <4>1. C(k) = k
        BY <2>1, <3>1
      <4>2. QED
        BY <1>3, <3>1, <4>1 DEF CopiedBack
    <3>2. CASE state.skipped # 0
      BY <1>3, <2>1, <3>2 DEF CopiedBack
    <3>3. QED
      BY <3>1, <3>2
  <2> HIDE DEF new
  <2>4. new.array = [state.array EXCEPT ![C(k)] = asked[k]] /\ new.skipped = k - C(k)
    BY <1>1, <2>1, <2>2, <2>3 DEF Loop
  <2>5. /\ new.array[C(k)] = asked[k]
        /\ \A j \in 1..n : j # C(k) => new.array[j] = state.array[j]
    BY <1>3, <2>1, <2>4
  <2>6. ASSUME NEW m \in 1..k, Has(instance, asked[m]) PROVE new.array[C(m)] = asked[m]
    <3>1. CASE m = k
      BY <2>5, <3>1
    <3>2. CASE m # k
      <4>1. m \in 1..(k - 1) /\ C(m) <= C(k - 1) /\ C(m) = C(m - 1) + 1
            /\ C(m - 1) \in Nat /\ C(k - 1) \in 0..(k - 1)
        BY <1>2, <1>5, <2>6, <3>2
      <4>2. C(m) \in 1..n /\ C(m) # C(k)
        BY <2>1, <4>1
      <4>3. QED
        BY <1>1, <2>5, <2>6, <4>1, <4>2
    <3>3. QED
      BY <3>1, <3>2
  <2>7. ASSUME NEW j \in 1..C(k) PROVE \E m \in 1..k : Has(instance, asked[m]) /\ C(m) = j
    <3>1. CASE j = C(k)
      BY <1>7, <3>1
    <3>2. CASE j # C(k)
      <4>1. j \in 1..C(k - 1)
        BY <1>2, <2>1, <3>2
      <4>2. QED
        BY <1>1, <4>1
    <3>3. QED
      BY <3>1, <3>2
  <2>8. \A j \in (k + 1)..n : new.array[j] = asked[j]
    BY <1>1, <2>1, <2>5
  <2>9. QED
    BY <1>4, <2>4, <2>6, <2>7, <2>8 DEF Squeezed, C, new
<1>8. QED
  BY <1>6, <1>7

\* A read answers with what there is, in the order it was asked for.
Answers(instance, request, n, asked) ==
    LET read == ReadInstance(instance, request) IN
    /\ Len(read.data) = Found(instance, asked, n)
    /\ \A m \in 1..n : Has(instance, asked[m]) =>
          read.data[Found(instance, asked, m)] = asked[m]
    /\ \A j \in 1..Len(read.data) : \E m \in 1..n :
          Has(instance, asked[m]) /\ read.data[j] = asked[m]
    /\ \A m \in 1..n : Has(instance, asked[m]) =>
          Found(instance, asked, m) \in 1..Len(read.data)
    /\ read.code = IF n = 1 /\ read.data = <<>> THEN 404 ELSE 205

LEMMA ReadAnswers ==
    ASSUME NEW instance, NEW request, NEW n \in Nat, NEW asked \in [1..n -> Item],
           asked = (IF request = <<>> THEN FullRead ELSE request)
    PROVE  Answers(instance, request, n, asked)
<1> DEFINE C(m) == Found(instance, asked, m)
           data == ReadInstance(instance, request).data
<1>1. PICK after : ReadTurns(after, instance, request, n, asked)
  BY ReadSteps
<1>2. /\ after[0] = [array |-> asked, skipped |-> 0]
      /\ \A k \in 1..n : after[k] = ReadOne(instance, after[k - 1], k)
      /\ data = SubSeq(after[n].array, 1, n - after[n].skipped)
      /\ ReadInstance(instance, request).code = IF n = 1 /\ data = <<>> THEN 404 ELSE 205
  BY <1>1 DEF ReadTurns
<1>3. /\ C(0) = 0 /\ \A m \in 0..n : C(m) \in 0..m
      /\ \A m \in 1..n : C(m) = C(m - 1) + (IF Has(instance, asked[m]) THEN 1 ELSE 0)
      /\ \A m \in 1..n : C(m - 1) \in Nat /\ C(m) \in Nat /\ C(m - 1) <= C(m)
  BY FoundCounts
<1>4. Squeezed(instance, asked, n, after[n], n)
  <2> DEFINE good == {k \in 0..n : Squeezed(instance, asked, n, after[k], k)}
  <2>1. 0 \in good
    <3>1. after[0] \in Loop(n) /\ after[0].skipped = 0 /\ after[0].array = asked
      BY <1>2 DEF Loop
    <3>2. Squeezed(instance, asked, n, after[0], 0)
      BY <1>3, <3>1 DEF Squeezed
    <3>3. QED
      BY <3>2
  <2>2. ASSUME NEW k \in 1..n, k - 1 \in good PROVE k \in good
    <3>1. Squeezed(instance, asked, n, ReadOne(instance, after[k - 1], k), k)
      BY <2>2, ReadOneSqueezes
    <3>2. QED
      BY <1>2, <3>1
  <2>3. 0..n \subseteq good
    <3> HIDE DEF good
    <3>1. QED
      BY <2>1, <2>2, SetInduction
  <2>4. QED
    BY <2>3
<1> DEFINE array == after[n].array
<1>5. /\ array \in [1..n -> Item] /\ n - after[n].skipped = C(n)
      /\ \A m \in 1..n : Has(instance, asked[m]) => array[C(m)] = asked[m]
      /\ \A j \in 1..C(n) : \E m \in 1..n : Has(instance, asked[m]) /\ C(m) = j
  <2>1. after[n] \in Loop(n) /\ after[n].skipped = n - C(n) /\ C(n) \in 0..n
    BY <1>3, <1>4 DEF Squeezed
  <2>2. array \in [1..n -> Item]
    BY <2>1 DEF Loop
  <2>3. n - after[n].skipped = C(n)
    BY <2>1
  <2>4. QED
    BY <1>4, <2>2, <2>3 DEF Squeezed
<1> HIDE DEF C, data, array
<1>6. data = SubSeq(array, 1, C(n))
  BY <1>2, <1>5 DEF array
<1>7. Len(data) = C(n) /\ \A j \in 1..C(n) : data[j] = array[j]
  <2>1. C(n) \in 0..n
    BY <1>3
  <2>2. array \in Seq(Item) /\ Len(array) = n
    <3>1. array \in [1..n -> Item]
      BY <1>5
    <3>2. QED
      BY <3>1
  <2>3. QED
    BY <1>6, <2>1, <2>2
<1>8. ASSUME NEW m \in 1..n, Has(instance, asked[m]) PROVE C(m) \in 1..C(n)
  <2> DEFINE above == {d \in 0..(n - m) : C(m) <= C(m + d)}
  <2>1. C(m) >= 1 /\ C(m) \in Nat /\ n - m \in Nat
    BY <1>3, <1>8
  <2>2. 0 \in above
    BY <2>1
  <2>3. ASSUME NEW d \in 1..(n - m), d - 1 \in above PROVE d \in above
    <3>1. m + d \in 1..n /\ (m + d) - 1 = m + (d - 1) /\ m + (d - 1) \in 0..n
      OBVIOUS
    <3>2. C((m + d) - 1) <= C(m + d) /\ C(m + d) \in Nat /\ C((m + d) - 1) \in Nat
      BY <1>3, <3>1
    <3>3. C(m) <= C(m + (d - 1)) /\ d \in 0..(n - m)
      BY <2>3
    <3>4. C(m) <= C(m + d)
      BY <2>1, <3>1, <3>2, <3>3
    <3>5. QED
      BY <3>3, <3>4
  <2>4. n - m \in above
    <3> HIDE DEF above
    <3>1. 0..(n - m) \subseteq above
      BY <2>1, <2>2, <2>3, SetInduction
    <3>2. QED
      BY <2>1, <3>1
  <2>5. C(m) <= C(m + (n - m)) /\ m + (n - m) = n
    BY <2>4
  <2>6. C(n) \in Nat
    BY <1>3
  <2>7. QED
    BY <2>1, <2>5, <2>6
<1>9. /\ Len(data) = C(n)
      /\ \A m \in 1..n : Has(instance, asked[m]) => data[C(m)] = asked[m]
      /\ \A m \in 1..n : Has(instance, asked[m]) => C(m) \in 1..Len(data)
  BY <1>5, <1>7, <1>8
<1>10. ASSUME NEW j \in 1..Len(data)
       PROVE  \E m \in 1..n : Has(instance, asked[m]) /\ data[j] = asked[m]
  <2>1. PICK m \in 1..n : Has(instance, asked[m]) /\ C(m) = j
    BY <1>5, <1>7
  <2>2. QED
    BY <1>9, <2>1
<1>11. QED
  BY <1>2, <1>9, <1>10 DEF C, data, Answers

LEMMA FullReadItems ==
    /\ FullRead \in [1..4 -> Item]
    /\ FullRead[1] = [res |-> "objectId", whole |-> TRUE, ids |-> {}]
    /\ FullRead[2] = [res |-> "objectInstId", whole |-> TRUE, ids |-> {}]
    /\ FullRead[3] = [res |-> "acl", whole |-> TRUE, ids |-> {}]
    /\ FullRead[4] = [res |-> "owner", whole |-> TRUE, ids |-> {}]
<1> DEFINE names == <<"objectId", "objectInstId", "acl", "owner">>
           item(name) == [res |-> name, whole |-> TRUE, ids |-> {}]
<1>1. /\ names[1] = "objectId" /\ names[2] = "objectInstId"
      /\ names[3] = "acl" /\ names[4] = "owner"
  OBVIOUS
<1>2. FullRead = [k \in 1..4 |-> item(names[k])]
  BY DEF FullRead
<1> HIDE DEF names
<1>3. \A k \in 1..4 : item(names[k]) \in Item
  <2>1. \A k \in 1..4 : names[k] \in {"objectId", "objectInstId", "acl", "owner", "other"}
    BY <1>1
  <2>2. {} \in SUBSET Nat /\ TRUE \in BOOLEAN
    OBVIOUS
  <2>3. QED
    BY <2>1, <2>2 DEF Item
<1> HIDE DEF item
<1>4. FullRead \in [1..4 -> Item] /\ \A k \in 1..4 : FullRead[k] = item(names[k])
  BY <1>2, <1>3
<1>5. /\ FullRead[1] = item("objectId") /\ FullRead[2] = item("objectInstId")
      /\ FullRead[3] = item("acl") /\ FullRead[4] = item("owner")
  <2>1. 1 \in 1..4 /\ 2 \in 1..4 /\ 3 \in 1..4 /\ 4 \in 1..4
    OBVIOUS
  <2>2. QED
    BY <1>1, <1>4, <2>1
<1>6. QED
  BY <1>4, <1>5 DEF item

\* What ReadGivesWhatIsThere asks of a read of some resources, and of a whole read.
PartialGives(instance, request) ==
    LET read  == ReadInstance(instance, request)
        there == {k \in 1..Len(request) : Has(instance, request[k])}
    IN  /\ Len(read.data) = Cardinality(there)
        /\ \A k \in there : read.data[Cardinality({m \in there : m <= k})] = request[k]
        /\ read.code = 404 <=> Len(request) = 1 /\ read.data = <<>>

WholeGives(instance) ==
    LET full == ReadInstance(instance, <<>>)
    IN  /\ full.code = 205
        /\ {full.data[k].res : k \in 1..Len(full.data)}
             = {"objectId", "objectInstId", "owner"}
                 \cup (IF instance.acl = <<>> THEN {} ELSE {"acl"})

LEMMA PartialRead ==
    ASSUME NEW instance, NEW request \in Seq(Item) \ {<<>>}
    PROVE  PartialGives(instance, request)
<1> DEFINE read  == ReadInstance(instance, request)
           n     == Len(request)
           there == {k \in 1..n : Has(instance, request[k])}
           upto(k) == {m \in there : m <= k}
<1>1. n \in Nat /\ request \in [1..n -> Item]
  OBVIOUS
<1>2. request = (IF request = <<>> THEN FullRead ELSE request)
  OBVIOUS
<1>3. Answers(instance, request, n, request)
  <2> HIDE DEF n
  <2>1. QED
    BY <1>1, <1>2, ReadAnswers
<1>4. /\ Len(read.data) = Found(instance, request, n)
      /\ \A m \in 1..n : Has(instance, request[m]) =>
            read.data[Found(instance, request, m)] = request[m]
      /\ read.code = IF n = 1 /\ read.data = <<>> THEN 404 ELSE 205
  BY <1>3 DEF Answers
<1> HIDE DEF read
<1>5. Len(read.data) = Cardinality(there)
  BY <1>4 DEF Found, There
<1>6. \A k \in there : read.data[Cardinality(upto(k))] = request[k]
  <2>1. TAKE k \in there
  <2>2. k \in 1..n /\ Has(instance, request[k])
    OBVIOUS
  <2>3. upto(k) = There(instance, request, k)
    BY <1>1, <2>2 DEF There
  <2>4. Cardinality(upto(k)) = Found(instance, request, k)
    BY <2>3 DEF Found
  <2> HIDE DEF there, n, upto
  <2>5. QED
    BY <1>4, <2>2, <2>4
<1>7. read.code = 404 <=> n = 1 /\ read.data = <<>>
  BY <1>4
<1>8. QED
  BY <1>5, <1>6, <1>7 DEF read, PartialGives

LEMMA WholeRead ==
    ASSUME NEW instance
    PROVE  WholeGives(instance)
<1> DEFINE full == ReadInstance(instance, <<>>)
           names == {full.data[k].res : k \in 1..Len(full.data)}
<1>1. 4 \in Nat /\ FullRead \in [1..4 -> Item]
      /\ FullRead = (IF <<>> = <<>> THEN FullRead ELSE <<>>)
  BY FullReadItems
<1>2. Answers(instance, <<>>, 4, FullRead)
  BY <1>1, ReadAnswers
<1>3. /\ \A m \in 1..4 : Has(instance, FullRead[m]) =>
            /\ full.data[Found(instance, FullRead, m)] = FullRead[m]
            /\ Found(instance, FullRead, m) \in 1..Len(full.data)
      /\ \A j \in 1..Len(full.data) : \E m \in 1..4 :
            Has(instance, FullRead[m]) /\ full.data[j] = FullRead[m]
      /\ full.code = IF 4 = 1 /\ full.data = <<>> THEN 404 ELSE 205
  BY <1>2 DEF Answers
<1>4. /\ Has(instance, FullRead[1]) /\ Has(instance, FullRead[2]) /\ Has(instance, FullRead[4])
      /\ Has(instance, FullRead[3]) <=> instance.acl # <<>>
  BY FullReadItems DEF Has
<1> HIDE DEF full
<1>5. \A m \in 1..4 : Has(instance, FullRead[m]) => FullRead[m].res \in names
  BY <1>3
<1>6. \A name \in names : \E m \in 1..4 : Has(instance, FullRead[m]) /\ name = FullRead[m].res
  BY <1>3
<1>7. full.code = 205
  BY <1>3
<1> HIDE DEF names
<1>8. names = {"objectId", "objectInstId", "owner"}
                \cup (IF instance.acl = <<>> THEN {} ELSE {"acl"})
  <2>1. /\ FullRead[1].res = "objectId" /\ FullRead[2].res = "objectInstId"
        /\ FullRead[3].res = "acl" /\ FullRead[4].res = "owner"
    BY FullReadItems
  <2>2. \A m \in 1..4 : m = 1 \/ m = 2 \/ m = 3 \/ m = 4
    OBVIOUS
  <2>3. {"objectId", "objectInstId", "owner"} \subseteq names
    BY <1>4, <1>5, <2>1
  <2>4. instance.acl # <<>> => "acl" \in names
    BY <1>4, <1>5, <2>1
  <2>5. ASSUME NEW name \in names
        PROVE  name \in {"objectId", "objectInstId", "owner"}
                          \cup (IF instance.acl = <<>> THEN {} ELSE {"acl"})
    <3>1. PICK m \in 1..4 : Has(instance, FullRead[m]) /\ name = FullRead[m].res
      BY <1>6
    <3>2. m = 3 => instance.acl # <<>>
      BY <1>4, <3>1
    <3>3. m = 1 \/ m = 2 \/ m = 3 \/ m = 4
      BY <2>2
    <3>4. QED
      BY <2>1, <3>1, <3>2, <3>3
  <2>6. QED
    BY <2>3, <2>4, <2>5
<1>9. QED
  BY <1>7, <1>8 DEF full, names, WholeGives

\* A read answers with what is there, in order, however long the request and the list
\* of rights (ReadGivesWhatIsThere).
THEOREM ReadCorrect == Spec => []ReadGivesWhatIsThere
<1>1. ReadGivesWhatIsThere
  <2>1. \A i \in Live : \A request \in Reads : PartialGives(instances[i], request)
    BY ReadsAssumption, PartialRead DEF Item
  <2>2. \A i \in Live : WholeGives(instances[i])
    BY WholeRead
  <2>3. ReadGivesWhatIsThere
          <=> \A i \in Live : /\ \A request \in Reads : PartialGives(instances[i], request)
                              /\ WholeGives(instances[i])
    BY Zenon DEF ReadGivesWhatIsThere, PartialGives, WholeGives
  <2>4. QED
    BY <2>1, <2>2, <2>3
<1>2. QED
  BY <1>1, PTL

=============================================================================
