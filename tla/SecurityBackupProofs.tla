------------------------ MODULE SecurityBackupProofs ------------------------
(***************************************************************************)
(* The memory of the Security object and of its backup is used correctly,  *)
(* and a failed bootstrap restores what was there, for any number of       *)
(* accounts, cells and values, as long as copy_security_object duplicates  *)
(* every buffer of the accounts it copies (the history whole).  The        *)
(* violation runs of MCSecurityBackup show what happens when it does not.  *)
(***************************************************************************)
EXTENDS SecurityBackup, TLAPS, FiniteSetTheorems, FunctionTheorems

\* What the engine's object and its backup satisfy by themselves while copies
\* share nothing: no two pointers lead to one cell, and no cell is free.
Apart(object) ==
    \A i, j \in Present(object), f, g \in Pointers :
        object[i].ptr[f] # Null /\ object[i].ptr[f] = object[j].ptr[g] => i = j /\ f = g

Allocated(h, object) ==
    \A i \in Present(object), f \in Pointers :
        object[i].ptr[f] # Null => h[object[i].ptr[f]] # Free

Sound(h, object) == Apart(object) /\ Allocated(h, object)

\* And together: no cell is shared.
Separate(x, y) ==
    \A i \in Present(x), j \in Present(y), f, g \in Pointers :
        x[i].ptr[f] # Null => x[i].ptr[f] # y[j].ptr[g]

\* A copy of this object has a buffer of its own for every one of its.
AllDuplicable(object) == \A i \in Present(object) : Duplicable(object[i])

\* The inductive invariant behind MemorySafe.  A backup can be copied back; the
\* live object need not be one that can be copied, until it is.
Strong ==
    /\ ~misuse /\ phase # "crashed"
    /\ Sound(heap, live) /\ Sound(heap, backup)
    /\ Separate(live, backup) /\ Separate(backup, live)
    /\ AllDuplicable(backup)

IInv == TypeOK /\ (whole => Strong)

-----------------------------------------------------------------------------
(* Slots and cells. *)

\* A slot is an instance and one of its pointers.
LEMMA SlotIs ==
    ASSUME NEW object, NEW s \in Owned(object)
    PROVE  /\ s[1] \in Present(object) /\ s[2] \in Pointers
           /\ s = <<s[1], s[2]>>
           /\ s[2] \in OwnedPointers(object[s[1]])
           /\ object[s[1]].ptr[s[2]] # Null
<1>1. s \in Present(object) \X Pointers
  BY DEF Owned
<1>2. s[1] \in Present(object) /\ s[2] \in Pointers /\ s = <<s[1], s[2]>>
  BY <1>1
<1>3. QED
  BY <1>2 DEF Owned

\* If copies duplicate every buffer of an object, its slots are the pointers set.
LEMMA SlotOf ==
    ASSUME NEW object, AllDuplicable(object), NEW i \in Present(object), NEW f \in Pointers
    PROVE  <<i, f>> \in Owned(object) <=> object[i].ptr[f] # Null
<1>1. <<i, f>> \in Present(object) \X Pointers /\ <<i, f>>[1] = i /\ <<i, f>>[2] = f
  OBVIOUS
<1>2. object[i].ptr[f] # Null => f \in OwnedPointers(object[i])
  BY DEF AllDuplicable, Duplicable
<1>3. QED
  BY <1>1, <1>2 DEF Owned

LEMMA SlotsFinite == \A object : IsFiniteSet(Owned(object))
<1>1. IsFiniteSet(Pointers)
  <2>1. IsFiniteSet({"uri"})
    BY FS_Singleton
  <2>2. IsFiniteSet({"uri"} \cup {"publicIdentity"})
    BY <2>1, FS_AddElement
  <2>3. IsFiniteSet({"uri"} \cup {"publicIdentity"} \cup {"secretKey"})
    BY <2>2, FS_AddElement
  <2>4. IsFiniteSet({"uri"} \cup {"publicIdentity"} \cup {"secretKey"} \cup {"serverPublicKey"})
    BY <2>3, FS_AddElement
  <2>5. Pointers = {"uri"} \cup {"publicIdentity"} \cup {"secretKey"} \cup {"serverPublicKey"}
    BY DEF Pointers
  <2>6. QED
    BY <2>4, <2>5
<1>2. IsFiniteSet(Ids)
  BY ConstantsAssumption
<1>3. IsFiniteSet(Ids \X Pointers)
  BY <1>1, <1>2, FS_Product
<1>4. \A object : Owned(object) \subseteq Ids \X Pointers
  BY DEF Owned, Present
<1>5. QED
  BY <1>3, <1>4, FS_Subset

\* Freeing slots of a sound object is no error.
LEMMA GoodFree ==
    ASSUME NEW h, NEW object, Sound(h, object), object \in Object,
           NEW slots \in SUBSET Owned(object)
    PROVE  ~BadFree(h, object, slots)
<1>1. Cells(object, slots) \cap FreeCells(h) = {}
  <2>1. SUFFICES ASSUME NEW s \in slots PROVE h[Cell(object, s)] # Free
    BY DEF Cells, FreeCells
  <2>2. QED
    BY SlotIs DEF Sound, Allocated, Cell
<1>2. Cardinality(Cells(object, slots)) = Cardinality(slots)
  <2> DEFINE f == [s \in slots |-> Cell(object, s)]
  <2>1. f \in Bijection(slots, Cells(object, slots))
    <3>1. \A s, t \in slots : f[s] = f[t] => s = t
      <4>1. SUFFICES ASSUME NEW s \in slots, NEW t \in slots, Cell(object, s) = Cell(object, t)
                     PROVE  s = t
        OBVIOUS
      <4>2. s \in Owned(object) /\ t \in Owned(object)
        OBVIOUS
      <4>3. s[1] = t[1] /\ s[2] = t[2]
        BY <4>1, <4>2, SlotIs DEF Sound, Apart, Cell
      <4>4. QED
        BY <4>2, <4>3, SlotIs
    <3>2. \A a \in Cells(object, slots) : \E s \in slots : f[s] = a
      BY DEF Cells
    <3>3. f \in [slots -> Cells(object, slots)]
      BY DEF Cells
    <3>4. QED
      <4> HIDE DEF f
      <4>1. QED
        BY <3>1, <3>2, <3>3, Fun_IsBij
  <2>2. IsFiniteSet(slots)
    BY SlotsFinite, FS_Subset
  <2>3. ExistsBijection(slots, Cells(object, slots))
    BY <2>1 DEF ExistsBijection
  <2>4. QED
    BY <2>2, <2>3, FS_Bijection
<1>3. QED
  BY <1>1, <1>2 DEF BadFree

-----------------------------------------------------------------------------
(* Copying. *)

\* copy_security_object after the old copy has been freed: the copy is as sound
\* as its source, shares no cell with it, and reads the same but for what
\* lwm2m_strdup cuts; the source stays as it is.
LEMMA CopyOf ==
    ASSUME NEW h \in [Addr -> Values \cup {Cut, Free}],
           NEW old \in Object, NEW source \in Object,
           Sound(h, old), Sound(h, source), Separate(source, old),
           AllDuplicable(source),
           NEW released, released = Release(h, Cells(old, Owned(old))),
           NEW cells \in Fresh(released, Owned(source)),
           NEW new, new = Copied(source, cells),
           NEW after, after = CopiedHeap(released, source, cells)
    PROVE  /\ new \in Object
           /\ after \in [Addr -> Values \cup {Cut, Free}]
           /\ Cells(source, Owned(source)) \cap FreeCells(released) = {}
           /\ Sound(after, source) /\ Sound(after, new)
           /\ Separate(source, new) /\ Separate(new, source)
           /\ AllDuplicable(new)
           /\ Present(new) = Present(source)
           /\ \A i \in Present(source) :
                 /\ new[i].mode = source[i].mode
                 /\ \A f \in Pointers :
                       /\ new[i].ptr[f] = Null <=> source[i].ptr[f] = Null
                       /\ source[i].ptr[f] # Null =>
                             /\ after[source[i].ptr[f]] = h[source[i].ptr[f]]
                             /\ after[new[i].ptr[f]] = Strdup(h[source[i].ptr[f]])
<1>0. Null \notin Addr
  BY ConstantsAssumption
<1>1. \A i \in Present(source) : source[i] \in Instance
  BY DEF Object, Present
<1>2. NoInst \notin Instance
  BY ConstantsAssumption DEF Instance
<1>3. /\ released \in [Addr -> Values \cup {Cut, Free}]
      /\ \A i \in Present(source), f \in Pointers : source[i].ptr[f] # Null =>
            /\ source[i].ptr[f] \in Addr
            /\ released[source[i].ptr[f]] = h[source[i].ptr[f]]
            /\ h[source[i].ptr[f]] # Free
  <2>1. released \in [Addr -> Values \cup {Cut, Free}]
    BY DEF Release
  <2>2. SUFFICES ASSUME NEW i \in Present(source), NEW f \in Pointers,
                        source[i].ptr[f] # Null
                 PROVE  /\ source[i].ptr[f] \in Addr
                        /\ released[source[i].ptr[f]] = h[source[i].ptr[f]]
                        /\ h[source[i].ptr[f]] # Free
    BY <2>1
  <2>3. source[i].ptr[f] \in Addr
    BY <1>1, <2>2 DEF Instance
  <2>4. source[i].ptr[f] \notin Cells(old, Owned(old))
    BY <2>2, SlotIs DEF Separate, Cells, Cell
  <2>5. QED
    BY <2>2, <2>3, <2>4 DEF Release, Sound, Allocated
<1>4. \A i \in Present(source), f \in Pointers :
         /\ <<i, f>> \in DOMAIN cells <=> source[i].ptr[f] # Null
         /\ source[i].ptr[f] # Null => /\ cells[<<i, f>>] \in Addr
                                       /\ released[cells[<<i, f>>]] = Free
  BY SlotOf DEF Fresh, FreeCells
<1>5. \A s, t \in DOMAIN cells : cells[s] = cells[t] => s = t
  BY DEF Fresh
<1>6. DOMAIN cells = Owned(source)
  BY DEF Fresh
<1>7. \A i \in Present(source) :
         /\ new[i] \in Instance
         /\ new[i].mode = source[i].mode
         /\ \A f \in Pointers : new[i].ptr[f] = IF source[i].ptr[f] # Null THEN cells[<<i, f>>]
                                                                           ELSE Null
  <2>1. SUFFICES ASSUME NEW i \in Present(source)
                 PROVE  /\ new[i] \in Instance
                        /\ new[i].mode = source[i].mode
                        /\ \A f \in Pointers :
                              new[i].ptr[f] = IF source[i].ptr[f] # Null THEN cells[<<i, f>>]
                                                                       ELSE Null
    OBVIOUS
  <2> DEFINE ptr == [f \in Pointers |-> IF <<i, f>> \in DOMAIN cells THEN cells[<<i, f>>]
                                                                  ELSE source[i].ptr[f]]
  <2>2. new[i] = [source[i] EXCEPT !.ptr = ptr]
    BY DEF Copied, Present
  <2>3. \A f \in Pointers : ptr[f] = IF source[i].ptr[f] # Null THEN cells[<<i, f>>] ELSE Null
    BY <1>4
  <2>4. ptr \in [Pointers -> Addr \cup {Null}]
    BY <1>4, <2>3
  <2>5. new[i] = [mode |-> source[i].mode, ptr |-> ptr]
    <3> HIDE DEF ptr
    <3>1. QED
      BY <1>1, <2>2 DEF Instance
  <2>6. source[i].mode \in Modes
    BY <1>1 DEF Instance
  <2>7. QED
    <3> HIDE DEF ptr
    <3>1. QED
      BY <2>3, <2>4, <2>5, <2>6 DEF Instance
<1>8. /\ Present(new) = Present(source)
      /\ new \in Object
  <2>1. \A i \in Ids : i \notin Present(source) => new[i] = NoInst
    BY DEF Copied, Present
  <2>2. new = [i \in Ids |-> new[i]]
    BY DEF Copied
  <2>3. QED
    BY <1>2, <1>7, <2>1, <2>2 DEF Present, Object
<1>9. \A i \in Present(source), f \in Pointers : source[i].ptr[f] # Null =>
         /\ after[source[i].ptr[f]] = h[source[i].ptr[f]]
         /\ after[cells[<<i, f>>]] = Strdup(h[source[i].ptr[f]])
  <2>1. SUFFICES ASSUME NEW i \in Present(source), NEW f \in Pointers, source[i].ptr[f] # Null
                 PROVE  /\ after[source[i].ptr[f]] = h[source[i].ptr[f]]
                        /\ after[cells[<<i, f>>]] = Strdup(h[source[i].ptr[f]])
    OBVIOUS
  <2>2. ~\E s \in DOMAIN cells : cells[s] = source[i].ptr[f]
    BY <1>3, <2>1 DEF Fresh, FreeCells
  <2>3. after[source[i].ptr[f]] = h[source[i].ptr[f]]
    BY <1>3, <2>1, <2>2 DEF CopiedHeap
  <2> DEFINE a == cells[<<i, f>>]
             s == CHOOSE t \in DOMAIN cells : cells[t] = a
  <2>4. <<i, f>> \in DOMAIN cells /\ a \in Addr
    BY <1>4, <2>1
  <2>5. s = <<i, f>>
    BY <1>5, <2>4
  <2>6. after[a] = Strdup(released[Cell(source, s)])
    BY <2>4 DEF CopiedHeap
  <2>7. Cell(source, s) = source[i].ptr[f]
    <3> HIDE DEF s
    <3>1. QED
      BY <2>5 DEF Cell
  <2>8. QED
    BY <1>3, <2>1, <2>3, <2>6, <2>7
<1>10. after \in [Addr -> Values \cup {Cut, Free}]
  <2>1. \A v : v \in Values \cup {Cut, Free} => Strdup(v) \in Values \cup {Cut, Free}
    BY DEF Strdup
  <2>2. SUFFICES ASSUME NEW a \in Addr, NEW s \in DOMAIN cells
                 PROVE  Strdup(released[Cell(source, s)]) \in Values \cup {Cut, Free}
    BY <1>3 DEF CopiedHeap
  <2>3. Cell(source, s) \in Addr
    BY <1>3, <1>6, SlotIs DEF Cell
  <2>4. QED
    BY <1>3, <2>1, <2>3
<1>11. Cells(source, Owned(source)) \cap FreeCells(released) = {}
  <2>1. SUFFICES ASSUME NEW s \in Owned(source) PROVE released[Cell(source, s)] # Free
    BY DEF Cells, FreeCells
  <2>2. QED
    BY <1>3, SlotIs DEF Cell
<1>12. \A v : v # Free => Strdup(v) # Free
  BY ConstantsAssumption DEF Strdup
<1>13. Sound(after, source)
  <2>1. Allocated(after, source)
    <3>1. SUFFICES ASSUME NEW i \in Present(source), NEW f \in Pointers, source[i].ptr[f] # Null
                   PROVE  after[source[i].ptr[f]] # Free
      BY DEF Allocated
    <3>2. h[source[i].ptr[f]] # Free
      BY <1>3, <3>1
    <3>3. after[source[i].ptr[f]] = h[source[i].ptr[f]]
      BY <1>9, <3>1
    <3>4. QED
      BY <3>2, <3>3
  <2>2. QED
    BY <2>1 DEF Sound
<1>14. Sound(after, new)
  <2>2. Allocated(after, new)
    <3>1. SUFFICES ASSUME NEW i \in Present(source), NEW f \in Pointers, new[i].ptr[f] # Null
                   PROVE  after[new[i].ptr[f]] # Free
      BY <1>8 DEF Allocated
    <3>2. source[i].ptr[f] # Null /\ new[i].ptr[f] = cells[<<i, f>>]
      BY <1>7, <3>1
    <3>3. QED
      BY <1>3, <1>9, <1>12, <3>2
  <2>3. Apart(new)
    <3>1. SUFFICES ASSUME NEW i \in Present(source), NEW j \in Present(source),
                          NEW f \in Pointers, NEW g \in Pointers,
                          new[i].ptr[f] # Null, new[i].ptr[f] = new[j].ptr[g]
                   PROVE  i = j /\ f = g
      BY <1>8 DEF Apart
    <3>2. source[i].ptr[f] # Null /\ source[j].ptr[g] # Null
      BY <1>7, <3>1
    <3>3. cells[<<i, f>>] = cells[<<j, g>>]
      BY <1>7, <3>1, <3>2
    <3>4. <<i, f>> = <<j, g>>
      BY <1>4, <1>5, <3>2, <3>3
    <3>5. QED
      BY <3>4
  <2>4. QED
    BY <2>2, <2>3 DEF Sound
<1>15. Separate(source, new) /\ Separate(new, source)
  <2>1. ASSUME NEW i \in Present(source), NEW j \in Present(source),
               NEW f \in Pointers, NEW g \in Pointers, source[i].ptr[f] # Null
        PROVE  source[i].ptr[f] # new[j].ptr[g]
    <3>1. source[i].ptr[f] \in Addr /\ released[source[i].ptr[f]] # Free
      BY <1>3, <2>1
    <3>2. CASE source[j].ptr[g] = Null
      BY <1>0, <1>7, <3>1, <3>2
    <3>3. CASE source[j].ptr[g] # Null
      <4>1. new[j].ptr[g] = cells[<<j, g>>]
        BY <1>7, <3>3
      <4>2. released[cells[<<j, g>>]] = Free
        BY <1>4, <3>3
      <4>3. QED
        BY <3>1, <4>1, <4>2
    <3>4. QED
      BY <3>2, <3>3
  <2>2. QED
    BY <1>7, <1>8, <2>1 DEF Separate
<1>16. ASSUME NEW i \in Present(source), NEW f \in Pointers
       PROVE  /\ new[i].ptr[f] = Null <=> source[i].ptr[f] = Null
              /\ source[i].ptr[f] # Null =>
                    /\ after[source[i].ptr[f]] = h[source[i].ptr[f]]
                    /\ after[new[i].ptr[f]] = Strdup(h[source[i].ptr[f]])
  <2>1. CASE source[i].ptr[f] = Null
    BY <1>7, <2>1
  <2>2. CASE source[i].ptr[f] # Null
    <3>1. new[i].ptr[f] = cells[<<i, f>>] /\ cells[<<i, f>>] \in Addr
      BY <1>4, <1>7, <2>2
    <3>2. /\ after[source[i].ptr[f]] = h[source[i].ptr[f]]
          /\ after[cells[<<i, f>>]] = Strdup(h[source[i].ptr[f]])
      BY <1>9, <2>2
    <3>3. QED
      BY <1>0, <2>2, <3>1, <3>2
  <2>3. QED
    BY <2>1, <2>2
<1>17. \A i \in Present(source) : new[i].mode = source[i].mode
  BY <1>7
<1>18. AllDuplicable(new)
  <2>1. SUFFICES ASSUME NEW i \in Present(source) PROVE Duplicable(new[i])
    BY <1>8 DEF AllDuplicable
  <2>2. Duplicable(source[i])
    BY DEF AllDuplicable
  <2>3. OwnedPointers(new[i]) = OwnedPointers(source[i])
    BY <1>17 DEF OwnedPointers
  <2>4. \A f \in Pointers : new[i].ptr[f] = Null <=> source[i].ptr[f] = Null
    BY <1>16
  <2>5. "uri" \in Pointers
    BY DEF Pointers
  <2>6. QED
    BY <2>2, <2>3, <2>4, <2>5 DEF Duplicable
<1>19. QED
  BY <1>8, <1>10, <1>11, <1>13, <1>14, <1>15, <1>16, <1>17, <1>18

-----------------------------------------------------------------------------
(* The steps. *)

\* Two heaps have the same values in an object's cells.
Agree(g, h, object) ==
    \A i \in Present(object), f \in Pointers :
        object[i].ptr[f] # Null => g[object[i].ptr[f]] = h[object[i].ptr[f]]

\* An object is as sound in a heap that agrees.
LEMMA SoundKept ==
    ASSUME NEW g, NEW h, NEW object, Sound(h, object), Agree(g, h, object)
    PROVE  Sound(g, object)
<1>1. Allocated(g, object)
  <2>1. SUFFICES ASSUME NEW i \in Present(object), NEW f \in Pointers, object[i].ptr[f] # Null
                 PROVE  g[object[i].ptr[f]] # Free
    BY DEF Allocated
  <2>2. h[object[i].ptr[f]] # Free
    BY <2>1 DEF Sound, Allocated
  <2>3. g[object[i].ptr[f]] = h[object[i].ptr[f]]
    BY <2>1 DEF Agree
  <2>4. QED
    BY <2>2, <2>3
<1>2. QED
  BY <1>1 DEF Sound

\* In heap g an object is the copy, by strdup, of what another is in heap h,
\* and that one is what it was.
IsCopy(g, h, new, source) ==
    /\ Present(new) = Present(source)
    /\ \A i \in Present(source) :
          /\ new[i].mode = source[i].mode
          /\ \A f \in Pointers :
                /\ new[i].ptr[f] = Null <=> source[i].ptr[f] = Null
                /\ source[i].ptr[f] # Null =>
                      /\ g[source[i].ptr[f]] = h[source[i].ptr[f]]
                      /\ g[new[i].ptr[f]] = Strdup(h[source[i].ptr[f]])

\* Freeing and rebuilding an object as a copy of another, one of which every
\* buffer is duplicated.
LEMMA ReplaceStep ==
    ASSUME NEW old \in Object, NEW source \in Object, NEW new, NEW after,
           heap \in [Addr -> Values \cup {Cut, Free}], ~misuse,
           Sound(heap, old), Sound(heap, source), Separate(source, old),
           Replace(old, source, new, after), whole'
    PROVE  /\ new \in Object
           /\ heap' \in [Addr -> Values \cup {Cut, Free}]
           /\ misuse' = FALSE /\ phase' = after
           /\ Sound(heap', source) /\ Sound(heap', new)
           /\ Separate(source, new) /\ Separate(new, source)
           /\ AllDuplicable(source) /\ AllDuplicable(new)
           /\ IsCopy(heap', heap, new, source)
<1> DEFINE released == Release(heap, Cells(old, Owned(old)))
<1>1. AllDuplicable(source)
  BY DEF Replace, AllDuplicable
<1>2. ~NoUri(source)
  BY <1>1 DEF NoUri, AllDuplicable, Duplicable
<1>3. PICK cells \in Fresh(released, Owned(source)) :
         /\ phase' = after
         /\ new = Copied(source, cells)
         /\ heap' = CopiedHeap(released, source, cells)
         /\ misuse' = (misuse \/ BadFree(heap, old, Owned(old))
                        \/ Cells(source, Owned(source)) \cap FreeCells(released) # {})
  BY <1>2 DEF Replace
<1>4. ~BadFree(heap, old, Owned(old))
  BY GoodFree
<1> HIDE DEF released
<1>5. released = Release(heap, Cells(old, Owned(old)))
  BY DEF released
<1>6. /\ new \in Object
      /\ heap' \in [Addr -> Values \cup {Cut, Free}]
      /\ Cells(source, Owned(source)) \cap FreeCells(released) = {}
      /\ Sound(heap', source) /\ Sound(heap', new)
      /\ Separate(source, new) /\ Separate(new, source)
      /\ AllDuplicable(new)
      /\ Present(new) = Present(source)
      /\ \A i \in Present(source) :
            /\ new[i].mode = source[i].mode
            /\ \A f \in Pointers :
                  /\ new[i].ptr[f] = Null <=> source[i].ptr[f] = Null
                  /\ source[i].ptr[f] # Null =>
                        /\ heap'[source[i].ptr[f]] = heap[source[i].ptr[f]]
                        /\ heap'[new[i].ptr[f]] = Strdup(heap[source[i].ptr[f]])
  BY <1>1, <1>3, <1>5, CopyOf
<1>7. IsCopy(heap', heap, new, source)
  BY <1>6 DEF IsCopy
<1>8. QED
  BY <1>1, <1>3, <1>4, <1>6, <1>7

\* Whatever is copied, the copy's pointers lead to cells, and cells hold values.
LEMMA ReplaceType ==
    ASSUME NEW old \in Object, NEW source \in Object, NEW new, NEW after,
           heap \in [Addr -> Values \cup {Cut, Free}], misuse \in BOOLEAN, whole \in BOOLEAN,
           Replace(old, source, new, after)
    PROVE  /\ new \in Object
           /\ heap' \in [Addr -> Values \cup {Cut, Free}]
           /\ misuse' \in BOOLEAN /\ whole' \in BOOLEAN /\ phase' \in {after, "crashed"}
<1> DEFINE released == Release(heap, Cells(old, Owned(old)))
<1>1. whole' \in BOOLEAN
  BY DEF Replace
<1>2. CASE NoUri(source)
  BY <1>1, <1>2 DEF Replace
<1>3. CASE ~NoUri(source)
  <2>1. PICK cells \in Fresh(released, Owned(source)) :
           /\ phase' = after
           /\ new = Copied(source, cells)
           /\ heap' = CopiedHeap(released, source, cells)
           /\ misuse' = (misuse \/ BadFree(heap, old, Owned(old))
                          \/ Cells(source, Owned(source)) \cap FreeCells(released) # {})
    BY <1>3 DEF Replace
  <2>2. released \in [Addr -> Values \cup {Cut, Free}]
    BY DEF Release
  <2> HIDE DEF released
  <2>3. DOMAIN cells = Owned(source) /\ \A s \in DOMAIN cells : cells[s] \in Addr
    BY DEF Fresh, FreeCells
  <2>4. ASSUME NEW i \in Ids, source[i] # NoInst
        PROVE  new[i] \in Instance
    <3> DEFINE ptr == [f \in Pointers |-> IF <<i, f>> \in DOMAIN cells THEN cells[<<i, f>>]
                                                                    ELSE source[i].ptr[f]]
    <3>1. source[i] \in Instance
      BY <2>4 DEF Object
    <3>2. ptr \in [Pointers -> Addr \cup {Null}]
      BY <2>3, <3>1 DEF Instance
    <3>3. new[i] = [source[i] EXCEPT !.ptr = ptr]
      BY <2>1, <2>4 DEF Copied
    <3> HIDE DEF ptr
    <3>4. new[i] = [mode |-> source[i].mode, ptr |-> ptr]
      BY <3>1, <3>3 DEF Instance
    <3>5. source[i].mode \in Modes
      BY <3>1 DEF Instance
    <3>6. QED
      BY <3>2, <3>4, <3>5 DEF Instance
  <2>5. new \in Object
    <3>1. new = [i \in Ids |-> new[i]] /\ \A i \in Ids : source[i] = NoInst => new[i] = NoInst
      BY <2>1 DEF Copied
    <3>2. QED
      BY <2>4, <3>1 DEF Object
  <2>6. heap' \in [Addr -> Values \cup {Cut, Free}]
    <3>1. SUFFICES ASSUME NEW s \in DOMAIN cells
                   PROVE  Strdup(released[Cell(source, s)]) \in Values \cup {Cut, Free}
      BY <2>1, <2>2 DEF CopiedHeap
    <3>2. s[1] \in Present(source) /\ s[2] \in Pointers /\ source[s[1]].ptr[s[2]] # Null
      BY <2>3, SlotIs
    <3>3. Cell(source, s) \in Addr
      BY <3>2 DEF Cell, Object, Present, Instance
    <3>4. QED
      BY <2>2, <3>3 DEF Strdup
  <2>7. QED
    BY <1>1, <2>1, <2>5, <2>6
<1>4. QED
  BY <1>2, <1>3

\* An object that is empty is sound anywhere, separate from all, and copied whole.
LEMMA EmptySound ==
    ASSUME NEW h, NEW object
    PROVE  /\ Present(Empty) = {} /\ Empty \in Object
           /\ Sound(h, Empty) /\ Separate(Empty, object) /\ Separate(object, Empty)
           /\ AllDuplicable(Empty)
<1>1. Present(Empty) = {} /\ Empty \in Object
  BY DEF Present, Empty, Object
<1>2. QED
  BY <1>1 DEF Sound, Apart, Allocated, Separate, AllDuplicable

\* get_security_object gives every pointer a buffer of its own.
LEMMA InitIInv == Init => IInv
<1>1. SUFFICES ASSUME Init PROVE IInv
  OBVIOUS
<1>2. PICK i \in Ids, text \in Text, key \in Values, keys \in SUBSET Keys :
        LET given == {"uri"} \cup keys
            mode  == IF keys # {} THEN "psk" ELSE "other"
        IN  \E f \in [given -> Addr] :
              /\ \A p, q \in given : p # q => f[p] # f[q]
              /\ heap = [a \in Addr |->
                           IF \A p \in given : f[p] # a THEN Free
                           ELSE IF "secretKey" \in given /\ f["secretKey"] = a
                                THEN key ELSE text]
              /\ live = [Empty EXCEPT ![i] =
                           [mode |-> mode,
                            ptr |-> [p \in Pointers |->
                                       IF p \in given THEN f[p] ELSE Null]]]
  BY <1>1 DEF Init
<1> DEFINE given == {"uri"} \cup keys
           mode  == IF keys # {} THEN "psk" ELSE "other"
<1>3. PICK f \in [given -> Addr] :
        /\ \A p, q \in given : p # q => f[p] # f[q]
        /\ heap = [a \in Addr |->
                     IF \A p \in given : f[p] # a THEN Free
                     ELSE IF "secretKey" \in given /\ f["secretKey"] = a
                          THEN key ELSE text]
        /\ live = [Empty EXCEPT ![i] =
                     [mode |-> mode,
                      ptr |-> [p \in Pointers |-> IF p \in given THEN f[p] ELSE Null]]]
  BY <1>2
<1> DEFINE ptr == [p \in Pointers |-> IF p \in given THEN f[p] ELSE Null]
<1>4. /\ given \subseteq Pointers /\ mode \in Modes
      /\ ptr \in [Pointers -> Addr \cup {Null}]
  BY DEF Pointers, Keys, Modes
<1>5. /\ live \in Object
      /\ Present(live) = {i}
      /\ live[i].mode = mode /\ live[i].ptr = ptr
  <2>1. live = [j \in Ids |-> IF j = i THEN [mode |-> mode, ptr |-> ptr] ELSE NoInst]
    BY <1>3 DEF Empty
  <2>2. [mode |-> mode, ptr |-> ptr] \in Instance
    BY <1>4 DEF Instance
  <2>3. [mode |-> mode, ptr |-> ptr] # NoInst
    BY <2>2, ConstantsAssumption DEF Instance
  <2> HIDE DEF mode, ptr
  <2>4. QED
    BY <2>1, <2>2, <2>3 DEF Object, Present
<1>6. \A p \in Pointers : ptr[p] # Null => /\ p \in given /\ ptr[p] = f[p]
  OBVIOUS
<1>7. Sound(heap, live)
  <2>2. Apart(live)
    <3>1. SUFFICES ASSUME NEW p \in Pointers, NEW q \in Pointers, ptr[p] # Null, ptr[p] = ptr[q]
                   PROVE  p = q
      BY <1>5 DEF Apart
    <3>2. p \in given /\ q \in given /\ f[p] = f[q]
      BY <1>6, <3>1
    <3>3. QED
      BY <1>3, <3>2
  <2>3. Allocated(heap, live)
    <3>1. SUFFICES ASSUME NEW p \in Pointers, ptr[p] # Null PROVE heap[f[p]] # Free
      BY <1>5, <1>6 DEF Allocated
    <3>2. p \in given /\ f[p] \in Addr
      BY <1>6, <3>1
    <3>3. heap[f[p]] = key \/ heap[f[p]] = text
      BY <1>3, <3>2
    <3>4. key # Free /\ text # Free
      BY ConstantsAssumption DEF Values
    <3>5. QED
      BY <3>3, <3>4
  <2>4. QED
    BY <2>2, <2>3 DEF Sound
<1>8. heap \in [Addr -> Values \cup {Cut, Free}]
  BY <1>3 DEF Values
<1>9. QED
  BY <1>1, <1>5, <1>7, <1>8, EmptySound DEF Init, IInv, TypeOK, Strong

-----------------------------------------------------------------------------
(* Types, which need nothing of the memory's soundness. *)

LEMMA ReleaseType ==
    ASSUME NEW h \in [Addr -> Values \cup {Cut, Free}], NEW cells
    PROVE  Release(h, cells) \in [Addr -> Values \cup {Cut, Free}]
  BY DEF Release

LEMMA ZeroedType == \A mode \in Modes : Zeroed(mode) \in Instance
  BY DEF Zeroed, Instance

LEMMA WriteType ==
    ASSUME TypeOK, NEW i \in Ids, NEW f \in Pointers, NEW v \in ValuesOf(f), Write(i, f, v)
    PROVE  TypeOK'
<1> DEFINE old == {live[i].ptr[f]} \ {Null}
           released == Release(heap, old)
<1>1. PICK a \in FreeCells(released) :
         /\ heap' = [released EXCEPT ![a] = v]
         /\ live' = [live EXCEPT ![i].ptr[f] = a]
         /\ misuse' = (misuse \/ old \cap FreeCells(heap) # {})
  BY DEF Write
<1>2. /\ heap \in [Addr -> Values \cup {Cut, Free}] /\ live \in Object /\ live[i] # NoInst
      /\ UNCHANGED <<backup, phase, whole, saved, restored>>
  BY DEF TypeOK, Write
<1>3. a \in Addr /\ v \in Values
  BY DEF FreeCells, ValuesOf, Values
<1>4. heap' \in [Addr -> Values \cup {Cut, Free}]
  <2>1. released \in [Addr -> Values \cup {Cut, Free}]
    BY <1>2, ReleaseType
  <2>2. QED
    BY <1>1, <1>3, <2>1
<1>5. live' \in Object
  <2>1. live[i] \in Instance
    BY <1>2 DEF Object
  <2>2. live'[i] = [live[i] EXCEPT !.ptr = [live[i].ptr EXCEPT ![f] = a]]
    BY <1>1, <1>2 DEF Object
  <2>3. [live[i].ptr EXCEPT ![f] = a] \in [Pointers -> Addr \cup {Null}]
    BY <1>3, <2>1 DEF Instance
  <2>4. live'[i] \in Instance
    BY <2>1, <2>2, <2>3 DEF Instance
  <2>5. QED
    BY <1>1, <1>2, <2>4 DEF Object
<1>6. misuse' \in BOOLEAN
  BY <1>1
<1>7. QED
  BY <1>2, <1>4, <1>5, <1>6 DEF TypeOK

LEMMA TypeStep == TypeOK /\ [Next]_vars => TypeOK'
<1> SUFFICES ASSUME TypeOK, [Next]_vars PROVE TypeOK'
  OBVIOUS
<1>0. /\ heap \in [Addr -> Values \cup {Cut, Free}]
      /\ live \in Object /\ backup \in Object
      /\ misuse \in BOOLEAN /\ whole \in BOOLEAN /\ restored \in BOOLEAN
  BY DEF TypeOK
<1>1. CASE Backup
  <2>1. Replace(backup, live, backup', "session") /\ restored' = FALSE /\ live' = live
    BY <1>1 DEF Backup
  <2>2. /\ backup' \in Object /\ heap' \in [Addr -> Values \cup {Cut, Free}]
        /\ misuse' \in BOOLEAN /\ whole' \in BOOLEAN /\ phase' \in {"session", "crashed"}
    BY <1>0, <2>1, ReplaceType
  <2>3. QED
    BY <1>0, <2>1, <2>2 DEF TypeOK
<1>2. CASE Restore
  <2>1. Replace(live, backup, live', "idle") /\ restored' = TRUE /\ backup' = backup
    BY <1>2 DEF Restore
  <2>2. /\ live' \in Object /\ heap' \in [Addr -> Values \cup {Cut, Free}]
        /\ misuse' \in BOOLEAN /\ whole' \in BOOLEAN /\ phase' \in {"idle", "crashed"}
    BY <1>0, <2>1, ReplaceType
  <2>3. QED
    BY <1>0, <2>1, <2>2 DEF TypeOK
<1>3. CASE Finish
  BY <1>3 DEF Finish, TypeOK
<1>4. CASE CloseBackup \/ CleanLive
  <2>1. heap' \in [Addr -> Values \cup {Cut, Free}]
    BY <1>0, <1>4, ReleaseType DEF CloseBackup, CleanLive
  <2>2. Empty \in Object
    BY EmptySound
  <2>3. QED
    BY <1>4, <2>1, <2>2 DEF CloseBackup, CleanLive, TypeOK
<1>5. CASE \E i \in Ids, f \in Resources : \E v \in ValuesOf(f) : Write(i, f, v)
  BY <1>5, WriteType, ConstantsAssumption
<1>6. CASE \E i \in Ids, f \in Resources : \E v \in ValuesOf(f) : CreateRefused(i, f, v)
  <2>1. PICK i \in Ids, f \in Resources, v \in Values : CreateRefused(i, f, v)
    BY <1>6 DEF ValuesOf, Values
  <2>2. heap' \in [Addr -> Values \cup {Cut, Free}]
    BY <1>0, <2>1 DEF CreateRefused, FreeCells
  <2>3. QED
    BY <2>1, <2>2 DEF CreateRefused, TypeOK
<1>7. CASE \E i \in Ids, mode \in NewModes : WriteMode(i, mode)
  <2>1. PICK i \in Ids, mode \in Modes : WriteMode(i, mode)
    BY <1>7, ConstantsAssumption
  <2>2. live[i] \in Instance
    BY <1>0, <2>1 DEF WriteMode, Object
  <2>3. live' = [live EXCEPT ![i] = [live[i] EXCEPT !.mode = mode]]
    BY <1>0, <2>1 DEF WriteMode, Object
  <2>4. [live[i] EXCEPT !.mode = mode] \in Instance
    BY <2>2 DEF Instance
  <2>5. live' \in Object
    BY <1>0, <2>3, <2>4 DEF Object
  <2>6. QED
    BY <2>1, <2>5 DEF WriteMode, TypeOK
<1>8. CASE \E i \in Ids : Create(i)
  <2>1. live' \in Object
    BY <1>0, <1>8, ZeroedType DEF Create, Object, Modes
  <2>2. QED
    BY <1>8, <2>1 DEF Create, TypeOK
<1>9. CASE \E i \in Ids : Delete(i)
  <2>1. PICK i \in Ids : Delete(i)
    BY <1>9
  <2>2. live' \in Object
    BY <1>0, <2>1 DEF Delete, Object
  <2>3. heap' \in [Addr -> Values \cup {Cut, Free}]
    BY <1>0, <2>1, ReleaseType DEF Delete
  <2>4. misuse' \in BOOLEAN /\ UNCHANGED <<backup, phase, whole, restored>>
    BY <2>1 DEF Delete
  <2>5. QED
    BY <2>2, <2>3, <2>4 DEF TypeOK
<1>10. CASE UNCHANGED vars
  BY <1>10 DEF vars, TypeOK
<1>11. QED
  BY <1>1, <1>2, <1>3, <1>4, <1>5, <1>6, <1>7, <1>8, <1>9, <1>10 DEF Next

-----------------------------------------------------------------------------
(* What each step does to the memory. *)

\* A write gives one pointer a cell that is free, once the old one has been freed.
LEMMA WriteStrong ==
    ASSUME TypeOK, Strong, NEW i \in Ids, NEW f \in Pointers, NEW v \in ValuesOf(f),
           Write(i, f, v)
    PROVE  Strong' /\ Agree(heap', heap, backup)
<1> DEFINE old      == {live[i].ptr[f]} \ {Null}
           released == Release(heap, old)
<1>1. PICK a \in FreeCells(released) :
         /\ heap' = [released EXCEPT ![a] = v]
         /\ live' = [live EXCEPT ![i].ptr[f] = a]
         /\ misuse' = (misuse \/ old \cap FreeCells(heap) # {})
  BY DEF Write
<1>2. /\ live \in Object /\ backup \in Object
      /\ heap \in [Addr -> Values \cup {Cut, Free}]
      /\ ~misuse /\ phase # "crashed"
  BY DEF Strong, TypeOK
<1>3. Sound(heap, live) /\ Sound(heap, backup) /\ Separate(live, backup) /\ Separate(backup, live)
  BY DEF Strong
<1>4. live[i] # NoInst /\ live[i] \in Instance /\ i \in Present(live)
  BY <1>2 DEF Write, Object, Present
<1>5. NoInst \notin Instance /\ Null \notin Addr /\ v # Free /\ v \in Values
  BY ConstantsAssumption DEF Instance, ValuesOf, Values
<1>6. a \in Addr /\ released[a] = Free
  BY DEF FreeCells
<1>7. /\ heap' \in [Addr -> Values \cup {Cut, Free}]
      /\ heap'[a] = v
      /\ \A b \in Addr : b \notin old /\ heap[b] # Free => b # a /\ heap'[b] = heap[b]
  BY <1>1, <1>2, <1>5, <1>6 DEF Release
<1>8. /\ live' \in Object /\ Present(live') = Present(live)
      /\ \A j \in Present(live) :
            /\ live'[j].mode = live[j].mode
            /\ \A g \in Pointers :
                  live'[j].ptr[g] = IF j = i /\ g = f THEN a ELSE live[j].ptr[g]
  <2>1. \A j \in Present(live) : live[j] \in Instance
    BY <1>2 DEF Object, Present
  <2>2. live'[i] = [live[i] EXCEPT !.ptr = [live[i].ptr EXCEPT ![f] = a]]
    BY <1>1, <1>2 DEF Object
  <2>3. [live[i].ptr EXCEPT ![f] = a] \in [Pointers -> Addr \cup {Null}]
    BY <1>4, <1>6 DEF Instance
  <2>4. live'[i] \in Instance
    BY <1>4, <2>2, <2>3 DEF Instance
  <2>5. \A j \in Ids : j # i => live'[j] = live[j]
    BY <1>1, <1>2 DEF Object
  <2>6. \A g \in Pointers : live'[i].ptr[g] = IF g = f THEN a ELSE live[i].ptr[g]
    BY <1>4, <2>2 DEF Instance
  <2>7. live'[i].mode = live[i].mode
    BY <1>4, <2>2 DEF Instance
  <2>8. live' \in Object
    BY <1>1, <1>2, <2>4 DEF Object
  <2>9. Present(live') = Present(live)
    BY <1>4, <1>5, <2>4, <2>5 DEF Present
  <2>10. QED
    <3>1. Present(live) \subseteq Ids
      BY DEF Present
    <3>2. QED
      BY <2>5, <2>6, <2>7, <2>8, <2>9, <3>1
<1>9. \A j \in Present(live), g \in Pointers : live[j].ptr[g] # Null =>
         /\ live[j].ptr[g] \in Addr /\ heap[live[j].ptr[g]] # Free
         /\ ~(j = i /\ g = f) => live[j].ptr[g] \notin old
  <2>1. SUFFICES ASSUME NEW j \in Present(live), NEW g \in Pointers, live[j].ptr[g] # Null
                 PROVE  /\ live[j].ptr[g] \in Addr /\ heap[live[j].ptr[g]] # Free
                        /\ ~(j = i /\ g = f) => live[j].ptr[g] \notin old
    OBVIOUS
  <2>2. live[j].ptr[g] \in Addr
    BY <1>2, <2>1 DEF Object, Present, Instance
  <2>3. heap[live[j].ptr[g]] # Free
    BY <1>3, <2>1 DEF Sound, Allocated
  <2>4. ~(j = i /\ g = f) => live[j].ptr[g] \notin old
    BY <1>3, <1>4, <2>1 DEF Sound, Apart
  <2>5. QED
    BY <2>2, <2>3, <2>4
<1>10. \A j \in Present(backup), g \in Pointers : backup[j].ptr[g] # Null =>
          /\ backup[j].ptr[g] \in Addr /\ heap[backup[j].ptr[g]] # Free
          /\ backup[j].ptr[g] \notin old
  <2>1. SUFFICES ASSUME NEW j \in Present(backup), NEW g \in Pointers, backup[j].ptr[g] # Null
                 PROVE  /\ backup[j].ptr[g] \in Addr /\ heap[backup[j].ptr[g]] # Free
                        /\ backup[j].ptr[g] \notin old
    OBVIOUS
  <2>2. backup[j].ptr[g] \in Addr
    BY <1>2, <2>1 DEF Object, Present, Instance
  <2>3. heap[backup[j].ptr[g]] # Free
    BY <1>3, <2>1 DEF Sound, Allocated
  <2>4. backup[j].ptr[g] \notin old
    BY <1>3, <1>4, <2>1 DEF Separate
  <2>5. QED
    BY <2>2, <2>3, <2>4
<1> HIDE DEF old, released
<1>11. Agree(heap', heap, backup)
  BY <1>7, <1>10 DEF Agree
<1>12. Sound(heap', live')
  <2>2. Apart(live')
    <3>1. SUFFICES ASSUME NEW j \in Present(live), NEW k \in Present(live),
                          NEW g \in Pointers, NEW p \in Pointers,
                          live'[j].ptr[g] # Null, live'[j].ptr[g] = live'[k].ptr[p]
                   PROVE  j = k /\ g = p
      BY <1>8 DEF Apart
    <3>2. \A l \in Present(live), q \in Pointers :
             ~(l = i /\ q = f) /\ live[l].ptr[q] # Null => live[l].ptr[q] # a
      BY <1>7, <1>9
    <3>3. CASE j = i /\ g = f
      BY <1>5, <1>6, <1>8, <3>1, <3>2, <3>3
    <3>4. CASE k = i /\ p = f
      BY <1>5, <1>6, <1>8, <3>1, <3>2, <3>4
    <3>5. CASE ~(j = i /\ g = f) /\ ~(k = i /\ p = f)
      <4>1. live[j].ptr[g] # Null /\ live[j].ptr[g] = live[k].ptr[p]
        BY <1>8, <3>1, <3>5
      <4>2. QED
        BY <1>3, <4>1 DEF Sound, Apart
    <3>6. QED
      BY <3>3, <3>4, <3>5
  <2>3. Allocated(heap', live')
    <3>1. SUFFICES ASSUME NEW j \in Present(live), NEW g \in Pointers, live'[j].ptr[g] # Null
                   PROVE  heap'[live'[j].ptr[g]] # Free
      BY <1>8 DEF Allocated
    <3>2. CASE j = i /\ g = f
      BY <1>5, <1>7, <1>8, <3>2
    <3>3. CASE ~(j = i /\ g = f)
      <4>1. live'[j].ptr[g] = live[j].ptr[g]
        BY <1>8, <3>3
      <4>2. QED
        BY <1>7, <1>9, <3>1, <3>3, <4>1
    <3>4. QED
      BY <3>2, <3>3
  <2>4. QED
    BY <2>2, <2>3 DEF Sound
<1>13. Separate(live', backup) /\ Separate(backup, live')
  <2>1. ASSUME NEW j \in Present(live), NEW k \in Present(backup),
               NEW g \in Pointers, NEW p \in Pointers, backup[k].ptr[p] # Null
        PROVE  backup[k].ptr[p] # live'[j].ptr[g]
    <3>1. backup[k].ptr[p] # a
      BY <1>7, <1>10, <2>1
    <3>2. CASE j = i /\ g = f
      BY <1>8, <3>1, <3>2
    <3>3. CASE ~(j = i /\ g = f)
      BY <1>3, <1>8, <2>1, <3>3 DEF Separate
    <3>4. QED
      BY <3>2, <3>3
  <2>2. QED
    BY <1>8, <2>1 DEF Separate
<1>14. misuse' = FALSE
  <2>1. old \cap FreeCells(heap) = {}
    BY <1>4, <1>9 DEF old, FreeCells
  <2>2. QED
    BY <1>1, <1>2, <2>1
<1>15. UNCHANGED <<backup, phase>> /\ AllDuplicable(backup)
  BY DEF Write, Strong
<1>16. Sound(heap', backup)
  BY <1>3, <1>11, SoundKept
<1>17. QED
  BY <1>2, <1>11, <1>12, <1>13, <1>14, <1>15, <1>16 DEF Strong

\* A change of the mode moves no pointer.
LEMMA WriteModeStrong ==
    ASSUME TypeOK, Strong, NEW i \in Ids, NEW mode \in Modes, WriteMode(i, mode)
    PROVE  Strong' /\ Agree(heap', heap, backup)
<1>1. /\ live[i] # NoInst
      /\ live' = [live EXCEPT ![i].mode = mode]
      /\ UNCHANGED <<heap, backup, phase, misuse>>
  BY DEF WriteMode
<1>2. live \in Object /\ live[i] \in Instance /\ NoInst \notin Instance
  BY <1>1, ConstantsAssumption DEF TypeOK, Object, Instance
<1>3. /\ live'[i] = [live[i] EXCEPT !.mode = mode]
      /\ \A j \in Ids : j # i => live'[j] = live[j]
  BY <1>1, <1>2 DEF Object
<1>4. live'[i] \in Instance /\ live'[i].ptr = live[i].ptr
  BY <1>2, <1>3 DEF Instance
<1>5. Present(live') = Present(live)
  BY <1>1, <1>2, <1>3, <1>4 DEF Present
<1>6. \A j \in Present(live) : live'[j].ptr = live[j].ptr
  BY <1>3, <1>4 DEF Present
<1>7. Sound(heap', live')
  <2>1. Apart(live')
    BY <1>5, <1>6 DEF Strong, Sound, Apart
  <2>2. Allocated(heap', live')
    BY <1>1, <1>5, <1>6 DEF Strong, Sound, Allocated
  <2>3. QED
    BY <2>1, <2>2 DEF Sound
<1>8. Separate(live', backup') /\ Separate(backup', live')
  <2>1. Separate(live', backup)
    BY <1>5, <1>6 DEF Strong, Separate
  <2>2. Separate(backup, live')
    BY <1>5, <1>6 DEF Strong, Separate
  <2>3. QED
    BY <1>1, <2>1, <2>2
<1>9. QED
  BY <1>1, <1>7, <1>8 DEF Strong, Agree

\* A new instance has no pointers.
LEMMA CreateStrong ==
    ASSUME TypeOK, Strong, NEW i \in Ids, Create(i)
    PROVE  Strong' /\ Agree(heap', heap, backup)
<1>1. /\ live[i] = NoInst /\ live' = [live EXCEPT ![i] = Zeroed("psk")]
      /\ UNCHANGED <<heap, backup, phase, misuse>>
  BY DEF Create
<1>2. /\ live \in Object /\ backup \in Object /\ Null \notin Addr
      /\ Zeroed("psk") \in Instance /\ NoInst \notin Instance
  BY ConstantsAssumption, ZeroedType DEF TypeOK, Modes, Instance
<1>3. /\ Present(live') = Present(live) \cup {i}
      /\ \A j \in Present(live) : j # i /\ live'[j] = live[j]
      /\ \A f \in Pointers : live'[i].ptr[f] = Null
  BY <1>1, <1>2 DEF Object, Present, Zeroed
<1>4. Sound(heap', live')
  <2>1. Apart(live')
    BY <1>3 DEF Strong, Sound, Apart
  <2>2. Allocated(heap', live')
    BY <1>1, <1>3 DEF Strong, Sound, Allocated
  <2>3. QED
    BY <2>1, <2>2 DEF Sound
<1>5. Separate(live', backup') /\ Separate(backup', live')
  <2>1. Separate(live', backup)
    BY <1>3 DEF Strong, Separate
  <2>2. Separate(backup, live')
    BY <1>3 DEF Strong, Separate
  <2>3. QED
    BY <1>1, <2>1, <2>2
<1>6. QED
  BY <1>1, <1>4, <1>5 DEF Strong, Agree

\* A creation that is refused takes at most a free cell.
LEMMA CreateRefusedStrong ==
    ASSUME TypeOK, Strong, NEW i \in Ids, NEW f \in Pointers, NEW v \in Values,
           CreateRefused(i, f, v)
    PROVE  Strong' /\ Agree(heap', heap, backup)
<1>1. /\ \A a \in Addr : heap[a] # Free => heap'[a] = heap[a]
      /\ UNCHANGED <<live, backup, phase, misuse>>
  BY DEF CreateRefused, FreeCells, TypeOK
<1>2. \A object \in Object : Sound(heap, object) => Agree(heap', heap, object)
  <2>1. SUFFICES ASSUME NEW object \in Object, Sound(heap, object),
                        NEW j \in Present(object), NEW g \in Pointers, object[j].ptr[g] # Null
                 PROVE  heap'[object[j].ptr[g]] = heap[object[j].ptr[g]]
    BY DEF Agree
  <2>2. object[j].ptr[g] \in Addr
    BY <2>1 DEF Object, Present, Instance
  <2>3. heap[object[j].ptr[g]] # Free
    BY <2>1 DEF Sound, Allocated
  <2>4. QED
    BY <1>1, <2>2, <2>3
<1>3. Agree(heap', heap, live) /\ Agree(heap', heap, backup)
  BY <1>2 DEF Strong, TypeOK
<1>4. Sound(heap', live) /\ Sound(heap', backup)
  BY <1>3, SoundKept DEF Strong
<1>5. QED
  BY <1>1, <1>3, <1>4 DEF Strong

\* What is freed of one object leaves another alone that is separate.
LEMMA ReleaseKeeps ==
    ASSUME NEW h \in [Addr -> Values \cup {Cut, Free}],
           NEW kept \in Object, NEW freed, Separate(kept, freed),
           NEW slots \in SUBSET Owned(freed)
    PROVE  Agree(Release(h, Cells(freed, slots)), h, kept)
<1>1. SUFFICES ASSUME NEW i \in Present(kept), NEW f \in Pointers, kept[i].ptr[f] # Null
               PROVE  Release(h, Cells(freed, slots))[kept[i].ptr[f]] = h[kept[i].ptr[f]]
  BY DEF Agree
<1>2. kept[i].ptr[f] \in Addr
  BY <1>1 DEF Object, Present, Instance
<1>3. kept[i].ptr[f] \notin Cells(freed, slots)
  <2>1. SUFFICES ASSUME NEW s \in slots PROVE kept[i].ptr[f] # Cell(freed, s)
    BY DEF Cells
  <2>2. QED
    BY <1>1, SlotIs DEF Separate, Cell
<1>4. QED
  BY <1>2, <1>3 DEF Release

\* A deletion frees the URI, which no other slot holds.
LEMMA DeleteStrong ==
    ASSUME TypeOK, Strong, NEW i \in Ids, Delete(i)
    PROVE  Strong' /\ Agree(heap', heap, backup)
<1> DEFINE slots == {<<i, "uri">>} \cap Owned(live)
<1>1. /\ live[i] # NoInst
      /\ heap' = Release(heap, Cells(live, slots))
      /\ live' = [live EXCEPT ![i] = NoInst]
      /\ misuse' = (misuse \/ BadFree(heap, live, slots))
      /\ UNCHANGED <<backup, phase>>
  BY DEF Delete
<1>2. /\ live \in Object /\ backup \in Object /\ ~misuse /\ phase # "crashed"
      /\ heap \in [Addr -> Values \cup {Cut, Free}]
      /\ AllDuplicable(backup)
      /\ Sound(heap, live) /\ Sound(heap, backup)
      /\ Separate(live, backup) /\ Separate(backup, live)
  BY DEF Strong, TypeOK
<1>3. slots \in SUBSET Owned(live) /\ \A s \in slots : s = <<i, "uri">>
  OBVIOUS
<1> HIDE DEF slots
<1>5. ~BadFree(heap, live, slots)
  BY <1>2, <1>3, GoodFree
<1>6. Agree(heap', heap, backup)
  BY <1>1, <1>2, <1>3, ReleaseKeeps
<1>7. /\ live' \in Object
      /\ Present(live') = Present(live) \ {i}
      /\ \A j \in Present(live') : live'[j] = live[j]
  BY <1>1, <1>2 DEF Object, Present
<1>8. Sound(heap', live')
  <2>1. Sound(heap, live')
    BY <1>2, <1>7 DEF Sound, Apart, Allocated
  <2>2. Separate(live', backup) /\ Separate(backup, live')
    BY <1>2, <1>7 DEF Separate
  <2>3. Agree(heap', heap, live')
    <3>1. SUFFICES ASSUME NEW j \in Present(live'), NEW f \in Pointers, live'[j].ptr[f] # Null
                   PROVE  heap'[live'[j].ptr[f]] = heap[live'[j].ptr[f]]
      BY DEF Agree
    <3>2. live'[j].ptr[f] \in Addr
      BY <1>7, <3>1 DEF Object, Present, Instance
    <3>3. live'[j].ptr[f] \notin Cells(live, slots)
      <4>1. SUFFICES ASSUME NEW s \in slots PROVE live'[j].ptr[f] # Cell(live, s)
        BY DEF Cells
      <4>2. s = <<i, "uri">> /\ s \in Owned(live)
        BY <1>3
      <4>3. Cell(live, s) = live[i].ptr["uri"] /\ i \in Present(live) /\ "uri" \in Pointers
        BY <4>2 DEF Cell, Owned, Pointers
      <4>4. j \in Present(live) /\ j # i /\ live'[j] = live[j]
        BY <1>7
      <4>5. QED
        BY <1>2, <3>1, <4>3, <4>4 DEF Sound, Apart
    <3>4. QED
      BY <1>1, <3>2, <3>3 DEF Release
  <2>4. QED
    BY <2>1, <2>3, SoundKept
<1>9. Separate(live', backup) /\ Separate(backup, live')
  BY <1>2, <1>7 DEF Separate
<1>10. Sound(heap', backup)
  BY <1>2, <1>6, SoundKept
<1>11. QED
  BY <1>1, <1>2, <1>5, <1>6, <1>8, <1>9, <1>10 DEF Strong

LEMMA BackupStrong ==
    ASSUME TypeOK, Strong, Backup, whole'
    PROVE  Strong'
<1>1. Replace(backup, live, backup', "session") /\ live' = live
  BY DEF Backup
<1>2. /\ live \in Object /\ backup \in Object /\ ~misuse
      /\ heap \in [Addr -> Values \cup {Cut, Free}]
      /\ Sound(heap, live) /\ Sound(heap, backup) /\ Separate(live, backup)
  BY DEF Strong, TypeOK
<1>3. /\ misuse' = FALSE /\ phase' = "session"
      /\ Sound(heap', live) /\ Sound(heap', backup')
      /\ Separate(live, backup') /\ Separate(backup', live)
      /\ AllDuplicable(backup')
  BY <1>1, <1>2, ReplaceStep
<1>4. QED
  BY <1>1, <1>3 DEF Strong

LEMMA RestoreStrong ==
    ASSUME TypeOK, Strong, Restore, whole'
    PROVE  Strong'
<1>1. Replace(live, backup, live', "idle") /\ backup' = backup
  BY DEF Restore
<1>2. /\ live \in Object /\ backup \in Object /\ ~misuse
      /\ heap \in [Addr -> Values \cup {Cut, Free}]
      /\ Sound(heap, live) /\ Sound(heap, backup) /\ Separate(backup, live)
      /\ AllDuplicable(backup)
  BY DEF Strong, TypeOK
<1>3. /\ misuse' = FALSE /\ phase' = "idle"
      /\ Sound(heap', backup) /\ Sound(heap', live')
      /\ Separate(backup, live') /\ Separate(live', backup)
  BY <1>1, <1>2, ReplaceStep
<1>4. QED
  BY <1>1, <1>2, <1>3 DEF Strong

\* close_backup_object and clean_security_object of the live object.
LEMMA CloseStrong ==
    ASSUME TypeOK, Strong, CloseBackup \/ CleanLive
    PROVE  Strong'
<1>1. /\ live \in Object /\ backup \in Object /\ ~misuse
      /\ heap \in [Addr -> Values \cup {Cut, Free}]
      /\ Sound(heap, live) /\ Sound(heap, backup)
      /\ Separate(live, backup) /\ Separate(backup, live)
      /\ AllDuplicable(backup)
  BY DEF Strong, TypeOK
<1>2. CASE CloseBackup
  <2>1. /\ heap' = Release(heap, Cells(backup, Owned(backup)))
        /\ misuse' = (misuse \/ BadFree(heap, backup, Owned(backup)))
        /\ phase' = "closing" /\ backup' = Empty /\ live' = live
    BY <1>2 DEF CloseBackup
  <2>2. Agree(heap', heap, live)
    BY <1>1, <2>1, ReleaseKeeps
  <2>3. Sound(heap', live)
    BY <1>1, <2>2, SoundKept
  <2>4. ~BadFree(heap, backup, Owned(backup))
    BY <1>1, GoodFree
  <2>5. QED
    BY <1>1, <2>1, <2>3, <2>4, EmptySound DEF Strong
<1>3. CASE CleanLive
  <2>1. /\ heap' = Release(heap, Cells(live, Owned(live)))
        /\ misuse' = (misuse \/ BadFree(heap, live, Owned(live)))
        /\ phase' = "closed" /\ live' = Empty /\ backup' = backup
    BY <1>3 DEF CleanLive
  <2>2. Agree(heap', heap, backup)
    BY <1>1, <2>1, ReleaseKeeps
  <2>3. Sound(heap', backup)
    BY <1>1, <2>2, SoundKept
  <2>4. ~BadFree(heap, live, Owned(live))
    BY <1>1, GoodFree
  <2>5. QED
    BY <1>1, <2>1, <2>3, <2>4, EmptySound DEF Strong
<1>4. QED
  BY <1>2, <1>3

\* A copy that was not whole stays in the history.
LEMMA WholeStep ==
    ASSUME [Next]_vars, whole' PROVE whole
  BY DEF Next, vars, Backup, Finish, Restore, CloseBackup, CleanLive, Replace, Write, WriteMode,
         Create, CreateRefused, Delete

LEMMA IInvStep == IInv /\ [Next]_vars => IInv'
<1> SUFFICES ASSUME IInv, [Next]_vars, whole' PROVE Strong'
  BY TypeStep DEF IInv
<1>0. TypeOK /\ Strong
  BY WholeStep DEF IInv
<1>1. CASE Backup
  BY <1>0, <1>1, BackupStrong
<1>2. CASE Finish
  BY <1>0, <1>2 DEF Finish, Strong
<1>3. CASE Restore
  BY <1>0, <1>3, RestoreStrong
<1>4. CASE CloseBackup \/ CleanLive
  BY <1>0, <1>4, CloseStrong
<1>5. CASE \E i \in Ids, f \in Resources : \E v \in ValuesOf(f) : Write(i, f, v)
  BY <1>0, <1>5, WriteStrong, ConstantsAssumption
<1>6. CASE \E i \in Ids, f \in Resources : \E v \in ValuesOf(f) : CreateRefused(i, f, v)
  BY <1>0, <1>6, CreateRefusedStrong, ConstantsAssumption DEF ValuesOf, Values
<1>7. CASE \E i \in Ids, mode \in NewModes : WriteMode(i, mode)
  BY <1>0, <1>7, WriteModeStrong, ConstantsAssumption
<1>8. CASE \E i \in Ids : Create(i)
  BY <1>0, <1>8, CreateStrong
<1>9. CASE \E i \in Ids : Delete(i)
  BY <1>0, <1>9, DeleteStrong
<1>10. CASE UNCHANGED vars
  BY <1>0, <1>10 DEF vars, Strong
<1>11. QED
  BY <1>1, <1>2, <1>3, <1>4, <1>5, <1>6, <1>7, <1>8, <1>9, <1>10 DEF Next

\* The invariant is what MemorySafe asks for.
LEMMA IInvSafe == IInv => MemorySafe
<1>1. SUFFICES ASSUME IInv, whole, NEW object \in {live, backup}, NEW i \in Present(object),
                      NEW f \in Pointers, object[i].ptr[f] # Null
               PROVE  object[i].ptr[f] \notin FreeCells(heap)
  <2>1. \A object : \A a \in Pointing(object) :
           \E i \in Present(object), f \in Pointers : a = object[i].ptr[f] /\ a # Null
    BY DEF Pointing
  <2>2. QED
    BY <2>1 DEF MemorySafe, IInv, Strong
<1>2. heap[object[i].ptr[f]] # Free
  BY <1>1 DEF IInv, Strong, Sound, Allocated
<1>3. QED
  BY <1>2 DEF FreeCells

\* Type correctness: pointers lead to cells and cells hold values, whatever
\* sessions, writes and restores happen.
THEOREM TypeCorrect == Spec => []TypeOK
<1>1. Init => TypeOK
  BY InitIInv DEF IInv
<1>2. QED
  BY <1>1, TypeStep, PTL DEF Spec

\* However many sessions there are, while copies duplicate every buffer no step
\* frees a cell twice, reads a freed one, crashes, or leaves a pointer to a freed
\* one, whatever a server writes into the live object (MemorySafe).
THEOREM MemoryCorrect == Spec => []MemorySafe
  BY InitIInv, IInvStep, IInvSafe, PTL DEF Spec

-----------------------------------------------------------------------------
(* What is restored. *)

\* Content, of any heap.
ContentIn(h, object) ==
    [i \in Present(object) |->
        [mode |-> object[i].mode,
         value |-> [f \in Pointers |->
                      IF object[i].ptr[f] = Null THEN Null ELSE h[object[i].ptr[f]]]]]

LEMMA ContentIs == \A object : Content(object) = ContentIn(heap, object)
  BY DEF Content, ContentIn

LEMMA ContentKept ==
    ASSUME NEW g, NEW h, NEW object, Agree(g, h, object)
    PROVE  ContentIn(g, object) = ContentIn(h, object)
<1>1. \A i \in Present(object), f \in Pointers :
         (IF object[i].ptr[f] = Null THEN Null ELSE g[object[i].ptr[f]])
            = (IF object[i].ptr[f] = Null THEN Null ELSE h[object[i].ptr[f]])
  BY DEF Agree
<1>2. QED
  BY <1>1 DEF ContentIn

\* lwm2m_strdup cuts only once.
LEMMA StrdupTwice == Strdup(Null) = Null /\ \A v : Strdup(Strdup(v)) = Strdup(v)
  BY ConstantsAssumption DEF Strdup, Values

\* What is cut for each resource of each instance.
LEMMA CutContentIs ==
    ASSUME NEW h, NEW object
    PROVE  CutContent(ContentIn(h, object)) =
             [i \in Present(object) |->
                [mode |-> object[i].mode,
                 value |-> [f \in Pointers |->
                              IF object[i].ptr[f] = Null THEN Null
                                                       ELSE Strdup(h[object[i].ptr[f]])]]]
<1> DEFINE value(i) == [f \in Pointers |->
                          IF object[i].ptr[f] = Null THEN Null ELSE h[object[i].ptr[f]]]
           cut(i)   == [f \in Pointers |->
                          IF object[i].ptr[f] = Null THEN Null
                                                   ELSE Strdup(h[object[i].ptr[f]])]
           content  == ContentIn(h, object)
<1>1. /\ DOMAIN content = Present(object)
      /\ \A i \in Present(object) : content[i] = [mode |-> object[i].mode, value |-> value(i)]
  BY DEF ContentIn
<1>2. \A i \in Present(object) : [f \in Pointers |-> Strdup(value(i)[f])] = cut(i)
  BY StrdupTwice
<1>3. CutContent(content) =
        [i \in Present(object) |->
           [content[i] EXCEPT !.value = [f \in Pointers |-> Strdup(content[i].value[f])]]]
  <2> HIDE DEF content
  <2>1. QED
    BY <1>1 DEF CutContent
<1>4. ASSUME NEW i \in Present(object)
      PROVE  [content[i] EXCEPT !.value = [f \in Pointers |-> Strdup(content[i].value[f])]]
               = [mode |-> object[i].mode, value |-> cut(i)]
  <2>1. content[i] = [mode |-> object[i].mode, value |-> value(i)]
    BY <1>1
  <2>2. content[i].value = value(i)
    BY <2>1
  <2>3. [f \in Pointers |-> Strdup(content[i].value[f])] = cut(i)
    BY <1>2, <2>2
  <2> HIDE DEF content, value, cut
  <2>4. QED
    BY <2>1, <2>3
<1>5. QED
  <2> HIDE DEF content, value
  <2>1. CutContent(content) = [i \in Present(object) |-> [mode |-> object[i].mode, value |-> cut(i)]]
    BY <1>3, <1>4
  <2>2. QED
    BY <2>1 DEF content

\* What has been cut is cut no further.
LEMMA CutTwice ==
    ASSUME NEW content
    PROVE  CutContent(CutContent(content)) = CutContent(content)
<1> DEFINE cut(i) == [content[i] EXCEPT !.value = [f \in Pointers |-> Strdup(@[f])]]
<1>1. CutContent(content) = [i \in DOMAIN content |-> cut(i)]
  BY DEF CutContent
<1>2. ASSUME NEW i \in DOMAIN content
      PROVE  [cut(i) EXCEPT !.value = [f \in Pointers |-> Strdup(@[f])]] = cut(i)
  <2>1. CASE "value" \in DOMAIN content[i]
    <3>1. cut(i).value = [f \in Pointers |-> Strdup(content[i].value[f])]
      BY <2>1
    <3>2. [f \in Pointers |-> Strdup(cut(i).value[f])] = cut(i).value
      BY <3>1, StrdupTwice
    <3>3. cut(i) = [x \in DOMAIN cut(i) |-> cut(i)[x]]
      OBVIOUS
    <3> HIDE DEF cut
    <3>4. QED
      BY <3>2, <3>3
  <2>2. CASE "value" \notin DOMAIN content[i]
    BY <2>2
  <2>3. QED
    BY <2>1, <2>2
<1>3. QED
  <2> HIDE DEF cut
  <2> DEFINE once == CutContent(content)
  <2>1. DOMAIN once = DOMAIN content /\ \A i \in DOMAIN content : once[i] = cut(i)
    BY <1>1
  <2> HIDE DEF once
  <2>2. CutContent(once) =
          [i \in DOMAIN content |->
             [once[i] EXCEPT !.value = [f \in Pointers |-> Strdup(once[i].value[f])]]]
    BY <2>1 DEF CutContent
  <2>3. \A i \in DOMAIN content :
           [once[i] EXCEPT !.value = [f \in Pointers |-> Strdup(once[i].value[f])]] = cut(i)
    BY <1>2, <2>1
  <2>4. CutContent(once) = [i \in DOMAIN content |-> cut(i)]
    BY <2>2, <2>3
  <2>5. QED
    BY <1>1, <2>4 DEF once

\* A copy that is whole reads as its source did, but for what lwm2m_strdup cuts.
LEMMA ContentCopied ==
    ASSUME NEW old \in Object, NEW source \in Object, NEW new, NEW after,
           heap \in [Addr -> Values \cup {Cut, Free}], ~misuse,
           Sound(heap, old), Sound(heap, source), Separate(source, old),
           Replace(old, source, new, after), whole'
    PROVE  ContentIn(heap', new) = CutContent(ContentIn(heap, source))
<1>0. IsCopy(heap', heap, new, source)
  BY ReplaceStep
<1>1. /\ Present(new) = Present(source)
      /\ \A i \in Present(source) :
            /\ new[i].mode = source[i].mode
            /\ \A f \in Pointers :
                  /\ new[i].ptr[f] = Null <=> source[i].ptr[f] = Null
                  /\ source[i].ptr[f] # Null =>
                        heap'[new[i].ptr[f]] = Strdup(heap[source[i].ptr[f]])
  BY <1>0 DEF IsCopy
<1>2. ASSUME NEW i \in Present(source)
      PROVE  [mode |-> new[i].mode,
              value |-> [f \in Pointers |-> IF new[i].ptr[f] = Null THEN Null
                                                              ELSE heap'[new[i].ptr[f]]]]
             = [mode |-> source[i].mode,
                value |-> [f \in Pointers |-> IF source[i].ptr[f] = Null THEN Null
                                                ELSE Strdup(heap[source[i].ptr[f]])]]
  <2>1. \A f \in Pointers :
           (IF new[i].ptr[f] = Null THEN Null ELSE heap'[new[i].ptr[f]])
              = (IF source[i].ptr[f] = Null THEN Null ELSE Strdup(heap[source[i].ptr[f]]))
    BY <1>1
  <2>2. QED
    BY <1>1, <2>1
<1>3. ContentIn(heap', new) =
         [i \in Present(source) |->
            [mode |-> source[i].mode,
             value |-> [f \in Pointers |-> IF source[i].ptr[f] = Null THEN Null
                                             ELSE Strdup(heap[source[i].ptr[f]])]]]
  BY <1>1, <1>2 DEF ContentIn
<1>4. QED
  BY <1>3, CutContentIs

\* During a session the backup reads as the live object did when it began, but for
\* what is cut; only a restore ends one with the flag restored, and then both do.
SessionInv ==
    whole => /\ phase = "session" => Content(backup) = CutContent(saved) /\ ~restored
             /\ restored /\ phase = "idle" => Content(live) = CutContent(saved)

LEMMA InitSession == Init => SessionInv
  BY DEF Init, SessionInv

LEMMA SessionStep ==
    ASSUME IInv, SessionInv, [Next]_vars
    PROVE  SessionInv'
<1> DEFINE Kept == /\ phase' = "session" => ContentIn(heap', backup') = CutContent(saved') /\ ~restored'
                   /\ (restored' /\ phase' = "idle") => ContentIn(heap', live') = CutContent(saved')
<1>1. SUFFICES ASSUME whole' PROVE Kept
  <2>1. Content(backup)' = ContentIn(heap', backup') /\ Content(live)' = ContentIn(heap', live')
    BY DEF Content, ContentIn
  <2>2. CutContent(saved)' = CutContent(saved')
    BY DEF CutContent, Strdup
  <2>3. QED
    BY <1>1, <2>1, <2>2 DEF SessionInv
<1>2. TypeOK /\ Strong /\ whole
  BY <1>1, WholeStep DEF IInv
<1>3. /\ live \in Object /\ backup \in Object /\ ~misuse
      /\ heap \in [Addr -> Values \cup {Cut, Free}]
      /\ Sound(heap, live) /\ Sound(heap, backup)
      /\ Separate(live, backup) /\ Separate(backup, live)
  BY <1>2 DEF Strong, TypeOK
<1>4. /\ phase = "session" => ContentIn(heap, backup) = CutContent(saved) /\ ~restored
      /\ (restored /\ phase = "idle") => ContentIn(heap, live) = CutContent(saved)
  BY <1>2, ContentIs DEF SessionInv
<1>5. CASE Backup
  <2>1. /\ Replace(backup, live, backup', "session") /\ restored' = FALSE
        /\ saved' = ContentIn(heap, live)
    BY <1>5, ContentIs DEF Backup
  <2>2. ContentIn(heap', backup') = CutContent(ContentIn(heap, live))
    BY <1>1, <1>3, <2>1, ContentCopied
  <2>3. QED
    BY <2>1, <2>2
<1>6. CASE Finish
  BY <1>4, <1>6 DEF Finish
<1>7. CASE Restore
  <2>1. /\ phase = "session" /\ Replace(live, backup, live', "idle") /\ saved' = saved
    BY <1>7 DEF Restore
  <2>2. ContentIn(heap', live') = CutContent(CutContent(saved))
    BY <1>1, <1>3, <1>4, <2>1, ContentCopied
  <2>3. phase' = "idle"
    BY <1>1, <1>3, <2>1, ReplaceStep
  <2>4. QED
    BY <2>1, <2>2, <2>3, CutTwice
<1>8. CASE CloseBackup \/ CleanLive
  BY <1>8 DEF CloseBackup, CleanLive
<1>9. ASSUME Agree(heap', heap, backup), phase = "session",
             UNCHANGED <<backup, phase, saved, restored>>
      PROVE  Kept
  <2>1. ContentIn(heap', backup) = ContentIn(heap, backup)
    BY <1>9, ContentKept
  <2>2. QED
    BY <1>4, <1>9, <2>1
<1>10. CASE \E i \in Ids, f \in Resources : \E v \in ValuesOf(f) : Write(i, f, v)
  <2>1. Agree(heap', heap, backup)
    BY <1>2, <1>10, WriteStrong, ConstantsAssumption
  <2>2. QED
    BY <1>9, <1>10, <2>1 DEF Write
<1>11. CASE \E i \in Ids, f \in Resources : \E v \in ValuesOf(f) : CreateRefused(i, f, v)
  <2>1. Agree(heap', heap, backup)
    BY <1>2, <1>11, CreateRefusedStrong, ConstantsAssumption DEF ValuesOf, Values
  <2>2. QED
    BY <1>9, <1>11, <2>1 DEF CreateRefused
<1>12. CASE \E i \in Ids, mode \in NewModes : WriteMode(i, mode)
  BY <1>9, <1>12 DEF WriteMode, Agree
<1>13. CASE \E i \in Ids : Create(i)
  BY <1>9, <1>13 DEF Create, Agree
<1>14. CASE \E i \in Ids : Delete(i)
  <2>1. Agree(heap', heap, backup)
    BY <1>2, <1>14, DeleteStrong
  <2>2. QED
    BY <1>9, <1>14, <2>1 DEF Delete
<1>15. CASE UNCHANGED vars
  BY <1>4, <1>15 DEF vars
<1>16. QED
  BY <1>5, <1>6, <1>7, <1>8, <1>10, <1>11, <1>12, <1>13, <1>14, <1>15 DEF Next

\* While copies duplicate every buffer, nothing a session does reaches the copy a
\* restore would use (BackupIntact).
THEOREM BackupCorrect == Spec => []BackupIntact
<1>1. IInv /\ SessionInv /\ [Next]_vars => (IInv /\ SessionInv)'
  BY IInvStep, SessionStep
<1>2. SessionInv => BackupIntact
  BY DEF SessionInv, BackupIntact
<1>3. QED
  BY <1>1, <1>2, InitIInv, InitSession, PTL DEF Spec

\* And a failed bootstrap leaves every account as it was when the session began, keys
\* up to a zero byte, in whatever order it was written, deleted and created in
\* between (RestoredWhole).
THEOREM RestoreCorrect == Spec => []RestoredWhole
<1>1. IInv /\ SessionInv /\ [Next]_vars => (IInv /\ SessionInv)'
  BY IInvStep, SessionStep
<1>2. SessionInv => RestoredWhole
  BY DEF SessionInv, RestoredWhole
<1>3. QED
  BY <1>1, <1>2, InitIInv, InitSession, PTL DEF Spec

=============================================================================
