--------------------------- MODULE SecurityBackup ---------------------------
(***************************************************************************)
(* The memory of the Security object and of its backup                     *)
(* (object_security.cpp, and prv_backup_objects, prv_restore_objects and   *)
(* close_backup_object of lwm2mclient.cpp): which buffer each instance     *)
(* points to, which buffers copy_security_object duplicates and which it   *)
(* shares, and which ones a write, a delete and clean_security_object      *)
(* free.  Lwm2mClient says when these run; here they run in its order.     *)
(***************************************************************************)
EXTENDS Naturals, FiniteSets

CONSTANTS
    Ids,            \* instance ids
    Addr,           \* heap cells
    Resources,      \* the pointer resources a server writes
    NewModes,       \* the security modes a server writes
    Text, Binary,   \* values without, and with, a zero byte in them
    Cut,            \* what lwm2m_strdup makes of a Binary value
    Free, Null, NoInst

Pointers == {"uri", "publicIdentity", "secretKey", "serverPublicKey"}
Keys     == {"publicIdentity", "secretKey"}
Modes    == {"psk", "other"}    \* pre-shared key, or any of the other three
Values   == Text \cup Binary
ValuesOf(f) == IF f \in {"secretKey", "serverPublicKey"} THEN Values ELSE Text

ASSUME ConstantsAssumption ==
    /\ Resources \subseteq Pointers /\ NewModes \subseteq Modes
    /\ Text \cap Binary = {}
    /\ Free \notin Values \cup {Cut} /\ Null \notin Addr \cup Values
    /\ Cut \notin Values
    /\ IsFiniteSet(Ids)
    /\ NoInst \notin [mode : Modes, ptr : [Pointers -> Addr \cup {Null}]]

VARIABLES
    heap,           \* the value in each cell, or Free
    live, backup,   \* the object of the engine and its copy
    phase,          \* where Lwm2mClient's loop is, as far as the backup goes
    misuse,         \* a freed cell has been read, or freed again
    whole,          \* history: copies have duplicated every buffer so far
    saved,          \* history: what the live object read when last backed up
    restored        \* history: the last session ended in a restore

vars == <<heap, live, backup, phase, misuse, whole, saved, restored>>

Instance == [mode : Modes, ptr : [Pointers -> Addr \cup {Null}]]
Object   == [Ids -> Instance \cup {NoInst}]
Empty    == [i \in Ids |-> NoInst]

Present(object) == {i \in Ids : object[i] # NoInst}

\* What a reader of an object sees.  A dangling pointer reads as Free.
Content(object) ==
    [i \in Present(object) |->
        [mode |-> object[i].mode,
         value |-> [f \in Pointers |->
                      IF object[i].ptr[f] = Null THEN Null
                                                 ELSE heap[object[i].ptr[f]]]]]

\* The pointers that copy_security_object gives a buffer of their own and that
\* clean_security_object frees: the keys only in PSK mode, and the server's
\* key never.
OwnedPointers(instance) ==
    {"uri"} \cup (IF instance.mode = "psk" THEN Keys ELSE {})

Owned(object) ==
    {s \in Present(object) \X Pointers :
        /\ s[2] \in OwnedPointers(object[s[1]])
        /\ object[s[1]].ptr[s[2]] # Null}

Cell(object, s) == object[s[1]].ptr[s[2]]
Cells(object, slots) == {Cell(object, s) : s \in slots}

-----------------------------------------------------------------------------
(* The allocator. *)

FreeCells(h) == {a \in Addr : h[a] = Free}

Release(h, cells) == [a \in Addr |-> IF a \in cells THEN Free ELSE h[a]]

\* Freeing these cells is an error: one is free already, or two slots hold it.
BadFree(h, object, slots) ==
    \/ Cells(object, slots) \cap FreeCells(h) # {}
    \/ Cardinality(Cells(object, slots)) # Cardinality(slots)

\* Fresh cells for a set of slots.
Fresh(h, slots) ==
    {f \in [slots -> FreeCells(h)] :
        \A s, t \in slots : s # t => f[s] # f[t]}

\* lwm2m_strdup stops at the first zero byte; the length field is copied whole.
Strdup(v) == IF v \in Binary THEN Cut ELSE v

\* A copy that shares the keys.
UriOnlyCopied(source, cells) ==
    [i \in Ids |->
        IF source[i] = NoInst THEN NoInst
        ELSE [source[i] EXCEPT !.ptr["uri"] = cells[<<i, "uri">>]]]

\* copy_security_object: the owned pointers of the source get new cells, the
\* others are shared with it.
Copied(source, cells) ==
    [i \in Ids |->
        IF source[i] = NoInst THEN NoInst
        ELSE [source[i] EXCEPT !.ptr =
                [f \in Pointers |-> IF <<i, f>> \in DOMAIN cells
                                      THEN cells[<<i, f>>] ELSE @[f]]]]

CopiedHeap(h, source, cells) ==
    [a \in Addr |->
        IF \E s \in DOMAIN cells : cells[s] = a
          THEN LET s == CHOOSE t \in DOMAIN cells : cells[t] = a
               IN  Strdup(h[Cell(source, s)])
          ELSE h[a]]

\* An instance of which copy_security_object duplicates every buffer: it has a
\* URI, keys only in PSK mode, and no key of the server's.
Duplicable(instance) ==
    /\ instance.ptr["uri"] # Null
    /\ {f \in Pointers : instance.ptr[f] # Null} \subseteq OwnedPointers(instance)

NoUri(object) == \E i \in Present(object) : object[i].ptr["uri"] = Null

\* One object is freed and then rebuilt as a copy of another; where the loop is
\* after that.  The copy takes strlen of a URI that is not there.
Replace(old, source, new, after) ==
    /\ whole' = (whole /\ \A i \in Present(source) : Duplicable(source[i]))
    /\ IF NoUri(source)
       THEN phase' = "crashed" /\ new = old /\ UNCHANGED <<heap, misuse>>
       ELSE LET released == Release(heap, Cells(old, Owned(old)))
            IN  \E cells \in Fresh(released, Owned(source)) :
                  /\ phase' = after
                  /\ new = Copied(source, cells)
                  /\ heap' = CopiedHeap(released, source, cells)
                  /\ misuse' = (misuse \/ BadFree(heap, old, Owned(old))
                        \/ Cells(source, Owned(source)) \cap FreeCells(released) # {})

-----------------------------------------------------------------------------
(* get_security_object: one instance, in PSK mode if an identity or a key is  *)
(* given.                                                                    *)
Init ==
    /\ \E i \in Ids, text \in Text, key \in Values, keys \in SUBSET Keys :
         LET given == {"uri"} \cup keys
             mode  == IF keys # {} THEN "psk" ELSE "other"
         IN  \E f \in [given -> Addr] :
               /\ \A p, q \in given : p # q => f[p] # f[q]
               /\ heap = [a \in Addr |->
                            IF \A p \in given : f[p] # a THEN Free
                            ELSE IF "secretKey" \in given /\ f["secretKey"] = a
                                 THEN key ELSE text]
               /\ live = [Empty EXCEPT ![i] =
                            [mode |-> mode,
                             ptr |-> [p \in Pointers |->
                                        IF p \in given THEN f[p] ELSE Null]]]
    /\ backup = Empty
    /\ phase = "idle"
    /\ misuse = FALSE /\ whole = TRUE
    /\ saved = Content(live)
    /\ restored = FALSE

\* A backup for the first session only.
BackupOnce ==
    /\ phase = "idle"
    /\ IF Present(backup) = {} THEN Replace(backup, live, backup', "session")
       ELSE phase' = "session" /\ UNCHANGED <<heap, backup, misuse, whole>>
    /\ saved' = Content(live)
    /\ restored' = FALSE
    /\ UNCHANGED live

\* prv_backup_objects, when a bootstrap session begins.
Backup ==
    /\ phase = "idle"
    /\ Replace(backup, live, backup', "session")
    /\ saved' = Content(live)
    /\ restored' = FALSE
    /\ UNCHANGED live

\* prv_security_write of the URI or of a key, whatever the mode: the old buffer is
\* freed, whoever else points to it, and a new one takes the value.  A request of
\* several resources is several writes, up to the first one refused.
Write(i, f, v) ==
    /\ phase = "session" /\ live[i] # NoInst
    /\ LET old      == {live[i].ptr[f]} \ {Null}
           released == Release(heap, old)
       IN  \E a \in FreeCells(released) :
             /\ heap' = [released EXCEPT ![a] = v]
             /\ live' = [live EXCEPT ![i].ptr[f] = a]
             /\ misuse' = (misuse \/ old \cap FreeCells(heap) # {})
    /\ UNCHANGED <<backup, phase, whole, saved, restored>>

\* prv_security_write of the security mode; the pointers stay, whether they fit
\* the new mode or not.
WriteMode(i, mode) ==
    /\ phase = "session" /\ live[i] # NoInst
    /\ live' = [live EXCEPT ![i].mode = mode]
    /\ UNCHANGED <<heap, backup, phase, misuse, whole, saved, restored>>

Zeroed(mode) == [mode |-> mode, ptr |-> [f \in Pointers |-> Null]]

\* A creation without memset.
CreateUnzeroed(i) ==
    /\ phase = "session" /\ live[i] = NoInst
    /\ live' = [live EXCEPT ![i] = [mode |-> "psk", ptr |-> [f \in Pointers |-> Cut]]]
    /\ UNCHANGED <<heap, backup, phase, misuse, whole, saved, restored>>

\* prv_security_create: a zeroed instance, whose mode 0 is PSK.  Nothing asks
\* for a URI or any other resource; those of the request are writes.
Create(i) ==
    /\ phase = "session" /\ live[i] = NoInst
    /\ live' = [live EXCEPT ![i] = Zeroed("psk")]
    /\ UNCHANGED <<heap, backup, phase, misuse, whole, saved, restored>>

\* A creation of which one resource is refused: the instance is deleted, which
\* leaves the key allocated that was written before it.
CreateRefused(i, f, v) ==
    /\ phase = "session" /\ live[i] = NoInst
    /\ IF f = "uri" THEN UNCHANGED heap
                    ELSE \E a \in FreeCells(heap) : heap' = [heap EXCEPT ![a] = v]
    /\ UNCHANGED <<live, backup, phase, misuse, whole, saved, restored>>

\* prv_security_delete frees the URI; keys are left allocated.
Delete(i) ==
    /\ phase = "session" /\ live[i] # NoInst
    /\ heap' = Release(heap, Cells(live, {<<i, "uri">>} \cap Owned(live)))
    /\ live' = [live EXCEPT ![i] = NoInst]
    /\ misuse' = (misuse \/ BadFree(heap, live, {<<i, "uri">>} \cap Owned(live)))
    /\ UNCHANGED <<backup, phase, whole, saved, restored>>

\* The session succeeds; the backup stays until the next one.
Finish ==
    /\ phase = "session" /\ phase' = "idle"
    /\ UNCHANGED <<heap, live, backup, misuse, whole, saved, restored>>

\* A restore with its arguments swapped.
RestoreSwapped ==
    /\ phase = "session"
    /\ Replace(backup, live, backup', "idle")
    /\ restored' = TRUE
    /\ UNCHANGED <<live, saved>>

\* prv_restore_objects, when it fails.
Restore ==
    /\ phase = "session"
    /\ Replace(live, backup, live', "idle")
    /\ restored' = TRUE
    /\ UNCHANGED <<backup, saved>>

\* A graceful quit: close_backup_object, then the live object is cleaned.
CloseBackup ==
    /\ phase \in {"idle", "session"} /\ phase' = "closing"
    /\ heap' = Release(heap, Cells(backup, Owned(backup)))
    /\ misuse' = (misuse \/ BadFree(heap, backup, Owned(backup)))
    /\ backup' = Empty
    /\ UNCHANGED <<live, whole, saved, restored>>

CleanLive ==
    /\ phase = "closing" /\ phase' = "closed"
    /\ heap' = Release(heap, Cells(live, Owned(live)))
    /\ misuse' = (misuse \/ BadFree(heap, live, Owned(live)))
    /\ live' = Empty
    /\ UNCHANGED <<backup, whole, saved, restored>>

Next ==
    \/ Backup \/ Finish \/ Restore \/ CloseBackup \/ CleanLive
    \/ \E i \in Ids :
         \/ \E f \in Resources : \E v \in ValuesOf(f) : Write(i, f, v) \/ CreateRefused(i, f, v)
         \/ \E mode \in NewModes : WriteMode(i, mode)
         \/ Create(i) \/ Delete(i)

Spec == Init /\ [][Next]_vars

-----------------------------------------------------------------------------
(* Properties. *)

\* Pointers lead to cells, and cells hold values of requests or cut ones: zeroed
\* memory (memset in object_security.cpp) leaves no other pointer anywhere.
TypeOK ==
    /\ heap \in [Addr -> Values \cup {Cut, Free}]
    /\ live \in Object /\ backup \in Object
    /\ phase \in {"idle", "session", "closing", "closed", "crashed"}
    /\ misuse \in BOOLEAN /\ whole \in BOOLEAN /\ restored \in BOOLEAN

Pointing(object) ==
    {object[s[1]].ptr[s[2]] : s \in Present(object) \X Pointers} \ {Null}

\* As long as every instance that was copied has its URI, keys in PSK mode only and
\* no server key (Duplicable), no session frees a buffer twice, reads a freed one or
\* crashes, and no pointer of the live object or its backup dangles: also when a
\* server changes a mode between copying an account and freeing it, or leaves keys
\* behind that the new mode has no use for (copy_ and clean_security_object decide
\* by the mode at their time).
MemorySafe ==
    whole => /\ ~misuse /\ phase # "crashed"
             /\ (Pointing(live) \cup Pointing(backup)) \cap FreeCells(heap) = {}

\* Values as copy_security_object copies them, up to a zero byte.
CutContent(content) ==
    [i \in DOMAIN content |->
        [content[i] EXCEPT !.value = [f \in Pointers |-> Strdup(@[f])]]]

\* However many sessions came before, nothing a session does to the live object
\* reaches the copy a restore would use, again while copies share no buffer.
BackupIntact == whole /\ phase = "session" => Content(backup) = CutContent(saved)

\* Under the same condition a restore brings back the mode and every resource of
\* every instance as it was when the session began, keys up to their first zero
\* byte, whatever the session has written, created and deleted.
RestoredWhole == whole /\ restored /\ phase = "idle" => Content(live) = CutContent(saved)

\* A restore brings back every resource of every instance as it was when the
\* session began (lwm2mclient.cpp:685 "then restore previous object").
RestoredExactly == (restored /\ phase = "idle") => Content(live) = saved

=============================================================================
