---------------------------- MODULE DeviceProofs ----------------------------
(***************************************************************************)
(* What a request does to the data of the Device object, for requests of   *)
(* any length: lemmas for ManagedClientProofs.                             *)
(***************************************************************************)
EXTENDS Device, TLAPS, WellFoundedInduction, SequenceTheorems

Characters == Digits \cup {"+", "-", ":"}

Items == [res : Nat, kind : {"int", "text", "multiple"}, number : Int, text : Seq(Characters)]

\* A field holds a text: its characters, then the terminator.
Holds(field, s) ==
    /\ s \in Seq(Characters) /\ Len(s) < OffsetMaxLen
    /\ \A j \in 1..Len(s) : field[j] = s[j]
    /\ field[Len(s) + 1] = Nul

-----------------------------------------------------------------------------
\* A set of positions in a request that is not empty has a last one, and LastOf
\* is that one.
LEMMA LastOfSet ==
    ASSUME NEW n \in Nat, NEW ks \in SUBSET (1..n), ks # {}
    PROVE  LastOf(ks) \in ks /\ \A m \in ks : m <= LastOf(ks)
<1> DEFINE back == {n - k : k \in ks}
<1>1. back \subseteq Nat /\ back # {}
  <2>1. \A k \in ks : k \in 1..n /\ n - k \in Nat
    OBVIOUS
  <2>2. QED
    BY <2>1
<1>2. PICK b \in back : \A c \in back : b <= c
  <2>1. IsWellFoundedOn(OpToRel(<, Nat), Nat)
    BY NatLessThanWellFounded
  <2>2. \E b \in back : \A c \in back : ~(<<c, b>> \in OpToRel(<, Nat))
    <3> HIDE DEF back
    <3>1. QED
      BY <1>1, <2>1, WFMin
  <2>3. \A b, c \in Nat : <<c, b>> \in OpToRel(<, Nat) <=> c < b
    BY DEF OpToRel
  <2>4. \A b, c \in Nat : ~(c < b) => b <= c
    OBVIOUS
  <2>5. QED
    BY <1>1, <2>2, <2>3, <2>4
<1>3. PICK k \in ks : b = n - k
  OBVIOUS
<1>4. \A m \in ks : m <= k
  <2>1. SUFFICES ASSUME NEW m \in ks PROVE m <= k
    OBVIOUS
  <2>2. n - m \in back
    OBVIOUS
  <2>3. b <= n - m
    BY <2>2, <1>2
  <2>4. QED
    BY <2>3, <1>3
<1>5. QED
  BY <1>4 DEF LastOf

\* It is the only one.
LEMMA LastOfUnique ==
    ASSUME NEW n \in Nat, NEW ks \in SUBSET (1..n), NEW k \in ks, \A m \in ks : m <= k
    PROVE  LastOf(ks) = k
<1>1. LastOf(ks) \in ks /\ \A m \in ks : m <= LastOf(ks)
  BY LastOfSet
<1>2. k <= LastOf(ks) /\ LastOf(ks) <= k
  BY <1>1
<1>3. k \in Nat /\ LastOf(ks) \in Nat
  <2>1. k \in 1..n /\ LastOf(ks) \in 1..n
    BY <1>1
  <2>2. QED
    BY <2>1
<1>4. QED
  BY <1>2, <1>3

\* The positions a write applies are positions of the request, and what it
\* applies there was accepted.
LEMMA AppliedAccepted ==
    ASSUME NEW request \in Seq(Items), NEW r
    PROVE  /\ AppliedTo(request, r) \in SUBSET (1..Len(request))
           /\ \A k \in AppliedTo(request, r) :
                 /\ request[k] \in Items /\ request[k].res = r
                 /\ WriteCode(request[k]) = 204
BY DEF AppliedTo, AppliedItems

\* An offset that was accepted fits into its field.
LEMMA AcceptedFits ==
    ASSUME NEW item \in Items, item.res = UtcOffset, WriteCode(item) = 204
    PROVE  item.text \in Seq(Characters) /\ Len(item.text) \in {3, 5, 6}
<1>1. CheckTimeOffset(item.text)
  BY DEF WriteCode, UtcOffset, CurrentTime, Items
<1>2. QED
  BY <1>1 DEF CheckTimeOffset, Items

\* The text that a field holds is the one that is read from it.
LEMMA HeldIsRead ==
    ASSUME NEW field, NEW s, Holds(field, s)
    PROVE  Terminated(field) /\ OffsetRead(field) = s
<1>1. s \in Seq(Characters) /\ Len(s) \in 0..6 /\ Len(s) + 1 \in 1..OffsetMaxLen
  <2>1. s \in Seq(Characters) /\ Len(s) < 7
    BY DEF Holds, OffsetMaxLen
  <2>2. Len(s) \in Nat
    BY <2>1
  <2>3. \A l \in Nat : l < 7 => l \in 0..6 /\ l + 1 \in 1..7
    OBVIOUS
  <2>4. QED
    BY <2>1, <2>2, <2>3 DEF OffsetMaxLen
<1>2. \A j \in 1..Len(s) : field[j] # Nul
  <2>1. SUFFICES ASSUME NEW j \in 1..Len(s) PROVE s[j] # Nul
    BY DEF Holds
  <2>2. s[j] \in Characters
    BY <1>1
  <2>3. QED
    BY <2>2 DEF Characters, Digits, Nul
<1>3. field[Len(s) + 1] = Nul
  BY DEF Holds
<1> DEFINE Ends(j) == field[j] = Nul /\ \A m \in 1..(j - 1) : field[m] # Nul
<1>4. Ends(Len(s) + 1)
  BY <1>1, <1>2, <1>3
<1>5. ASSUME NEW j \in 1..OffsetMaxLen, Ends(j)
      PROVE  j = Len(s) + 1
  <2>1. ~(j < Len(s) + 1)
    BY <1>1, <1>2, <1>5 DEF OffsetMaxLen
  <2>2. ~(j > Len(s) + 1)
    BY <1>1, <1>3, <1>5 DEF OffsetMaxLen
  <2>3. QED
    BY <2>1, <2>2, <1>1 DEF OffsetMaxLen
<1>6. (CHOOSE j \in 1..OffsetMaxLen : Ends(j)) = Len(s) + 1
  BY <1>1, <1>4, <1>5
<1>7. OffsetRead(field) = [j \in 1..Len(s) |-> field[j]]
  <2>1. OffsetRead(field) = LET end == CHOOSE j \in 1..OffsetMaxLen : Ends(j)
                            IN  [j \in 1..(end - 1) |-> field[j]]
    BY DEF OffsetRead
  <2>2. (Len(s) + 1) - 1 = Len(s)
    BY <1>1
  <2>3. QED
    BY <2>1, <2>2, <1>6
<1>8. s = [j \in 1..Len(s) |-> s[j]]
  BY <1>1
<1>9. \A j \in 1..Len(s) : field[j] = s[j]
  BY DEF Holds
<1>10. [j \in 1..Len(s) |-> field[j]] = [j \in 1..Len(s) |-> s[j]]
  BY <1>9
<1>11. QED
  BY <1>1, <1>3, <1>7, <1>8, <1>10 DEF Terminated

\* After a request with an accepted offset the field holds the last of these,
\* whatever it held before.
LEMMA LastOffsetHeld ==
    ASSUME NEW field, NEW request \in Seq(Items), AppliedTo(request, UtcOffset) # {}
    PROVE  Holds(OffsetAfter(field, request), request[LastOf(AppliedTo(request, UtcOffset))].text)
<1> DEFINE ks   == AppliedTo(request, UtcOffset)
           last == LastOf(ks)
           s    == request[last].text
           at(j) == {k \in ks : j <= Len(request[k].text) + 1}
           after == OffsetAfter(field, request)
<1>1. ks \in SUBSET (1..Len(request)) /\ Len(request) \in Nat
  BY AppliedAccepted
<1>2. last \in ks /\ \A m \in ks : m <= last
  BY <1>1, LastOfSet
<1>3. s \in Seq(Characters) /\ Len(s) \in {3, 5, 6}
  BY <1>2, AppliedAccepted, AcceptedFits
<1>4. ASSUME NEW j \in 1..(Len(s) + 1)
      PROVE  after[j] = IF j <= Len(s) THEN s[j] ELSE Nul
  <2>1. last \in at(j)
    BY <1>2
  <2>2. at(j) \in SUBSET (1..Len(request)) /\ \A m \in at(j) : m <= last
    BY <1>1, <1>2
  <2>3. LastOf(at(j)) = last
    <3> HIDE DEF at, last
    <3>1. QED
      BY <1>1, <2>1, <2>2, LastOfUnique
  <2>4. j \in 1..OffsetMaxLen
    <3>1. \A l \in {3, 5, 6} : \A i \in 1..(l + 1) : i \in 1..7
      OBVIOUS
    <3> HIDE DEF s
    <3>2. QED
      BY <1>3, <3>1 DEF OffsetMaxLen
  <2>5. after[j] = IF at(j) = {} THEN field[j]
                   ELSE IF j <= Len(request[LastOf(at(j))].text)
                        THEN request[LastOf(at(j))].text[j] ELSE Nul
    BY <2>4 DEF OffsetAfter
  <2>6. QED
    BY <2>1, <2>3, <2>5
<1>5. Len(s) \in Nat /\ Len(s) < OffsetMaxLen
  <2>1. \A l \in {3, 5, 6} : l \in Nat /\ l < 7
    OBVIOUS
  <2> HIDE DEF s
  <2>2. QED
    BY <1>3, <2>1 DEF OffsetMaxLen
<1>6. \A j \in 1..Len(s) : after[j] = s[j]
  <2> HIDE DEF s, after
  <2>1. \A j \in 1..Len(s) : j \in 1..(Len(s) + 1) /\ j <= Len(s)
    BY <1>5
  <2>2. QED
    BY <2>1, <1>4
<1>7. after[Len(s) + 1] = Nul
  <2> HIDE DEF s, after
  <2>1. Len(s) + 1 \in 1..(Len(s) + 1) /\ ~(Len(s) + 1 <= Len(s))
    BY <1>5
  <2>2. QED
    BY <2>1, <1>4
<1>8. QED
  BY <1>3, <1>5, <1>6, <1>7 DEF Holds

\* A request without one leaves the field alone.
LEMMA OffsetKept ==
    ASSUME NEW field \in [1..OffsetMaxLen -> Characters \cup {Nul}],
           NEW request, AppliedTo(request, UtcOffset) = {}
    PROVE  OffsetAfter(field, request) = field
BY DEF OffsetAfter

\* Whatever is written, the field holds characters that are allowed.
LEMMA OffsetType ==
    ASSUME NEW field \in [1..OffsetMaxLen -> Characters \cup {Nul}],
           NEW request \in Seq(Items)
    PROVE  OffsetAfter(field, request) \in [1..OffsetMaxLen -> Characters \cup {Nul}]
<1> DEFINE at(j) == {k \in AppliedTo(request, UtcOffset) : j <= Len(request[k].text) + 1}
           text(j) == request[LastOf(at(j))].text
           char(j) == IF at(j) = {} THEN field[j]
                      ELSE IF j <= Len(text(j)) THEN text(j)[j] ELSE Nul
<1>1. ASSUME NEW j \in 1..OffsetMaxLen
      PROVE  char(j) \in Characters \cup {Nul}
  <2>1. CASE at(j) = {}
    BY <2>1
  <2>2. CASE at(j) # {} /\ j <= Len(text(j))
    <3>1. at(j) \in SUBSET (1..Len(request)) /\ Len(request) \in Nat
      BY AppliedAccepted
    <3>2. LastOf(at(j)) \in at(j)
      <4> HIDE DEF at
      <4>1. QED
        BY <2>2, <3>1, LastOfSet
    <3>3. text(j) \in Seq(Characters)
      <4>1. request[LastOf(at(j))] \in Items
        BY <3>2, AppliedAccepted
      <4> HIDE DEF at
      <4>2. QED
        BY <4>1 DEF Items
    <3>4. j \in 1..Len(text(j))
      <4>1. j \in Nat /\ 1 <= j
        BY DEF OffsetMaxLen
      <4>2. Len(text(j)) \in Nat
        BY <3>3
      <4> HIDE DEF text
      <4>3. QED
        BY <2>2, <4>1, <4>2
    <3>5. text(j)[j] \in Characters
      <4> HIDE DEF text
      <4>1. QED
        BY <3>3, <3>4
    <3>6. QED
      BY <2>2, <3>5
  <2>3. CASE at(j) # {} /\ ~(j <= Len(text(j)))
    BY <2>3
  <2>4. QED
    BY <2>1, <2>2, <2>3
<1>2. OffsetAfter(field, request) = [j \in 1..OffsetMaxLen |-> char(j)]
  BY DEF OffsetAfter
<1> HIDE DEF char
<1>3. QED
  BY <1>1, <1>2

\* A write leaves well-formed data, and the fields alone that servers only read.
LEMMA WrittenData ==
    ASSUME NEW d \in DeviceData, NEW request \in Seq(Items), NEW now \in Nat
    PROVE  /\ DeviceWritten(d, request, now) \in DeviceData
           /\ DeviceWritten(d, request, now).battery_level = d.battery_level
           /\ DeviceWritten(d, request, now).free_memory = d.free_memory
           /\ DeviceWritten(d, request, now).error = d.error
           /\ DeviceWritten(d, request, now).time = TimeAfter(d.time, request, now)
           /\ DeviceWritten(d, request, now).time_offset = OffsetAfter(d.time_offset, request)
<1>1. d.time_offset \in [1..OffsetMaxLen -> Characters \cup {Nul}]
  <2>1. Characters \cup {Nul} = Digits \cup {"+", "-", ":", Nul}
    BY DEF Characters
  <2>2. QED
    BY <2>1 DEF DeviceData
<1>2. OffsetAfter(d.time_offset, request) \in [1..OffsetMaxLen -> Digits \cup {"+", "-", ":", Nul}]
  <2>1. Characters \cup {Nul} = Digits \cup {"+", "-", ":", Nul}
    BY DEF Characters
  <2>2. QED
    BY <1>1, <2>1, OffsetType
<1>3. TimeAfter(d.time, request, now) \in Int
  <2> DEFINE ks == AppliedTo(request, CurrentTime)
  <2>1. CASE ks = {}
    BY <2>1 DEF TimeAfter, DeviceData
  <2>2. CASE ks # {}
    <3>1. ks \in SUBSET (1..Len(request)) /\ Len(request) \in Nat
      BY AppliedAccepted
    <3>2. LastOf(ks) \in ks
      <4> HIDE DEF ks
      <4>1. QED
        BY <2>2, <3>1, LastOfSet
    <3>3. request[LastOf(ks)].number \in Int
      <4>1. request[LastOf(ks)] \in Items
        BY <3>2, AppliedAccepted
      <4> HIDE DEF ks
      <4>2. QED
        BY <4>1 DEF Items
    <3>4. QED
      BY <2>2, <3>3 DEF TimeAfter
  <2>3. QED
    BY <2>1, <2>2
<1>4. QED
  BY <1>2, <1>3 DEF DeviceWritten, DeviceData

-----------------------------------------------------------------------------
(* The check of an offset against what offsets to UTC are.                 *)

DigitOf == <<"0", "1", "2", "3", "4", "5", "6", "7", "8", "9">>

LEMMA DigitsListed ==
    /\ DigitOf[1] = "0" /\ DigitOf[2] = "1" /\ DigitOf[3] = "2" /\ DigitOf[4] = "3"
    /\ DigitOf[5] = "4" /\ DigitOf[6] = "5" /\ DigitOf[7] = "6" /\ DigitOf[8] = "7"
    /\ DigitOf[9] = "8" /\ DigitOf[10] = "9"
BY DEF DigitOf

LEMMA DigitsNumbered ==
    /\ \A n \in 0..9 : DigitOf[n + 1] \in Digits
    /\ \A d \in Digits : \E n \in 0..9 : DigitOf[n + 1] = d
    /\ \A n \in 0..9 : DigitOf[n + 1] \in {"0", "1", "2", "3", "4", "5"} <=> n <= 5
<1>1. \A n \in 0..9 : n = 0 \/ n = 1 \/ n = 2 \/ n = 3 \/ n = 4 \/ n = 5 \/ n = 6
                        \/ n = 7 \/ n = 8 \/ n = 9
  OBVIOUS
<1>2. ASSUME NEW n \in 0..9
      PROVE  /\ DigitOf[n + 1] \in Digits
             /\ DigitOf[n + 1] \in {"0", "1", "2", "3", "4", "5"} <=> n <= 5
  BY <1>1, DigitsListed DEF Digits
<1>3. ASSUME NEW d \in Digits PROVE \E n \in 0..9 : DigitOf[n + 1] = d
  <2>1. /\ DigitOf[0 + 1] = "0" /\ DigitOf[1 + 1] = "1" /\ DigitOf[2 + 1] = "2"
        /\ DigitOf[3 + 1] = "3" /\ DigitOf[4 + 1] = "4" /\ DigitOf[5 + 1] = "5"
        /\ DigitOf[6 + 1] = "6" /\ DigitOf[7 + 1] = "7" /\ DigitOf[8 + 1] = "8"
        /\ DigitOf[9 + 1] = "9"
    BY DigitsListed
  <2>2. QED
    BY <2>1 DEF Digits
<1>4. QED
  BY <1>2, <1>3

LEMMA TwoDigitsOf ==
    ASSUME NEW a \in 0..9, NEW b \in 0..9
    PROVE  TwoDigits(10 * a + b) = <<DigitOf[a + 1], DigitOf[b + 1]>>
<1>1. (10 * a + b) \div 10 = a /\ (10 * a + b) % 10 = b
  OBVIOUS
<1>2. QED
  BY <1>1 DEF TwoDigits, DigitOf

LEMMA TwoDigitsParts ==
    ASSUME NEW n \in 0..99
    PROVE  \E a, b \in 0..9 : n = 10 * a + b
<1>1. n \div 10 \in 0..9 /\ n % 10 \in 0..9 /\ n = 10 * (n \div 10) + (n % 10)
  OBVIOUS
<1>2. QED
  BY <1>1

\* Hours and minutes by their characters.
LEMMA HoursAre ==
    ASSUME NEW s, s[1] \in {"+", "-"}
    PROVE  HoursValid(s)
             <=> \E h \in (IF s[1] = "+" THEN 0..14 ELSE 0..12) : TwoDigits(h) = <<s[2], s[3]>>
<1> DEFINE most == IF s[1] = "+" THEN 14 ELSE 12
           hours == IF s[1] = "+" THEN 0..14 ELSE 0..12
<1>1. \/ most = 14 /\ hours = 0..most /\ s[1] = "+"
      \/ most = 12 /\ hours = 0..most /\ s[1] # "+"
  <2>1. CASE s[1] = "+"
    BY <2>1
  <2>2. CASE s[1] # "+"
    BY <2>2
  <2>3. QED
    BY <2>1, <2>2
<1>2. ASSUME HoursValid(s)
      PROVE  \E h \in hours : TwoDigits(h) = <<s[2], s[3]>>
  <2>1. CASE s[2] = "0" /\ s[3] \in Digits
    <3>1. PICK b \in 0..9 : DigitOf[b + 1] = s[3]
      BY <2>1, DigitsNumbered
    <3>2. TwoDigits(10 * 0 + b) = <<s[2], s[3]>>
      BY <2>1, <3>1, TwoDigitsOf, DigitsListed
    <3>3. 10 * 0 + b \in hours
      BY <1>1
    <3>4. QED
      BY <3>2, <3>3
  <2>2. CASE s[2] = "1" /\ s[3] \in {"0", "1", "2", "3", "4"}
    <3>1. PICK b \in 0..4 : DigitOf[b + 1] = s[3] /\ (s[3] \in {"0", "1", "2"} => b <= 2)
      <4>1. /\ DigitOf[0 + 1] = "0" /\ DigitOf[1 + 1] = "1" /\ DigitOf[2 + 1] = "2"
            /\ DigitOf[3 + 1] = "3" /\ DigitOf[4 + 1] = "4"
        BY DigitsListed
      <4>2. QED
        BY <2>2, <4>1
    <3>2. TwoDigits(10 * 1 + b) = <<s[2], s[3]>>
      BY <2>2, <3>1, TwoDigitsOf, DigitsListed
    <3>3. s[1] = "+" \/ b <= 2
      BY <1>2, <2>2, <3>1 DEF HoursValid, Digits
    <3>4. 10 * 1 + b \in hours
      BY <1>1, <3>3
    <3>5. QED
      BY <3>2, <3>4
  <2>3. QED
    BY <1>2, <2>1, <2>2 DEF HoursValid
<1>3. ASSUME NEW h \in hours, TwoDigits(h) = <<s[2], s[3]>>
      PROVE  HoursValid(s)
  <2>1. PICK a, b \in 0..9 : h = 10 * a + b
    BY <1>1, TwoDigitsParts
  <2>2. <<s[2], s[3]>> = <<DigitOf[a + 1], DigitOf[b + 1]>>
    BY <1>3, <2>1, TwoDigitsOf
  <2>3. s[2] = DigitOf[a + 1] /\ s[3] = DigitOf[b + 1]
    BY <2>2
  <2>4. a = 0 \/ (a = 1 /\ b <= 4 /\ (b <= 2 \/ s[1] = "+"))
    BY <1>1, <2>1
  <2>5. CASE a = 0
    BY <2>3, <2>5, DigitsListed, DigitsNumbered DEF HoursValid
  <2>6. CASE a = 1 /\ b <= 4 /\ (b <= 2 \/ s[1] = "+")
    <3>1. b = 0 \/ b = 1 \/ b = 2 \/ ((b = 3 \/ b = 4) /\ s[1] = "+")
      BY <2>6
    <3>2. QED
      BY <2>3, <2>6, <3>1, DigitsListed DEF HoursValid
  <2>7. QED
    BY <2>4, <2>5, <2>6
<1>4. QED
  BY <1>2, <1>3

LEMMA MinutesAre ==
    ASSUME NEW s, NEW first, NEW second, second = first + 1
    PROVE  MinutesValid(s, first)
             <=> \E m \in 0..59 : TwoDigits(m) = <<s[first], s[second]>>
<1>1. ASSUME MinutesValid(s, first)
      PROVE  \E m \in 0..59 : TwoDigits(m) = <<s[first], s[second]>>
  <2>1. PICK a \in 0..9 : DigitOf[a + 1] = s[first]
    BY <1>1, DigitsNumbered DEF MinutesValid, Digits
  <2>2. a <= 5
    BY <1>1, <2>1, DigitsNumbered DEF MinutesValid
  <2>3. PICK b \in 0..9 : DigitOf[b + 1] = s[second]
    BY <1>1, DigitsNumbered DEF MinutesValid
  <2>4. TwoDigits(10 * a + b) = <<s[first], s[second]>>
    BY <2>1, <2>3, TwoDigitsOf
  <2>5. 10 * a + b \in 0..59
    BY <2>2
  <2>6. QED
    BY <2>4, <2>5
<1>2. ASSUME NEW m \in 0..59, TwoDigits(m) = <<s[first], s[second]>>
      PROVE  MinutesValid(s, first)
  <2>1. PICK a, b \in 0..9 : m = 10 * a + b
    BY TwoDigitsParts
  <2>2. <<s[first], s[second]>> = <<DigitOf[a + 1], DigitOf[b + 1]>>
    BY <1>2, <2>1, TwoDigitsOf
  <2>3. s[first] = DigitOf[a + 1] /\ s[second] = DigitOf[b + 1]
    BY <2>2
  <2>4. a <= 5
    BY <2>1
  <2>5. QED
    BY <2>3, <2>4, DigitsNumbered DEF MinutesValid
<1>3. QED
  BY <1>1, <1>2

-----------------------------------------------------------------------------
\* What prv_check_time_offset lets pass: up to 14 hours ahead and 12 behind, and
\* any minutes.
HoursOf(sign) == IF sign = "+" THEN 0..14 ELSE 0..12

CheckedOffsets ==
    UNION {{Offset(sign, h, minutes) : h \in HoursOf(sign), minutes \in MinutesOf} :
              sign \in {"+", "-"}}

\* These offsets, form by form.
LEMMA OffsetForms ==
    \A s : s \in CheckedOffsets <=>
        \E sign \in {"+", "-"} : \E h \in HoursOf(sign) :
            \/ s = Offset(sign, h, <<>>)
            \/ \E m \in 0..59 : \/ s = Offset(sign, h, <<>> \o TwoDigits(m))
                               \/ s = Offset(sign, h, <<":">> \o TwoDigits(m))
<1> DEFINE joined(colon, m) == colon \o TwoDigits(m)
           tails == {joined(colon, m) : colon \in {<<>>, <<":">>}, m \in 0..59}
           offsets(sign) == {Offset(sign, h, minutes) : h \in HoursOf(sign), minutes \in MinutesOf}
<1>1. \A s : s \in CheckedOffsets <=> \E sign \in {"+", "-"} : s \in offsets(sign)
  <2> HIDE DEF offsets
  <2>1. CheckedOffsets = UNION {offsets(sign) : sign \in {"+", "-"}}
    BY SMT DEF CheckedOffsets, offsets
  <2>2. QED
    BY <2>1
<1>2. \A s, sign : s \in offsets(sign)
                   <=> \E h \in HoursOf(sign) : \E t \in MinutesOf : s = Offset(sign, h, t)
  BY SMT
<1>3. MinutesOf = {<<>>} \cup tails
  BY DEF MinutesOf
<1> HIDE DEF joined
<1>4. \A t : t \in tails
               <=> \E m \in 0..59 : t = joined(<<>>, m) \/ t = joined(<<":">>, m)
  BY SMT
<1> HIDE DEF tails, offsets
<1>5. \A t : t \in MinutesOf
               <=> t = <<>> \/ \E m \in 0..59 : t = joined(<<>>, m) \/ t = joined(<<":">>, m)
  BY <1>3, <1>4
<1> DEFINE some(s, sign, h) == \E t \in MinutesOf : s = Offset(sign, h, t)
           spelt(s, sign, h) == \/ s = Offset(sign, h, <<>>)
                                \/ \E m \in 0..59 : \/ s = Offset(sign, h, joined(<<>>, m))
                                                   \/ s = Offset(sign, h, joined(<<":">>, m))
<1>6. \A s, sign, h : some(s, sign, h) <=> spelt(s, sign, h)
  BY <1>5
<1>7. \A s : s \in CheckedOffsets
                <=> \E sign \in {"+", "-"} : \E h \in HoursOf(sign) : some(s, sign, h)
  <2>1. \A s, sign : s \in offsets(sign) <=> \E h \in HoursOf(sign) : some(s, sign, h)
    BY <1>2
  <2> HIDE DEF some
  <2>2. QED
    BY <1>1, <2>1
<1> HIDE DEF some, spelt
<1>8. \A s : s \in CheckedOffsets
                <=> \E sign \in {"+", "-"} : \E h \in HoursOf(sign) : spelt(s, sign, h)
  BY <1>6, <1>7
<1>9. QED
  BY <1>8, Zenon DEF joined, spelt

\* A sequence made of two others, place by place.
LEMMA Joined ==
    ASSUME NEW T, NEW s \in Seq(T), NEW t \in Seq(T), NEW u \in Seq(T),
           Len(u) = Len(s) + Len(t),
           \A i \in 1..Len(u) : u[i] = IF i <= Len(s) THEN s[i] ELSE t[i - Len(s)]
    PROVE  s \o t = u
<1>1. /\ s \o t \in Seq(T) /\ Len(s \o t) = Len(u)
      /\ \A i \in 1..Len(u) : (s \o t)[i] = IF i <= Len(s) THEN s[i] ELSE t[i - Len(s)]
  BY ConcatProperties
<1> DEFINE j == s \o t
<1>2. j \in Seq(T) /\ Len(j) = Len(u) /\ \A i \in 1..Len(j) : j[i] = u[i]
  BY <1>1
<1> HIDE DEF j
<1>3. j = u
  BY <1>2, SeqEqual
<1>4. QED
  BY <1>3 DEF j

LEMMA JoinedOneTwo ==
    ASSUME NEW v1, NEW v2, NEW v3
    PROVE  <<v1>> \o <<v2, v3>> = <<v1, v2, v3>>
<1> DEFINE T == {v1, v2, v3}
           s == <<v1>>
           t == <<v2, v3>>
           u == <<v1, v2, v3>>
<1>1. s \in Seq(T) /\ t \in Seq(T) /\ u \in Seq(T)
  OBVIOUS
<1>2. Len(s) = 1 /\ Len(t) = 2 /\ Len(u) = 3
  OBVIOUS
<1>3. \A i \in 1..3 : u[i] = IF i <= 1 THEN s[i] ELSE t[i - 1]
  <2>1. \A i \in 1..3 : i = 1 \/ i = 2 \/ i = 3
    OBVIOUS
  <2>2. u[1] = s[1] /\ u[2] = t[1] /\ u[3] = t[2]
    OBVIOUS
  <2> HIDE DEF s, t, u
  <2>3. QED
    BY <2>1, <2>2
<1> HIDE DEF T, s, t, u
<1>4. /\ Len(u) = Len(s) + Len(t)
      /\ \A i \in 1..Len(u) : u[i] = IF i <= Len(s) THEN s[i] ELSE t[i - Len(s)]
  BY <1>2, <1>3
<1>5. s \o t = u
  BY <1>1, <1>4, Joined
<1>6. QED
  BY <1>5 DEF s, t, u

LEMMA JoinedThreeTwo ==
    ASSUME NEW v1, NEW v2, NEW v3, NEW v4, NEW v5
    PROVE  <<v1, v2, v3>> \o <<v4, v5>> = <<v1, v2, v3, v4, v5>>
<1> DEFINE T == {v1, v2, v3, v4, v5}
           s == <<v1, v2, v3>>
           t == <<v4, v5>>
           u == <<v1, v2, v3, v4, v5>>
<1>1. s \in Seq(T) /\ t \in Seq(T) /\ u \in Seq(T)
  OBVIOUS
<1>2. Len(s) = 3 /\ Len(t) = 2 /\ Len(u) = 5
  OBVIOUS
<1>3. \A i \in 1..5 : u[i] = IF i <= 3 THEN s[i] ELSE t[i - 3]
  <2>1. \A i \in 1..5 : i = 1 \/ i = 2 \/ i = 3 \/ i = 4 \/ i = 5
    OBVIOUS
  <2>2. u[1] = s[1] /\ u[2] = s[2] /\ u[3] = s[3] /\ u[4] = t[1] /\ u[5] = t[2]
    OBVIOUS
  <2> HIDE DEF s, t, u
  <2>3. QED
    BY <2>1, <2>2
<1> HIDE DEF T, s, t, u
<1>4. /\ Len(u) = Len(s) + Len(t)
      /\ \A i \in 1..Len(u) : u[i] = IF i <= Len(s) THEN s[i] ELSE t[i - Len(s)]
  BY <1>2, <1>3
<1>5. s \o t = u
  BY <1>1, <1>4, Joined
<1>6. QED
  BY <1>5 DEF s, t, u

LEMMA JoinedThreeThree ==
    ASSUME NEW v1, NEW v2, NEW v3, NEW v4, NEW v5, NEW v6
    PROVE  <<v1, v2, v3>> \o <<v4, v5, v6>> = <<v1, v2, v3, v4, v5, v6>>
<1> DEFINE T == {v1, v2, v3, v4, v5, v6}
           s == <<v1, v2, v3>>
           t == <<v4, v5, v6>>
           u == <<v1, v2, v3, v4, v5, v6>>
<1>1. s \in Seq(T) /\ t \in Seq(T) /\ u \in Seq(T)
  OBVIOUS
<1>2. Len(s) = 3 /\ Len(t) = 3 /\ Len(u) = 6
  OBVIOUS
<1>3. \A i \in 1..6 : u[i] = IF i <= 3 THEN s[i] ELSE t[i - 3]
  <2>1. \A i \in 1..6 : i = 1 \/ i = 2 \/ i = 3 \/ i = 4 \/ i = 5 \/ i = 6
    OBVIOUS
  <2>2. u[1] = s[1] /\ u[2] = s[2] /\ u[3] = s[3] /\ u[4] = t[1] /\ u[5] = t[2] /\ u[6] = t[3]
    OBVIOUS
  <2> HIDE DEF s, t, u
  <2>3. QED
    BY <2>1, <2>2
<1> HIDE DEF T, s, t, u
<1>4. /\ Len(u) = Len(s) + Len(t)
      /\ \A i \in 1..Len(u) : u[i] = IF i <= Len(s) THEN s[i] ELSE t[i - Len(s)]
  BY <1>2, <1>3
<1>5. s \o t = u
  BY <1>1, <1>4, Joined
<1>6. QED
  BY <1>5 DEF s, t, u

LEMMA HourlySpelt ==
    ASSUME NEW sign, NEW h, NEW a, NEW b, TwoDigits(h) = <<a, b>>
    PROVE  Offset(sign, h, <<>>) = <<sign, a, b>>
<1>1. Offset(sign, h, <<>>) = <<sign, a, b>> \o <<>>
  BY JoinedOneTwo DEF Offset
<1>2. <<sign, a, b>> \in Seq({sign, a, b})
  OBVIOUS
<1>3. QED
  BY <1>1, <1>2, ConcatEmptySeq

LEMMA BasicSpelt ==
    ASSUME NEW sign, NEW h, NEW a, NEW b, TwoDigits(h) = <<a, b>>,
           NEW m, NEW c, NEW d, TwoDigits(m) = <<c, d>>
    PROVE  Offset(sign, h, <<>> \o TwoDigits(m)) = <<sign, a, b, c, d>>
<1>1. <<>> \o <<c, d>> = <<c, d>>
  <2>1. <<c, d>> \in Seq({c, d})
    OBVIOUS
  <2>2. QED
    BY <2>1, ConcatEmptySeq
<1>2. Offset(sign, h, <<>> \o TwoDigits(m)) = <<sign, a, b>> \o <<c, d>>
  BY <1>1, JoinedOneTwo DEF Offset
<1>3. QED
  BY <1>2, JoinedThreeTwo

LEMMA ExtendedSpelt ==
    ASSUME NEW sign, NEW h, NEW a, NEW b, TwoDigits(h) = <<a, b>>,
           NEW m, NEW c, NEW d, TwoDigits(m) = <<c, d>>
    PROVE  Offset(sign, h, <<":">> \o TwoDigits(m)) = <<sign, a, b, ":", c, d>>
<1>1. <<":">> \o <<c, d>> = <<":", c, d>>
  BY JoinedOneTwo
<1>2. Offset(sign, h, <<":">> \o TwoDigits(m)) = <<sign, a, b>> \o <<":", c, d>>
  BY <1>1, JoinedOneTwo DEF Offset
<1>3. QED
  BY <1>2, JoinedThreeThree

\* prv_check_time_offset accepts nothing else, of all texts...
LEMMA CheckedAreOffsets ==
    ASSUME NEW s \in Seq(Characters), CheckTimeOffset(s)
    PROVE  s \in CheckedOffsets
<1>1. s[1] \in {"+", "-"} /\ HoursValid(s)
  BY DEF CheckTimeOffset
<1>2. PICK h \in HoursOf(s[1]) : TwoDigits(h) = <<s[2], s[3]>>
  BY <1>1, HoursAre DEF HoursOf
<1>3. CASE Len(s) = 3
  <2>1. s = <<s[1], s[2], s[3]>>
    BY <1>3
  <2>2. Offset(s[1], h, <<>>) = <<s[1], s[2], s[3]>>
    BY <1>2, HourlySpelt
  <2>3. QED
    BY <1>1, <1>2, <2>1, <2>2, OffsetForms
<1>4. CASE Len(s) = 5
  <2>1. MinutesValid(s, 4)
    BY <1>4 DEF CheckTimeOffset
  <2>2. PICK m \in 0..59 : TwoDigits(m) = <<s[4], s[5]>>
    <3>1. 5 = 4 + 1
      OBVIOUS
    <3>2. QED
      BY <2>1, <3>1, MinutesAre
  <2>3. Offset(s[1], h, <<>> \o TwoDigits(m)) = <<s[1], s[2], s[3], s[4], s[5]>>
    BY <1>2, <2>2, BasicSpelt
  <2>4. s = <<s[1], s[2], s[3], s[4], s[5]>>
    BY <1>4
  <2>5. QED
    BY <1>1, <1>2, <2>2, <2>3, <2>4, OffsetForms
<1>5. CASE Len(s) = 6
  <2>1. MinutesValid(s, 5) /\ s[4] = ":"
    BY <1>5 DEF CheckTimeOffset
  <2>2. PICK m \in 0..59 : TwoDigits(m) = <<s[5], s[6]>>
    <3>1. 6 = 5 + 1
      OBVIOUS
    <3>2. QED
      BY <2>1, <3>1, MinutesAre
  <2>3. Offset(s[1], h, <<":">> \o TwoDigits(m)) = <<s[1], s[2], s[3], ":", s[5], s[6]>>
    BY <1>2, <2>2, ExtendedSpelt
  <2>4. s = <<s[1], s[2], s[3], ":", s[5], s[6]>>
    BY <1>5, <2>1
  <2>5. QED
    BY <1>1, <1>2, <2>2, <2>3, <2>4, OffsetForms
<1>6. QED
  BY <1>3, <1>4, <1>5 DEF CheckTimeOffset

\* ... and all of them.
LEMMA OffsetsAreChecked ==
    ASSUME NEW s \in CheckedOffsets
    PROVE  CheckTimeOffset(s)
<1>0. PICK sign \in {"+", "-"} : \E h \in HoursOf(sign) :
         \/ s = Offset(sign, h, <<>>)
         \/ \E m \in 0..59 : \/ s = Offset(sign, h, <<>> \o TwoDigits(m))
                            \/ s = Offset(sign, h, <<":">> \o TwoDigits(m))
  BY OffsetForms
<1>1. PICK h \in HoursOf(sign) :
         \/ s = Offset(sign, h, <<>>)
         \/ \E m \in 0..59 : \/ s = Offset(sign, h, <<>> \o TwoDigits(m))
                            \/ s = Offset(sign, h, <<":">> \o TwoDigits(m))
  BY <1>0
<1>2. PICK a, b : TwoDigits(h) = <<a, b>>
  BY DEF TwoDigits
<1>3. ASSUME s[1] = sign, s[2] = a, s[3] = b PROVE HoursValid(s)
  BY <1>2, <1>3, HoursAre DEF HoursOf
<1>4. CASE s = Offset(sign, h, <<>>)
  <2>1. s = <<sign, a, b>>
    BY <1>2, <1>4, HourlySpelt
  <2>2. Len(s) = 3 /\ s[1] = sign /\ s[2] = a /\ s[3] = b
    BY <2>1
  <2>3. QED
    BY <1>3, <2>2 DEF CheckTimeOffset
<1>5. ASSUME NEW m \in 0..59, s = Offset(sign, h, <<>> \o TwoDigits(m))
      PROVE  CheckTimeOffset(s)
  <2>1. PICK c, d : TwoDigits(m) = <<c, d>>
    BY DEF TwoDigits
  <2>2. s = <<sign, a, b, c, d>>
    BY <1>2, <1>5, <2>1, BasicSpelt
  <2>3. Len(s) = 5 /\ s[1] = sign /\ s[2] = a /\ s[3] = b /\ s[4] = c /\ s[5] = d
    BY <2>2
  <2>4. MinutesValid(s, 4)
    <3>1. 5 = 4 + 1 /\ TwoDigits(m) = <<s[4], s[5]>>
      BY <2>1, <2>3
    <3>2. QED
      BY <3>1, MinutesAre
  <2>5. QED
    BY <1>3, <2>3, <2>4 DEF CheckTimeOffset
<1>6. ASSUME NEW m \in 0..59, s = Offset(sign, h, <<":">> \o TwoDigits(m))
      PROVE  CheckTimeOffset(s)
  <2>1. PICK c, d : TwoDigits(m) = <<c, d>>
    BY DEF TwoDigits
  <2>2. s = <<sign, a, b, ":", c, d>>
    BY <1>2, <1>6, <2>1, ExtendedSpelt
  <2>3. /\ Len(s) = 6 /\ s[1] = sign /\ s[2] = a /\ s[3] = b /\ s[4] = ":"
        /\ s[5] = c /\ s[6] = d
    BY <2>2
  <2>4. MinutesValid(s, 5)
    <3>1. 6 = 5 + 1 /\ TwoDigits(m) = <<s[5], s[6]>>
      BY <2>1, <2>3
    <3>2. QED
      BY <3>1, MinutesAre
  <2>5. QED
    BY <1>3, <2>3, <2>4 DEF CheckTimeOffset
<1>7. QED
  BY <1>1, <1>4, <1>5, <1>6

\* No offset in use is refused.
LEMMA FormsChecked ==
    ASSUME NEW sign \in {"+", "-"}, NEW h \in HoursOf(sign), NEW m \in 0..59,
           NEW s \in Forms(sign, h, m)
    PROVE  CheckTimeOffset(s)
<1>1. \/ s = Offset(sign, h, <<>>)
      \/ s = Offset(sign, h, <<>> \o TwoDigits(m))
      \/ s = Offset(sign, h, <<":">> \o TwoDigits(m))
  BY Zenon DEF Forms
<1>2. s \in CheckedOffsets
  BY <1>1, OffsetForms
<1>3. QED
  BY <1>2, OffsetsAreChecked

LEMMA InUseChecked == \A s \in OffsetsInUse : CheckTimeOffset(s)
<1>1. SUFFICES ASSUME NEW s \in OffsetsInUse PROVE CheckTimeOffset(s)
  OBVIOUS
<1>2. CASE \E q \in QuartersAhead : s \in Forms("+", q \div 4, 15 * (q % 4))
  <2>1. PICK q \in QuartersAhead : s \in Forms("+", q \div 4, 15 * (q % 4))
    BY <1>2
  <2>2. q \div 4 \in HoursOf("+") /\ 15 * (q % 4) \in 0..59
    BY DEF HoursOf, QuartersAhead
  <2>3. QED
    BY <2>1, <2>2, FormsChecked, Zenon
<1>3. CASE \E q \in 0..48 : s \in Forms("-", q \div 4, 15 * (q % 4))
  <2>1. PICK q \in 0..48 : s \in Forms("-", q \div 4, 15 * (q % 4))
    BY <1>3
  <2>2. q \div 4 \in HoursOf("-") /\ 15 * (q % 4) \in 0..59
    BY DEF HoursOf
  <2>3. QED
    BY <2>1, <2>2, FormsChecked, Zenon
<1> DEFINE ahead(q)  == Forms("+", q \div 4, 15 * (q % 4))
           behind(q) == Forms("-", q \div 4, 15 * (q % 4))
<1>4. \/ \E q \in QuartersAhead : s \in ahead(q)
      \/ \E q \in 0..48 : s \in behind(q)
  <2>1. s \in (UNION {ahead(q) : q \in QuartersAhead}) \cup (UNION {behind(q) : q \in 0..48})
    BY <1>1 DEF OffsetsInUse
  <2> HIDE DEF ahead, behind
  <2>2. QED
    BY <2>1
<1>5. QED
  BY <1>2, <1>3, <1>4

\* The offsets that pass, by their parts.
LEMMA CheckedUnfolds ==
    \A s : s \in CheckedOffsets <=>
        \E sign \in {"+", "-"} : \E h \in HoursOf(sign) : \E t \in MinutesOf : s = Offset(sign, h, t)
<1> DEFINE offsets(sign) == {Offset(sign, h, minutes) : h \in HoursOf(sign), minutes \in MinutesOf}
<1>1. \A s : s \in CheckedOffsets <=> \E sign \in {"+", "-"} : s \in offsets(sign)
  <2> HIDE DEF offsets
  <2>1. CheckedOffsets = UNION {offsets(sign) : sign \in {"+", "-"}}
    BY SMT DEF CheckedOffsets, offsets
  <2>2. QED
    BY <2>1
<1>2. \A s, sign : s \in offsets(sign)
                   <=> \E h \in HoursOf(sign) : \E t \in MinutesOf : s = Offset(sign, h, t)
  BY SMT
<1> HIDE DEF offsets
<1>3. QED
  BY <1>1, <1>2

\* And those of ISO 8601.
LEMMA IsoUnfolds ==
    \A s : s \in IsoOffsets <=>
        \E sign \in {"+", "-"} : \E h \in 0..23 : \E t \in MinutesOf : s = Offset(sign, h, t)
<1> DEFINE offsets(sign) == {Offset(sign, h, minutes) : h \in 0..23, minutes \in MinutesOf}
<1>1. \A s : s \in IsoOffsets <=> \E sign \in {"+", "-"} : s \in offsets(sign)
  <2> HIDE DEF offsets
  <2>1. IsoOffsets = UNION {offsets(sign) : sign \in {"+", "-"}}
    BY SMT DEF IsoOffsets, offsets
  <2>2. QED
    BY <2>1
<1>2. \A s, sign : s \in offsets(sign)
                   <=> \E h \in 0..23 : \E t \in MinutesOf : s = Offset(sign, h, t)
  BY SMT
<1> HIDE DEF offsets
<1>3. QED
  BY <1>1, <1>2

\* What passes is an offset of ISO 8601.
LEMMA CheckedIso ==
    ASSUME NEW s \in Seq(Characters), CheckTimeOffset(s)
    PROVE  s \in IsoOffsets
<1>1. s \in CheckedOffsets
  BY CheckedAreOffsets
<1>2. PICK sign \in {"+", "-"} : \E h \in HoursOf(sign) : \E minutes \in MinutesOf :
         s = Offset(sign, h, minutes)
  BY <1>1, CheckedUnfolds
<1>3. \E h \in 0..23 : \E minutes \in MinutesOf : s = Offset(sign, h, minutes)
  BY <1>2 DEF HoursOf
<1>4. QED
  BY <1>2, <1>3, IsoUnfolds

=============================================================================
