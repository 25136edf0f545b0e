------------------------------- MODULE Device -------------------------------
(***************************************************************************)
(* The Device object (object_device.cpp) and the Firmware object           *)
(* (object_firmware.cpp): the data behind them, and what writing,          *)
(* executing and changing values from the command line do to it.           *)
(***************************************************************************)
EXTENDS Integers, Sequences, FiniteSets

Nul    == "nul"
Digits == {"0", "1", "2", "3", "4", "5", "6", "7", "8", "9"}
OffsetMaxLen == 7       \* PRV_OFFSET_MAXLEN, "+HH:MM" and its terminator

\* One resource of a request: a number, a text, or a multiple resource.  A text
\* here is none that decodes to a number.
NumberItem(r, n) == [res |-> r, kind |-> "int", number |-> n, text |-> <<>>]
TextItem(r, s)   == [res |-> r, kind |-> "text", number |-> 0, text |-> s]
MultipleItem(r)  == [res |-> r, kind |-> "multiple", number |-> 0, text |-> <<>>]

Battery     == 9
Memory      == 10
Error       == 11
CurrentTime == 13
UtcOffset   == 14
Timezone    == 15

-----------------------------------------------------------------------------
(* The check of an offset to UTC. *)

\* Hours up to 12 on both sides of Greenwich.
HoursSymmetric(s) ==
    \/ s[2] = "0" /\ s[3] \in Digits
    \/ s[2] = "1" /\ s[3] \in {"0", "1", "2"}

\* At most +14 and -12 hours.
HoursValid(s) ==
    \/ s[2] = "0" /\ s[3] \in Digits
    \/ s[2] = "1" /\ s[3] \in {"0", "1", "2"}
    \/ s[2] = "1" /\ s[3] \in {"3", "4"} /\ s[1] = "+"

MinutesValid(s, first) == s[first] \in {"0", "1", "2", "3", "4", "5"} /\ s[first + 1] \in Digits

\* prv_check_time_offset: +HH, +HHMM or +HH:MM.
CheckTimeOffset(s) ==
    /\ Len(s) \in {3, 5, 6}
    /\ s[1] \in {"+", "-"}
    /\ HoursValid(s)
    /\ Len(s) = 5 => MinutesValid(s, 4)
    /\ Len(s) = 6 => s[4] = ":" /\ MinutesValid(s, 5)

\* Offsets to UTC, as they are spelt: a sign, hours, and minutes or none.
TwoDigits(n) ==
    LET digit == <<"0", "1", "2", "3", "4", "5", "6", "7", "8", "9">>
    IN  <<digit[(n \div 10) + 1], digit[(n % 10) + 1]>>
MinutesOf == {<<>>} \cup {colon \o TwoDigits(m) : colon \in {<<>>, <<":">>}, m \in 0..59}
Offset(sign, h, minutes) == <<sign>> \o TwoDigits(h) \o minutes

\* Those of ISO 8601: a time of day after a sign.
IsoOffsets ==
    UNION {{Offset(sign, h, minutes) : h \in 0..23, minutes \in MinutesOf} :
              sign \in {"+", "-"}}

\* The ways to spell an offset of h hours and m minutes.
Forms(sign, h, m) ==
    {Offset(sign, h, <<>> \o TwoDigits(m)), Offset(sign, h, <<":">> \o TwoDigits(m))}
        \cup {Offset(sign, h, <<>>) : none \in {m} \cap {0}}

\* Where clocks are set: from 12 hours behind UTC to 12 ahead, in quarters of an hour,
\* and in the Pacific at +12:45, +13, +13:45 and +14.
QuartersAhead == 0..48 \cup {51, 52, 55, 56}
OffsetsInUse ==
    (UNION {Forms("+", q \div 4, 15 * (q % 4)) : q \in QuartersAhead})
        \cup (UNION {Forms("-", q \div 4, 15 * (q % 4)) : q \in 0..48})

-----------------------------------------------------------------------------
(* Writing. *)

\* The answer to one resource.
WriteCode(item) ==
    CASE item.kind = "multiple"  -> 404
      [] item.res = CurrentTime  -> IF item.kind = "int" THEN 204 ELSE 400
      [] item.res = UtcOffset    -> IF CheckTimeOffset(item.text) THEN 204 ELSE 400
      [] item.res = Timezone     -> 501
      [] OTHER                   -> 405

\* The resources before the first one refused are written and stay so.
AppliedItems(request) ==
    {k \in DOMAIN request : \A m \in 1..k : WriteCode(request[m]) = 204}

\* Those of them that concern one resource, and the last of a set of positions.
AppliedTo(request, r) == {k \in AppliedItems(request) : request[k].res = r}
LastOf(ks) == CHOOSE k \in ks : \A m \in ks : m <= k

\* The time as it was given.
TimeAsGiven(time, request, now) ==
    LET ks == AppliedTo(request, CurrentTime)
    IN  IF ks = {} THEN time ELSE request[LastOf(ks)].number

\* time -= time(NULL).
TimeAfter(time, request, now) ==
    LET ks == AppliedTo(request, CurrentTime)
    IN  IF ks = {} THEN time ELSE request[LastOf(ks)].number - now

\* strncpy alone: the characters after the text stay.
OffsetWithoutTerminator(field, request) ==
    [j \in 1..OffsetMaxLen |->
        LET ks == {k \in AppliedTo(request, UtcOffset) : j <= Len(request[k].text)}
        IN  IF ks = {} THEN field[j] ELSE request[LastOf(ks)].text[j]]

\* strncpy with the length of the text, and a terminator after it: character j
\* is from the last text that reaches as far.
OffsetAfter(field, request) ==
    [j \in 1..OffsetMaxLen |->
        LET ks == {k \in AppliedTo(request, UtcOffset) : j <= Len(request[k].text) + 1}
            s  == request[LastOf(ks)].text
        IN  IF ks = {} THEN field[j]
            ELSE IF j <= Len(s) THEN s[j] ELSE Nul]

\* prv_device_write.
DeviceWritten(d, request, now) ==
    [d EXCEPT !.time = TimeAfter(@, request, now),
              !.time_offset = OffsetAfter(@, request)]

-----------------------------------------------------------------------------
(* Changes made by the client itself. *)

\* A battery level that is not checked.
ChangeCodeUnchecked(item) ==
    IF item.res \in {Battery, Memory, Error}
       THEN IF item.kind = "int" THEN 204 ELSE 400
       ELSE 405

\* device_change, for what a server cannot write.
ChangeCode(item) ==
    IF item.res \notin {Battery, Memory, Error} THEN 405
    ELSE IF item.kind = "int" /\ (item.res = Battery => item.number \in 0..100) THEN 204 ELSE 400

DeviceChanged(d, item) ==
    LET changed(value, r) == IF item.res = r /\ ChangeCode(item) = 204 THEN item.number ELSE value
    IN  [d EXCEPT !.battery_level = changed(@, Battery),
                  !.free_memory = changed(@, Memory),
                  !.error = changed(@, Error)]

\* handle_value_changed on /3/0: the object's write function, and device_change
\* when that does not allow the resource.
ValueChangeCode(item) ==
    IF WriteCode(item) = 405 THEN ChangeCode(item) ELSE WriteCode(item)

ValueChanged(d, item, now) ==
    IF WriteCode(item) = 405 THEN DeviceChanged(d, item)
                             ELSE DeviceWritten(d, <<item>>, now)

-----------------------------------------------------------------------------
(* Reading, executing, creation. *)

\* The string in the field, up to its terminator.
OffsetRead(field) ==
    LET end == CHOOSE j \in 1..OffsetMaxLen :
                  field[j] = Nul /\ \A m \in 1..(j - 1) : field[m] # Nul
    IN  [j \in 1..(end - 1) |-> field[j]]

Terminated(field) == \E j \in 1..OffsetMaxLen : field[j] = Nul

\* RES_O_CURRENT_TIME.
TimeRead(d, now) == d.time + now

\* prv_device_execute: Reboot is the loop's affair, a factory reset does nothing.
ExecuteCode(res, length) ==
    CASE length # 0         -> 400
      [] res \in {4, 5, 12} -> 204
      [] OTHER              -> 405
RebootAsked(res, length) == res = 4 /\ length = 0
DeviceExecuted(d, res, length) ==
    IF res = 12 /\ length = 0 THEN [d EXCEPT !.error = 0] ELSE d

\* get_object_device.  The time is an offset to the clock from then on.
FactoryOffset == <<"+", "0", "1", ":", "0", "0">>
FactoryTime   == 1367491215
FactoryDevice ==
    [free_memory |-> 15, error |-> 0, time |-> FactoryTime, battery_level |-> 100,
     time_offset |-> <<"+", "0", "1", ":", "0", "0", Nul>>]

\* device_data_t.
DeviceData ==
    [free_memory : Int, error : Int, time : Int, battery_level : 0..100,
     time_offset : [1..OffsetMaxLen -> Digits \cup {"+", "-", ":", Nul}]]

-----------------------------------------------------------------------------
(* Firmware. *)

\* prv_firmware_write: the package and its URI are taken and dropped.
FirmwareWriteCode(item) ==
    CASE item.kind = "multiple" -> 404
      [] item.res \in {0, 1}    -> 204
      [] OTHER                  -> 405

\* prv_firmware_execute: Update starts from state 1 only.
FirmwareExecuted(f, res, length) ==
    IF res = 2 /\ length = 0 /\ f.state = 1 THEN [f EXCEPT !.state = 2] ELSE f

\* get_object_firmware: two protocols.
FactoryFirmware == [state |-> 1, result |-> 0, protocols |-> 2]
=============================================================================
