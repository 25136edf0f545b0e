------------------------ MODULE ManagedClientProofs ------------------------
(***************************************************************************)
(* The timers and the objects of ManagedClient are right for any delays,   *)
(* any requests and any length of a run.                                   *)
(***************************************************************************)
EXTENDS ManagedClient, DeviceProofs, FiniteSetTheorems

-----------------------------------------------------------------------------
(* Type correctness. *)

\* What a server may write, and a user may type, are sequences of items.
LEMMA InputTypes ==
    /\ \A request \in WriteRequests : request \in Seq(Items)
    /\ \A item \in TypedChanges : item \in Items /\ <<item>> \in Seq(Items)
<1>1. \A request \in WriteRequests : request \in Seq(Items)
  BY InputsAssumption DEF Items, Characters
<1>2. ASSUME NEW item \in TypedChanges
      PROVE  item \in Items /\ <<item>> \in Seq(Items)
  <2>1. <<item>> \in Seq(Items)
    BY <1>1, InputsAssumption
  <2>2. <<item>>[1] \in Items
    BY <2>1
  <2>3. QED
    BY <2>1, <2>2
<1>3. QED
  BY <1>1, <1>2

\* A battery level that rand() gives is an item.
LEMMA LevelTypes ==
    \A level \in Levels : /\ NumberItem(Battery, level) \in Items
                          /\ <<NumberItem(Battery, level)>> \in Seq(Items)
<1>1. SUFFICES ASSUME NEW level \in Levels PROVE NumberItem(Battery, level) \in Items
  OBVIOUS
<1>2. level \in Int
  BY InputsAssumption
<1>3. <<>> \in Seq(Characters)
  OBVIOUS
<1>4. QED
  BY <1>2, <1>3 DEF NumberItem, Battery, Items

\* A change from the command line leaves well-formed data.  It is a write, a
\* change of one of three fields, or nothing.
LEMMA ChangedData ==
    ASSUME NEW d \in DeviceData, NEW item \in Items, NEW t \in Nat
    PROVE  /\ ValueChanged(d, item, t) \in DeviceData
           /\ ValueChangeCode(item) # 204 => Report(ValueChanged(d, item, t)) = Report(d)
<1>1. <<item>> \in Seq(Items)
  OBVIOUS
<1>2. CASE WriteCode(item) # 405
  <2>1. ValueChanged(d, item, t) = DeviceWritten(d, <<item>>, t)
    BY <1>2 DEF ValueChanged
  <2>2. Report(DeviceWritten(d, <<item>>, t)) = Report(d)
    BY <1>1, WrittenData DEF Report
  <2>3. DeviceWritten(d, <<item>>, t) \in DeviceData
    BY <1>1, WrittenData
  <2>4. QED
    BY <2>1, <2>2, <2>3
<1>3. CASE WriteCode(item) = 405
  <2> DEFINE c == DeviceChanged(d, item)
             was(value, r) == IF item.res = r /\ ChangeCode(item) = 204 THEN item.number ELSE value
  <2>1. ValueChanged(d, item, t) = c /\ ValueChangeCode(item) = ChangeCode(item)
    BY <1>3 DEF ValueChanged, ValueChangeCode
  <2>2. c = [free_memory |-> was(d.free_memory, Memory), error |-> was(d.error, Error),
             time |-> d.time, battery_level |-> was(d.battery_level, Battery),
             time_offset |-> d.time_offset]
    <3>1. c = [d EXCEPT !.battery_level = was(d.battery_level, Battery),
                        !.free_memory = was(d.free_memory, Memory),
                        !.error = was(d.error, Error)]
      BY DEF DeviceChanged
    <3> HIDE DEF was, c
    <3>2. QED
      BY <3>1 DEF DeviceData
  <2>3. c \in DeviceData
    <3>1. was(d.free_memory, Memory) \in Int /\ was(d.error, Error) \in Int
      BY DEF DeviceData, Items
    <3>2. was(d.battery_level, Battery) \in 0..100
      BY DEF DeviceData, ChangeCode
    <3>3. QED
      BY <2>2, <3>1, <3>2 DEF DeviceData
  <2>4. ChangeCode(item) # 204 => Report(c) = Report(d)
    BY <2>2 DEF Report
  <2>5. QED
    BY <2>1, <2>3, <2>4
<1>4. QED
  BY <1>2, <1>3

\* The last time accepted is a number.
LEMMA SetType ==
    ASSUME set \in [time : Int, at : Nat], now \in Nat, NEW request \in Seq(Items)
    PROVE  SetAfter(request) \in [time : Int, at : Nat]
<1> DEFINE ks == AppliedTo(request, CurrentTime)
<1>1. CASE ks = {}
  BY <1>1 DEF SetAfter
<1>2. CASE ks # {}
  <2>1. ks \in SUBSET (1..Len(request)) /\ Len(request) \in Nat
    BY AppliedAccepted
  <2>2. LastOf(ks) \in ks
    <3> HIDE DEF ks
    <3>1. QED
      BY <1>2, <2>1, LastOfSet
  <2>3. request[LastOf(ks)] \in Items
    BY <2>2, AppliedAccepted
  <2>4. request[LastOf(ks)].number \in Int
    <3> HIDE DEF ks
    <3>1. QED
      BY <2>3 DEF Items
  <2>5. SetAfter(request) = [time |-> request[LastOf(ks)].number, at |-> now]
    BY <1>2 DEF SetAfter
  <2>6. QED
    BY <2>4, <2>5
<1>3. QED
  BY <1>1, <1>2

LEMMA TimeOfDay == FactoryTime \in Int
BY SMT DEF FactoryTime

LEMMA TypeInit == Init => TypeOK
<1>1. SUFFICES ASSUME Init PROVE TypeOK
  OBVIOUS
<1>2. FactoryDevice \in DeviceData
  <2> DEFINE field == <<"+", "0", "1", ":", "0", "0", Nul>>
  <2>2. field \in [1..OffsetMaxLen -> Digits \cup {"+", "-", ":", Nul}]
    BY DEF OffsetMaxLen, Digits
  <2>3. FactoryDevice = [free_memory |-> 15, error |-> 0, time |-> FactoryTime,
                         battery_level |-> 100, time_offset |-> field]
    BY DEF FactoryDevice
  <2> HIDE DEF field
  <2>4. QED
    BY <2>2, <2>3, TimeOfDay DEF DeviceData
<1>3. QED
  <2>1. FactoryTime + 1 \in Int
    BY TimeOfDay
  <2>2. set \in [time : Int, at : Nat]
    BY <1>1, <2>1 DEF Init
  <2>3. firmware \in [state : {1, 2}, result : {0}, protocols : {2}]
    BY <1>1 DEF Init, FactoryFirmware
  <2>4. QED
    BY <1>1, <1>2, <2>2, <2>3 DEF Init, TypeOK

\* Clearing the error code leaves well-formed data.
LEMMA ErrorCleared ==
    ASSUME NEW d \in DeviceData
    PROVE  [d EXCEPT !.error = 0] \in DeviceData
<1>1. [d EXCEPT !.error = 0] =
        [free_memory |-> d.free_memory, error |-> 0, time |-> d.time,
         battery_level |-> d.battery_level, time_offset |-> d.time_offset]
  BY DEF DeviceData
<1>2. QED
  BY <1>1 DEF DeviceData

\* Each action keeps every variable in its type.
LEMMA TypeStep ==
    ASSUME TypeOK, [Next]_vars
    PROVE  TypeOK'
<1>1. RebootDelay \in Nat /\ BatteryTimeout \in Nat /\ IdleTimeout \in Nat /\ BatteryPause \in Nat
  BY TimersAssumption
<1>2. Armed \in Nat
  BY <1>1 DEF Armed, TypeOK
<1>0. now \in Nat /\ tv \in Nat /\ wake \in Nat /\ device \in DeviceData
      /\ reboot_time \in Nat /\ asked \in Nat /\ changed \in Nat
      /\ set \in [time : Int, at : Nat]
  BY DEF TypeOK
<1> USE DEF clocks, timers, history
<1>3. CASE AwaitReboot
  <2>1. tv' \in Nat
    BY <1>0, <1>2, <1>3 DEF AwaitReboot
  <2>2. reboot_time' \in Nat
    BY <1>0, <1>2, <1>3 DEF AwaitReboot
  <2>3. QED
    BY <1>3, <2>1, <2>2 DEF TypeOK, AwaitReboot, StartIteration
<1>4. CASE Reboot
  BY <1>2, <1>4 DEF TypeOK, Reboot, StartIteration
<1>5. CASE NewBatteryLevel
  <2>1. PICK level \in Levels :
           LET item == NumberItem(Battery, level)
           IN  /\ device' = ValueChanged(device, item, now)
               /\ changed' = IF ValueChangeCode(item) = 204 THEN now ELSE changed
    BY <1>0, <1>5 DEF NewBatteryLevel
  <2>2. device' \in DeviceData
    BY <1>0, <2>1, LevelTypes, ChangedData
  <2>3. changed' \in Nat
    BY <1>0, <2>1
  <2>4. next_change_time' \in Nat
    <3>1. PICK more \in 0..(BatterySpread - 1) : next_change_time' = now + more + BatteryPause
      BY <1>0, <1>5 DEF NewBatteryLevel
    <3>2. more \in Nat
      BY <3>1, TimersAssumption
    <3>3. QED
      BY <1>0, <1>1, <3>1, <3>2
  <2>5. QED
    BY <1>1, <1>5, <2>2, <2>3, <2>4 DEF TypeOK, NewBatteryLevel, StartIteration
<1>6. CASE SameBatteryLevel
  BY <1>1, <1>6 DEF TypeOK, SameBatteryLevel, StartIteration
<1>7. CASE Idle
  BY <1>1, <1>7 DEF TypeOK, Idle, StartIteration
<1>8. CASE Step
  <2>1. tv' \in 0..tv /\ wake' = now + tv'
    BY <1>0, <1>8 DEF Step
  <2>2. \A longest \in Nat : \A s \in 0..longest : s \in Nat
    OBVIOUS
  <2>3. tv' \in Nat
    BY <1>0, <2>1, <2>2
  <2>4. wake' \in Nat
    <3>1. \A a, b \in Nat : a + b \in Nat
      OBVIOUS
    <3>2. wake' = now + tv'
      BY <2>1
    <3>3. QED
      BY <1>0, <2>3, <3>1, <3>2
  <2>5. QED
    BY <1>8, <2>3, <2>4 DEF TypeOK, Step
<1>9. CASE StepFailed
  BY <1>9 DEF TypeOK, StepFailed
<1>10. CASE SelectTimeout \/ OtherEvent
  BY <1>10 DEF TypeOK, SelectTimeout, OtherEvent, BackToLoop
<1>11. CASE DeviceWrite
  <2>1. PICK request \in WriteRequests :
           device' = DeviceWritten(device, request, now) /\ set' = SetAfter(request)
    BY <1>0, <1>11 DEF DeviceWrite
  <2>2. request \in Seq(Items)
    BY <1>0, InputTypes
  <2>3. device' \in DeviceData
    BY <1>0, <2>1, <2>2, WrittenData
  <2>4. set' \in [time : Int, at : Nat]
    BY <1>0, <2>1, <2>2, SetType
  <2>5. QED
    BY <1>11, <2>3, <2>4 DEF TypeOK, DeviceWrite, BackToLoop
<1>12. CASE TypedChange
  <2>1. PICK item \in TypedChanges :
           device' = ValueChanged(device, item, now) /\ set' = SetAfter(<<item>>)
    BY <1>0, <1>12 DEF TypedChange
  <2>2. item \in Items /\ <<item>> \in Seq(Items)
    BY <1>0, InputTypes
  <2>3. device' \in DeviceData
    BY <1>0, <2>1, <2>2, ChangedData
  <2>4. set' \in [time : Int, at : Nat]
    BY <1>0, <2>1, <2>2, SetType
  <2>5. QED
    BY <1>12, <2>3, <2>4 DEF TypeOK, TypedChange, BackToLoop
<1>13. CASE RebootRequest
  <2>1. g_reboot' \in BOOLEAN /\ asked' \in Nat
    BY <1>0, <1>13 DEF RebootRequest, RebootAsked
  <2>2. QED
    BY <1>13, <2>1 DEF TypeOK, RebootRequest, BackToLoop
<1>14. CASE DeviceExecute
  <2>1. device' \in DeviceData
    <3>1. PICK res \in {5, 12, 13}, length \in {0, 1} : device' = DeviceExecuted(device, res, length)
      BY <1>0, <1>14 DEF DeviceExecute
    <3>2. device' = device \/ device' = [device EXCEPT !.error = 0]
      BY <1>0, <3>1 DEF DeviceExecuted
    <3>3. QED
      BY <1>0, <3>2, ErrorCleared
  <2>2. QED
    BY <1>14, <2>1 DEF TypeOK, DeviceExecute, BackToLoop
<1>15. CASE FirmwareUpdate
  <2>1. firmware' \in [state : {1, 2}, result : {0}, protocols : {2}]
    <3>1. PICK length \in {0, 1} : firmware' = FirmwareExecuted(firmware, 2, length)
      BY <1>0, <1>15 DEF FirmwareUpdate
    <3>2. firmware' = firmware \/ firmware' = [firmware EXCEPT !.state = 2]
      BY <3>1 DEF FirmwareExecuted
    <3>3. firmware \in [state : {1, 2}, result : {0}, protocols : {2}]
      BY DEF TypeOK
    <3>4. QED
      BY <3>2, <3>3
  <2>2. QED
    BY <1>15, <2>1 DEF TypeOK, FirmwareUpdate, BackToLoop
<1>16. CASE Quit
  BY <1>16 DEF TypeOK, Quit
<1>17. CASE Tick
  <2>1. now' \in Nat
    BY <1>0, <1>17 DEF Tick
  <2>2. slow' \in BOOLEAN
    BY <1>17 DEF TypeOK, Tick
  <2>3. QED
    BY <1>17, <2>1, <2>2 DEF TypeOK, Tick
<1>18. CASE Ended \/ UNCHANGED vars
  BY <1>18 DEF TypeOK, Ended, vars
<1>19. QED
  BY <1>3, <1>4, <1>5, <1>6, <1>7, <1>8, <1>9, <1>10, <1>11, <1>12, <1>13, <1>14, <1>15, <1>16,
     <1>17, <1>18 DEF Next, Loop, HeadOfLoop, Event

\* Whatever is asked of the client, its data keep their types.
THEOREM TypeCorrect == Spec => []TypeOK
<1>1. TypeOK /\ [Next]_vars => TypeOK'
  BY TypeStep
<1>2. QED
  BY TypeInit, <1>1, PTL DEF Spec

-----------------------------------------------------------------------------
(* The timers.                                                             *)
(*                                                                         *)
(* Neither property is inductive: what keeps the clock near a deadline is  *)
(* that select was never given more than the time left, so the invariants  *)
(* bound, at each place of the loop, the time at which it is left next.    *)

\* The second an iteration may lose outside select.
Late == IF slow THEN 1 ELSE 0

RebootKept ==
    /\ asked <= now
    /\ ~g_reboot => reboot_time = 0
    /\ (g_reboot /\ reboot_time = 0)
           => pc \in {"loop", "ended"} /\ (pc = "loop" => now <= asked + Late)
    /\ reboot_time # 0 =>
           /\ asked + RebootDelay <= reboot_time /\ reboot_time <= asked + RebootDelay + 1
           /\ pc \in {"loop", "select"} => now <= reboot_time + Late
           /\ pc = "step" => now + tv <= reboot_time + Late
           /\ pc = "select" => wake <= reboot_time + Late
    /\ pc = "rebooted" =>
           g_reboot /\ reboot_time # 0 /\ reboot_time < now /\ now <= reboot_time + 1

\* The latest time of a new battery level.
Due == changed + BatteryPause + BatterySpread + BatteryTimeout

BatteryKept ==
    (changing /\ ~g_reboot) =>
        /\ next_change_time < changed + BatteryPause + BatterySpread
        /\ pc \in {"loop", "select"} => now < Due + Late
        /\ pc = "step" => now + tv < Due + Late
        /\ pc = "select" => wake < Due + Late

\* The events that leave the clocks and the timers alone.
Elsewhere ==
    /\ UNCHANGED <<clocks, timers, asked, changed>>
    /\ (pc = "select" /\ pc' = "loop") \/ pc' = "ended" \/ pc' = pc

LEMMA MostEventsElsewhere ==
    ASSUME \/ StepFailed \/ SelectTimeout \/ OtherEvent \/ DeviceWrite \/ TypedChange
           \/ DeviceExecute \/ FirmwareUpdate \/ Quit \/ Ended \/ UNCHANGED vars
    PROVE  Elsewhere
<1> USE DEF clocks, timers, history, Elsewhere
<1>1. CASE StepFailed \/ SelectTimeout \/ OtherEvent \/ Quit
  BY <1>1 DEF StepFailed, SelectTimeout, OtherEvent, Quit, BackToLoop
<1>2. CASE DeviceWrite \/ TypedChange
  BY <1>2 DEF DeviceWrite, TypedChange, BackToLoop
<1>3. CASE DeviceExecute \/ FirmwareUpdate
  BY <1>3 DEF DeviceExecute, FirmwareUpdate, BackToLoop
<1>4. CASE Ended \/ UNCHANGED vars
  BY <1>4 DEF Ended, vars
<1>5. QED
  BY <1>1, <1>2, <1>3, <1>4

\* The types of the timers alone.
TimerTypes ==
    /\ now \in Nat /\ slow \in BOOLEAN /\ tv \in Nat /\ wake \in Nat
    /\ g_reboot \in BOOLEAN /\ reboot_time \in Nat
    /\ next_change_time \in Nat /\ changing \in BOOLEAN
    /\ asked \in Nat /\ changed \in Nat
    /\ pc \in {"loop", "step", "select", "rebooted", "ended"}

LEMMA RebootStep ==
    ASSUME TypeOK, TypeOK', RebootKept, [Next]_vars
    PROVE  RebootKept'
<1>0. TimerTypes /\ TimerTypes' /\ RebootDelay \in Nat \ {0}
  BY TimersAssumption DEF TypeOK, TimerTypes
<1> USE DEF clocks, timers, history, RebootKept, TimerTypes, Late
<1>1. CASE AwaitReboot
  BY <1>0, <1>1, SMTT(30) DEF AwaitReboot, StartIteration, Armed
<1>2. CASE Reboot
  BY <1>0, <1>2, SMTT(30) DEF Reboot, StartIteration, Armed
<1>3. CASE NewBatteryLevel
  <2>1. /\ ~g_reboot /\ pc' = "step"
        /\ UNCHANGED <<now, g_reboot, reboot_time, asked>>
    BY <1>3 DEF NewBatteryLevel, StartIteration
  <2>2. QED
    BY <1>0, <2>1
<1>4. CASE SameBatteryLevel \/ Idle
  <2>1. /\ ~g_reboot /\ pc' = "step"
        /\ UNCHANGED <<now, g_reboot, reboot_time, asked>>
    BY <1>4 DEF SameBatteryLevel, Idle, StartIteration
  <2>2. QED
    BY <1>0, <2>1
<1>5. CASE Step
  <2>1. /\ pc = "step" /\ pc' = "select" /\ tv' <= tv /\ wake' = now + tv'
        /\ UNCHANGED <<now, slow, g_reboot, reboot_time, asked>>
    BY <1>0, <1>5 DEF Step
  <2>2. reboot_time # 0 => now <= reboot_time + Late /\ now + tv' <= reboot_time + Late
    <3>1. reboot_time # 0 => now + tv <= reboot_time + Late
      BY <2>1
    <3>2. \A n, t, u, end \in Nat : u <= t /\ n + t <= end => n <= end /\ n + u <= end
      OBVIOUS
    <3>3. tv' \in Nat /\ tv' <= tv /\ reboot_time + Late \in Nat
      BY <1>0, <2>1
    <3> HIDE DEF Late
    <3>4. QED
      BY <1>0, <3>1, <3>2, <3>3
  <2>3. Late' = Late
    BY <2>1
  <2> HIDE DEF Late
  <2>4. QED
    BY <1>0, <2>1, <2>2, <2>3, SMTT(30)
<1>6. CASE Elsewhere
  <2>1. UNCHANGED <<now, slow, tv, wake, g_reboot, reboot_time, asked>>
    BY <1>6 DEF Elsewhere
  <2>2. CASE pc = "select" /\ pc' = "loop"
    BY <1>0, <2>1, <2>2, SMTT(30)
  <2>3. CASE pc' = "ended"
    BY <1>0, <2>1, <2>3, SMTT(30)
  <2>4. CASE pc' = pc
    BY <1>0, <2>1, <2>4, SMTT(30)
  <2>5. QED
    BY <1>6, <2>2, <2>3, <2>4 DEF Elsewhere
<1>7. CASE RebootRequest
  <2>1. /\ pc = "select" /\ pc' = "loop"
        /\ g_reboot => g_reboot'
        /\ asked' = IF g_reboot' /\ ~g_reboot THEN now ELSE asked
        /\ UNCHANGED <<now, slow, reboot_time>>
    BY <1>0, <1>7 DEF RebootRequest, BackToLoop
  <2>2. QED
    BY <1>0, <2>1, SMTT(30)
<1>8. CASE Tick
  <2>1. /\ ~Stopped /\ now' = now + 1
        /\ UNCHANGED <<pc, tv, wake, timers, asked>>
        /\ \/ pc = "select" /\ now < wake /\ slow' = slow
           \/ ~slow /\ slow'
    BY <1>0, <1>8 DEF Tick
  <2>2. QED
    BY <1>0, <2>1, SMTT(30) DEF Stopped
<1>9. QED
  BY <1>1, <1>2, <1>3, <1>4, <1>5, <1>6, <1>7, <1>8, MostEventsElsewhere
     DEF Next, Loop, HeadOfLoop, Event

\* A reboot happens in time.
THEOREM RebootInTime == Spec => []RebootOnTime
<1>1. Init => RebootKept
  BY DEF Init, RebootKept, Late
<1>2. TypeOK /\ TypeOK' /\ RebootKept /\ [Next]_vars => RebootKept'
  BY RebootStep
<1>3. TypeOK /\ RebootKept => RebootOnTime
  BY TimersAssumption DEF TypeOK, RebootKept, RebootOnTime, Late
<1>4. QED
  BY <1>1, <1>2, <1>3, TypeCorrect, PTL DEF Spec

\* A level that rand() gives is accepted by device_change.
LEMMA LevelAccepted ==
    \A level \in Levels : ValueChangeCode(NumberItem(Battery, level)) = 204
<1>1. SUFFICES ASSUME NEW level \in Levels
               PROVE  ValueChangeCode(NumberItem(Battery, level)) = 204
  OBVIOUS
<1>2. level \in 0..100
  BY InputsAssumption
<1>3. /\ NumberItem(Battery, level).res = Battery
      /\ NumberItem(Battery, level).kind = "int"
      /\ NumberItem(Battery, level).number = level
  BY DEF NumberItem
<1>4. WriteCode(NumberItem(Battery, level)) = 405
  BY <1>3 DEF WriteCode, CurrentTime, UtcOffset, Timezone, Battery
<1>5. ChangeCode(NumberItem(Battery, level)) = 204
  BY <1>2, <1>3 DEF ChangeCode
<1>6. QED
  BY <1>4, <1>5 DEF ValueChangeCode

LEMMA BatteryStep ==
    ASSUME TypeOK, TypeOK', BatteryKept, [Next]_vars
    PROVE  BatteryKept'
<1>0. /\ TimerTypes /\ TimerTypes'
      /\ BatteryTimeout \in Nat \ {0} /\ BatteryPause \in Nat \ {0}
      /\ BatterySpread \in Nat \ {0}
  BY TimersAssumption DEF TypeOK, TimerTypes
<1> USE DEF clocks, timers, history, BatteryKept, TimerTypes, Late, Due
<1>1. CASE AwaitReboot \/ Reboot
  BY <1>0, <1>1 DEF AwaitReboot, Reboot, StartIteration
<1>2. CASE NewBatteryLevel
  <2>1. /\ pc' = "step" /\ tv' = BatteryTimeout /\ slow' = FALSE
        /\ UNCHANGED now
        /\ \E level \in Levels :
              changed' = IF ValueChangeCode(NumberItem(Battery, level)) = 204 THEN now ELSE changed
        /\ \E more \in 0..(BatterySpread - 1) : next_change_time' = now + more + BatteryPause
    BY <1>0, <1>2 DEF NewBatteryLevel, StartIteration
  <2>2. changed' = now
    BY <2>1, LevelAccepted
  <2>3. next_change_time' < now + BatteryPause + BatterySpread
    BY <1>0, <2>1
  <2>4. now' + tv' < Due' + Late'
    <3>1. now + BatteryTimeout < now + BatteryPause + BatterySpread + BatteryTimeout + 0
      BY <1>0
    <3>2. QED
      BY <2>1, <2>2, <3>1
  <2> HIDE DEF Late, Due
  <2>5. QED
    BY <2>1, <2>2, <2>3, <2>4
<1>3. CASE SameBatteryLevel
  <2>1. /\ pc' = "step" /\ tv' = BatteryTimeout /\ slow' = FALSE
        /\ next_change_time >= now /\ changing /\ ~g_reboot
        /\ UNCHANGED <<now, timers, changed>>
    BY <1>0, <1>3 DEF SameBatteryLevel, StartIteration
  <2>2. next_change_time < changed + BatteryPause + BatterySpread
    BY <2>1
  <2>3. now' + tv' < Due' + Late'
    <3>1. now + BatteryTimeout < changed + BatteryPause + BatterySpread + BatteryTimeout + 0
      BY <1>0, <2>1, <2>2
    <3>2. QED
      BY <2>1, <3>1
  <2> HIDE DEF Late, Due
  <2>4. QED
    BY <2>1, <2>2, <2>3
<1>4. CASE Idle
  BY <1>0, <1>4 DEF Idle
<1>5. CASE Step
  <2>1. /\ pc = "step" /\ pc' = "select" /\ tv' \in Nat /\ tv' <= tv /\ wake' = now + tv'
        /\ UNCHANGED <<now, slow, g_reboot, changing, next_change_time, changed>>
    BY <1>0, <1>5 DEF Step
  <2>2. ASSUME changing, ~g_reboot PROVE now < Due + Late /\ now + tv' < Due + Late
    <3>1. now + tv < Due + Late
      BY <2>1, <2>2
    <3>2. \A n, t, u, end \in Nat : u <= t /\ n + t < end => n < end /\ n + u < end
      OBVIOUS
    <3>3. Due + Late \in Nat
      BY <1>0
    <3> HIDE DEF Late, Due
    <3>4. QED
      BY <1>0, <2>1, <3>1, <3>2, <3>3
  <2>3. Due' = Due /\ Late' = Late
    BY <2>1
  <2> HIDE DEF Late, Due
  <2>4. QED
    BY <2>1, <2>2, <2>3
<1>6. CASE Elsewhere
  <2>1. UNCHANGED <<now, slow, tv, wake, g_reboot, changing, next_change_time, changed>>
    BY <1>6 DEF Elsewhere
  <2>2. CASE pc = "select" /\ pc' = "loop"
    BY <1>0, <2>1, <2>2
  <2>3. CASE pc' = "ended"
    BY <1>0, <2>1, <2>3
  <2>4. CASE pc' = pc
    BY <1>0, <2>1, <2>4
  <2>5. QED
    BY <1>6, <2>2, <2>3, <2>4 DEF Elsewhere
<1>7. CASE RebootRequest
  <2>1. /\ pc = "select" /\ pc' = "loop"
        /\ g_reboot => g_reboot'
        /\ UNCHANGED <<now, slow, changing, next_change_time, changed>>
    BY <1>0, <1>7 DEF RebootRequest, BackToLoop
  <2>2. QED
    BY <1>0, <2>1
<1>8. CASE Tick
  <2>1. /\ ~Stopped /\ now' = now + 1
        /\ UNCHANGED <<pc, tv, wake, g_reboot, changing, next_change_time, changed>>
        /\ \/ pc = "select" /\ now < wake /\ slow' = slow
           \/ ~slow /\ slow'
    BY <1>0, <1>8 DEF Tick
  <2>2. Due' = Due /\ Due \in Nat
    BY <1>0, <2>1
  <2> HIDE DEF Due
  <2>3. QED
    BY <1>0, <2>1, <2>2, SMTT(30) DEF Stopped
<1>9. QED
  BY <1>1, <1>2, <1>3, <1>4, <1>5, <1>6, <1>7, <1>8, MostEventsElsewhere
     DEF Next, Loop, HeadOfLoop, Event

\* The battery level is never older than its longest pause and one timeout.
THEOREM BatteryInTime == Spec => []BatteryFresh
<1>1. Init => BatteryKept
  BY TimersAssumption DEF Init, BatteryKept, Late, Due
<1>2. TypeOK /\ TypeOK' /\ BatteryKept /\ [Next]_vars => BatteryKept'
  BY BatteryStep
<1>3. TypeOK /\ BatteryKept => BatteryFresh
  BY TimersAssumption DEF TypeOK, BatteryKept, BatteryFresh, Late, Due, Stopped
<1>4. QED
  BY <1>1, <1>2, <1>3, TypeCorrect, PTL DEF Spec

-----------------------------------------------------------------------------
(* The data of the objects.                                                *)

\* What the device and firmware data are, told from the history alone.
DataKept ==
    /\ Holds(device.time_offset, given)
    /\ device.time = set.time - set.at
    /\ reported = Report(device)

\* A request that is accepted in part leaves the offset and the time that its
\* last accepted resources give.
LEMMA RequestKept ==
    ASSUME TypeOK, DataKept, NEW request \in Seq(Items)
    PROVE  /\ Holds(OffsetAfter(device.time_offset, request), GivenAfter(request))
           /\ TimeAfter(device.time, request, now)
                  = SetAfter(request).time - SetAfter(request).at
<1>1. /\ device.time_offset \in [1..OffsetMaxLen -> Characters \cup {Nul}]
      /\ device.time \in Int /\ now \in Nat
  BY DEF TypeOK, DeviceData, Characters
<1>2. Holds(OffsetAfter(device.time_offset, request), GivenAfter(request))
  <2>1. CASE AppliedTo(request, UtcOffset) = {}
    <3>1. GivenAfter(request) = given
      BY <2>1 DEF GivenAfter
    <3>2. OffsetAfter(device.time_offset, request) = device.time_offset
      BY <1>1, <2>1, OffsetKept
    <3>3. QED
      BY <3>1, <3>2 DEF DataKept
  <2>2. CASE AppliedTo(request, UtcOffset) # {}
    <3>1. GivenAfter(request) = request[LastOf(AppliedTo(request, UtcOffset))].text
      BY <2>2 DEF GivenAfter
    <3>2. QED
      BY <2>2, <3>1, LastOffsetHeld
  <2>3. QED
    BY <2>1, <2>2
<1>3. TimeAfter(device.time, request, now) = SetAfter(request).time - SetAfter(request).at
  <2> DEFINE ks == AppliedTo(request, CurrentTime)
  <2>1. CASE ks = {}
    BY <2>1 DEF TimeAfter, SetAfter, DataKept
  <2>2. CASE ks # {}
    <3>1. TimeAfter(device.time, request, now) = request[LastOf(ks)].number - now
      BY <2>2 DEF TimeAfter
    <3>2. SetAfter(request) = [time |-> request[LastOf(ks)].number, at |-> now]
      BY <2>2 DEF SetAfter
    <3> HIDE DEF ks
    <3>3. QED
      BY <3>1, <3>2
  <2>3. QED
    BY <2>1, <2>2
<1>4. QED
  BY <1>2, <1>3

\* A change made by the client itself writes the offset and the time like a
\* request of one resource, and reports the other fields when it changes them.
LEMMA ChangeKept ==
    ASSUME NEW d \in DeviceData, NEW item \in Items, NEW t \in Nat
    PROVE  /\ ValueChanged(d, item, t).time = TimeAfter(d.time, <<item>>, t)
           /\ ValueChanged(d, item, t).time_offset = OffsetAfter(d.time_offset, <<item>>)
<1>1. <<item>> \in Seq(Items)
  OBVIOUS
<1>2. CASE WriteCode(item) # 405
  <2>1. ValueChanged(d, item, t) = DeviceWritten(d, <<item>>, t)
    BY <1>2 DEF ValueChanged
  <2>2. /\ DeviceWritten(d, <<item>>, t).time = TimeAfter(d.time, <<item>>, t)
        /\ DeviceWritten(d, <<item>>, t).time_offset = OffsetAfter(d.time_offset, <<item>>)
    BY <1>1, WrittenData
  <2>3. QED
    BY <2>1, <2>2
<1>3. CASE WriteCode(item) = 405
  <2>1. \A r : AppliedTo(<<item>>, r) = {}
    <3>1. SUFFICES ASSUME NEW r, NEW k \in AppliedTo(<<item>>, r) PROVE FALSE
      OBVIOUS
    <3> DEFINE request == <<item>>
    <3>2. k \in 1..Len(request) /\ WriteCode(request[k]) = 204
      <4> HIDE DEF request
      <4>1. \A other \in Seq(Items) : \A m \in AppliedTo(other, r) :
               m \in 1..Len(other) /\ WriteCode(other[m]) = 204
        BY AppliedAccepted
      <4>2. request \in Seq(Items) /\ k \in AppliedTo(request, r)
        BY <1>1, <3>1 DEF request
      <4>3. QED
        BY <4>1, <4>2
    <3>3. request[k] = item
      BY <3>2
    <3>4. QED
      BY <1>3, <3>2, <3>3
  <2>2. d.time_offset \in [1..OffsetMaxLen -> Characters \cup {Nul}]
    BY DEF DeviceData, Characters
  <2>3. OffsetAfter(d.time_offset, <<item>>) = d.time_offset
    BY <2>1, <2>2, OffsetKept
  <2>4. TimeAfter(d.time, <<item>>, t) = d.time
    BY <2>1 DEF TimeAfter
  <2>5. ValueChanged(d, item, t) = DeviceChanged(d, item)
    BY <1>3 DEF ValueChanged
  <2>6. DeviceChanged(d, item).time = d.time /\ DeviceChanged(d, item).time_offset = d.time_offset
    BY DEF DeviceChanged, DeviceData
  <2>7. QED
    BY <2>3, <2>4, <2>5, <2>6
<1>4. QED
  BY <1>2, <1>3

LEMMA DataInit == Init => DataKept
<1>1. SUFFICES ASSUME Init PROVE DataKept
  OBVIOUS
<1>2. Holds(device.time_offset, given)
  <2>1. FactoryOffset \in Seq(Characters) /\ Len(FactoryOffset) = 6
    BY DEF FactoryOffset, Characters, Digits
  <2>2. device.time_offset = <<"+", "0", "1", ":", "0", "0", Nul>> /\ given = FactoryOffset
    BY <1>1 DEF Init, FactoryDevice
  <2>3. QED
    BY <2>1, <2>2 DEF Holds, OffsetMaxLen, FactoryOffset
<1>3. device.time = set.time - set.at
  <2>1. device.time = FactoryTime /\ set.time = FactoryTime + 1 /\ set.at = 1
    BY <1>1 DEF Init, FactoryDevice
  <2>2. QED
    BY <2>1, TimeOfDay
<1>4. reported = Report(device)
  BY <1>1 DEF Init
<1>5. QED
  BY <1>2, <1>3, <1>4 DEF DataKept

LEMMA DataStep ==
    ASSUME TypeOK, DataKept, [Next]_vars
    PROVE  DataKept'
<1>0. now \in Nat /\ device \in DeviceData
  BY DEF TypeOK
<1> USE DEF clocks, timers, history
<1>1. CASE NewBatteryLevel
  <2>1. PICK level \in Levels :
           /\ device' = ValueChanged(device, NumberItem(Battery, level), now)
           /\ reported' = ReportedAfter(NumberItem(Battery, level))
    BY <1>1 DEF NewBatteryLevel
  <2> DEFINE item == NumberItem(Battery, level)
  <2>2. item \in Items /\ <<item>> \in Seq(Items) /\ ValueChangeCode(item) = 204
    BY LevelTypes, LevelAccepted
  <2>3. reported' = Report(device')
    BY <2>1, <2>2 DEF ReportedAfter
  <2>4. UNCHANGED <<given, set>>
    BY <1>1 DEF NewBatteryLevel
  <2>5. device'.time = device.time /\ device'.time_offset = device.time_offset
    <3>1. WriteCode(item) = 405
      BY DEF WriteCode, NumberItem, Battery, CurrentTime, UtcOffset, Timezone
    <3>2. device' = DeviceChanged(device, item)
      BY <2>1, <3>1 DEF ValueChanged
    <3> HIDE DEF item
    <3>3. QED
      BY <1>0, <3>2 DEF DeviceChanged, DeviceData
  <2>6. QED
    BY <2>3, <2>4, <2>5 DEF DataKept
<1>2. CASE DeviceWrite
  <2>1. PICK request \in WriteRequests :
           /\ device' = DeviceWritten(device, request, now)
           /\ given' = GivenAfter(request) /\ set' = SetAfter(request)
    BY <1>2 DEF DeviceWrite
  <2>2. request \in Seq(Items)
    BY InputTypes
  <2>3. Report(device') = Report(device)
    BY <1>0, <2>1, <2>2, WrittenData DEF Report
  <2>4. UNCHANGED reported
    BY <1>2 DEF DeviceWrite
  <2>5. QED
    BY <1>0, <2>1, <2>2, <2>3, <2>4, WrittenData, RequestKept DEF DataKept
<1>3. CASE TypedChange
  <2>1. PICK item \in TypedChanges :
           /\ device' = ValueChanged(device, item, now)
           /\ given' = GivenAfter(<<item>>) /\ set' = SetAfter(<<item>>)
           /\ reported' = ReportedAfter(item)
    BY <1>3 DEF TypedChange
  <2>2. item \in Items /\ <<item>> \in Seq(Items)
    BY InputTypes
  <2>3. reported' = Report(device')
    BY <1>0, <2>1, <2>2, ChangedData DEF ReportedAfter, DataKept
  <2>4. QED
    BY <1>0, <2>1, <2>2, <2>3, ChangeKept, RequestKept DEF DataKept
<1>4. CASE DeviceExecute
  <2>1. PICK res \in {5, 12, 13}, length \in {0, 1} : device' = DeviceExecuted(device, res, length)
    BY <1>4 DEF DeviceExecute
  <2>2. /\ Report(device') = Report(device)
        /\ device'.time = device.time /\ device'.time_offset = device.time_offset
    BY <1>0, <2>1 DEF DeviceExecuted, Report, DeviceData
  <2>3. UNCHANGED <<firmware, history>>
    BY <1>4 DEF DeviceExecute
  <2>4. QED
    BY <2>2, <2>3 DEF DataKept
<1>5. CASE UNCHANGED <<device, given, set, reported>>
  BY <1>5 DEF DataKept
<1>6. ASSUME \/ AwaitReboot \/ Reboot \/ SameBatteryLevel \/ Idle \/ Step \/ StepFailed
             \/ SelectTimeout \/ OtherEvent \/ RebootRequest \/ FirmwareUpdate \/ Quit
             \/ Tick \/ Ended \/ UNCHANGED vars
      PROVE  UNCHANGED <<device, given, set, reported>>
  <2>1. CASE AwaitReboot \/ Reboot \/ SameBatteryLevel \/ Idle
    BY <2>1 DEF AwaitReboot, Reboot, SameBatteryLevel, Idle
  <2>2. CASE Step \/ StepFailed \/ SelectTimeout \/ OtherEvent
    BY <2>2 DEF Step, StepFailed, SelectTimeout, OtherEvent
  <2>3. CASE RebootRequest \/ FirmwareUpdate \/ Quit \/ Tick
    BY <2>3 DEF RebootRequest, FirmwareUpdate, Quit, Tick
  <2>4. CASE Ended \/ UNCHANGED vars
    BY <2>4 DEF Ended, vars
  <2>5. QED
    BY <1>6, <2>1, <2>2, <2>3, <2>4
<1>7. QED
  BY <1>1, <1>2, <1>3, <1>4, <1>5, <1>6 DEF Next, Loop, HeadOfLoop, Event

\* The data agree with what was asked for in every state.
THEOREM DataCorrect == Spec => []DataKept
<1>1. TypeOK /\ DataKept /\ [Next]_vars => DataKept'
  BY DataStep
<1>2. QED
  BY DataInit, <1>1, TypeCorrect, PTL DEF Spec

\* The offset read is the last one accepted.
THEOREM OffsetRight == Spec => []OffsetReadsBack
<1>1. DataKept => OffsetReadsBack
  BY HeldIsRead DEF DataKept, OffsetReadsBack
<1>2. QED
  BY <1>1, DataCorrect, PTL

\* The time read runs on from the last one accepted.
THEOREM TimeRight == Spec => []TimeRunsOn
<1>1. ASSUME TypeOK, DataKept PROVE TimeRunsOn
  <2>1. now \in Nat /\ set.time \in Int /\ set.at \in Nat
    BY <1>1 DEF TypeOK
  <2>2. \A a \in Int : \A t, n \in Nat : (a - t) + n = a + (n - t)
    OBVIOUS
  <2>3. QED
    BY <1>1, <2>1, <2>2 DEF DataKept, TimeRunsOn, TimeRead
<1>2. QED
  BY <1>1, DataCorrect, TypeCorrect, PTL

\* Observers know the present values.
THEOREM ObserversRight == Spec => []ObserversKnow
<1>1. DataKept => ObserversKnow
  BY DEF DataKept, ObserversKnow
<1>2. QED
  BY <1>1, DataCorrect, PTL

-----------------------------------------------------------------------------
(* What the operators agree on.                                            *)

\* The check of an offset to UTC refuses none that is in use and accepts nothing that is
\* not "at ISO 8601 format" (OffsetCheckSound).
THEOREM OffsetsSound == Spec => []OffsetCheckSound
<1>1. ASSUME NEW n \in Nat, NEW head \in [1..n -> Digits \cup {"+", "-", ":"}],
             NEW m \in Nat, NEW tail \in [1..m -> {"0", "6", ":"}]
      PROVE  CheckTimeOffset(head \o tail) => head \o tail \in IsoOffsets
  <2>1. head \in Seq(Characters)
    BY DEF Characters
  <2>2. tail \in Seq(Characters)
    <3>1. {"0", "6", ":"} \subseteq Characters
      BY DEF Characters, Digits
    <3>2. QED
      BY <3>1
  <2>3. head \o tail \in Seq(Characters)
    BY <2>1, <2>2, ConcatProperties
  <2>4. QED
    BY <2>3, CheckedIso
<1>2. OffsetCheckSound
  <2>1. \A n \in {0, 2, 3} : n \in Nat /\ \A m \in 0..(IF n = 3 THEN 4 ELSE 0) : m \in Nat
    OBVIOUS
  <2>2. QED
    BY <1>1, <2>1, InUseChecked DEF OffsetCheckSound
<1>3. QED
  BY <1>2, PTL

-----------------------------------------------------------------------------
\* The resources a getter has a value for.
HasValue(getter, r) == r \in getter.single \/ r \in DOMAIN getter.count

\* The list of a getter names what it has a value for, once, and nothing it refuses.
ListFits(getter, n) ==
    /\ getter.full \in Seq(Nat) /\ Len(getter.full) = n
    /\ \A k \in 1..n : HasValue(getter, getter.full[k])
    /\ \A r : HasValue(getter, r) => r \notin getter.closed /\ \E k \in 1..n : getter.full[k] = r
    /\ \A j, k \in 1..n : getter.full[j] = getter.full[k] => j = k

\* What ReadListsAgree asks of a getter.
ListAgrees(getter) ==
    /\ ReadAnswer(getter, <<>>) = 205
    /\ \A r \in 0..21 :
          Cardinality({k \in DOMAIN getter.full : getter.full[k] = r})
              = IF ReadAnswer(getter, <<Whole(r)>>) = 205 THEN 1 ELSE 0

\* A read of one resource answers with that resource's code.
LEMMA OneRead ==
    ASSUME NEW getter, NEW item
    PROVE  ReadAnswer(getter, <<item>>) = ReadCode(getter, item)
<1> DEFINE items   == <<item>>
           refused == {k \in DOMAIN items : ReadCode(getter, items[k]) # 205}
           first   == CHOOSE k \in refused : \A m \in refused : k <= m
<1>1. DOMAIN items = {1} /\ items[1] = item /\ items # <<>>
  OBVIOUS
<1>2. ReadAnswer(getter, items) = IF refused = {} THEN 205 ELSE ReadCode(getter, items[first])
  BY <1>1 DEF ReadAnswer
<1> HIDE DEF items
<1>3. CASE ReadCode(getter, item) = 205
  <2>1. refused = {}
    BY <1>1, <1>3
  <2>2. QED
    BY <1>2, <1>3, <2>1 DEF items
<1>4. CASE ReadCode(getter, item) # 205
  <2>1. refused = {1}
    BY <1>1, <1>4
  <2>2. first \in refused
    <3> HIDE DEF refused
    <3>1. \E k \in refused : \A m \in refused : k <= m
      BY <2>1
    <3>2. QED
      BY <3>1
  <2>3. first = 1
    BY <2>1, <2>2
  <2> HIDE DEF refused, first
  <2>4. QED
    BY <1>1, <1>2, <2>1, <2>3 DEF items
<1>5. QED
  BY <1>3, <1>4

\* A whole resource is read just when the getter has a value for it.
LEMMA WholeCode ==
    ASSUME NEW getter, NEW r, HasValue(getter, r) => r \notin getter.closed
    PROVE  ReadCode(getter, Whole(r)) = 205 <=> HasValue(getter, r)
<1>1. Whole(r).res = r /\ Whole(r).multiple = FALSE /\ Whole(r).ids = {}
  BY DEF Whole
<1>2. CASE r \in getter.closed
  <2>1. r \notin getter.single /\ r \notin DOMAIN getter.count
    BY <1>2 DEF HasValue
  <2>2. ReadCode(getter, Whole(r)) = 405
    BY <1>1, <1>2, <2>1 DEF ReadCode
  <2>3. QED
    BY <1>2, <2>2
<1>3. CASE r \notin getter.closed /\ HasValue(getter, r)
  BY <1>1, <1>3 DEF ReadCode, HasValue
<1>4. CASE r \notin getter.closed /\ ~HasValue(getter, r)
  <2>1. ReadCode(getter, Whole(r)) = 404
    BY <1>1, <1>4 DEF ReadCode, HasValue
  <2>2. QED
    BY <1>4, <2>1
<1>5. QED
  BY <1>2, <1>3, <1>4

LEMMA FittingListAgrees ==
    ASSUME NEW getter, NEW n \in Nat, ListFits(getter, n)
    PROVE  ListAgrees(getter)
<1> DEFINE full == getter.full
<1>1. /\ full \in Seq(Nat) /\ DOMAIN full = 1..n
      /\ \A k \in 1..n : HasValue(getter, full[k])
      /\ \A r : HasValue(getter, r) => r \notin getter.closed /\ \E k \in 1..n : full[k] = r
      /\ \A j, k \in 1..n : full[j] = full[k] => j = k
  BY DEF ListFits
<1> HIDE DEF full
<1>2. \A r : ReadCode(getter, Whole(r)) = 205 <=> HasValue(getter, r)
  BY <1>1, WholeCode
<1>3. ReadAnswer(getter, <<>>) = 205
  <2> DEFINE items   == [k \in DOMAIN full |-> Whole(full[k])]
             refused == {k \in DOMAIN items : ReadCode(getter, items[k]) # 205}
  <2>1. refused = {}
    BY <1>1, <1>2
  <2>2. QED
    BY <2>1 DEF ReadAnswer, full
<1>4. ASSUME NEW r
      PROVE  Cardinality({k \in DOMAIN full : full[k] = r})
                = IF ReadAnswer(getter, <<Whole(r)>>) = 205 THEN 1 ELSE 0
  <2> DEFINE places == {k \in DOMAIN full : full[k] = r}
  <2>1. ReadAnswer(getter, <<Whole(r)>>) = 205 <=> HasValue(getter, r)
    BY <1>2, OneRead
  <2>2. CASE HasValue(getter, r)
    <3>1. PICK k \in 1..n : full[k] = r
      BY <1>1, <2>2
    <3>2. places = {k}
      BY <1>1, <3>1
    <3>3. Cardinality(places) = 1
      BY <3>2, FS_Singleton
    <3> HIDE DEF places
    <3>4. QED
      BY <2>1, <2>2, <3>3 DEF places
  <2>3. CASE ~HasValue(getter, r)
    <3>1. places = {}
      BY <1>1, <2>3
    <3>2. QED
      BY <2>1, <2>3, <3>1, FS_EmptySet
  <2>4. QED
    BY <2>2, <2>3
<1>5. QED
  BY SMTT(30), <1>3, <1>4 DEF ListAgrees, full

-----------------------------------------------------------------------------
\* The lists kept by hand.
LEMMA ListsFit ==
    /\ ListFits(DeviceGetter, 14)
    /\ ListFits(MonitoringGetter, 11)
    /\ ListFits(SecurityGetter, 13)
    /\ ListFits(LocationGetter, 7)
    /\ ListFits(StatisticsGetter, 6)
    /\ \A protocols : ListFits(FirmwareGetter(protocols), 6)
<1>1. ListFits(DeviceGetter, 14)
  <2> DEFINE getter == DeviceGetter
             full   == DeviceList
             values == (0..3) \cup (6..11) \cup (13..16)
  <2>1. getter.full = full /\ getter.closed = {4, 5, 12}
    BY DEF DeviceGetter, DeviceCounts
  <2>2. \A r : HasValue(getter, r) <=> r \in values
    BY DEF DeviceGetter, DeviceCounts, HasValue
  <2>3. full \in Seq(Nat) /\ Len(full) = 14
    BY DEF DeviceList
  <2>4. full[1] = 0 /\ full[2] = 1 /\ full[3] = 2 /\ full[4] = 3 /\ full[5] = 6
        /\ full[6] = 7 /\ full[7] = 8 /\ full[8] = 9 /\ full[9] = 10 /\ full[10] = 11
        /\ full[11] = 13 /\ full[12] = 14 /\ full[13] = 15 /\ full[14] = 16
    BY DEF DeviceList
  <2>5. \A k \in 1..14 : k = 1 \/ k = 2 \/ k = 3 \/ k = 4 \/ k = 5 \/ k = 6 \/ k = 7 \/ k = 8 \/ k = 9
        \/ k = 10 \/ k = 11 \/ k = 12 \/ k = 13 \/ k = 14
    OBVIOUS
  <2> HIDE DEF getter, full
  <2>6. \A k \in 1..14 : full[k] = IF k <= 4 THEN k - 1 ELSE IF k <= 10 THEN k + 1 ELSE k + 2
    BY <2>4, <2>5
  <2>7. \A k \in 1..14 : full[k] \in values
    BY <2>6
  <2>8. \A r \in values : r \notin {4, 5, 12} /\ \E k \in 1..14 : full[k] = r
    <3>1. \A r \in values : r \notin {4, 5, 12} /\ (IF r <= 3 THEN r + 1 ELSE IF r <= 11 THEN r - 1 ELSE r - 2) \in 1..14
      OBVIOUS
    <3>2. \A r \in values : full[IF r <= 3 THEN r + 1 ELSE IF r <= 11 THEN r - 1 ELSE r - 2] = r
      BY <2>6
    <3>3. QED
      BY <3>1, <3>2
  <2>9. \A j, k \in 1..14 : full[j] = full[k] => j = k
    BY <2>6
  <2> HIDE DEF values
  <2>10. ListFits(getter, 14)
    BY <2>1, <2>2, <2>3, <2>7, <2>8, <2>9 DEF ListFits
  <2>11. QED
    BY <2>10 DEF getter
<1>2. ListFits(MonitoringGetter, 11)
  <2> DEFINE getter == MonitoringGetter
             full   == MonitoringList
             values == 0..10
  <2>1. getter.full = full /\ getter.closed = {}
    BY DEF MonitoringGetter, Getter
  <2>2. \A r : HasValue(getter, r) <=> r \in values
    BY DEF MonitoringGetter, Getter, HasValue
  <2>3. full \in Seq(Nat) /\ Len(full) = 11
    BY DEF MonitoringList
  <2>4. full[1] = 0 /\ full[2] = 1 /\ full[3] = 2 /\ full[4] = 3 /\ full[5] = 4
        /\ full[6] = 5 /\ full[7] = 6 /\ full[8] = 7 /\ full[9] = 8 /\ full[10] = 9
        /\ full[11] = 10
    BY DEF MonitoringList
  <2>5. \A k \in 1..11 : k = 1 \/ k = 2 \/ k = 3 \/ k = 4 \/ k = 5 \/ k = 6 \/ k = 7 \/ k = 8 \/ k = 9
        \/ k = 10 \/ k = 11
    OBVIOUS
  <2> HIDE DEF getter, full
  <2>6. \A k \in 1..11 : full[k] = k - 1
    BY <2>4, <2>5
  <2>7. \A k \in 1..11 : full[k] \in values
    BY <2>6
  <2>8. \A r \in values : r \notin {} /\ \E k \in 1..11 : full[k] = r
    <3>1. \A r \in values : r \notin {} /\ (r + 1) \in 1..11
      OBVIOUS
    <3>2. \A r \in values : full[r + 1] = r
      BY <2>6
    <3>3. QED
      BY <3>1, <3>2
  <2>9. \A j, k \in 1..11 : full[j] = full[k] => j = k
    BY <2>6
  <2> HIDE DEF values
  <2>10. ListFits(getter, 11)
    BY <2>1, <2>2, <2>3, <2>7, <2>8, <2>9 DEF ListFits
  <2>11. QED
    BY <2>10 DEF getter
<1>3. ListFits(SecurityGetter, 13)
  <2> DEFINE getter == SecurityGetter
             full   == SecurityList
             values == 0..12
  <2>1. getter.full = full /\ getter.closed = {}
    BY DEF SecurityGetter, Getter
  <2>2. \A r : HasValue(getter, r) <=> r \in values
    BY DEF SecurityGetter, Getter, HasValue
  <2>3. full \in Seq(Nat) /\ Len(full) = 13
    BY DEF SecurityList
  <2>4. full[1] = 0 /\ full[2] = 1 /\ full[3] = 2 /\ full[4] = 3 /\ full[5] = 4
        /\ full[6] = 5 /\ full[7] = 6 /\ full[8] = 7 /\ full[9] = 8 /\ full[10] = 9
        /\ full[11] = 10 /\ full[12] = 11 /\ full[13] = 12
    BY DEF SecurityList
  <2>5. \A k \in 1..13 : k = 1 \/ k = 2 \/ k = 3 \/ k = 4 \/ k = 5 \/ k = 6 \/ k = 7 \/ k = 8 \/ k = 9
        \/ k = 10 \/ k = 11 \/ k = 12 \/ k = 13
    OBVIOUS
  <2> HIDE DEF getter, full
  <2>6. \A k \in 1..13 : full[k] = k - 1
    BY <2>4, <2>5
  <2>7. \A k \in 1..13 : full[k] \in values
    BY <2>6
  <2>8. \A r \in values : r \notin {} /\ \E k \in 1..13 : full[k] = r
    <3>1. \A r \in values : r \notin {} /\ (r + 1) \in 1..13
      OBVIOUS
    <3>2. \A r \in values : full[r + 1] = r
      BY <2>6
    <3>3. QED
      BY <3>1, <3>2
  <2>9. \A j, k \in 1..13 : full[j] = full[k] => j = k
    BY <2>6
  <2> HIDE DEF values
  <2>10. ListFits(getter, 13)
    BY <2>1, <2>2, <2>3, <2>7, <2>8, <2>9 DEF ListFits
  <2>11. QED
    BY <2>10 DEF getter
<1>4. ListFits(LocationGetter, 7)
  <2> DEFINE getter == LocationGetter
             full   == LocationList
             values == 0..6
  <2>1. getter.full = full /\ getter.closed = {}
    BY DEF LocationGetter, Getter
  <2>2. \A r : HasValue(getter, r) <=> r \in values
    BY DEF LocationGetter, Getter, HasValue
  <2>3. full \in Seq(Nat) /\ Len(full) = 7
    BY DEF LocationList
  <2>4. full[1] = 0 /\ full[2] = 1 /\ full[3] = 2 /\ full[4] = 3 /\ full[5] = 4
        /\ full[6] = 5 /\ full[7] = 6
    BY DEF LocationList
  <2>5. \A k \in 1..7 : k = 1 \/ k = 2 \/ k = 3 \/ k = 4 \/ k = 5 \/ k = 6 \/ k = 7
    OBVIOUS
  <2> HIDE DEF getter, full
  <2>6. \A k \in 1..7 : full[k] = k - 1
    BY <2>4, <2>5
  <2>7. \A k \in 1..7 : full[k] \in values
    BY <2>6
  <2>8. \A r \in values : r \notin {} /\ \E k \in 1..7 : full[k] = r
    <3>1. \A r \in values : r \notin {} /\ (r + 1) \in 1..7
      OBVIOUS
    <3>2. \A r \in values : full[r + 1] = r
      BY <2>6
    <3>3. QED
      BY <3>1, <3>2
  <2>9. \A j, k \in 1..7 : full[j] = full[k] => j = k
    BY <2>6
  <2> HIDE DEF values
  <2>10. ListFits(getter, 7)
    BY <2>1, <2>2, <2>3, <2>7, <2>8, <2>9 DEF ListFits
  <2>11. QED
    BY <2>10 DEF getter
<1>5. ListFits(StatisticsGetter, 6)
  <2> DEFINE getter == StatisticsGetter
             full   == StatisticsList
             values == 0..5
  <2>1. getter.full = full /\ getter.closed = {}
    BY DEF StatisticsGetter, Getter
  <2>2. \A r : HasValue(getter, r) <=> r \in values
    BY DEF StatisticsGetter, Getter, HasValue
  <2>3. full \in Seq(Nat) /\ Len(full) = 6
    BY DEF StatisticsList
  <2>4. full[1] = 0 /\ full[2] = 1 /\ full[3] = 2 /\ full[4] = 3 /\ full[5] = 4
        /\ full[6] = 5
    BY DEF StatisticsList
  <2>5. \A k \in 1..6 : k = 1 \/ k = 2 \/ k = 3 \/ k = 4 \/ k = 5 \/ k = 6
    OBVIOUS
  <2> HIDE DEF getter, full
  <2>6. \A k \in 1..6 : full[k] = k - 1
    BY <2>4, <2>5
  <2>7. \A k \in 1..6 : full[k] \in values
    BY <2>6
  <2>8. \A r \in values : r \notin {} /\ \E k \in 1..6 : full[k] = r
    <3>1. \A r \in values : r \notin {} /\ (r + 1) \in 1..6
      OBVIOUS
    <3>2. \A r \in values : full[r + 1] = r
      BY <2>6
    <3>3. QED
      BY <3>1, <3>2
  <2>9. \A j, k \in 1..6 : full[j] = full[k] => j = k
    BY <2>6
  <2> HIDE DEF values
  <2>10. ListFits(getter, 6)
    BY <2>1, <2>2, <2>3, <2>7, <2>8, <2>9 DEF ListFits
  <2>11. QED
    BY <2>10 DEF getter
<1>6. ASSUME NEW protocols PROVE ListFits(FirmwareGetter(protocols), 6)
  <2> DEFINE getter == FirmwareGetter(protocols)
             full   == FirmwareList
             values == {3} \cup (5..9)
  <2>1. getter.full = full /\ getter.closed = {0, 1, 2}
    BY DEF FirmwareGetter, Getter
  <2>2. \A r : HasValue(getter, r) <=> r \in values
    BY DEF FirmwareGetter, Getter, HasValue
  <2>3. full \in Seq(Nat) /\ Len(full) = 6
    BY DEF FirmwareList
  <2>4. full[1] = 3 /\ full[2] = 5 /\ full[3] = 6 /\ full[4] = 7 /\ full[5] = 8
        /\ full[6] = 9
    BY DEF FirmwareList
  <2>5. \A k \in 1..6 : k = 1 \/ k = 2 \/ k = 3 \/ k = 4 \/ k = 5 \/ k = 6
    OBVIOUS
  <2> HIDE DEF getter, full
  <2>6. \A k \in 1..6 : full[k] = IF k = 1 THEN 3 ELSE k + 3
    BY <2>4, <2>5
  <2>7. \A k \in 1..6 : full[k] \in values
    BY <2>6
  <2>8. \A r \in values : r \notin {0, 1, 2} /\ \E k \in 1..6 : full[k] = r
    <3>1. \A r \in values : r \notin {0, 1, 2} /\ (IF r = 3 THEN 1 ELSE r - 3) \in 1..6
      OBVIOUS
    <3>2. \A r \in values : full[IF r = 3 THEN 1 ELSE r - 3] = r
      BY <2>6
    <3>3. QED
      BY <3>1, <3>2
  <2>9. \A j, k \in 1..6 : full[j] = full[k] => j = k
    BY <2>6
  <2> HIDE DEF values
  <2>10. ListFits(getter, 6)
    BY <2>1, <2>2, <2>3, <2>7, <2>8, <2>9 DEF ListFits
  <2>11. QED
    BY <2>10 DEF getter
<1>7. QED
  BY <1>1, <1>2, <1>3, <1>4, <1>5, <1>6

\* The lists, the discovery and the switches kept by hand agree (ReadListsAgree).
THEOREM ListsAgree == Spec => []ReadListsAgree
<1>1. ASSUME NEW getter \in {SecurityGetter, DeviceGetter, MonitoringGetter, LocationGetter,
                             StatisticsGetter}
                            \cup {FirmwareGetter(protocols) : protocols \in 0..4}
      PROVE  ListAgrees(getter)
  BY ListsFit, FittingListAgrees
<1>2. ASSUME NEW r \in 0..21
      PROVE  DiscoverAnswer(<<Whole(r)>>) = 205
                <=> \/ ReadAnswer(DeviceGetter, <<Whole(r)>>) = 205
                    \/ ExecuteCode(r, 0) = 204
  <2>1. DiscoverAnswer(<<Whole(r)>>) = 205 <=> r \in 0..16
    BY DEF DiscoverAnswer, DeviceDiscovered, Whole
  <2>2. ExecuteCode(r, 0) = 204 <=> r \in {4, 5, 12}
    BY DEF ExecuteCode
  <2>3. ReadAnswer(DeviceGetter, <<Whole(r)>>) = 205
          <=> r \in {0, 1, 2, 3, 6, 7, 8, 9, 10, 11, 13, 14, 15, 16}
    <3>1. HasValue(DeviceGetter, r) <=> r \in {0, 1, 2, 3, 6, 7, 8, 9, 10, 11, 13, 14, 15, 16}
      BY DEF HasValue, DeviceGetter, DeviceCounts
    <3>2. HasValue(DeviceGetter, r) => r \notin DeviceGetter.closed
      BY ListsFit DEF ListFits
    <3>3. QED
      BY <3>1, <3>2, OneRead, WholeCode
  <2>4. QED
    BY <2>1, <2>2, <2>3
<1>3. ASSUME NEW r \in 0..21, FirmwareWriteCode(TextItem(r, <<>>)) = 204
      PROVE  ReadAnswer(FirmwareGetter(2), <<Whole(r)>>) = 405
  <2>1. r \in {0, 1}
    BY <1>3 DEF FirmwareWriteCode, TextItem
  <2>2. ReadCode(FirmwareGetter(2), Whole(r)) = 405
    BY <2>1 DEF ReadCode, FirmwareGetter, Getter, Whole
  <2>3. QED
    BY <2>2, OneRead
<1>4. ReadListsAgree
  BY <1>1, <1>2, <1>3, Zenon DEF ReadListsAgree, ListAgrees
<1>5. QED
  BY <1>4, PTL

=============================================================================
