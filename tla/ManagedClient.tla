--------------------------- MODULE ManagedClient ---------------------------
(***************************************************************************)
(* The head of the main loop with its clocks (lwm2mclient.cpp 1109-1158),  *)
(* composed with the objects a management server works on while they run:  *)
(* a reboot that is due some time after it was asked for, and a battery    *)
(* level that keeps changing (option -c).                                  *)
(*                                                                         *)
(* Time is what lwm2m_gettime returns, in whole seconds.  It passes while  *)
(* select waits, and by at most one second per iteration elsewhere.        *)
(***************************************************************************)
EXTENDS Device, ObjectReads

CONSTANTS
    RebootDelay,        \* 5, the wait before a reboot
    BatteryTimeout,     \* 5, select's timeout while the battery level changes
    IdleTimeout,        \* 60, select's timeout otherwise
    BatteryPause,       \* 10, the least time between two battery levels
    BatterySpread,      \* 20, by how much rand() may lengthen it
    Levels,             \* battery levels rand() % 100 may give
    WriteRequests,      \* requests a server may write to /3/0
    TypedChanges,       \* the resources "change" may be typed for
    MaxNow,             \* bound on the clock
    LastReboot          \* bound: no reboot is asked for later

ASSUME TimersAssumption ==
    /\ RebootDelay \in Nat \ {0} /\ BatteryTimeout \in Nat \ {0}
    /\ IdleTimeout \in Nat \ {0}
    /\ BatteryPause \in Nat \ {0} /\ BatterySpread \in Nat \ {0}
    /\ MaxNow \in Nat /\ LastReboot \in Nat

ASSUME InputsAssumption ==
    /\ Levels # {} /\ Levels \subseteq 0..99
    /\ \A request \in WriteRequests :
          /\ request \in Seq([res : Nat, kind : {"int", "text", "multiple"}, number : Int,
                              text : Seq(Digits \cup {"+", "-", ":"})])
          /\ request # <<>>
          \* The code takes any single offset for a text; a number, which it would
          \* read as a pointer, is not sent.
          /\ \A k \in DOMAIN request : request[k].res = UtcOffset => request[k].kind # "int"
    /\ \A item \in TypedChanges : <<item>> \in WriteRequests

VARIABLES
    pc,             \* where main() is
    now,            \* lwm2m_gettime()
    slow,           \* a second has passed outside select in this iteration
    tv,             \* tv.tv_sec
    wake,           \* the time at which select returns at the latest
    g_reboot,
    reboot_time,    \* 0 until it is set
    next_change_time,
    changing,       \* batterylevelchanging, option -c
    device,         \* userData of object 3
    firmware,       \* userData of object 5
    \* History, read by no step of the client:
    asked,          \* when g_reboot was set
    changed,        \* when the battery level last changed by itself
    given,          \* the last offset accepted
    set,            \* the last time accepted, and when it was
    reported        \* the battery level and free memory last reported as changed

clocks  == <<now, slow, tv, wake>>
timers  == <<g_reboot, reboot_time, next_change_time, changing>>
history == <<asked, changed, given, set, reported>>
vars    == <<pc, clocks, timers, device, firmware, history>>

Stopped == pc \in {"rebooted", "ended"}

Report(d) == [battery_level |-> d.battery_level, free_memory |-> d.free_memory]

\* The clocks' variables are times or waits; the objects keep the ranges of
\* their fields, and characters of the offset are those its check lets pass.
TypeOK ==
    /\ pc \in {"loop", "step", "select", "rebooted", "ended"}
    /\ now \in Nat /\ slow \in BOOLEAN /\ tv \in Nat /\ wake \in Nat
    /\ g_reboot \in BOOLEAN /\ reboot_time \in Nat
    /\ next_change_time \in Nat /\ changing \in BOOLEAN
    /\ device \in DeviceData
    /\ firmware \in [state : {1, 2}, result : {0}, protocols : {2}]
    /\ asked \in Nat /\ changed \in Nat
    /\ set \in [time : Int, at : Nat]

\* Only whether time passes matters, so the clock starts at 1: the code takes 0
\* for "not set".
Init ==
    /\ pc = "loop"
    /\ now = 1 /\ slow = FALSE /\ tv = 0 /\ wake = 0
    /\ g_reboot = FALSE /\ reboot_time = 0
    /\ next_change_time = 0 /\ changing \in BOOLEAN
    /\ device = FactoryDevice /\ firmware = FactoryFirmware
    /\ asked = 0 /\ changed = 1
    /\ given = FactoryOffset /\ set = [time |-> FactoryTime + 1, at |-> 1]
    /\ reported = Report(FactoryDevice)

-----------------------------------------------------------------------------
(* The head of the loop: 1114-1146. *)

StartIteration == pc = "loop" /\ slow' = FALSE

\* A delay that begins again in every iteration.
ArmedAnew == now + RebootDelay

\* reboot_time is set when the loop first sees the flag.
Armed == IF reboot_time = 0 THEN now + RebootDelay ELSE reboot_time

\* A pending reboot that does not shorten select's timeout.
AwaitRebootIdly ==
    /\ StartIteration /\ g_reboot
    /\ reboot_time' = Armed
    /\ ~(Armed < now)
    /\ tv' = IdleTimeout
    /\ pc' = "step"
    /\ UNCHANGED <<now, wake, g_reboot, next_change_time, changing, device, firmware, history>>

\* A reboot is pending: select must not sleep past it.
AwaitReboot ==
    /\ StartIteration /\ g_reboot
    /\ reboot_time' = Armed
    /\ ~(Armed < now)
    /\ tv' = Armed - now
    /\ pc' = "step"
    /\ UNCHANGED <<now, wake, g_reboot, next_change_time, changing, device, firmware, history>>

\* system_reboot is exit(1).
Reboot ==
    /\ StartIteration /\ g_reboot
    /\ reboot_time' = Armed
    /\ Armed < now
    /\ pc' = "rebooted"
    /\ UNCHANGED <<now, tv, wake, g_reboot, next_change_time, changing, device, firmware,
                   history>>

\* Only what the object's write function accepts is reported.
ReportedIfWritten(item) == IF WriteCode(item) = 204 THEN Report(device') ELSE reported

\* The end of handle_value_changed: lwm2m_resource_value_changed if accepted.
ReportedAfter(item) == IF ValueChangeCode(item) = 204 THEN Report(device') ELSE reported

\* update_battery_level: a new level, announced like a change typed by the user.
NewBatteryLevel ==
    /\ StartIteration /\ ~g_reboot /\ changing
    /\ next_change_time < now
    /\ \E level \in Levels :
          LET item == NumberItem(Battery, level)
          IN  /\ device' = ValueChanged(device, item, now)
              /\ reported' = ReportedAfter(item)
              /\ changed' = IF ValueChangeCode(item) = 204 THEN now ELSE changed
    /\ \E more \in 0..(BatterySpread - 1) : next_change_time' = now + more + BatteryPause
    /\ tv' = BatteryTimeout
    /\ pc' = "step"
    /\ UNCHANGED <<now, wake, g_reboot, reboot_time, changing, firmware,
                   asked, given, set>>

\* The battery's timeout is not set when its level stays.
SameBatteryLevelIdly ==
    /\ StartIteration /\ ~g_reboot /\ changing
    /\ ~(next_change_time < now)
    /\ tv' = IdleTimeout
    /\ pc' = "step"
    /\ UNCHANGED <<now, wake, timers, device, firmware, history>>

\* The battery level is not due yet.
SameBatteryLevel ==
    /\ StartIteration /\ ~g_reboot /\ changing
    /\ ~(next_change_time < now)
    /\ tv' = BatteryTimeout
    /\ pc' = "step"
    /\ UNCHANGED <<now, wake, timers, device, firmware, history>>

Idle ==
    /\ StartIteration /\ ~g_reboot /\ ~changing
    /\ tv' = IdleTimeout
    /\ pc' = "step"
    /\ UNCHANGED <<now, wake, timers, device, firmware, history>>

-----------------------------------------------------------------------------
(* lwm2m_step and select. *)

\* The engine may need to be called earlier than the loop would.
Step ==
    /\ pc = "step"
    /\ tv' \in 0..tv
    /\ wake' = now + tv'
    /\ pc' = "select"
    /\ UNCHANGED <<now, slow, timers, device, firmware, history>>

\* It may also fail, outside a bootstrap: return -1.
StepFailed ==
    /\ pc = "step"
    /\ pc' = "ended"
    /\ UNCHANGED <<clocks, timers, device, firmware, history>>

BackToLoop == pc = "select" /\ pc' = "loop"

SelectTimeout ==
    /\ BackToLoop
    /\ now >= wake
    /\ UNCHANGED <<clocks, timers, device, firmware, history>>

-----------------------------------------------------------------------------
(* Datagrams and commands end select's wait at any time. *)

\* One that leaves these objects alone: reads, and everything else.
OtherEvent ==
    /\ BackToLoop
    /\ UNCHANGED <<clocks, timers, device, firmware, history>>

\* What the last accepted resources of a request gave.
GivenAfter(request) ==
    LET ks == AppliedTo(request, UtcOffset)
    IN  IF ks = {} THEN given ELSE request[LastOf(ks)].text

SetAfter(request) ==
    LET ks == AppliedTo(request, CurrentTime)
    IN  IF ks = {} THEN set ELSE [time |-> request[LastOf(ks)].number, at |-> now]

DeviceWrite ==
    /\ BackToLoop
    /\ \E request \in WriteRequests :
          /\ device' = DeviceWritten(device, request, now)
          /\ given' = GivenAfter(request) /\ set' = SetAfter(request)
    /\ UNCHANGED <<clocks, timers, firmware, asked, changed, reported>>

\* "change" with a value: what was changed is reported to observers.
TypedChange ==
    /\ BackToLoop
    /\ \E item \in TypedChanges :
          /\ device' = ValueChanged(device, item, now)
          /\ given' = GivenAfter(<<item>>) /\ set' = SetAfter(<<item>>)
          /\ reported' = ReportedAfter(item)
    /\ UNCHANGED <<clocks, timers, firmware, asked, changed>>

\* Executing /3/0/4.
RebootRequest ==
    /\ BackToLoop
    /\ now <= LastReboot
    /\ \E length \in {0, 1} :
          /\ g_reboot' = (g_reboot \/ RebootAsked(4, length))
          /\ asked' = IF g_reboot' /\ ~g_reboot THEN now ELSE asked
    /\ UNCHANGED <<clocks, reboot_time, next_change_time, changing, device, firmware,
                   changed, given, set, reported>>

\* Executing another resource of /3/0.
DeviceExecute ==
    /\ BackToLoop
    /\ \E res \in {5, 12, 13}, length \in {0, 1} :
          device' = DeviceExecuted(device, res, length)
    /\ UNCHANGED <<clocks, timers, firmware, history>>

\* Executing /5/0/2.
FirmwareUpdate ==
    /\ BackToLoop
    /\ \E length \in {0, 1} : firmware' = FirmwareExecuted(firmware, 2, length)
    /\ UNCHANGED <<clocks, timers, device, history>>

\* A typed quit, or SIGINT: the loop is left.
Quit ==
    /\ pc = "loop"
    /\ pc' = "ended"
    /\ UNCHANGED <<clocks, timers, device, firmware, history>>

-----------------------------------------------------------------------------

\* A second passes.
Tick ==
    /\ ~Stopped
    /\ now < MaxNow
    /\ IF pc = "select" /\ now < wake THEN UNCHANGED slow
                                      ELSE ~slow /\ slow' = TRUE
    /\ now' = now + 1
    /\ UNCHANGED <<pc, tv, wake, timers, device, firmware, history>>

\* The process has ended.
Ended == Stopped /\ UNCHANGED vars

HeadOfLoop == AwaitReboot \/ Reboot \/ NewBatteryLevel \/ SameBatteryLevel \/ Idle
Event == OtherEvent \/ DeviceWrite \/ TypedChange \/ RebootRequest \/ DeviceExecute
         \/ FirmwareUpdate \/ Quit
Loop  == HeadOfLoop \/ Step \/ StepFailed \/ SelectTimeout

Next == Loop \/ Event \/ Tick \/ Ended

Spec == Init /\ [][Next]_vars

\* Time passes, and the loop goes on.
FairSpec == Spec /\ WF_vars(Loop) /\ WF_vars(Tick)

-----------------------------------------------------------------------------
(* Properties. *)

\* A reboot comes neither before its delay has passed nor, whatever the engine
\* and other traffic do in between, more than two seconds after that: select's
\* timeout is always cut to the time that is left.
RebootOnTime ==
    /\ (g_reboot /\ pc # "ended") => now <= asked + RebootDelay + 2
    /\ pc = "rebooted" => g_reboot /\ now > asked + RebootDelay

\* A reboot asked for happens, unless the loop is left before: neither a zero
\* timeout in the last second nor steady traffic puts it off for ever.
RebootHappens == g_reboot ~> Stopped

\* With -c the battery level never gets older than its longest pause and one
\* timeout; only a pending reboot, which is served instead, suspends it.
BatteryFresh ==
    (changing /\ ~g_reboot /\ ~Stopped)
        => now <= changed + BatteryPause + BatterySpread + BatteryTimeout

\* Reading the offset gives the last one accepted, whole, whatever longer or
\* shorter ones were written before it.
OffsetReadsBack == Terminated(device.time_offset) /\ OffsetRead(device.time_offset) = given

\* The current time that is read runs on from the last one accepted, in
\* whatever iteration and place of a request that was.
TimeRunsOn == TimeRead(device, now) = set.time + (now - set.at)

\* Whoever observes the battery level or the free memory has been told of their
\* present values: a change by itself or by the user that is accepted is
\* reported, and one that is refused changes nothing.
ObserversKnow == reported = Report(device)

-----------------------------------------------------------------------------
(* Properties of operators alone: once, in the initial states, is enough.   *)

\* The switches and lists kept by hand agree: a read of a whole object succeeds
\* and names each resource that can be read by itself, once; discovering the
\* Device object lists what can be read or executed, and nothing else; what a
\* server may write to the Firmware object it cannot read.
ReadListsAgree == Init =>
    /\ \A getter \in {SecurityGetter, DeviceGetter, MonitoringGetter, LocationGetter, StatisticsGetter}
                     \cup {FirmwareGetter(protocols) : protocols \in 0..4} :
          /\ ReadAnswer(getter, <<>>) = 205
          /\ \A r \in 0..21 :
                Cardinality({k \in DOMAIN getter.full : getter.full[k] = r})
                    = IF ReadAnswer(getter, <<Whole(r)>>) = 205 THEN 1 ELSE 0
    /\ \A r \in 0..21 :
          DiscoverAnswer(<<Whole(r)>>) = 205
              <=> \/ ReadAnswer(DeviceGetter, <<Whole(r)>>) = 205
                  \/ ExecuteCode(r, 0) = 204
    /\ \A r \in 0..21 :
          FirmwareWriteCode(TextItem(r, <<>>)) = 204
              => ReadAnswer(FirmwareGetter(2), <<Whole(r)>>) = 405

\* The position tests of prv_check_time_offset refuse no offset to UTC that is in use,
\* in any of its spellings, and let nothing pass that is not "at ISO 8601 format".  It
\* is a "basic check": +12:30, which its comment calls a bug, is of that format, in use
\* nowhere, and passes.  Any up to three characters are tried, with the tails of up to
\* four that tell digits, limits and colons apart.
OffsetCheckSound == Init =>
    LET any  == Digits \cup {"+", "-", ":"}
        some == {"0", "6", ":"}
        iso  == IsoOffsets
    IN  /\ \A s \in OffsetsInUse : CheckTimeOffset(s)
        /\ \A n \in {0, 2, 3} : \A head \in [1..n -> any] :
              \A m \in 0..(IF n = 3 THEN 4 ELSE 0) : \A tail \in [1..m -> some] :
                  CheckTimeOffset(head \o tail) => head \o tail \in iso
=============================================================================
