---------------------------- MODULE Lwm2mClient ----------------------------
(***************************************************************************)
(* The main loop of the client (lwm2mclient.cpp): reboot timer, engine     *)
(* step, recovery of a failed bootstrap, backup of the account objects,    *)
(* select, one packet or one command, shutdown.  The loop is one thread;   *)
(* it interleaves with SIGINT, whose handler may run between any two of    *)
(* its steps, and with what arrives on the socket and on stdin.            *)
(*                                                                         *)
(* The Wakaama engine (lwm2m_step) is external: EngineOutcomes lists what  *)
(* one call may return.                                                    *)
(***************************************************************************)
EXTENDS Naturals

CONSTANTS
    Servers,        \* short ids of the LwM2M servers an account can exist for
    Home,           \* the server given on the command line (serverId 123)
    Bs,             \* the bootstrap server's account
    Data,           \* the values the resources of one instance can hold
    Absent,         \* no such instance
    NoBackup        \* backupObjectArray before the first backup

Accounts == Servers \cup {Bs}

\* The instances of the Security object (one per account) and of the Server
\* object (one per server), each with the value of its resources.
Contents == [security : [Accounts -> Data \cup {Absent}],
             server   : [Servers -> Data \cup {Absent}]]

ASSUME ConstantsAssumption ==
    /\ Home \in Servers
    /\ Bs \notin Servers
    /\ Data # {}
    /\ Absent \notin Data
    /\ NoBackup \notin Contents

ClientStates == {"INITIAL", "BOOTSTRAP_REQUIRED", "BOOTSTRAPPING",
                 "REGISTER_REQUIRED", "REGISTERING", "READY"}

\* The command line's entries that change the loop's state, and the rest.
Commands == {"quit", "bootstrap", "other"}

VARIABLES
    pc,             \* where main() is
    state,          \* lwm2mH->state
    previousState,  \* previousState of main()
    bsKnown,        \* lwm2mH->bootstrapServerList is not empty
    failed,         \* the last lwm2m_step returned an error
    objects,        \* contents of the live Security and Server objects
    backup,         \* contents of backupObjectArray
    g_quit, g_reboot,
    sock,           \* a datagram waits on the socket
    typed,          \* the command line waiting on stdin
    deregistered,   \* lwm2m_close has sent the de-registration
    \* History, read by no step of the loop:
    session,        \* a bootstrap session has begun and neither ended nor failed
    good,           \* what the objects held outside any bootstrap session
    asked           \* prv_quit has run

engine  == <<state, bsKnown, failed>>
flags   == <<g_quit, g_reboot>>
input   == <<sock, typed>>
history == <<session, good, asked>>
vars    == <<pc, engine, previousState, objects, backup, flags, input,
             deregistered, history>>

Phases  == {"loop", "timers", "step", "result", "info", "select",
            "close", "cleanup"}
Stopped == pc \in {"closed", "failed", "rebooted"}

\* The state main() (lwm2mclient.cpp) can be in; g_quit is an int of which only
\* 0, 1 and 2 are ever stored.
TypeOK ==
    /\ pc \in Phases \cup {"closed", "failed", "rebooted"}
    /\ state \in ClientStates
    /\ previousState \in ClientStates
    /\ bsKnown \in BOOLEAN /\ failed \in BOOLEAN
    /\ objects \in Contents
    /\ backup \in Contents \cup {NoBackup}
    /\ g_quit \in {0, 1, 2} /\ g_reboot \in BOOLEAN
    /\ sock \in BOOLEAN /\ typed \in Commands \cup {"none"}
    /\ deregistered \in BOOLEAN
    /\ session \in BOOLEAN /\ good \in Contents /\ asked \in BOOLEAN

\* get_security_object and get_server_object: one security instance, for the
\* bootstrap server under -b and for Home otherwise, and Home's server instance.
FactoryContents(account, d) ==
    [security |-> [a \in Accounts |-> IF a = account THEN d ELSE Absent],
     server   |-> [s \in Servers  |-> IF s = Home THEN d ELSE Absent]]

Init ==
    /\ pc = "loop"
    /\ state = "INITIAL" /\ previousState = "INITIAL"
    /\ bsKnown = FALSE /\ failed = FALSE
    /\ \E account \in {Home, Bs}, d \in Data :
           objects = FactoryContents(account, d)
    /\ backup = NoBackup
    /\ g_quit = 0 /\ g_reboot = FALSE
    /\ sock = FALSE /\ typed = "none"
    /\ deregistered = FALSE
    /\ session = FALSE /\ good = objects /\ asked = FALSE

-----------------------------------------------------------------------------
(* The head of the loop. *)

\* A test for the typed quit only.
TestQuitIgnoringSignals ==
    /\ pc = "loop"
    /\ pc' = IF g_quit # 1 THEN "timers" ELSE "close"
    /\ UNCHANGED <<engine, previousState, objects, backup, flags, input,
                   deregistered, history>>

\* while (0 == g_quit).
TestQuit ==
    /\ pc = "loop"
    /\ pc' = IF g_quit = 0 THEN "timers" ELSE "close"
    /\ UNCHANGED <<engine, previousState, objects, backup, flags, input,
                   deregistered, history>>

\* The reboot delay has not run out, or no reboot was asked for.
Timers ==
    /\ pc = "timers"
    /\ pc' = "step"
    /\ UNCHANGED <<engine, previousState, objects, backup, flags, input,
                   deregistered, history>>

\* system_reboot is exit(1): nothing is closed, nothing de-registered.
Reboot ==
    /\ pc = "timers"
    /\ g_reboot
    /\ pc' = "rebooted"
    /\ UNCHANGED <<engine, previousState, objects, backup, flags, input,
                   deregistered, history>>

-----------------------------------------------------------------------------
(* lwm2m_step. *)

Outcome(s, known, ok) == [state |-> s, known |-> known, ok |-> ok]

\* Servers with both a security and a server instance can be registered with.
Registrable == {s \in Servers : /\ objects.security[s] # Absent
                                /\ objects.server[s] # Absent}

\* A bootstrap starts if a bootstrap server is known.
FromBootstrapRequired(known) ==
    IF known THEN {Outcome("BOOTSTRAPPING", known, TRUE)}
             ELSE {Outcome("BOOTSTRAP_REQUIRED", known, FALSE)}

\* In STATE_INITIAL the engine loads its server lists from the objects.
FromInitial ==
    LET known == objects.security[Bs] # Absent
    IN  {Outcome("INITIAL", bsKnown, FALSE)} \cup
        (IF Registrable # {}
            THEN {Outcome("REGISTERING", known, TRUE),
                  Outcome("REGISTER_REQUIRED", known, FALSE)}
            ELSE FromBootstrapRequired(known))

\* BOOTSTRAPPING: the session goes on, fails, or has finished, and then the
\* same call goes on from STATE_INITIAL.
EngineOutcomes ==
    CASE state = "INITIAL" -> FromInitial
      [] state = "BOOTSTRAP_REQUIRED" -> FromBootstrapRequired(bsKnown)
      [] state = "BOOTSTRAPPING" ->
             {Outcome(state, bsKnown, TRUE), Outcome(state, bsKnown, FALSE)}
             \cup FromInitial
      [] state = "REGISTERING" ->
             {Outcome(s, bsKnown, TRUE) : s \in {"REGISTERING", "READY"}}
             \cup FromBootstrapRequired(bsKnown)
      [] OTHER ->
             {Outcome(state, bsKnown, TRUE)} \cup FromBootstrapRequired(bsKnown)

\* A successful step opens a session by entering BOOTSTRAPPING and ends it,
\* keeping what was written, by leaving it.
Step ==
    /\ pc = "step"
    /\ \E o \in EngineOutcomes :
        /\ state' = o.state /\ bsKnown' = o.known /\ failed' = ~o.ok
        /\ session' = IF o.ok THEN o.state = "BOOTSTRAPPING" ELSE session
        /\ good' = IF o.ok /\ o.state # "BOOTSTRAPPING" THEN objects ELSE good
    /\ pc' = "result"
    /\ UNCHANGED <<previousState, objects, backup, flags, input,
                   deregistered, asked>>

-----------------------------------------------------------------------------
(* Recovery and backup. *)

\* A recovery that forgets the Server object.
RestoreSecurityOnly(contents) ==
    [contents EXCEPT !.security = backup.security]

\* prv_restore_objects replaces both objects by their copies.
RestoreObjects(contents) == [security |-> backup.security,
                             server   |-> backup.server]

\* lwm2m_step returned 0.
StepSucceeded ==
    /\ pc = "result" /\ ~failed
    /\ pc' = "info"
    /\ UNCHANGED <<engine, previousState, objects, backup, flags, input,
                   deregistered, history>>

\* A failed step while update_bootstrap_info has last seen BOOTSTRAPPING.
RecoverBootstrap ==
    /\ pc = "result" /\ failed /\ previousState = "BOOTSTRAPPING"
    /\ objects' = RestoreObjects(objects)
    /\ state' = "INITIAL"
    /\ session' = FALSE
    /\ pc' = "info"
    /\ UNCHANGED <<bsKnown, failed, previousState, backup, flags, input,
                   deregistered, good, asked>>

\* An error outside a bootstrap ends main() on the spot: return -1.
StepFailed ==
    /\ pc = "result" /\ failed /\ previousState # "BOOTSTRAPPING"
    /\ pc' = "failed"
    /\ UNCHANGED <<engine, previousState, objects, backup, flags, input,
                   deregistered, history>>

\* A backup in every iteration of a session.
BackupInEveryIteration ==
    /\ pc = "info"
    /\ previousState' = state
    /\ backup' = IF state = "BOOTSTRAPPING" THEN objects ELSE backup
    /\ pc' = "select"
    /\ UNCHANGED <<engine, objects, flags, input, deregistered, history>>

\* A backup for the first session only.
BackupOnce ==
    /\ pc = "info"
    /\ previousState' = state
    /\ backup' = IF backup = NoBackup /\ state = "BOOTSTRAPPING"
                    THEN objects ELSE backup
    /\ pc' = "select"
    /\ UNCHANGED <<engine, objects, flags, input, deregistered, history>>

\* update_bootstrap_info: the backup is taken on the change to BOOTSTRAPPING.
UpdateBootstrapInfo ==
    /\ pc = "info"
    /\ previousState' = state
    /\ backup' = IF previousState # state /\ state = "BOOTSTRAPPING"
                    THEN objects ELSE backup
    /\ pc' = "select"
    /\ UNCHANGED <<engine, objects, flags, input, deregistered, history>>

-----------------------------------------------------------------------------
(* select, and what its return leads to: one datagram, or else one command. *)

BackToLoop == pc = "select" /\ pc' = "loop"

\* Timeout, or an error select reports: nothing was ready.
SelectTimeout ==
    /\ BackToLoop
    /\ ~sock /\ typed = "none"
    /\ UNCHANGED <<engine, previousState, objects, backup, flags, input,
                   deregistered, history>>

\* recvfrom takes one datagram and the engine handles it.
Datagram ==
    /\ BackToLoop
    /\ sock /\ sock' = FALSE
    /\ UNCHANGED <<engine, previousState, backup, g_quit, typed,
                   deregistered, session, asked>>

\* A receive error, an oversized datagram, an unknown peer, or a message that
\* leaves this state alone (acknowledgements, reads, notifications).
PlainDatagram ==
    /\ Datagram
    /\ UNCHANGED <<objects, g_reboot, good>>

\* Writes one account's security instance, or deletes it.
WriteSecurity(a, d) == [objects EXCEPT !.security[a] = d]
WriteServer(s, d)   == [objects EXCEPT !.server[s] = d]

\* The engine lets the bootstrap server write, create and delete instances
\* while the client is bootstrapping.
BootstrapWrite ==
    /\ Datagram
    /\ state = "BOOTSTRAPPING"
    /\ \E d \in Data \cup {Absent} :
           \/ \E a \in Accounts : objects' = WriteSecurity(a, d)
           \/ \E s \in Servers : objects' = WriteServer(s, d)
    /\ UNCHANGED <<g_reboot, good>>

\* A management server may write, create and delete Server instances; the
\* Security object is closed to it.
ManagementWrite ==
    /\ Datagram
    /\ state \in {"REGISTERING", "READY"}
    /\ \E d \in Data \cup {Absent}, s \in Servers : objects' = WriteServer(s, d)
    /\ good' = objects'
    /\ UNCHANGED g_reboot

\* Executing /3/0/4 sets g_reboot.
RebootRequest ==
    /\ Datagram
    /\ state \in {"REGISTERING", "READY"}
    /\ g_reboot' = TRUE
    /\ UNCHANGED <<objects, good>>

\* Stdin is looked at only when the socket has nothing.
Command(c) ==
    /\ BackToLoop
    /\ ~sock
    /\ typed = c /\ typed' = "none"
    /\ UNCHANGED <<bsKnown, failed, previousState, objects, backup, g_reboot,
                   sock, deregistered, session, good>>

\* Commands that only print, notify or send.
OtherCommand ==
    /\ Command("other")
    /\ UNCHANGED <<state, g_quit, asked>>

\* prv_initiate_bootstrap, whatever the state is.
InitiateBootstrap ==
    /\ Command("bootstrap")
    /\ state' = "BOOTSTRAP_REQUIRED"
    /\ UNCHANGED <<g_quit, asked>>

\* A quit that adds to what SIGINT stored.
CountQuit ==
    /\ Command("quit")
    /\ g_quit' = g_quit + 1 /\ asked' = TRUE
    /\ UNCHANGED state

\* A quit that leaves the flag alone.
QuitForgotten ==
    /\ Command("quit")
    /\ asked' = TRUE
    /\ UNCHANGED <<state, g_quit>>

\* prv_quit.
Quit ==
    /\ Command("quit")
    /\ g_quit' = 1 /\ asked' = TRUE
    /\ UNCHANGED state

-----------------------------------------------------------------------------
(* Shutdown. *)

\* Only g_quit = 1 closes the backup and the engine, which de-registers.
Close ==
    /\ pc = "close"
    /\ IF g_quit = 1
          THEN backup' = NoBackup /\ deregistered' = TRUE
          ELSE UNCHANGED <<backup, deregistered>>
    /\ pc' = "cleanup"
    /\ UNCHANGED <<engine, previousState, objects, flags, input, history>>

\* The socket, the connections and the objects are freed.
Cleanup ==
    /\ pc = "cleanup"
    /\ pc' = "closed"
    /\ UNCHANGED <<engine, previousState, objects, backup, flags, input,
                   deregistered, history>>

-----------------------------------------------------------------------------
(* What happens to the process from outside. *)

\* handle_sigint, between any two steps of the loop.
Sigint ==
    /\ ~Stopped
    /\ g_quit' = 2
    /\ UNCHANGED <<pc, engine, previousState, objects, backup, g_reboot, input,
                   deregistered, history>>

\* The signal finds the process blocked in select, which returns EINTR.
SigintInSelect ==
    /\ BackToLoop
    /\ g_quit' = 2
    /\ UNCHANGED <<engine, previousState, objects, backup, g_reboot, input,
                   deregistered, history>>

\* Nothing looks at the socket or at stdin except select.
Arrive ==
    /\ pc = "select"
    /\ \/ ~sock /\ sock' = TRUE /\ UNCHANGED typed
       \/ typed = "none" /\ typed' \in Commands /\ UNCHANGED sock
    /\ UNCHANGED <<pc, engine, previousState, objects, backup, flags,
                   deregistered, history>>

\* The process has ended.
Ended == Stopped /\ UNCHANGED vars

RunCommand == OtherCommand \/ InitiateBootstrap \/ Quit

Loop ==
    \/ TestQuit \/ Timers \/ Reboot
    \/ Step
    \/ StepSucceeded \/ RecoverBootstrap \/ StepFailed
    \/ UpdateBootstrapInfo
    \/ SelectTimeout
    \/ PlainDatagram \/ BootstrapWrite \/ ManagementWrite \/ RebootRequest
    \/ RunCommand
    \/ Close \/ Cleanup

Next == Loop \/ Sigint \/ SigintInSelect \/ Arrive \/ Ended

Spec == Init /\ [][Next]_vars

\* The loop keeps running: select always has a timeout, and no handler blocks.
FairSpec == Spec /\ WF_vars(Loop)

\* Moreover, traffic pauses often enough for stdin to be read.
QuietSpec == FairSpec /\ SF_vars(RunCommand)

-----------------------------------------------------------------------------
(* Properties. *)

\* While the loop would recover by restoring (previousState), the backup
\* exists and holds what the objects held before the session's first write:
\* update_bootstrap_info copies them before any packet of the session is read,
\* and a "bootstrap" typed during a session does not overwrite the copy.
BackupHoldsGood ==
    (session /\ previousState = "BOOTSTRAPPING" /\ pc \notin {"cleanup", "closed"})
        => backup = good

\* No registration is started, kept or managed on accounts of a session that
\* did not finish: whenever the loop waits outside a session, the objects are
\* those from outside any session, those of a finished one, or the restored.
NoHalfBootstrap ==
    (pc = "select" /\ state # "BOOTSTRAPPING") => ~session /\ objects = good

\* The loop implements transactions on the account objects.
Transaction == INSTANCE ObjectTransaction
    WITH working <- objects, committed <- good, open <- session
Transactional == Transaction!Spec

\* Once g_quit is set, by the command or by SIGINT in any window of the loop,
\* the process ends: a signal missed before select costs one timeout.
QuitStops == (g_quit # 0) ~> Stopped

\* A typed "quit" ends the process although the socket is served first.
TypedQuitStops == (typed = "quit") ~> Stopped

\* "Finally when the loop is left smoothly - asked by user in the command line
\* interface - we unregister our client from it" (lwm2mclient.cpp:1313).
UserQuitDeregisters == (pc = "closed" /\ asked) => deregistered

=============================================================================
