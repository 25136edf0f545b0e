------------------------- MODULE Lwm2mClientProofs -------------------------
(***************************************************************************)
(* Type correctness of the main loop, the safety of its bootstrap backup   *)
(* and its refinement of ObjectTransaction, for any number of servers and  *)
(* any resource values.                                                    *)
(***************************************************************************)
EXTENDS Lwm2mClient, TLAPS

\* What BackupHoldsGood and NoHalfBootstrap rest on.  In the iteration whose
\* step opens a session (previousState is still another state) no write has
\* happened; from then on previousState is BOOTSTRAPPING and the backup holds
\* the committed contents until the session ends.
OutsideIsGood  == ~session => objects = good
OpenedJustNow  ==
    (session /\ previousState # "BOOTSTRAPPING")
        => /\ pc \in {"result", "info"}
           /\ state = "BOOTSTRAPPING" /\ ~failed
           /\ objects = good
InSession      == state = "BOOTSTRAPPING" => session
SessionIsState ==
    (pc \in {"info", "select"} \/ (pc = "result" /\ ~failed))
        => (session => state = "BOOTSTRAPPING")
RecoverableIsOpen ==
    (previousState = "BOOTSTRAPPING"
        /\ (pc \notin {"result", "info"} \/ (pc = "result" /\ failed)))
        => session

IInv == /\ OutsideIsGood
        /\ OpenedJustNow
        /\ InSession
        /\ SessionIsState
        /\ RecoverableIsOpen
        /\ BackupHoldsGood

-----------------------------------------------------------------------------
\* Whatever lwm2m_step returns is a client state, a list flag and a verdict;
\* only a step that was bootstrapping can fail while bootstrapping, and one
\* that returns the bootstrap state again is in a session or opens one.
LEMMA OutcomeType ==
    ASSUME TypeOK
    PROVE  \A o \in EngineOutcomes :
               /\ o.state \in ClientStates
               /\ o.known \in BOOLEAN
               /\ o.ok \in BOOLEAN
               /\ (o.state = "BOOTSTRAPPING" /\ ~o.ok) => state = "BOOTSTRAPPING"
<1>1. bsKnown \in BOOLEAN /\ state \in ClientStates
  BY DEF TypeOK
<1>2. ASSUME NEW known \in BOOLEAN, NEW o \in FromBootstrapRequired(known)
      PROVE  /\ o.state \in ClientStates /\ o.known \in BOOLEAN /\ o.ok \in BOOLEAN
             /\ ~(o.state = "BOOTSTRAPPING" /\ ~o.ok)
  <2>1. CASE known
    <3>1. o = [state |-> "BOOTSTRAPPING", known |-> known, ok |-> TRUE]
      BY <1>2, <2>1 DEF FromBootstrapRequired, Outcome
    <3>2. QED
      BY <3>1 DEF ClientStates
  <2>2. CASE ~known
    <3>1. o = [state |-> "BOOTSTRAP_REQUIRED", known |-> known, ok |-> FALSE]
      BY <1>2, <2>2 DEF FromBootstrapRequired, Outcome
    <3>2. QED
      BY <3>1 DEF ClientStates
  <2>3. QED
    BY <2>1, <2>2
<1>3. ASSUME NEW o \in FromInitial
      PROVE  /\ o.state \in ClientStates /\ o.known \in BOOLEAN /\ o.ok \in BOOLEAN
             /\ ~(o.state = "BOOTSTRAPPING" /\ ~o.ok)
  <2> DEFINE known == objects.security[Bs] # Absent
  <2>1. CASE o \in FromBootstrapRequired(known)
    BY <2>1, <1>2
  <2>2. CASE o \in {Outcome("INITIAL", bsKnown, FALSE),
                    Outcome("REGISTERING", known, TRUE),
                    Outcome("REGISTER_REQUIRED", known, FALSE)}
    <3>1. PICK k \in BOOLEAN, ok \in BOOLEAN,
               st \in {"INITIAL", "REGISTERING", "REGISTER_REQUIRED"} :
            o = Outcome(st, k, ok)
      BY <2>2, <1>1, known \in BOOLEAN
    <3>2. QED
      BY <3>1 DEF Outcome, ClientStates
  <2>3. QED
    BY <1>3, <2>1, <2>2 DEF FromInitial
<1>4. SUFFICES ASSUME NEW o \in EngineOutcomes
               PROVE  /\ o.state \in ClientStates /\ o.known \in BOOLEAN /\ o.ok \in BOOLEAN
                      /\ (o.state = "BOOTSTRAPPING" /\ ~o.ok) => state = "BOOTSTRAPPING"
  OBVIOUS
<1>5. CASE o \in FromInitial
  BY <1>5, <1>3
<1>6. CASE o \in FromBootstrapRequired(bsKnown)
  BY <1>6, <1>1, <1>2
<1>7. CASE \E s \in ClientStates : o = Outcome(s, bsKnown, TRUE)
  BY <1>7, <1>1 DEF Outcome
<1>8. CASE state = "BOOTSTRAPPING" /\ o = Outcome(state, bsKnown, FALSE)
  BY <1>8, <1>1 DEF Outcome
<1>9. \/ o \in FromInitial
      \/ o \in FromBootstrapRequired(bsKnown)
      \/ \E s \in ClientStates : o = Outcome(s, bsKnown, TRUE)
      \/ state = "BOOTSTRAPPING" /\ o = Outcome(state, bsKnown, FALSE)
  BY <1>1 DEF EngineOutcomes, ClientStates
<1>10. QED
  BY <1>5, <1>6, <1>7, <1>8, <1>9

\* One write to one instance leaves the objects well formed.
LEMMA WriteType ==
    ASSUME objects \in Contents, NEW d \in Data \cup {Absent}
    PROVE  /\ \A a \in Accounts : WriteSecurity(a, d) \in Contents
           /\ \A s \in Servers : WriteServer(s, d) \in Contents
BY DEF Contents, WriteSecurity, WriteServer

\* A restore gives back the backup itself.
LEMMA RestoreIsBackup ==
    ASSUME backup \in Contents
    PROVE  RestoreObjects(objects) = backup
BY DEF Contents, RestoreObjects

\* Before anything is read from the network the objects are well formed.
LEMMA FactoryType ==
    ASSUME NEW account \in Accounts, NEW d \in Data
    PROVE  FactoryContents(account, d) \in Contents
BY DEF FactoryContents, Contents

-----------------------------------------------------------------------------
\* The inductive step of TypeOK.  It needs IInv: a restore is well typed only
\* because a backup has been taken.
LEMMA TypeStep == TypeOK /\ IInv /\ [Next]_vars => TypeOK'
<1> SUFFICES ASSUME TypeOK, IInv, [Next]_vars PROVE TypeOK'
  OBVIOUS
<1> USE DEF Phases, flags, input, engine, history
<1>1. CASE TestQuit \/ Timers \/ Reboot \/ StepSucceeded \/ StepFailed \/ Cleanup
  BY <1>1 DEF TypeOK, TestQuit, Timers, Reboot, StepSucceeded, StepFailed, Cleanup
<1>2. CASE Step
  <2>1. PICK o \in EngineOutcomes :
          /\ state' = o.state /\ bsKnown' = o.known /\ failed' = ~o.ok
          /\ session' = IF o.ok THEN o.state = "BOOTSTRAPPING" ELSE session
          /\ good' = IF o.ok /\ o.state # "BOOTSTRAPPING" THEN objects ELSE good
    BY <1>2 DEF Step
  <2>2. state' \in ClientStates /\ bsKnown' \in BOOLEAN
    BY <2>1, OutcomeType
  <2>3. failed' \in BOOLEAN
    BY <2>1
  <2>4. session' \in BOOLEAN
    BY <2>1 DEF TypeOK
  <2>5. good' \in Contents
    BY <2>1 DEF TypeOK
  <2>6. QED
    BY <1>2, <2>2, <2>3, <2>4, <2>5 DEF TypeOK, Step
<1>3. CASE RecoverBootstrap
  <2>1. backup = good
    BY <1>3 DEF RecoverBootstrap, IInv, RecoverableIsOpen, BackupHoldsGood
  <2>2. objects' \in Contents
    BY <1>3, <2>1, RestoreIsBackup DEF RecoverBootstrap, TypeOK
  <2>3. QED
    BY <1>3, <2>2 DEF TypeOK, RecoverBootstrap, ClientStates
<1>4. CASE UpdateBootstrapInfo
  BY <1>4 DEF TypeOK, UpdateBootstrapInfo
<1>5. CASE SelectTimeout \/ PlainDatagram \/ RebootRequest
  BY <1>5 DEF TypeOK, SelectTimeout, PlainDatagram, RebootRequest,
              Datagram, BackToLoop
<1>6. CASE BootstrapWrite
  <2>1. objects' \in Contents
    BY <1>6, WriteType DEF BootstrapWrite, TypeOK
  <2>2. QED
    BY <1>6, <2>1 DEF TypeOK, BootstrapWrite, Datagram, BackToLoop
<1>7. CASE ManagementWrite
  <2>1. objects' \in Contents
    BY <1>7, WriteType DEF ManagementWrite, TypeOK
  <2>2. QED
    BY <1>7, <2>1 DEF TypeOK, ManagementWrite, Datagram, BackToLoop
<1>8. CASE RunCommand
  BY ZenonT(30), <1>8 DEF TypeOK, RunCommand, OtherCommand, InitiateBootstrap, Quit,
              Command, BackToLoop, ClientStates
<1>9. CASE Close
  BY <1>9 DEF TypeOK, Close
<1>10. CASE Sigint \/ SigintInSelect
  BY <1>10 DEF TypeOK, Sigint, SigintInSelect, BackToLoop
<1>11. CASE Arrive
  BY <1>11 DEF TypeOK, Arrive
<1>12. CASE UNCHANGED vars
  BY <1>12 DEF TypeOK, vars
<1>13. QED
  BY <1>1, <1>2, <1>3, <1>4, <1>5, <1>6, <1>7, <1>8, <1>9, <1>10, <1>11,
     <1>12 DEF Next, Loop, Ended

-----------------------------------------------------------------------------
\* The inductive step of IInv: which steps keep the backup, the live objects
\* and the committed contents in their relation.
LEMMA IInvStep == TypeOK /\ IInv /\ [Next]_vars => IInv'
<1> SUFFICES ASSUME TypeOK, IInv, [Next]_vars PROVE IInv'
  OBVIOUS
<1> USE DEF IInv, OutsideIsGood, OpenedJustNow, InSession, SessionIsState,
            RecoverableIsOpen, BackupHoldsGood, flags, input, engine, history
<1>1. CASE TestQuit \/ Timers \/ Reboot \/ Cleanup
  BY <1>1 DEF TestQuit, Timers, Reboot, Cleanup
<1>2. CASE Step
  <2>1. PICK o \in EngineOutcomes :
          /\ state' = o.state /\ failed' = ~o.ok
          /\ session' = IF o.ok THEN o.state = "BOOTSTRAPPING" ELSE session
          /\ good' = IF o.ok /\ o.state # "BOOTSTRAPPING" THEN objects ELSE good
    BY <1>2 DEF Step
  <2>2. o.ok \in BOOLEAN
        /\ ((o.state = "BOOTSTRAPPING" /\ ~o.ok) => state = "BOOTSTRAPPING")
    BY OutcomeType
  <2>3. /\ pc = "step" /\ pc' = "result"
        /\ UNCHANGED <<previousState, objects, backup>>
    BY <1>2 DEF Step
  <2>4. CASE o.ok /\ o.state = "BOOTSTRAPPING"
    BY <2>1, <2>3, <2>4
  <2>5. CASE o.ok /\ o.state # "BOOTSTRAPPING"
    BY <2>1, <2>3, <2>5
  <2>6. CASE ~o.ok
    BY <2>1, <2>2, <2>3, <2>6
  <2>7. QED
    BY <2>2, <2>4, <2>5, <2>6
<1>3. CASE StepSucceeded \/ StepFailed
  BY <1>3 DEF StepSucceeded, StepFailed
<1>4. CASE RecoverBootstrap
  <2>1. session /\ backup = good
    BY <1>4 DEF RecoverBootstrap
  <2>2. objects' = good
    BY <1>4, <2>1, RestoreIsBackup DEF RecoverBootstrap, TypeOK
  <2>3. QED
    BY <1>4, <2>2 DEF RecoverBootstrap
<1>5. CASE UpdateBootstrapInfo
  BY <1>5 DEF UpdateBootstrapInfo
<1>6. CASE SelectTimeout \/ PlainDatagram \/ RebootRequest
  BY <1>6 DEF SelectTimeout, PlainDatagram, RebootRequest, Datagram, BackToLoop
<1>7. CASE BootstrapWrite
  BY <1>7 DEF BootstrapWrite, Datagram, BackToLoop
<1>8. CASE ManagementWrite
  BY <1>8 DEF ManagementWrite, Datagram, BackToLoop
<1>9. CASE RunCommand
  BY <1>9 DEF RunCommand, OtherCommand, InitiateBootstrap, Quit, Command, BackToLoop
<1>10. CASE Close
  BY <1>10 DEF Close
<1>11. CASE Sigint \/ SigintInSelect \/ Arrive
  BY <1>11 DEF Sigint, SigintInSelect, Arrive, BackToLoop
<1>12. CASE UNCHANGED vars
  BY <1>12 DEF vars
<1>13. QED
  BY <1>1, <1>2, <1>3, <1>4, <1>5, <1>6, <1>7, <1>8, <1>9, <1>10, <1>11, <1>12
     DEF Next, Loop, Ended

\* TypeOK and IInv are inductive together, so both always hold.
LEMMA IInvAlways == Spec => [](TypeOK /\ IInv)
<1>1. Init => TypeOK
  <2> SUFFICES ASSUME Init PROVE TypeOK
    OBVIOUS
  <2>1. objects \in Contents
    BY ConstantsAssumption, FactoryType DEF Init, Accounts
  <2>2. QED
    BY <2>1 DEF Init, TypeOK, ClientStates, Commands, Phases
<1>2. Init => IInv
  BY DEF Init, IInv, OutsideIsGood, OpenedJustNow, InSession, SessionIsState,
         RecoverableIsOpen, BackupHoldsGood
<1>3. QED
  BY <1>1, <1>2, TypeStep, IInvStep, PTL DEF Spec

\* Every variable of the loop keeps its type (TypeOK), through every step of
\* main(), every SIGINT and every packet.
THEOREM TypeCorrect == Spec => []TypeOK
BY IInvAlways, PTL

\* Whenever a failed step would make the loop restore (BackupHoldsGood), the
\* copies taken by prv_backup_objects are what the objects held before the
\* session's first write.
THEOREM BackupCorrect == Spec => []BackupHoldsGood
BY IInvAlways, PTL DEF IInv

\* The loop never waits for the network outside a session with accounts that
\* an unfinished or failed session left behind (NoHalfBootstrap).
THEOREM NoHalfBootstrapCorrect == Spec => []NoHalfBootstrap
<1>1. IInv => NoHalfBootstrap
  BY DEF IInv, OutsideIsGood, SessionIsState, NoHalfBootstrap
<1>2. QED
  BY <1>1, IInvAlways, PTL

-----------------------------------------------------------------------------
\* The main loop implements ObjectTransaction (Transactional): an lwm2m_step
\* that enters or leaves BOOTSTRAPPING begins or commits, prv_restore_objects
\* aborts, packets write, and every other step leaves the transaction alone.
THEOREM TransactionRefined == Spec => Transactional
<1> USE DEF Transaction!vars, flags, input, engine, history
<1>1. Init => Transaction!Init
  <2> SUFFICES ASSUME Init PROVE Transaction!Init
    OBVIOUS
  <2>1. objects \in Contents
    BY ConstantsAssumption, FactoryType DEF Init, Accounts
  <2>2. QED
    BY <2>1 DEF Init, Transaction!Init
<1>2. TypeOK /\ IInv /\ [Next]_vars => [Transaction!Next]_(Transaction!vars)
  <2> SUFFICES ASSUME TypeOK, IInv, [Next]_vars
               PROVE  [Transaction!Next]_(Transaction!vars)
    OBVIOUS
  <2>1. CASE TestQuit \/ Timers \/ Reboot \/ StepSucceeded \/ StepFailed
             \/ UpdateBootstrapInfo \/ Close \/ Cleanup
    BY <2>1 DEF TestQuit, Timers, Reboot, StepSucceeded, StepFailed,
                UpdateBootstrapInfo, Close, Cleanup
  <2>2. CASE Step
    <3>1. PICK o \in EngineOutcomes :
            /\ session' = IF o.ok THEN o.state = "BOOTSTRAPPING" ELSE session
            /\ good' = IF o.ok /\ o.state # "BOOTSTRAPPING" THEN objects ELSE good
      BY <2>2 DEF Step
    <3>2. objects' = objects /\ session \in BOOLEAN
      BY <2>2 DEF Step, TypeOK
    <3>3. CASE o.ok /\ o.state = "BOOTSTRAPPING"
      BY <3>1, <3>2, <3>3 DEF Transaction!Next, Transaction!Begin
    <3>4. CASE o.ok /\ o.state # "BOOTSTRAPPING"
      BY <3>1, <3>2, <3>4 DEF Transaction!Next, Transaction!Commit, IInv, OutsideIsGood
    <3>5. CASE ~o.ok
      BY <3>1, <3>2, <3>5
    <3>6. QED
      BY <3>3, <3>4, <3>5
  <2>3. CASE RecoverBootstrap
    <3>1. session /\ backup = good
      BY <2>3 DEF RecoverBootstrap, IInv, RecoverableIsOpen, BackupHoldsGood
    <3>2. objects' = good
      BY <2>3, <3>1, RestoreIsBackup DEF RecoverBootstrap, TypeOK
    <3>3. QED
      BY <2>3, <3>1, <3>2 DEF RecoverBootstrap, Transaction!Next, Transaction!Abort
  <2>4. CASE SelectTimeout \/ PlainDatagram \/ RebootRequest
    BY <2>4 DEF SelectTimeout, PlainDatagram, RebootRequest, Datagram
  <2>5. CASE BootstrapWrite
    <3>1. session
      BY <2>5 DEF BootstrapWrite, IInv, InSession
    <3>2. objects' \in Contents
      BY <2>5, WriteType DEF BootstrapWrite, TypeOK
    <3>3. QED
      BY <2>5, <3>1, <3>2 DEF BootstrapWrite, Datagram, Transaction!Next, Transaction!Write
  <2>6. CASE ManagementWrite
    <3>1. ~session
      BY <2>6 DEF ManagementWrite, Datagram, BackToLoop, IInv, SessionIsState
    <3>2. objects' \in Contents
      BY <2>6, WriteType DEF ManagementWrite, TypeOK
    <3>3. QED
      BY <2>6, <3>1, <3>2 DEF ManagementWrite, Datagram, Transaction!Next, Transaction!Manage
  <2>7. CASE RunCommand
    BY <2>7 DEF RunCommand, OtherCommand, InitiateBootstrap, Quit, Command
  <2>8. CASE Sigint \/ SigintInSelect \/ Arrive
    BY <2>8 DEF Sigint, SigintInSelect, Arrive
  <2>9. CASE UNCHANGED vars
    BY <2>9 DEF vars
  <2>10. QED
    BY <2>1, <2>2, <2>3, <2>4, <2>5, <2>6, <2>7, <2>8, <2>9 DEF Next, Loop, Ended
<1>3. QED
  BY <1>1, <1>2, IInvAlways, PTL DEF Spec, Transactional, Transaction!Spec

=============================================================================
