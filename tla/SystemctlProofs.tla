--------------------------- MODULE SystemctlProofs ---------------------------
(***************************************************************************)
(* Proofs about the systemctl wrapper, for any units, threads and bound on *)
(* activations.                                                            *)
(***************************************************************************)
EXTENDS Systemctl, TLAPS

\* RemovedFileDisabled alone is not inductive: RemoveFile deletes the unit
\* file of whatever unit its thread is at, so the thread must hold only
\* after its disable succeeded; nothing in the wrapper or in systemd
\* enables a unit again.
DisabledBeforeRemove ==
    \A t \in Threads : pc[t] = "remove_file" => ~enabled[unit[t]]

\* __stop runs only inside stop_service, restart_service and __remove; the
\* step after it (AfterStop) is defined only for those methods.
StopInStopper ==
    \A t \in Threads :
        pc[t] \in {"is_active", "stop"} => op[t] \in {"stop", "restart", "remove"}

IInv == TypeOK /\ RemovedFileDisabled /\ DisabledBeforeRemove /\ StopInStopper

LEMMA InitIInv == Init => IInv
    BY MaxStartsAssumption
       DEF Init, IInv, TypeOK, RemovedFileDisabled, DisabledBeforeRemove, StopInStopper,
           UnitStates, Outputs, PCs

\* What every thread step leaves alone, and how AfterStop moves pc.
LEMMA AfterStopType ==
    ASSUME TypeOK, NEW t \in Threads, NEW res \in Outputs, AfterStop(t, res),
           op[t] \in {"stop", "restart", "remove"}
    PROVE  /\ pc' \in [Threads -> PCs]
           /\ pc'[t] \in {"idle", "start", "disable"}
           /\ \A s \in Threads \ {t} : pc'[s] = pc[s]
           /\ result' \in [Threads -> Outputs]
           /\ outcome' \in [Threads -> {"none", "ok", "error"}]
    BY DEF TypeOK, AfterStop, Return, PCs

LEMMA NextIInv == IInv /\ [Next]_vars => IInv'
<1> SUFFICES ASSUME IInv, [Next]_vars PROVE IInv'
    OBVIOUS
<1> USE MaxStartsAssumption
<1>1. ASSUME NEW t \in Threads, Call(t) PROVE IInv'
    <2>1. PICK o \in Ops, u \in Units :
            /\ op' = [op EXCEPT ![t] = o]
            /\ unit' = [unit EXCEPT ![t] = u]
            /\ pc' = [pc EXCEPT ![t] = IF o = "start" THEN "start" ELSE "is_active"]
            /\ startsAtCall' = [startsAtCall EXCEPT ![t] = starts[u]]
        BY <1>1 DEF Call
    <2>2. StopInStopper'
        BY <1>1, <2>1 DEF Call, IInv, TypeOK, StopInStopper, Ops
    <2>3. DisabledBeforeRemove'
        BY <1>1, <2>1 DEF Call, unitVars, IInv, TypeOK, DisabledBeforeRemove
    <2>4. QED
        BY <1>1, <2>1, <2>2, <2>3
           DEF Call, IInv, TypeOK, RemovedFileDisabled, unitVars, Outputs, PCs
<1>2. ASSUME NEW t \in Threads, IsActive(t) PROVE IInv'
    <2>1. PICK out \in IsActiveOutputs(unit[t]) :
            IF out = "active"
            THEN /\ pc' = [pc EXCEPT ![t] = "stop"]
                 /\ result' = [result EXCEPT ![t] = "active"]
                 /\ UNCHANGED outcome
            ELSE AfterStop(t, out)
        BY <1>2 DEF IsActive
    <2>2. out \in Outputs
        BY DEF IInv, TypeOK, IsActiveOutputs, Outputs, UnitStates
    <2>3. op[t] \in {"stop", "restart", "remove"}
        BY <1>2 DEF IsActive, IInv, StopInStopper
    <2>4. /\ pc' \in [Threads -> PCs]
          /\ pc'[t] \in {"idle", "start", "disable", "stop"}
          /\ \A s \in Threads \ {t} : pc'[s] = pc[s]
          /\ result' \in [Threads -> Outputs]
          /\ outcome' \in [Threads -> {"none", "ok", "error"}]
        BY <2>1, <2>2, <2>3, AfterStopType DEF IInv, TypeOK, PCs, Outputs
    <2>5. QED
        BY <1>2, <2>4 DEF IsActive, IInv, TypeOK, RemovedFileDisabled,
                          DisabledBeforeRemove, StopInStopper, unitVars
<1>3. ASSUME NEW t \in Threads, Stop(t) PROVE IInv'
    <2>1. op[t] \in {"stop", "restart", "remove"}
        BY <1>3 DEF Stop, IInv, StopInStopper
    <2>2. /\ pc' \in [Threads -> PCs]
          /\ pc'[t] \in {"idle", "start", "disable"}
          /\ \A s \in Threads \ {t} : pc'[s] = pc[s]
          /\ result' \in [Threads -> Outputs]
          /\ outcome' \in [Threads -> {"none", "ok", "error"}]
        <3>1. AfterStop(t, "active") \/ AfterStop(t, "stop_failed")
            BY <1>3 DEF Stop
        <3>2. "active" \in Outputs /\ "stop_failed" \in Outputs
            BY DEF Outputs, UnitStates
        <3>3. QED
            BY <2>1, <3>1, <3>2, AfterStopType DEF IInv
    <2>3. state' \in [Units -> UnitStates]
        BY <1>3 DEF Stop, IInv, TypeOK, UnitStates
    <2>4. QED
        BY <1>3, <2>2, <2>3 DEF Stop, IInv, TypeOK, RemovedFileDisabled,
                                DisabledBeforeRemove, StopInStopper
<1>4. ASSUME NEW t \in Threads, Start(t) PROVE IInv'
    <2>1. /\ pc' = [pc EXCEPT ![t] = "idle"]
          /\ outcome' \in [Threads -> {"none", "ok", "error"}]
          /\ state' \in [Units -> UnitStates]
          /\ starts' \in [Units -> 0..MaxStarts]
        BY <1>4 DEF Start, Return, IInv, TypeOK, UnitStates
    <2>2. QED
        BY <1>4, <2>1 DEF Start, IInv, TypeOK, RemovedFileDisabled,
                          DisabledBeforeRemove, StopInStopper, PCs
<1>5. ASSUME NEW t \in Threads, Disable(t) PROVE IInv'
    <2> DEFINE u == unit[t]
    <2>1. CASE /\ unitFile[u]
               /\ enabled' = [enabled EXCEPT ![u] = FALSE]
               /\ pc' = [pc EXCEPT ![t] = "remove_file"]
               /\ UNCHANGED outcome
        <3>1. ~enabled'[u] /\ enabled' \in [Units -> BOOLEAN]
            BY <2>1 DEF IInv, TypeOK
        <3>2. QED
            BY <1>5, <2>1, <3>1 DEF Disable, IInv, TypeOK, RemovedFileDisabled,
                                    DisabledBeforeRemove, StopInStopper, PCs
    <2>2. CASE UNCHANGED enabled /\ Return(t, "error")
        BY <1>5, <2>2 DEF Disable, Return, IInv, TypeOK, RemovedFileDisabled,
                          DisabledBeforeRemove, StopInStopper, PCs
    <2>3. QED
        BY <1>5, <2>1, <2>2 DEF Disable
<1>6. ASSUME NEW t \in Threads, RemoveFile(t) PROVE IInv'
    BY <1>6 DEF RemoveFile, Return, IInv, TypeOK, RemovedFileDisabled,
                DisabledBeforeRemove, StopInStopper, PCs
<1>7. ASSUME NEW u \in Units, Systemd(u) PROVE IInv'
    BY <1>7 DEF Systemd, ServiceDies, AutoRestart, Activated, threadVars,
                IInv, TypeOK, RemovedFileDisabled, DisabledBeforeRemove, StopInStopper,
                UnitStates
<1>8. CASE UNCHANGED vars
    BY <1>8 DEF vars, unitVars, threadVars, IInv, TypeOK,
                RemovedFileDisabled, DisabledBeforeRemove, StopInStopper
<1>9. QED
    BY <1>1, <1>2, <1>3, <1>4, <1>5, <1>6, <1>7, <1>8 DEF Next, Thread

(***************************************************************************)
(* __remove never leaves an enabled unit without its unit file: for any    *)
(* number of threads calling restart_service, start_service, stop_service  *)
(* and __remove on any units, and whatever systemd does meanwhile.         *)
(***************************************************************************)
THEOREM RemovedFileStaysDisabled == Spec => []RemovedFileDisabled
<1>1. Spec => []IInv
    BY InitIInv, NextIInv, PTL DEF Spec
<1>2. QED
    BY <1>1, PTL DEF IInv

(***************************************************************************)
(* Every reachable state of the wrapper and systemd is well typed: a       *)
(* thread's result is always an is-active output, "stop_failed" or none.  *)
(***************************************************************************)
THEOREM SystemctlTypeCorrect == Spec => []TypeOK
<1>1. Spec => []IInv
    BY InitIInv, NextIInv, PTL DEF Spec
<1>2. QED
    BY <1>1, PTL DEF IInv

=============================================================================
