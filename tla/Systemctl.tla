----------------------------- MODULE Systemctl -----------------------------
(***************************************************************************)
(* src/syncloud_platform/control/systemctl.py: the Systemctl wrapper,      *)
(* driving systemd through one `systemctl` subprocess per step.            *)
(*                                                                         *)
(* Handler threads call restart_service, start_service, stop_service and   *)
(* the private __remove concurrently; each subprocess call (is-active,     *)
(* stop, start, disable) and the unit-file removal is one atomic step.     *)
(* systemd is the environment: a running service may die (active ->        *)
(* failed), Restart= puts a failed unit back into activation, and an       *)
(* activation ends active or failed.  The strings a call returns are the   *)
(* strings systemctl prints; logging and journalctl output are left out.   *)
(*                                                                         *)
(* The ghost counter starts[u] counts the activations of unit u (a new     *)
(* main process); startsAtCall[t] is its value when thread t's call began. *)
(***************************************************************************)
EXTENDS Naturals

CONSTANTS
    Units,      \* the snap services ("snap.<name>.service")
    Threads,    \* handler threads calling the wrapper
    MaxStarts   \* bound on the ghost activation counter

ASSUME MaxStartsAssumption == MaxStarts \in Nat

\* The unit states `systemctl is-active` can print.
UnitStates == {"active", "activating", "inactive", "failed"}

\* What a call can leave in `result`: an is-active output, or the output
\* of a failing `systemctl stop` (stored by the except branch of __stop).
Outputs == UnitStates \cup {"unknown", "stop_failed", "none"}

Ops == {"restart", "start", "stop", "remove"}
PCs == {"idle", "is_active", "stop", "start", "disable", "remove_file"}

VARIABLES
    state,          \* systemd: the unit's active state
    enabled,        \* systemd: the unit is enabled
    unitFile,       \* the unit file exists in /lib/systemd/system
    starts,         \* ghost: activations of the unit so far
    pc,             \* thread: the subprocess call it is about to make
    op,             \* thread: the wrapper method it runs
    unit,           \* thread: the unit the method was called for
    result,         \* thread: __stop's result variable
    outcome,        \* thread: how its last call ended: none, ok, error
    startsAtCall    \* ghost: starts[unit[t]] when the call began

unitVars == <<state, enabled, unitFile, starts>>
threadVars == <<pc, op, unit, result, outcome, startsAtCall>>
vars == <<unitVars, threadVars>>

(***************************************************************************)
(* `systemctl is-active u`: the printed state; it exits 0 only for         *)
(* "active" (the TODO of __stop: exit code 3 otherwise).  For a unit whose *)
(* file is gone systemd prints "inactive" or, in older versions,           *)
(* "unknown".                                                              *)
(***************************************************************************)
IsActiveOutputs(u) ==
    IF ~unitFile[u] /\ state[u] = "inactive" THEN {"inactive", "unknown"}
    ELSE {state[u]}

\* A call returns: the thread is idle again with its outcome.
Return(t, how) ==
    /\ pc' = [pc EXCEPT ![t] = "idle"]
    /\ outcome' = [outcome EXCEPT ![t] = how]

\* The caller of __stop continues with its result res: stop_service
\* returns it, restart_service goes on with start_service, and __remove
\* returns early when res is "unknown" or "inactive".
AfterStop(t, res) ==
    /\ result' = [result EXCEPT ![t] = res]
    /\ CASE op[t] = "stop"    -> Return(t, "ok")
         [] op[t] = "restart" -> pc' = [pc EXCEPT ![t] = "start"] /\ UNCHANGED outcome
         [] op[t] = "remove"  ->
              IF res \in {"unknown", "inactive"} THEN Return(t, "ok")
              ELSE pc' = [pc EXCEPT ![t] = "disable"] /\ UNCHANGED outcome

(***************************************************************************)
(* A thread calls a method of the wrapper on a unit.  restart_service,     *)
(* stop_service and __remove begin with __stop's is-active; start_service  *)
(* with __start's `systemctl start`.                                       *)
(***************************************************************************)
Call(t) ==
    /\ pc[t] = "idle"
    /\ \E o \in Ops, u \in Units :
         /\ op' = [op EXCEPT ![t] = o]
         /\ unit' = [unit EXCEPT ![t] = u]
         /\ pc' = [pc EXCEPT ![t] = IF o = "start" THEN "start" ELSE "is_active"]
         /\ startsAtCall' = [startsAtCall EXCEPT ![t] = starts[u]]
    /\ outcome' = [outcome EXCEPT ![t] = "none"]
    /\ result' = [result EXCEPT ![t] = "none"]
    /\ UNCHANGED unitVars

\* __stop, `systemctl is-active`: exit 0 goes on to stop; a non-zero exit
\* raises CalledProcessError and the printed state becomes the result.
IsActive(t) ==
    /\ pc[t] = "is_active"
    /\ \E out \in IsActiveOutputs(unit[t]) :
         IF out = "active"
         THEN /\ pc' = [pc EXCEPT ![t] = "stop"]
              /\ result' = [result EXCEPT ![t] = "active"]
              /\ UNCHANGED outcome
         ELSE AfterStop(t, out)
    /\ UNCHANGED <<unitVars, op, unit, startsAtCall>>

\* Mutant of Stop: the result is overwritten with the (empty) output of
\* `systemctl stop` on success.
StopOutput(t) ==
    /\ pc[t] = "stop"
    /\ LET u == unit[t] IN
       \/ /\ state' = [state EXCEPT ![u] = IF @ = "failed" THEN "failed" ELSE "inactive"]
          /\ AfterStop(t, "")
       \/ /\ AfterStop(t, "stop_failed")
          /\ UNCHANGED state
    /\ UNCHANGED <<enabled, unitFile, starts, op, unit, startsAtCall>>

\* __stop, `systemctl stop`: on success the result stays "active" (the
\* state seen before stopping); a failure's output becomes the result and
\* is swallowed by the except branch.  A failed unit stays failed.
Stop(t) ==
    /\ pc[t] = "stop"
    /\ LET u == unit[t] IN
       \/ /\ state' = [state EXCEPT ![u] = IF @ = "failed" THEN "failed" ELSE "inactive"]
          /\ AfterStop(t, "active")
       \/ /\ AfterStop(t, "stop_failed")
          /\ UNCHANGED state
    /\ UNCHANGED <<enabled, unitFile, starts, op, unit, startsAtCall>>

\* __start, `systemctl start`: a no-op on an active unit; otherwise a start
\* job (joined if one is running) that ends active, a fresh process, or
\* failed, and then the CalledProcessError is re-raised.  A unit without a
\* unit file cannot be started.
Start(t) ==
    /\ pc[t] = "start"
    /\ LET u == unit[t] IN
       \/ /\ unitFile[u] /\ state[u] = "active"
          /\ UNCHANGED <<state, starts>>
          /\ Return(t, "ok")
       \/ /\ unitFile[u] /\ state[u] # "active"
          /\ starts[u] < MaxStarts
          /\ state' = [state EXCEPT ![u] = "active"]
          /\ starts' = [starts EXCEPT ![u] = @ + 1]
          /\ Return(t, "ok")
       \/ /\ unitFile[u] /\ state[u] # "active"
          /\ state' = [state EXCEPT ![u] = "failed"]
          /\ UNCHANGED starts
          /\ Return(t, "error")
       \/ /\ ~unitFile[u]
          /\ UNCHANGED <<state, starts>>
          /\ Return(t, "error")
    /\ UNCHANGED <<enabled, unitFile, op, unit, result, startsAtCall>>

\* Mutant of Disable: a failing disable is logged and swallowed, as __stop
\* does, and the unit file is removed anyway.
DisableSwallowed(t) ==
    /\ pc[t] = "disable"
    /\ LET u == unit[t] IN
       \/ /\ unitFile[u]
          /\ enabled' = [enabled EXCEPT ![u] = FALSE]
          /\ pc' = [pc EXCEPT ![t] = "remove_file"]
          /\ UNCHANGED outcome
       \/ /\ UNCHANGED enabled
          /\ pc' = [pc EXCEPT ![t] = "remove_file"]
          /\ UNCHANGED outcome
    /\ UNCHANGED <<state, unitFile, starts, op, unit, result, startsAtCall>>

\* __remove, `systemctl disable`: it fails for a unit without a unit file
\* and may fail otherwise (D-Bus, permissions); a failure is logged and
\* re-raised.
Disable(t) ==
    /\ pc[t] = "disable"
    /\ LET u == unit[t] IN
       \/ /\ unitFile[u]
          /\ enabled' = [enabled EXCEPT ![u] = FALSE]
          /\ pc' = [pc EXCEPT ![t] = "remove_file"]
          /\ UNCHANGED outcome
       \/ /\ UNCHANGED enabled
          /\ Return(t, "error")
    /\ UNCHANGED <<state, unitFile, starts, op, unit, result, startsAtCall>>

\* __remove: `if os.path.isfile(systemd_file): os.remove(systemd_file)`.
RemoveFile(t) ==
    /\ pc[t] = "remove_file"
    /\ unitFile' = [unitFile EXCEPT ![unit[t]] = FALSE]
    /\ Return(t, "ok")
    /\ UNCHANGED <<state, enabled, starts, op, unit, result, startsAtCall>>

(***************************************************************************)
(* systemd: a running service dies, Restart= re-activates a failed unit,   *)
(* an activation completes or fails.                                       *)
(***************************************************************************)
ServiceDies(u) ==
    /\ state[u] = "active"
    /\ state' = [state EXCEPT ![u] = "failed"]
    /\ UNCHANGED <<enabled, unitFile, starts, threadVars>>

AutoRestart(u) ==
    /\ state[u] = "failed" /\ unitFile[u]
    /\ state' = [state EXCEPT ![u] = "activating"]
    /\ UNCHANGED <<enabled, unitFile, starts, threadVars>>

Activated(u) ==
    /\ state[u] = "activating"
    /\ \/ /\ starts[u] < MaxStarts
          /\ state' = [state EXCEPT ![u] = "active"]
          /\ starts' = [starts EXCEPT ![u] = @ + 1]
       \/ /\ state' = [state EXCEPT ![u] = "failed"]
          /\ UNCHANGED starts
    /\ UNCHANGED <<enabled, unitFile, threadVars>>

\* A unit without its unit file is not enabled and not running.
Init ==
    /\ state \in [Units -> UnitStates]
    /\ enabled \in [Units -> BOOLEAN]
    /\ unitFile \in [Units -> BOOLEAN]
    /\ \A u \in Units : ~unitFile[u] => state[u] = "inactive" /\ ~enabled[u]
    /\ starts = [u \in Units |-> 0]
    /\ pc = [t \in Threads |-> "idle"]
    /\ op \in [Threads -> Ops]
    /\ unit \in [Threads -> Units]
    /\ result = [t \in Threads |-> "none"]
    /\ outcome = [t \in Threads |-> "none"]
    /\ startsAtCall = [t \in Threads |-> 0]

Thread(t) ==
    Call(t) \/ IsActive(t) \/ Stop(t) \/ Start(t) \/ Disable(t) \/ RemoveFile(t)

Systemd(u) == ServiceDies(u) \/ AutoRestart(u) \/ Activated(u)

Next ==
    \/ \E t \in Threads : Thread(t)
    \/ \E u \in Units : Systemd(u)

Spec == Init /\ [][Next]_vars

TypeOK ==
    /\ state \in [Units -> UnitStates]
    /\ enabled \in [Units -> BOOLEAN]
    /\ unitFile \in [Units -> BOOLEAN]
    /\ starts \in [Units -> 0..MaxStarts]
    /\ pc \in [Threads -> PCs]
    /\ op \in [Threads -> Ops]
    /\ unit \in [Threads -> Units]
    /\ result \in [Threads -> Outputs]
    /\ outcome \in [Threads -> {"none", "ok", "error"}]
    /\ startsAtCall \in [Threads -> 0..MaxStarts]

(***************************************************************************)
(* __remove deletes a unit file only after `systemctl disable` succeeded,  *)
(* whatever other threads do to the unit meanwhile: no enabled unit is     *)
(* left behind without its unit file (a dangling enablement symlink).      *)
(***************************************************************************)
RemovedFileDisabled == \A u \in Units : ~unitFile[u] => ~enabled[u]

(***************************************************************************)
(* restart_service is meant to give the service a fresh process (it is     *)
(* how a changed configuration is picked up): when it returns normally,    *)
(* the unit has been activated since the call began.  __stop swallows a    *)
(* failing `systemctl stop`, and start on a running unit is a no-op.       *)
(***************************************************************************)
RestartRestarts ==
    [][\A t \in Threads :
          (op[t] = "restart" /\ pc[t] = "start" /\ pc'[t] = "idle"
             /\ outcome'[t] = "ok")
          => starts'[unit[t]] > startsAtCall[t]]_vars

(***************************************************************************)
(* __remove is meant to take a service away: once it has deleted the unit  *)
(* file, the service is not running.  It stops the unit only when          *)
(* is-active exits 0, so a unit that is "activating" (Restart= loop) or    *)
(* started by another thread between is-active and disable keeps running.  *)
(***************************************************************************)
NoServiceWithoutUnit ==
    \A u \in Units : ~unitFile[u] => state[u] \in {"inactive", "failed"}

=============================================================================
