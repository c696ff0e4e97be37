-------------------------- MODULE InstallerProofs --------------------------
(***************************************************************************)
(* Proofs about the installer hooks, for every bound on crashes.           *)
(***************************************************************************)
EXTENDS Installer, TLAPS

IInv == TypeOK

\* pre-refresh is the crontab step alone, the migration steps belong to
\* post-refresh, a hook is idle only when none runs, and a refresh runs
\* on an installed platform.
RefreshSteps ==
    /\ hook = "pre_refresh" => pc = "clear_crontab"
    /\ (hook = "none") <=> (pc = "idle")
    /\ pc \in {"migrate_check", "copytree", "copyfile", "sed1", "sed2"}
           => hook = "post_refresh"
    /\ hook \in {"pre_refresh", "post_refresh"} => installed

\* Until the first crash, slapd.d is missing or fully migrated at the
\* start of every hook and in the copy snapd keeps for a revert, and
\* inside migrate_ldap it is exactly as far as the step the hook is at.
CleanSlapd == {"absent", "done"}
CrashFreeMigration ==
    crashes = 0 =>
        /\ savedSlapd \in CleanSlapd
        /\ pc \in {"idle", "init_configs", "user_config", "migrate_check",
                   "clear_crontab"} => slapd \in CleanSlapd
        /\ pc = "copytree" => slapd = "absent"
        /\ pc = "copyfile" => slapd = "copied"
        /\ pc = "sed1" => slapd = "module"
        /\ pc = "sed2" => slapd = "sed1"
        /\ pc = "init_services" =>
               /\ slapd \in CleanSlapd
               /\ hook = "post_refresh" => slapd = "done"

MInv == TypeOK /\ RefreshSteps /\ CrashFreeMigration

LEMMA InitIInv == Init => IInv
<1> SUFFICES ASSUME Init PROVE IInv
    OBVIOUS
<1>1. slapd \in {"absent", "done"}
    BY DEF Init
<1>2. QED
    BY <1>1, MaxCrashesAssumption
       DEF Init, IInv, TypeOK, SlapdStates, Hooks, PCs

LEMMA NextIInv == IInv /\ [Next]_vars => IInv'
<1> SUFFICES ASSUME IInv, [Next]_vars PROVE IInv'
    OBVIOUS
<1> USE MaxCrashesAssumption DEF IInv, TypeOK,
        SlapdStates, Hooks, PCs
<1>1. CASE StartInstall
    BY <1>1 DEF StartInstall, First
<1>2. CASE StartRefresh
    BY <1>2 DEF StartRefresh, First
<1>3. CASE InitConfigs
    BY <1>3 DEF InitConfigs, Goto
<1>4. CASE UserConfig
    BY <1>4 DEF UserConfig, Goto
<1>5. CASE MigrateCheck
    BY <1>5 DEF MigrateCheck, Goto
<1>6. CASE Migrate
    BY <1>6 DEF Migrate, Goto, MigrationResult, MigrationNext
<1>7. CASE InitServices
    BY <1>7 DEF InitServices, Goto, HookDone
<1>8. CASE ClearCrontab
    BY <1>8 DEF ClearCrontab, HookDone, First
<1>9. CASE Fail
    BY <1>9 DEF Fail, Fallible
<1>10. CASE Crash
    BY <1>10 DEF Crash, First
<1>11. CASE UNCHANGED vars
    BY <1>11 DEF vars
<1>12. QED
    BY <1>1, <1>2, <1>3, <1>4, <1>5, <1>6, <1>7, <1>8, <1>9, <1>10, <1>11
       DEF Next

LEMMA InitMInv == Init => MInv
<1> SUFFICES ASSUME Init PROVE MInv
    OBVIOUS
<1>1. slapd \in {"absent", "done"}
    BY DEF Init
<1>2. QED
    BY <1>1, MaxCrashesAssumption
       DEF Init, MInv, TypeOK, RefreshSteps, CrashFreeMigration, CleanSlapd,
           SlapdStates, Hooks, PCs

LEMMA NextMInv == MInv /\ [Next]_vars => MInv'
<1> SUFFICES ASSUME MInv, [Next]_vars PROVE MInv'
    OBVIOUS
<1> USE MaxCrashesAssumption DEF MInv, TypeOK, RefreshSteps, CrashFreeMigration, CleanSlapd,
        SlapdStates, Hooks, PCs
<1>1. CASE StartInstall
    BY <1>1 DEF StartInstall, First
<1>2. CASE StartRefresh
    BY <1>2 DEF StartRefresh, First
<1>3. CASE InitConfigs
    BY <1>3 DEF InitConfigs, Goto
<1>4. CASE UserConfig
    BY <1>4 DEF UserConfig, Goto
<1>5. CASE MigrateCheck
    BY <1>5 DEF MigrateCheck, Goto
<1>6. CASE Migrate
    BY <1>6 DEF Migrate, Goto, MigrationResult, MigrationNext
<1>7. CASE InitServices
    BY <1>7 DEF InitServices, Goto, HookDone
<1>8. CASE ClearCrontab
    BY <1>8 DEF ClearCrontab, HookDone, First
<1>9. CASE Fail
    BY <1>9 DEF Fail, Fallible
<1>10. CASE Crash
    BY <1>10 DEF Crash, First
<1>11. CASE UNCHANGED vars
    BY <1>11 DEF vars
<1>12. QED
    BY <1>1, <1>2, <1>3, <1>4, <1>5, <1>6, <1>7, <1>8, <1>9, <1>10, <1>11
       DEF Next

(***************************************************************************)
(* Every reachable state of the hooks is well typed.                       *)
(***************************************************************************)
THEOREM InstallerTypeCorrect == Spec => []TypeOK
<1>1. Spec => []IInv
    BY InitIInv, NextIInv, PTL DEF Spec
<1>2. QED
    BY <1>1, PTL DEF IInv

(***************************************************************************)
(* For every bound on crashes: until a crash interrupts a hook,            *)
(* post-refresh starts LDAP (init_services) only on a fully migrated      *)
(* slapd.d, whether the old revision had migrated or not and after any    *)
(* failed installs and reverted refreshes.                                 *)
(***************************************************************************)
THEOREM RefreshMigrated == Spec => []RefreshMigratesBeforeLdap
<1>1. Spec => []MInv
    BY InitMInv, NextMInv, PTL DEF Spec
<1>2. MInv => RefreshMigratesBeforeLdap
    BY DEF MInv, CrashFreeMigration, RefreshMigratesBeforeLdap
<1>3. QED
    BY <1>1, <1>2, PTL

=============================================================================
