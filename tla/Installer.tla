----------------------------- MODULE Installer -----------------------------
(***************************************************************************)
(* src/syncloud_platform/installer.py: the snap hooks of the platform      *)
(* (install, pre-refresh, post-refresh) as snapd runs them.               *)
(*                                                                         *)
(* snapd runs one hook at a time.  A hook is a sequence of steps, one per  *)
(* call that changes the disk (makepath, user config, copytree, copyfile,  *)
(* each sed, init_services, crontab).  Two things can interrupt it:        *)
(*   - an exception: the hook fails and snapd undoes the change: a failed  *)
(*     install removes the snap and its data, a failed post-refresh        *)
(*     reverts to the old revision and its copy of the data;               *)
(*   - a crash (power loss, reboot): snapd re-runs the hook from the start *)
(*     on the data as the crash left it.                                   *)
(* A refresh runs pre-refresh on the old revision, copies the data         *)
(* directory to the new revision, then runs post-refresh.                  *)
(*                                                                         *)
(* The slapd config under the data directory is the state that matters:   *)
(* migrate_ldap moves it there in four steps.                              *)
(***************************************************************************)
EXTENDS Naturals

CONSTANT MaxCrashes   \* bound on the number of crashes

ASSUME MaxCrashesAssumption == MaxCrashes \in Nat

\* $data/slapd.d: missing, or how far migrate_ldap got with it.
SlapdStates == {"absent", "copied", "module", "sed1", "done"}

Hooks == {"none", "install", "pre_refresh", "post_refresh"}
PCs == {"init_configs", "user_config", "migrate_check", "copytree",
        "copyfile", "sed1", "sed2", "init_services", "clear_crontab", "idle"}

\* The steps that raise on failure (clear_crontab logs its error).
Fallible == PCs \ {"clear_crontab", "migrate_check", "idle"}

VARIABLES
    installed,   \* snapd: the platform snap is installed
    hook,        \* snapd: the hook running
    pc,          \* the hook's next step
    dirs,        \* the data directories of init_configs exist
    userConfig,  \* PlatformUserConfig.init_config has run on this data
    slapd,       \* $data/slapd.d
    savedSlapd,  \* $data/slapd.d of the old revision during a refresh
    crontab,     \* root's crontab still holds the old entries
    ldapInitOn,  \* ghost: the slapd.d states ldap_auth.init has run on
    crashes      \* crashes so far

vars == <<installed, hook, pc, dirs, userConfig, slapd, savedSlapd,
          crontab, ldapInitOn, crashes>>

\* The first step of each hook.
First(h) == IF h = "pre_refresh" THEN "clear_crontab" ELSE "init_configs"

Goto(s) == pc' = s

\* The hook returns; snapd commits the change.
HookDone ==
    /\ hook' = "none" /\ pc' = "idle" /\ installed' = TRUE

StartInstall ==
    /\ hook = "none" /\ ~installed
    /\ hook' = "install" /\ pc' = First("install")
    /\ UNCHANGED <<installed, dirs, userConfig, slapd, savedSlapd, crontab,
                   ldapInitOn, crashes>>

StartRefresh ==
    /\ hook = "none" /\ installed
    /\ hook' = "pre_refresh" /\ pc' = First("pre_refresh")
    /\ UNCHANGED <<installed, dirs, userConfig, slapd, savedSlapd, crontab,
                   ldapInitOn, crashes>>

\* init_configs: fix_locale and makepath of the data directories.
InitConfigs ==
    /\ pc = "init_configs"
    /\ dirs' = TRUE /\ Goto("user_config")
    /\ UNCHANGED <<installed, hook, userConfig, slapd, savedSlapd, crontab,
                   ldapInitOn, crashes>>

\* PlatformUserConfig().init_config(); then install goes on with
\* init_services, post_refresh with migrate_ldap.
UserConfig ==
    /\ pc = "user_config"
    /\ userConfig' = TRUE
    /\ Goto(IF hook = "install" THEN "init_services" ELSE "migrate_check")
    /\ UNCHANGED <<installed, hook, dirs, slapd, savedSlapd, crontab,
                   ldapInitOn, crashes>>

\* Mutant of MigrateCheck: the guard tests the old config directory,
\* which always exists, instead of the new one.
MigrateNever ==
    /\ pc = "migrate_check"
    /\ Goto("init_services")
    /\ UNCHANGED <<installed, hook, dirs, userConfig, slapd, savedSlapd,
                   crontab, ldapInitOn, crashes>>

\* migrate_ldap: `if not isdir(self.slapd_config_dir)`.
MigrateCheck ==
    /\ pc = "migrate_check"
    /\ Goto(IF slapd = "absent" THEN "copytree" ELSE "init_services")
    /\ UNCHANGED <<installed, hook, dirs, userConfig, slapd, savedSlapd,
                   crontab, ldapInitOn, crashes>>

\* The four changes of migrate_ldap: copytree of common/slapd.d, copyfile
\* of the module ldif into cn=config, and the two seds of the paths.
MigrationResult == [copytree |-> "copied", copyfile |-> "module",
                    sed1 |-> "sed1", sed2 |-> "done"]
MigrationNext == [copytree |-> "copyfile", copyfile |-> "sed1",
                  sed1 |-> "sed2", sed2 |-> "init_services"]

Migrate ==
    /\ pc \in {"copytree", "copyfile", "sed1", "sed2"}
    /\ slapd' = MigrationResult[pc]
    /\ Goto(MigrationNext[pc])
    /\ UNCHANGED <<installed, hook, dirs, userConfig, savedSlapd, crontab,
                   ldapInitOn, crashes>>

\* init_services: disk, certificate, ldap_auth.init() on the current
\* slapd.d, nginx; install then clears the crontab, post_refresh returns.
InitServices ==
    /\ pc = "init_services"
    /\ ldapInitOn' = ldapInitOn \cup {slapd}
    /\ IF hook = "install"
       THEN Goto("clear_crontab") /\ UNCHANGED <<installed, hook>>
       ELSE HookDone
    /\ UNCHANGED <<dirs, userConfig, slapd, savedSlapd, crontab, crashes>>

\* clear_crontab: `crontab -u root -r`.  It may fail (no crontab for
\* root, crontab missing or refused); the CalledProcessError is only
\* logged, the crontab stays as it was and the hook goes on.  After
\* pre-refresh snapd copies the data to the new revision and runs
\* post-refresh there.
ClearCrontab ==
    /\ pc = "clear_crontab"
    /\ crontab' \in {FALSE, crontab}
    /\ IF hook = "install"
       THEN HookDone /\ UNCHANGED savedSlapd
       ELSE /\ hook' = "post_refresh" /\ pc' = First("post_refresh")
            /\ savedSlapd' = slapd
            /\ UNCHANGED installed
    /\ UNCHANGED <<dirs, userConfig, slapd, ldapInitOn, crashes>>

\* A step raises: snapd undoes the change.  A failed install removes the
\* snap and its data; a failed post-refresh goes back to the old revision,
\* whose data is the copy taken before the refresh.
Fail ==
    /\ hook \in {"install", "post_refresh"} /\ pc \in Fallible
    /\ hook' = "none" /\ pc' = "idle"
    /\ IF hook = "install"
       THEN /\ installed' = FALSE
            /\ dirs' = FALSE /\ userConfig' = FALSE /\ slapd' = "absent"
       ELSE /\ slapd' = savedSlapd
            /\ UNCHANGED <<installed, dirs, userConfig>>
    /\ UNCHANGED <<savedSlapd, crontab, ldapInitOn, crashes>>

\* The machine goes down in the middle of a hook; snapd re-runs the hook
\* from its start on the data as it is.
Crash ==
    /\ hook # "none" /\ crashes < MaxCrashes
    /\ pc' = First(hook)
    /\ crashes' = crashes + 1
    /\ UNCHANGED <<installed, hook, dirs, userConfig, slapd, savedSlapd,
                   crontab, ldapInitOn>>

\* The platform is either not installed, or installed at a revision from
\* before the migration (config still in common/slapd.d) or after it.
Init ==
    /\ installed \in BOOLEAN
    /\ hook = "none" /\ pc = "idle"
    /\ dirs = installed /\ userConfig = installed
    /\ slapd \in IF installed THEN {"absent", "done"} ELSE {"absent"}
    /\ savedSlapd = slapd
    /\ crontab = TRUE
    /\ ldapInitOn = {}
    /\ crashes = 0

Next ==
    \/ StartInstall \/ StartRefresh
    \/ InitConfigs \/ UserConfig \/ MigrateCheck \/ Migrate
    \/ InitServices \/ ClearCrontab
    \/ Fail \/ Crash

Spec == Init /\ [][Next]_vars

TypeOK ==
    /\ installed \in BOOLEAN
    /\ hook \in Hooks
    /\ pc \in PCs
    /\ dirs \in BOOLEAN /\ userConfig \in BOOLEAN /\ crontab \in BOOLEAN
    /\ slapd \in SlapdStates /\ savedSlapd \in SlapdStates
    /\ ldapInitOn \subseteq SlapdStates
    /\ crashes \in 0..MaxCrashes

(***************************************************************************)
(* When post-refresh reaches init_services, which starts the directory     *)
(* server through ldap_auth.init(), slapd.d is fully migrated, as long as *)
(* no crash interrupted a hook: whether the old revision had migrated or  *)
(* not, after any install failures and reverted refreshes before.  (With  *)
(* a crash it does not hold: see LdapInitOnMigratedConfig.)                *)
(***************************************************************************)
RefreshMigratesBeforeLdap ==
    hook = "post_refresh" /\ pc = "init_services" /\ crashes = 0
        => slapd = "done"

(***************************************************************************)
(* ldap_auth.init() (in init_services) runs only on a slapd.d that is      *)
(* missing or fully migrated.  migrate_ldap's isdir guard is true after a  *)
(* crash right after copytree, so the re-run skips the rest of the         *)
(* migration and the directory server starts on a half-migrated config.   *)
(***************************************************************************)
LdapInitOnMigratedConfig == ldapInitOn \subseteq {"absent", "done"}

=============================================================================
