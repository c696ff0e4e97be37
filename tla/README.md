# TLA+ models of syncloud-platform

This directory holds TLA+ models of the platform manager under `src/src/syncloud_platform/`:
- TLC configurations that model-check the models;
- TLAPS proofs about them;
- `PROJECT.json`, which records the components, runs, mutants, the mapping from definitions to source lines, the findings, the hazards and the theorems.

## The system

| part | source | what it does |
|---|---|---|
| package daemon client | `snap/snap.py` (`Snap`) | Talks HTTP over the snapd Unix socket. `install`, `upgrade` and `remove` POST to `/v2/snaps/{id}`. `find_installed`, `_installed_snaps` and `_available_snaps` are GETs. |
| normaliser | `snap/snap.py` (`to_app`, `_installed_app`, `_available_app`) | Turns a raw snapd record into an `AppVersions` (app, installed version, store version). |
| reconciler / orchestrator | `snap/snap.py` (`get_app`, `join_apps`) | `get_app` does two lookups and merges them. `join_apps` merges the installed listing with the store listing. |
| systemd wrapper | `control/systemctl.py` (`Systemctl`) | Runs `systemctl is-active/stop/start/disable` as subprocesses. |
| installer | `installer.py` (`PlatformInstaller`) | The snap hooks `install`, `pre_refresh` and `post_refresh`, including the one-time `migrate_ldap`. |
| REST routes | `rest/public.py`, `rest/api.py` | Flask routes: login, logout, proxying to the backend, `app_image`, `storage_dir`. |
| configuration | `config/config.py` | `PlatformConfig`, getters over an INI file. |

How the parts interact:
- Route handlers, in Flask threads, call `Snap` concurrently. Each call is a short sequence of blocking socket round trips.
- snapd runs its own asynchronous *changes* (install, refresh, remove) and can be stopped, restarted or hung at any time.
- `Systemctl` is called from handler threads while systemd itself kills, restarts and activates services.
- snapd runs the installer hooks one at a time. A failing hook is undone by snapd; a crash makes snapd re-run the hook from its start.

## Modules

**`SnapRecords`** holds the pure half of `snap.py`:
- the raw records and `to_app`, `InstalledApp` and `AvailableApp`;
- the stable sort by name (`SortRank`, `SortedByName`);
- `available_snaps`, `find_in_store`, `find_installed` and `get_app`;
- `join_apps`, written as recursive *functions* rather than RECURSIVE operators, so the module stays provable. A Python dict is a sequence with distinct ids.

Two details of the encoding:
- Names are naturals, so Python's sort by name becomes `<`.
- The icon path is kept as the `(channel, id)` pair it is built from; the template is injective in that pair.

**`MCSnapRecords`** checks the reconciler and `get_app` against reference definitions written over sets. Its state is a snapd answer drawn from every installed listing of up to 2 snaps (distinct names) and every store listing of up to 3 records (at most one per name and channel). The state never changes.

**`SnapCore`** models the concurrent client against snapd.

snapd, the environment, has these variables:
- `installed`: name → channel/version, or None;
- `change`: the pending change per snap;
- `storeVer` over a fixed catalogue `StoreCat`;
- `online`;
- `daemon` ∈ {up, down, hung}.

Its actions:
- `CompleteChange` and `FailChange`;
- `Publish` and `ToggleOnline`;
- `DaemonState`: up → down or hung; down → up; hung → down.

Each handler thread `c` has a `pc` and its method `op`/`arg`. Every socket round trip is one action:

| action | source |
|---|---|
| `Install` | `snap.py` 17-21 |
| `Upgrade` | `snap.py` 23-32 |
| `Remove` | `snap.py` 34-37 |
| `FindInstalled`, then `FindInStore` | `get_app`, 103-116 |
| `InstalledSnaps`, then `AvailableSnaps` | the listing |
| `Refused` | a `ConnectionError` while snapd is down |

A hung snapd answers nothing. The client keeps what it read (`seenApp`, `seenAll`, `seenStore`). `GetResult` and `ListResult` compute the returned values from those, using the operators of `SnapRecords`.

**`Systemctl`** models unit state, enablement, the unit file and a ghost activation counter, all owned by systemd. Handler threads run:
- `restart_service`: is-active, stop, then start;
- `stop_service`: is-active, then stop;
- `start_service`: start;
- `__remove`: is-active, stop, disable, then remove the file.

Each subprocess call is one step, with the exit-code behaviour of `systemctl` (is-active exits 0 only for "active"). systemd's own steps are `ServiceDies`, `AutoRestart` and `Activated`.

**`Installer`** models the hooks step by step:
- `InitConfigs`, `UserConfig`, `MigrateCheck` (the `isdir` guard), `Migrate` (copytree, copyfile, the two seds), `InitServices` and `ClearCrontab`.
- `ClearCrontab` may fail, e.g. when root has no crontab. The code catches the `CalledProcessError` and only logs it. So the crontab stays as it was and the hook goes on.
- snapd's `Fail` undoes the change: a failed install removes the snap and its data; a failed post-refresh reverts to the old revision's copy of the data.
- `Crash` re-runs the hook from its start.

**`Routes`** models `rest/public.py`. Each browser has a session cookie; each request is one handler run, gated as its decorators say.

| action | source |
|---|---|
| `login` | lines 39-55: both fields, `ldap_auth.authenticate`, then `login_user`; otherwise 400 |
| `logout` | 58-64 |
| `Gated` | `/rest/user`, `send_log`, `app_image` and `backend_proxy_activated`, 67-133. `/rest/deactivate` deactivates the device; an exception goes through `handle_exception`, 158-172 |
| `Activate` | `backend_proxy_not_activated`, 136-143 |
| `Status_` | `/rest/activation/status` and `/rest/id` |

`load_user` (33-36) is translated as it is: it ignores its argument and builds the user from the view function `user`.

The backend and the directory server are the environment:
- an activation names a new owner, whose password the directory accepts;
- ghost variables number the activations (`epoch`, `owners`) and record each browser's last response (`last`).

The decorators `fail_if_not_activated` and `fail_if_activated` live outside the repository. They are modelled by what their names and the routes say.

## Runs

| run | expect | shows |
|---|---|---|
| `records_reconcile` | pass | `ListMatchesReference`: `join_apps`, fed by the sorted listings, yields exactly one record per id, with the installed fields kept and the store's last version added. `GetAppMatchesSpec`: `get_app` follows the spec's §8 rules for every id. |
| `records_get_vs_list` | violation | With one snap on two channels, `get_app` takes the first store record and `join_apps` the last, so they disagree. |
| `core_safety` | pass | `TypeOK` holds against a snapd that completes, fails, restarts and hangs. In particular a refresh never completes on a snap that a concurrent removal took away, because snapd refuses a removal while the refresh is pending. |
| `core_wildcard_id` | violation | `get_app("*")` returns some other app instead of `AppNotFound`. |
| `core_no_timeout` | violation | `CallsReturn`: a hung snapd blocks a handler forever. No socket call has a timeout (spec §5). |
| `systemctl_safety` | pass | `RemovedFileDisabled`: `__remove` never leaves an enabled unit without its file, under concurrent threads and systemd's own transitions. |
| `systemctl_restart` | violation | `restart_service` returns normally without a new process when `systemctl stop` fails. |
| `systemctl_remove` | violation | `__remove` deletes the unit file of an "activating" unit, which then runs. |
| `installer_safety` | pass | `RefreshMigratesBeforeLdap`: until a crash interrupts a hook, post-refresh reaches `init_services` (which starts LDAP) only with `slapd.d` fully migrated. This holds whether the old revision had migrated or not, and after failed installs, reverted refreshes and failing crontab removals. A mutant whose `isdir` guard tests the old config directory breaks it. `installer_ldap` shows what a crash does. |
| `routes_sessions` | pass | `SessionsAreAuthenticated`: every session cookie names the owner that `ldap_auth` authenticated in the activation the session was opened in. This holds through logins, logouts, deactivations and re-activations for another owner. A mutant that calls `login_user` before `authenticate` breaks it. |
| `routes_stale_session` | violation | A browser logs in, the device is deactivated and then activated for another user. The old browser is still served behind `login_required`: no step ends sessions, and `load_user` checks nothing. |
| `installer_ldap` | violation | A crash after copytree makes the re-run skip the migration; LDAP is then initialised on a half-migrated config. |

Each property of a passing run has a mutant in `PROJECT.json`: a plausible bug in the mapped code that TLC finds.

### Bounds

- **SnapRecords**: 2 names, 2 channels, 2 versions, up to 2 installed and 3 store records. This covers:
  - installed-only, store-only and overlapping ids;
  - an id on two channels;
  - listings that are out of order.

  These are all the shapes the merge and the stable sort treat differently.
- **SnapCore**: one client, 2 snaps, a 3-record catalogue (snap 1 on two channels) and versions {1, 2}. One client suffices for the properties here, since each concerns one call against an arbitrary snapd; other callers act only through snapd, whose changes are already nondeterministic. 556,128 distinct states.
- **Systemctl**: one unit, two threads, at most 2 activations. 180,749 states.
- **Routes**: 2 browsers, 2 users, at most 2 activations (54,112 states). This is the least that lets one browser outlive a re-activation for the other user while a second browser logs in.
- **Installer**: at most 2 crashes, enough for a crash in two consecutive runs of a hook.

### Fairness

`SnapCore.Spec` assumes strong fairness on each thread's in-flight round trips. A blocked thread proceeds when snapd is up, or fails when it is down. snapd may come and go while the thread waits, so weak fairness would not be enough. Callers, snapd and the store are not fair.

`CallsReturn` fails even under this fairness, because a hung snapd never answers. That is the finding.

## Proofs (TLAPS)

`SnapCoreProofs` proves, for every set of clients, names, channels, versions and store catalogue that satisfies the module's ASSUMEs:
- `TypeCorrect`: `Spec => []TypeOK`.

It goes through the inductive invariant `IInv == TypeOK /\ ChangeFitsSnap /\ PcMatchesOp`:
- `ChangeFitsSnap` is needed because the type of `installed` after a refresh completes depends on the pending refresh being for an installed snap whose channel is in the catalogue.
- `PcMatchesOp` ties a thread's `pc` to its method.

There are three lemmas, `InitIInv`, `DaemonIInv` and `ClientIInv`: `ClientIInv` has one case per client action, and `DaemonIInv` covers the daemon's steps.

`InstallerProofs` proves:
- `InstallerTypeCorrect`: `Spec => []TypeOK`. `TypeOK` is inductive by itself.
- `RefreshMigrated`: `Spec => []RefreshMigratesBeforeLdap`, for every bound on crashes.

`RefreshMigrated` rests on `MInv == TypeOK /\ RefreshSteps /\ CrashFreeMigration`, which TLC checked on the `installer_safety` instance before the proof:
- `RefreshSteps`: pre-refresh is the crontab step alone, and the migration steps belong to post-refresh. A hook is idle only when none runs, and a refresh runs on an installed platform.
- `CrashFreeMigration`: until the first crash, `slapd.d` is missing or fully migrated at every step outside `migrate_ldap`, and so is the copy snapd keeps for a revert. Inside `migrate_ldap`, `slapd.d` is exactly as far as the step the hook is at.

The property alone is not inductive. A revert writes back the copy taken at pre-refresh, so the invariant must also speak of `savedSlapd`. The `isdir` check goes to `init_services` on any existing directory, so the invariant must rule out a half-migrated one.

`RoutesProofs` proves `SessionsAuthenticated`: `Spec => []SessionsAreAuthenticated`, for any browsers, users and `MaxEpoch ≥ 1`. The invariant is made inductive by adding `activated => epoch >= 1`: login reads the current owner, which is a user only after an activation. `Activate` writes the owner of the next epoch only, so the owners of earlier sessions never change.

`SystemctlProofs` proves `RemovedFileStaysDisabled`: `Spec => []RemovedFileDisabled`, for any units and threads. Two conjuncts strengthen the invariant:
- `DisabledBeforeRemove`: a thread about to delete a unit file has seen its unit disabled, and nothing re-enables a unit.
- `StopInStopper`: `__stop`'s continuation runs only inside `stop_service`, `restart_service` and `__remove`.

TLC checked each inductive invariant before it was proved.

`SystemctlProofs` also proves `SystemctlTypeCorrect` (`Spec => []TypeOK`) from the same invariant.

`SnapRecordsProofs` proves facts about the pure operators of `snap.py` for all names, channels and versions:
- `GetAppMerge`: `get_app`'s merge follows §8 for any two lookup results.
- `StoreErrorOutcome`: on a store error, `find_in_store(id)` is `None`, while the wildcard listing raises.
- `SortedByNameSorts`: `SortedByName` is Python's stable sort by name. The result has the input's length, and every element lands at its `SortRank`, so the result is a permutation. Names never decrease along it, and equal names keep their order.

The sort proof counts the elements that go before each position:
- `EarlierCount`: a rank lies in `1..Len(s)`;
- `RankMonotone`: going before means a smaller rank, because the set of earlier elements strictly grows;
- `RankOnto`: ranks are injective, so by `FS_Injection` every position is the rank of exactly one element.

These proofs use `FiniteSetTheorems` and `SequenceTheorems`. `SentinelAssumption` says None, `NotFound` and `Crash` are not app records, and `Crash` is not a list of snaps.

`MCSnapRecordsProofs` proves `GetAppFollowsSpec`: `Spec => []GetAppMatchesSpec`, the property `records_reconcile` checks. It holds for installed listings with distinct names and for store listings of any length, over any names, channels and versions. The argument:
- `InstalledLookup`: with distinct names, `SnapResponse`'s choice of record and `FirstOf` pick the same record.
- `StoreHitsFacts`: the answer to `/v2/find?name=id` is a list of store records of that id, and it is empty exactly when the store has none. Counting positions (`BelowOnto`, again by `FS_Injection`) shows every place of the answer is filled.
- `StoreLookup`: `find_in_store` takes the first element of the sorted answer. By `SortedByNameSorts`, that element is one of the answer's records.
- `GetAppCorrect`: `GetAppMerge` combines the two sides.

To make this provable, `MCSnapRecords` states the store's answer to a named query with explicit positions (`StoreHits`) instead of `SelectSeq`. `SelectSeq` is a recursive function, which the provers cannot open. TLC checked that the two are equal on the whole `records_reconcile` instance.

What TLC alone checks:
- Liveness (`CallsReturn`) and anything with ENABLED.
- What `join_apps` computes for every input (`ListMatchesReference`). `join_apps` and `DictOf` are loops, modelled as recursive functions. The provers here cannot unfold a recursive function's definition, nor instantiate the library's induction theorems.
- The MC modules' reference definitions.

## Not modelled

- **`load_user`'s wrong name.** `load_user` (line 36) returns `FlaskUser(User(user))`, where `user` is the view function of `/rest/user`, not `user_id`. Every request after login therefore runs as a user whose name is that function. `Routes` translates it as written (`load_user`). The violation is one step after a login, so it has no run of its own.

- **`install`'s dropped response.** `Snap.install` (line 21) only logs snapd's answer, so a refused install looks like success, where the spec (§4.1) says `DaemonRequestError`. The model keeps the code's behaviour (`Install`), but no run states the spec's claim.

- **What the backend does for proxied routes** (backups, storage, apps, certificates), beyond activation and deactivation. It is pass-through HTTP.
- **`rest/api.py`**: two stateless lookups (`storage_dir`, `user_email`) and an error handler that answers 500 to everything. There is no state or ordering to check.
- **`PlatformConfig`**: read-only parsing.
- **snapd status codes other than 200/404**: `find_installed` would raise `KeyError` on them.
- **Logging, URL building and the journal dump of `__start`.**
- **What a leftover crontab does.** `clear_crontab` only logs a failing `crontab -r`. `Installer` models that the crontab stays, but neither the code nor the spec says what an old entry may do next to the backend, so no property judges it.
- **An abstract specification.** The spec's app life cycle and a login gate were tried as abstract specifications, and both were dropped. snapd alone decides every life-cycle transition, so that refinement held whatever the client sent. The login gate could only promise what `SessionsAreAuthenticated` already says, or the stale sessions that `routes_stale_session` reports as a defect.

## Further work

1. Extend the snapd model with error statuses other than 200/404 (`find_installed`'s `KeyError`) and judge a failed wildcard query.
2. Prove what `join_apps` computes. This needs induction over the store listing; the provers here cannot instantiate the library's induction theorems, so `ListMatchesReference` stays with TLC.
