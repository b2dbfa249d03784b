# omarchy-bitwarden: models and proofs

The repository is a Bitwarden client for the Omarchy desktop: `omawarden`, a Rust
program that is the command line, the resident daemon and the SSH agent at once,
and a QML overlay that talks to the daemon through helper processes. This
directory holds TLA+ models of the parts of it that keep state, the TLC
configurations that check them, and TLAPS proofs.

All source paths below are under `src/`; `vault.rs`, `daemon.rs` and so on are
`src/omawarden/src/*.rs`.

## 1. The system

### Components, their state and what makes them correct

**VaultManager** (`vault.rs`; modules `VaultManager`, `QuickUnlock`). One instance
shared by every thread of the daemon. State: `is_unlocked`, `decrypted_items`,
`user_key`, the in-memory copy of `data.json` (`storage`), the quick-unlock slot
(`quick_unlock_key`, `quick_unlock_user_key_wrap`, `quick_unlock_epoch`),
`lock_generation`, and `restore_guard`. Each has its own lock, so every operation is
a sequence of critical sections. Operations: `unlock`, `quick_unlock_restore`,
`soft_lock`, `lock` / `hard_lock`, `wipe_quick_unlock`, `sync`, creation of an SSH
key, and inside the last two the renewal of the session. Correct when: a vault that
says it is locked holds nothing; an unlocked one is usable; a wipe is never
overridden by a restore; a restored key belongs to the account it is restored for;
every call returns. Hard: all of this is interleaving.

**Session policy of the daemon** (`daemon.rs`, `DaemonState`, `polkit.rs`; modules
`DaemonSession`, `Desktop`). State: `unlocked_at`, `session_anchor`,
`last_activity`, `auto_lock_duration`, `quick_unlock_setting`,
`quick_unlock_failures`, `quick_unlock_busy`, `last_boot_delta_secs`. Operations:
the requests of clients, each served by a thread of its own, and the watchdog, which
every two seconds while the vault is unlocked and every five otherwise checks for a
suspension, for the ceiling and the idle time of the session, and for a locked screen
or a coming sleep. Correct when: every reason to lock does lock in the end; three
denied prompts wipe the retained key; one prompt is shown at a time. Hard: liveness
under interference, several timers written without a common lock, suspension as an
event that freezes the daemon itself.

**Daemon life cycle** (`daemon.rs`, `main.rs`; module `DaemonLifecycle`). A socket in
the runtime directory. A starting client pings, defers to a daemon of its own build,
tells another one to stop, or starts one and polls it; the daemon removes what is at the path and
binds its own. The SSH agent's socket is bound and removed as its setting changes.
Correct when: a search ends with a daemon at the path; no daemon keeps an unlocked
vault where no path leads; the agent's socket follows the setting. Hard: two starts
at once, a stop racing a start, a setting changed while a daemon is replaced.

**SSH agent** (`ssh_agent.rs`, ADR-0024; module `SshAgent`). Prompts waiting for a
decision, approvals remembered per key, program and app until the daemon ends (a lock
of the vault leaves them), the policy (`first-use`, `always`, `never`), a thread per
agent client, forwarded sessions, the flag and the generation that limit unlock
prompts and notifications. Correct when: no signature without the confirmation its
policy asks for; none with a key copied before a lock; a prompt goes away with its
request; an unlock prompt can always be opened again. Hard: answers racing timeouts,
locks while a prompt is open, several requests waiting for one unlock.

**Clipboard** (`clipboard.rs`; module `Clipboard`). A generation number in a file and
a worker per copy that clears the clipboard after a delay unless the generation
moved. Correct when: a secret goes from the clipboard. Hard: each process counts
generations by itself.

**Account store** (`storage.rs`, `auth.rs`, `config.rs`, `keyring.rs`, the renewals of
`vault.rs` and `attachment.rs`; module `AccountStore`). `data.json` (account, wrapped
keys, ciphers), tokens and API secrets in the keyring per server, the configured
server. Operations: login by password or API key, unlock, lock, logout, status,
renewal of tokens, change of server. Correct when: a failed login, a logout and a
change of server leave no credentials behind, and two accounts are never mixed. Hard:
load-change-save by several processes, a read error taken for a logged-out account,
stores written one after the other.

**Signing in** (`auth.rs`, `api.rs`, `webauthn.rs`, `main.rs`; module `SignIn`). The
rounds of a password login: second factors, the code for a new device, a security
key, retries. Correct when: what the server asks for is found and sent, and nothing
it turned down is sent again as it was.

**Addresses and certificate** (`config.rs`, `api.rs`, `health.rs`; module `Endpoints`).
Server and identity address in `config.json`, in `data.json` since the login and in
the running daemon; the client certificate and the origin it is for. Correct when: a
session's tokens and the certificate go to the server they are for. Hard: three copies that
change at different times.

**Keys** (`crypto.rs`, `vault.rs`, `api.rs`; module `VaultKeys`). From the master
password to an item's fields and an attachment's bytes. Correct when: what was
encrypted reads back, and nothing reads as garbage. Hard: two walks over
organization, item and user keys, written apart.

**Attachments** (`attachment.rs`; module `Attachments`). Cache of previews, fetch (whole
bodies with a limit), decryption, download directory; previews are cleared when the vault locks.
Correct when: what is shown or saved is the attachment asked for, decrypted. Hard:
files left by earlier versions, requests and locks.

**Command line** (`main.rs`, `vault.rs`, `generator.rs`, `totp.rs`; module
`CommandLine`). The commands that read the vault, create keys in it and make
passwords, with and without a daemon. Correct when: a command that reports success did
what it says. Hard: the daemon locks or dies between the requests of one command.

**Overlay** (`OmarchyBitwarden.qml`; module `Overlay`). Its own picture of the
daemon's state and the card for the SSH agent's prompts, kept by helper processes.
Correct when: it holds nothing of a vault it shows as locked, comes to show a lock it did not cause, and
denies a prompt it is closed over. Hard: overlapping helpers and late answers; a helper
that still runs is not started a second time.

**The rest.** Locked memory, hook, logging, the overlay's components, packaging:
section 10.

### How they interact

```
 overlay / CLI ──socket──▶ client threads ─┐
   │    └─helper processes                 ├─▶ DaemonState ──▶ VaultManager ──▶ data.json ◀── login/logout
   │   ssh clients ──agent socket──▶ agent ┤    (timers)        (session,        keyring       (other processes)
   │   watchdog (every 2 or 5 s) ──────────┘                     retained key)   config.json
   └──▶ clipboard workers, preview files
```

The VaultManager makes each of its calls safe or unsafe by itself; the
`DaemonState` above it decides which calls are made and when. The models are
split the same way: `VaultManager` has the calls at the grain of critical
sections with nobody to restrict who calls what; `DaemonSession` has the policy
with each vault call in one step, except two: the hard lock, whose wipe and purge
are apart because a soft lock fits in between, and the restore, whose commit is
apart from its copy of the key because a wipe fits in between. The components around
them see of the vault only whether it is unlocked, and for whom; locking and unlocking are steps of
their environment.

## 2. Plan

| order | module | what it models | status |
|---|---|---|---|
| 1 | `VaultManager` | the shared session, quick unlock, sync, creation, renewal | done |
| 2 | `QuickUnlock` | abstract: what quick unlock promises | done, refined by 1 |
| 3 | `DaemonSession`, `Desktop` | timers, strikes, watchdog, requests; polkit and the lock detector | done |
| 4 | `SshAgent` | prompts, approvals, wait for unlock | done |
| 5 | `AccountStore` | `data.json`, keyring, `config.json` under the account's commands, with faults and kills | done |
| 6 | `DaemonLifecycle` | ping, defer, replace, stop, bind; the agent's socket | done |
| 7 | `SignIn` | the rounds of a sign-in | done |
| 8 | `Clipboard`, `Attachments` | generations and workers; cache, fetch, decryption and locks | done |
| 9 | `CommandLine`, `VaultKeys`, `Endpoints` | the commands that read and create; keys; addresses | done |
| 10 | `Overlay` | the overlay's picture against the daemon's, late answers, the approval card | done; search, settings and updates left out |
| 11 | `MCCommands`, `MCProgress` | 5 to 10 in one run for safety and one for progress | done |
| 12 | `*_proofs`, `VaultManager_refines` | theorems about all of the above but `Desktop` | every safety property of the passing runs (section 8) |

What is only model-checked is named at the end of section 8: the liveness properties.

## 3. `VaultManager`

One step per critical section. `pc[t]` is where a thread is, named after the call and what it does
next; `op[t]` the call; `key`, `snap`, `seen`, `renewals` its locals (the
key in hand, the loaded `data.json`, `epoch_before`, renewals tried).

| model | code |
|---|---|
| `Unlock*` | `unlock()` after its key derivation: items, key, slot if one is retained, flag, storage |
| `Restore*` | `quick_unlock_restore()`: sample epoch, copy key, load, prove, check epoch, enter `restore_guard` and check again, commit |
| `Soft*`, `Purge*` | `soft_lock()` and `purge_decrypted_state()` |
| `Wipe*`, `Purge*` | `wipe_quick_unlock()`; `lock()`, `hard_lock()` as wipe then purge |
| `Sync*` | `sync_with_client()`: load, renew, save, decrypt under the read lock of `user_key`, replace storage |
| `Create*` | `create_ssh_key_with_client()` |
| `Renew`, `RenewSave` | `refresh_session()` and what stores its tokens or purges the credentials |
| `Login*`, `Logout` | other processes rewriting `data.json` |

**Data.** A user key is a model value, an `enc_user_key` string another, `KeyOf` says
what it wraps. Of the ciphers and the wrapped private key only
the keys they decrypt under remain (`proof`), because that is what
`Proven` looks at; the decrypted items are the set of keys they came from.
Cryptography is taken to be sound: a key opens what it encrypted and nothing else.

**Inputs.** `data.json` starts as a login leaves it, with an account, with an empty
vault or logged out. `Init` also has the two states right after an `unlock()` and
after a `soft_lock()`, which saves the runs those prefixes; the steps that reach them
are in the model too.

**Failing writes.** A write of `data.json` may fail: a sync then ends, a renewal and a creation go on without noticing, as in
the code.

**Bounds.** `MaxEpoch` and `MaxGen` stop new calls, never a call already made;
two wipes and two unlocks are enough for a wipe on either side of
each step of a restore, for an unlock after it, and for the second soft lock.
`MaxRenewals` is 1 in the runs and 2 in the code: the second renewal repeats the
first. Two threads are every pair of racing calls; the runs about interference
with a third one (`soft`, `hard`) have three.

**Left out.** Queries, the clearing of attachment previews inside the purge (no
property looks at them), a direct sync by the command line without a
daemon, poisoned locks.

### Runs

`MCVaultManager` explores several *scopes* in one run: which calls are made, how many at
once, and by which accounts. The scope is chosen in the initial state and never changes, so
the run is the union of what would otherwise be one run each. A property that some
call breaks is stated for the scopes without that call (`Without(...)`), and
section 7 says what happens with it.

| run | what it asks | answer |
|---|---|---|
| `vault_calls` | all calls by two threads; unlocks, restores, syncs and creations against logins and logouts; three threads that restore, soft-lock and wipe, or unlock, restore and lock: types, who holds `restore_guard` (`GuardHeld`), that a committing restore has seen the current epoch (`RestoreIsCurrent`), that only a wipe drops a retained key (`OnlyWipeDrops`); without the calls that break them: a locked vault is empty, an unlocked one usable, a hard lock leaves nothing retained; two accounts: a restore commits only the key of the account it loads (`RestoredKeyFits`, without unlocks and syncs); `VaultManager` implements `QuickUnlock` (`KeepsPromise`) | holds |
| `vault_v_wipe_gap`, `vault_v_sync_lock`, `vault_v_binding_sync` | see section 7 | violated |

**Refinement.** `QuickUnlock` has a retained key, copies that may still open the
session, and the session being written. The mapping: `held[t]` is the key of a
restore that has not seen the epoch move; `opening` the key of the thread
inside the commit. A wipe voids all copies in its first step, by
the epoch, and empties the slot in its second. That the code is only correct this way
(the copies are void before the slot is empty) is what leaves the gap of
finding 1: a *new* copy can be taken between the two steps.

**Fairness.** Weak fairness of each thread: a thread in a call is scheduled,
every lock it waits for is released by another thread's step, and network
requests have timeouts (they end in `Failed`). No fairness is put on new calls.

## 4. `DaemonSession`, with `Desktop`

Each mutex of `DaemonState` is taken for one read or write, so each is a step. An
`Instant` is modelled by its age, which `Tick` advances and which saturates one
past the largest limit; a timer that is not running is `None`.

| model | code |
|---|---|
| `Request` and the request's steps | `handle_client`, `handle_request` |
| `Unlock*` | `DaemonState::unlock` |
| `Quick*` | `perform_quick_unlock_with_timeout`: setting, locked, available, busy, re-check, polkit, strike or restore, timers |
| `Lock*` | `DaemonState::lock`, with `hard_lock` as wipe and purge |
| `Soft*` | `DaemonState::soft_lock` |
| `Dog*` | the watchdog: `check_suspend_drift`, `check_auto_lock`, `check_screen_lock` |
| `Tick`, `Suspend`, `Signal` | the clock, the machine's suspension, the answer of `system_lock_signal` |

`Desktop` says what the daemon hears from outside: how the ends of `pkcheck` (its exit
codes, not started, killed at its timeout) become authorized, denied or unavailable
(`polkit.rs`), and how `system_lock_signal` combines logind, omarchy-shell and the process table; a
question that fails counts as a no. `DaemonSession` takes its prompts' outcomes and its signals from there. Where
`pkcheck` or the policy file is missing, `quick_unlock_setting` counts as off. `masterAge`, `denied` and `owed` are history variables:
when the master password was last given, how many denials came since a key was
retained or used, and whether the machine was suspended while the vault held a key.

| run | what it asks | answer |
|---|---|---|
| `session_safety` | one client with every request and suspensions, one with signals, two clients that prompt, unlock, lock, wipe and sync: types, failures never past the last strike, one prompt at a time (`OnePrompt`), three denials leave no retained key (`ThreeStrikes`) | holds |
| `session_live` | the ceiling ends a session that quick unlock keeps reopening (`CeilingHoldsUnlocked`, while no client locks); a suspension after the first sample of the clocks ends with no key (`SuspendWipes`); idle time, a locked screen and a coming sleep lock the vault, the last with no key left (`ReasonsLock`) | holds |
| `session_v_ceiling` | see section 7 | violated |

**Bounds.** `IdleMax` is 0 and `SessionMax` 1 in ticks (0 in the safety run): what matters is
that a limit is reached during each step of each thread, and that the idle limit can be
reached before the ceiling; ages saturate behind it. `MaxStrikes` is 3 as in the code
where strikes are the question, 2 elsewhere. One suspension, of two seconds, at any step of any thread. One
client beside the watchdog in the liveness run, two where clients race each other.

**Fairness.** `WF(Step(p))` for each thread: the watchdog sleeps two or five seconds and
goes on, a prompt has a timeout, and no mutex is held across a wait. No request and no
event is fair: users need not act. Time need not pass either: the idle lock, the
screen lock, the sleep and the suspension must be acted on even if the clock stands still
after, which excludes that the ceiling does their work. Only the ceiling itself assumes that
the clock goes on (`WF(Tick)` in `CeilingHolds`), because the anchor is set a few steps after
the master password was accepted.

**Left out.** Requests that read the vault count only by refreshing the idle
timer. A sync that goes on after its tokens could not be stored is in `VaultManager` only.
Clock steps backwards are ignored by the code and absent here. Suspensions are longer
than a second (the code counts whole seconds).

## 5. `SshAgent`

A connection is a thread with its place `pc[c]`, the client it serves (`peer`,
`forwarded`) and the locals of its request. Each atomic, each section of the
`pending` mutex and each look at the vault or the settings is a step.

| model | code |
|---|---|
| `Connect`, `Close`, `Bind`, `Request` | `accepted`, `serve`: the connection, a verified session-bind, a request to list or to sign |
| `WaitCheck` to `Waited` | `wait_for_unlock`: the check, the swap of `unlock_prompted`, quick unlock, overlay and notification, the wait and its two ends |
| `NoticeCloses` | the callback of the "Vault locked" notification |
| `Find`, `Policy`, `Confirm`, `Recheck`, `Refetch`, `Remember`, `Sign` | `sign` |
| `Post`, `Asked` | `ask`: the prompt goes in with its number, and out with its answer or without |
| `Reply` | `SshAgent::reply`, from the overlay, the command line or a notification |
| `Lock`, `Unlock`, `Configure` | the rest of the daemon: the vault, the settings, `apply` |

A key is named by its public blob and stands for its fingerprint too; a client by its
executable and app. The wording of a prompt, which host it names, and the refreshing of
the idle timer by a signature are left out; so is the socket itself, `running` being all
that a thread sees of it. A quick unlock may refuse for reasons of its own (`Quick`) or end
either way (`Polkit`); `DaemonSession` has what it does. `cards` and `answers` (what the person was shown, and the first answer given
to it, late or not), `posts` and `openers` are history variables.

| run | what it asks | answer |
|---|---|---|
| `agent_requests` | what is signed has the consent its policy asks for (`SignedWithConsent`); a confirmed request signs with the key as it is after the approval (`FreshKey`); prompts and waiting threads match (`PromptsMatchRequests`); `unlock_prompted` always has a thread that will clear it (`UnlockPromptOwned`); requests that come one at a time notify once for each lock (`NotifiedOnce`) | holds |
| `agent_v_prompt` | see section 7 | violated |

**Bounds.** Two connections, one client that can be told apart and one that cannot, one key
that comes and goes, two prompts (one to approve, one to be spared), one lock. Two
requests at once both sign while settings change, or both wait while the vault
locks; one at a time meets locks and prompts together. No liveness is checked: every
wait and every prompt has a timeout, and no lock is held across one.

In `agent_v_prompt` waits end in the order in which they began and none ends while another thread is
still opening its prompt, so that the schedule found fits the times of the code
(60 s to wait, 15 s for the dialog of quick unlock).

## 6. The components around the session

`MCCommands` puts them in one run. `scope`, chosen in the initial state, says which
component is explored; the variables of the others stay at a fixed state of theirs in
which nothing is under way, so the run is the union of one run each and its
properties, stated by the components, hold of each alone. `MCProgress` does the same for what must
end, on smaller instances, and adds `VaultManager`.

**`SignIn`.** `account` is what the server knows (methods, new device, security key,
password) and who types: anyone, or an honest user who types what is asked
for. `call` is a call of `login_password`, `form` the request under way, `round` the
calls `main` makes. It ends where the tokens are handed over. Codes are model values; a
code is right for one method only. The assertion of a key is another one each round.

**`AccountStore`.** `file`, `ring` and `conf` are the three stores, reduced to whose data
they hold; `opened` the account the daemon holds; `job[p]` a process with what it has
loaded. Each load, save, keyring call and request is a step, and may fail while
`trouble.left` lasts: a load then finds a logged-out account (`storage.rs:118`), a write leaves the old file.
`Kill` ends a process between any two steps. Which of another server's tokens the
un-scoped lookup finds is left open. Four instances: three commands in a row with a
failing request; two with a failing request, file or keyring; three with a kill; two at
once. Logins come to a logged-out file only (section 9 says why).

**`DaemonLifecycle`.** Clients and daemons are processes; `sock` and `agentSock` say
whose listener a path leads to. Boot is check, remove, bind, chmod; a client pings,
has another build's daemon retired, spawns, polls, then makes its request. `world` says
whether one client at a time looks for a daemon and whether a daemon may boot more
slowly than thirty polls. A stop locks and removes the agent's socket, and then replies and
exits in a step of its own: other threads serve in between. (Reply and exit are one step, since a client that
replaces a daemon sleeps 50 ms after the reply.) Three clients and four daemons: two searches beside a setter, a lock or a stop, each
able to start a daemon, over a daemon that is there, dead or absent.

**`Clipboard`.** A copier copies, stamps, sets a timer; timers end in the order they
were set. `genFile` is 0 while there is no file, which `writable` says may be for good. `wl-copy --clear` may fail. Three copiers
make one copy that two others surround.

**`Attachments`.** Paths are pairs of item and file name, or a file name alone for a
download, so two attachments of one name share one. Contents say what they are of and in which
form (`plain`, `cipher`, `part`, `empty`, `json`): a body whose size nobody announced may be cut short, or be nothing at
all, which decrypts to an empty file; what a damaged ciphertext is, is in `VaultKeys`. A lock drops the key and clears
previews in two steps. Two askers and three attachments make every pair of modes over
leftovers of every kind.

**`CommandLine`.** A command reads the daemon's status, asks it, and may fall back on the
file; locks, unlocks and the daemon's death are steps in between. Queries say how each
word matches each name, so that scoring is modelled and matching is not; what matching keeps to is in
`IsQuery`: a name that contains the text matches each of its words, and one word scores as
"exact" in the name it is. The generator counts
characters by set. One process is enough: commands share only the daemon,
whose state changes freely. Moments are chosen around the ends of TOTP steps of 15, 30 and 60 seconds.

**`VaultKeys`.** Ciphertexts are records of type, key, content and what is left of it: without a MAC
a damaged one decrypts to that. Parts under a key that has a MAC may be without one (`bare`), since the code decrypts
such a part without asking for it. All ways for
the keys of an account, organization, item and attachment to hang together are initial
states, so two walks over them (listing, `get_attachment_key`) are compared on each.
`Least` and `Default` stand for the floor of PBKDF2's iterations and the number taken below it (100 000 and 600 000 in the code), scaled by a tenth.

**`Endpoints`.** An address has scheme, host, path and a final slash. Settings, logins, restarts of the
daemon and requests change the three copies. Seven server addresses (clouds, self-hosted, loopback, as
`/api`, without a scheme), two identity addresses, four certificates, and three storage addresses that the
server may answer an attachment with: one without TLS, one elsewhere, one of its own origin.

**`Overlay`.** QML runs one handler at a time, so each is a step. `helper[h]` is a
`Process` of Quickshell: idle, running, or ended with an answer not yet handled;
starting one that is not idle does nothing, which `Running` says. `daemon` is the vault
and moves by helpers and by others (`Elsewhere`); `status` and `shown` are `authState.status` and what is held of the
vault. The card has its query and reply helpers, which also carry the denial of a prompt the window
closes over (`denying`). A query and a reply may fail, and a failed query is taken for one that found no
prompt. A prompt may be withdrawn at any time: its timeout, or an answer from elsewhere. `plan`
is what the person does, how they log in and how many helpers may run when they start another: two at once for a
person who logs in by password. The code of the selected item is
left out: its answer is guarded as a preview's is.

| run | what it asks | answer |
|---|---|---|
| `commands` | one account in the keyring, `data.json` and the daemon though requests fail, and none of another server's after a kill (`AccountsApart`); failed logins and logouts leave nothing (`FailedLoginLeavesNothing`, `LogoutLeavesNothing`); an honest user signs in, a refused proof is not sent again as it was (`HonestUserSignsIn`, `NothingResent`); no unlocked vault without a path, a search finds a daemon, the agent follows its setting (`NoHiddenVault`, `SearchFinds`, `AgentFollowsSetting`); an attachment shown is the one asked for (`ShownIsAsked`); success is true (`SuccessIsTrue`); what was encrypted reads back, with MACs and without (`ReadsBack`); tokens go to the server they are of, the certificate to none but hosts of the server it was set for (`RequestsGoHome`); the overlay holds nothing of a vault it shows as locked (`LockedShowsNothing`) | holds |
| `progress` | a secret goes from the clipboard (`SecretGoes`); sign-ins, searches for a daemon, attachment requests and commands end (`EveryCommandEnds`); calls of `VaultManager` return (`CallsReturn`); an overlay left open over a locked vault shows it so (`LockIsShown`); a prompt the window closes over is denied unless a query or reply for it fails (`ClosingDenies`) | holds |
| `commands_v_certificate` | see section 7 | violated |

**Fairness** (`ProgressFair`). Weak fairness of each process and thread in the scope
explored: the scheduler runs it, requests have timeouts, timers end. It includes that a person at a
terminal answers what a sign-in asks, without which it would rightly wait. Nothing that starts
a command, a lock or a copy is fair. Of the overlay only the status query with its timer, and the
card's query and reply, are fair: these commands end whatever the daemon does. `LockIsShown` asks for a lock and a
window that stay; `ClosingDenies` lets the window be opened again instead.

**Why one instance of each.** These components share no memory; what couples them (a
lock of the vault, a file another process has rewritten) is a step of the environment in each module that can be hurt by it.

## 7. Where the code and its own statements disagree

Six have a run whose counterexample is a shortest such schedule; the wording with the
quoted lines is in `PROJECT.json`.

1. `vault_v_wipe_gap`: a restore that samples the epoch and copies the key between the
   two steps of a wipe opens the session after the hard lock (`vault.rs:464-492`).
2. `vault_v_sync_lock`: a sync that took the key before a lock writes the items back in
   the middle of its purge (`vault.rs:858`).
3. `vault_v_binding_sync`: for an empty vault, the recorded wrapping vouches for a key it
   was not recorded with: log in to another account, sync, soft-lock, quick-unlock
   (`vault.rs:873`, `vault.rs:596`).
4. `session_v_ceiling`: a soft lock of the watchdog between the wipe and the purge of
   a client's hard lock retains the key again (`vault.rs:389`); its anchor is gone, so the
   ceiling never ends it (`daemon.rs:691`).

5. `agent_v_prompt`: a thread that found an unlock prompt open, and waited, clears
   `unlock_prompted` when it gives up, while that prompt is still there (`ssh_agent.rs:687`). It
   gives up first because the other one began its wait only after its quick unlock. The callback of a notification
   that outlived its lock clears the flag of a later prompt likewise (`ssh_agent.rs:665`).

6. `commands_v_certificate`: the client built for the server's address sends the login to the identity
   server as well, with the client certificate, also when that is of another origin (`api.rs:869`). ADR 0023, line 33, has
   it presented to the designated origin only.

The models reach these too; the properties are stated without the call in question, so no
run shows them:

- a creation pushes its item into a vault that its own failed renewal, or another thread,
  has locked (`vault.rs:1382`, comment at 1381), so `LockedStaysEmpty` excludes it;
- a lock between the writes of `unlock()` leaves the vault flagged unlocked with neither key nor
  items (`vault.rs:704-724`): `UnlockedStaysUsable` excludes locks and unlocks;
- an unlock of another account while a restore is at work rebinds the slot under
  it (`vault.rs:596`): `RestoredKeyFits` excludes unlocks;
- a suspension before the watchdog's first sample, five seconds after the start, is not noticed
  (`daemon.rs:366`): the live run suspends the machine only later;
- quick unlock turned off between the watchdog's look at the setting and its soft lock
  leaves a key retained (`daemon.rs:712`, against 1140-1146);
- an attachment's body that comes empty, of a size nobody announced, is returned by
  `decrypt_attachment_blob` before it looks at any MAC (`crypto.rs:503`) and saved as an empty file, where
  `docs/agents/security.md:180` wants an `Err` for whatever omits authentication: `ShownIsAsked` and `ReadsBack` allow it;
- a part given as type 0 without a MAC is decrypted under a key that has one (`crypto.rs:351`), and a damaged one
  shows as whatever is left of it; `docs/agents/security.md:269` says that decryption strictly requires the MAC, without
  an unauthenticated fallback: `ReadsBack` claims no garbage only where the field has a MAC;
- a window closes over a prompt while a reply runs; the query for prompts that comes next fails, is taken for
  an empty list, and with it the denial is forgotten (`OmarchyBitwarden.qml:2851-2864`), while the comment at 513 counts
  closing as a denial: `ClosingDenies` exempts a query or reply that fails;
- an idle lock with quick unlock off, and a rejected renewal, leave the anchor set, which its comment
  (`daemon.rs:259-261`) excludes; harmless, since the next unlock sets it.

Seen while reading and not a run: `docs/agents/security.md:201` counts `totp` among the requests
that refresh the idle timer; `should_touch_activity` (`daemon.rs:755`) and its test exclude it.

## 8. Proofs

TLC shows the instances above; the theorems hold for every value of the constants. They
rest on nothing but the named `ASSUME`s of the modules, which TLC evaluates in the runs:

| assumption | says |
|---|---|
| `KeyAssumption`, `ThreadAssumption`, `PeerAssumption`, `NoneAssumption`, `ProofAssumption` | a sentinel (no key, nobody, nothing) is not a member of the set it extends |
| `WrapAssumption` | `KeyOf` is a function from wrappings to keys |
| `BoundAssumption`, `StrikeAssumption`, `TimeoutAssumption`, `IterationAssumption` | bounds and counts are naturals, strikes at least one, the idle limit not above the session limit |
| `LifecycleAssumption` | clients and daemons differ, and there is a daemon to start |
| `StoreAssumption` | every account has one of the servers, the default settings are settings |
| `AddressAssumption`, `LiteralAssumption` | identity addresses are addresses; the host names in the code are strings |
| `OutcomeAssumption` | a failed decryption is told from what a successful one gives |
| `ItemAssumption`, `MomentAssumption` | the vault is a sequence of items, none of them a key pair or no item; each is a favourite or not and has a period in seconds; the clock's moments are naturals |
| `LineAssumption` | the command lines of the run are lines of the kind the theorems take (`IsLine`) |

**`VaultManager_proofs`.**
`TypeCorrect` is inductive by itself. `GuardExcludes` proves `GuardHeld`: a thread holds
`restore_guard` exactly while it is in the commit of a restore, in a wipe, or in a
soft lock. It needs, beside the types, that `op[t]` agrees with `pc[t]` where a
step's meaning depends on the call, since `Purge*` runs with the guard in
`soft_lock()` and without it in `lock()`. `RestoreCurrent` needs `GuardHeld`: the epoch moves only in
`WipeEnter`, which waits for the guard, so no wipe begins while a
restore that has passed the second check is committing. `OnlyWipes`: no step
but that of a wipe takes the slot from a key to none; a soft lock keeps an older
key when there is none in the session, and unlock has a key by the time it writes the slot.

**`VaultManager_refines`.** `Refinement`: the picture a state of `VaultManager` gives of
`QuickUnlock` is the retained key and, for each thread, the key it may still open the session
with and the one it is opening it with: a copy counts until the epoch moves. Each action of
`VaultManager` is one step of the promise or leaves the picture alone; the lemmas go call by
call. It rests on `GuardHeld` and `RestoreIsCurrent`: that a commit needs a copy still
valid in the abstract is what the second look at the epoch, under the guard, is for.

**`MCVaultManager_proofs`.** Which of the calls together keep which promise, in the scopes of
the run but for any threads, keys and accounts. Beside the
types and the guard (`Base`) each has one invariant about what is under way:
`HardLockWiped` (no soft locks in the scope) that the slot is empty while the hard lock that wiped it
purges the session, since no call but a soft lock fills an empty slot; `LockedEmpty` (no syncs, no creations) that items and
key are only in a session whose flag is set or some call is still to set or to purge;
`UnlockedUsable` that an unlocked vault has key and items but for
the places in the middle of a commit or purge; `RestoredFits` that slot, session and threads hold one and the same key or none,
that a wrapping recorded beside a key is one of it, and that a key which has passed the
check is the one that the file its thread has loaded wraps. The scopes left out of a theorem are those in which the code does
not keep the property (sections 7 and 9).

**`DaemonSession_proofs`.**
The invariant is `TypeOK /\ OnePrompt /\ Striking`. `OnePrompt` is what bounds the
strikes: only the holder of `quick_unlock_busy` counts one, so `failures` is read
and compared by one thread. `Striking` says where a denial that has been given but not
yet acted on can be; from it follow `failures <= MaxStrikes` and `ThreeStrikes`: once no prompt and no lock is
under way, `MaxStrikes` denials leave nothing retained.

**`SshAgent_proofs`.**
`ConsentGiven`'s invariant says where a consent is between the person and the signature: cards are
numbered apart; a pending prompt that is decided "approve" has such an answer, and one
not decided has no answer yet, so the first one counts; a thread that asks has its card
among those shown, with the key, client and forwarding it has now; one that has been approved has an approving
answer to it; a remembered triple has an approving answer to a card that said so and
was not forwarded. `PromptReopens`: a step either clears the flag, or keeps it and the places of the threads
due to clear it, or puts its own thread at such a place. `TypeCorrect` needs that a thread that signs has named a key.
`PromptsMatch` is inductive with the types: the prompts on show are those of the threads that
ask, and every way out of the wait takes its own prompt along. `KeyIsFresh` needs when the copy
was made: an answer carries the vault's generation at that moment, never one ahead of it, and a
thread that is to sign after a prompt has a copy no older than every answer to that prompt.
`PostedOnce` proves `NotifiedOnce` in any scope, for one request at a time: a notification that has been posted
for a generation is recorded in `last_notified`, or its thread is just about to record it
(`PostsOnce`), and what is recorded is never ahead of the generation a thread is to announce.

**`DaemonLifecycle_proofs`.** For any clients, each with any command, any builds, and daemons
in any number. `Base` is the types and where each process can be with which
connection. `VaultAtPath` adds `Single`, for one client that looks for a daemon at a time
(`Alone`): one daemon at most is alive, the one at the path if the socket is bound, and
who starts one has seen the last one end; and `Unlocked`, that a vault opens only in a daemon that serves.
`SearchEnds` needs neither: `Provided` says that as long as nobody ran `stop`, either nobody has searched
yet, or a daemon serves the path, or something is under way that will bind it. `AgentAsSet` takes one
change of the setting at a time (`OneSetter`) and says that a daemon's agent is as the setting has
it or a client is about to tell the daemon, or the daemon is ending after a `stop`, which leaves its agent to
the exit. `LifeTyped` takes the types from `Base`.

**`Overlay_proofs`.**
`LockedIsBlank` proves `LockedShowsNothing` for any prompts and plans: each answer either sets the
status and clears with it, or is taken only under the status it needs. A list's and a preview's answer look at the
status as it is when they come, not at what it was when they were asked for; the only answer that
sets "locked" without clearing is an API key's login, so the invariant also says that a password's
login never answers so. `WindowIsBlank` carries it over to the variables of the run `commands`.
`OverlayTyped` is about the approval card as well: its query, its reply and the prompt it shows or
closed on are of prompts the agent has posted, and a reply that is under way always has one, through every
order in which summons, queries, replies, withdrawals and the window's closing can come. The prompts are numbers,
of which the agent and the query take the least, so the proof uses that the naturals are well-founded.

**`MCCommands_proofs`.** The other components of that run, each under a specification of its own
with all inputs in place of the run's: what is proved about a component covers the scope of the run it is
checked in.
- `AttachmentShown`: whatever is left at the paths, and whatever other requests do, a file that
  is read back is of the attachment asked for and in the clear, or nothing where the server sent nothing
  (`DecryptFile` returns that as it is). A request that is to decrypt holds what was fetched for it. It assumes `DistinctPreviews`, that no two attachments
  share a preview's path: without that the property is false (section 9).
- `HonestIsLetIn` and `NotSentAgain`, for any sequence of the four kinds of second factor that
  the client knows. The first's invariant (`Honest`) says, place by place, what an honest person's request
  carries and that nothing correct has been turned down; the second's (`Refusals`) what the server may
  have refused by the time the next proof is typed, which differs with the round and the terminal.
- `RequestsAtHome`, for any servers, certificates and settings the settings' validation lets through. The
  invariant (`Homeward`) ties the three places that keep the addresses to each other: `config.json`'s, `data.json`'s and those of the
  tokens issued. The certificate is stated by where the request goes: to a host of the server it was set
  for, whichever component asks, and no request to that server's own origin goes without it. Nothing is assumed of the storage
  addresses a server answers with: the code takes any (`attachment.rs:471`), sends no token to one of
  another origin, and the certificate only if it was set for that (section 9 has the clouds' other hosts).
- `KeysReadBack`, for every account whose keys hang together in any way the code knows, iterations in any
  number, each part with a MAC or without. A wrong key or a damaged part then gives garbage or an altered key instead of
  a failure, so the lemmas bound what a key can be at each level, and what is claimed of garbage is that the
  field itself had no MAC. The lemmas go down the hierarchy of keys one level at a time.
- `LogoutLeaves`, `FailedLoginGone` and `AccountsKeptApart`, about `AccountStore` for any accounts, servers and
  processes (below).
- `SuccessIsMeant`, about `CommandLine` for any vault, clock, processes and lines, with others who lock,
  unlock and stop the daemon at any moment (below).
- `ClipTyped`: a timer in the queue is of a copy of a secret that still waits for it, and of each
  one once; `Append` and `Tail` keep that because a copy is past its timer only when it has come first.
- `TypesHold` proves `TypesOK` for all the components side by side. `AttachmentsTyped`, `RequestsTyped`,
  `KeysTyped`, `CommandsTyped`, `AccountsTyped`, `LifeTyped`, `OverlayTyped` and `ClipTyped` are its parts. The types are not
  inductive by themselves: a file is only what some request wrote, so `AttFiled` says what a request that is to write
  holds and what one that is to decrypt has been sent; `AccountInv` that each process's copies are of accounts and servers too; the
  card's need the shapes of its query and reply; the clipboard's the order of the timers.

For the account store, every step of a process has a `Summary`: it keeps its operation and account,
leaves the other processes alone, and fails at most once. `LogoutLeaves` takes any number of commands at once, any failures
and kills, and any contents to begin with; its invariant (`LogoutInv`) follows one logout that nothing has
overlapped past the keyring, `data.json` and the daemon, and says what is empty by then. `FailedLoginGone` and
`AccountsKeptApart` take one command at a time, in any order and number, over a logged-out account or any one that is logged in;
a login comes to a logged-out one. `Within` bounds what `data.json`, the keyring, the daemon and
the process's own copies hold to a set of owners and servers. `OneOwner` is `Within` of a single account, with what each place
of a command requires of the keyring and the file (`Stage`): while only requests fail, nothing is half
done when a command ends, so the next one finds one account or none. `OneServer` is `Within` of the accounts of the
configured server, which even kills leave in place, because a change of server saves `config.json` only after
everything else is empty. `FailedLoginGone` joins the two kinds of knowledge: until the one operation fails all
is of one owner, so at the time a login fails and clears up, the tokens it clears are all there are (`Undoing`);
`trouble.left <= 1` is the hypothesis that the clearing itself does not fail too, which the code has no
answer to. `AccountsKeptApart` proves `AccountsApart`, both halves. `AccountsTyped` is `Within` of all accounts and servers, for any
number of commands at once and any failures.

`SuccessIsMeant` proves `SuccessIsTrue`. A command answers once, at its end, so the invariant (`CmdInv`)
says of each process, place by place, what it has in hand when it comes to answer: a reading one an item of
a name that was asked for, or none (`ReadsOn`); a creating one its key pair, with no key on the server yet
unless an answer was lost, and then one (`CreatesOn`). It also needs `calm`'s meaning: while nothing has locked or
ended the daemon since the status was read, a command that asks is asking an unlocked one. The rest is what an answer contains, in lemmas about the operators. `ListShowsAll`: a list has
every name. `SearchShowsNamed`, `SearchShowsFirst`: a search shows every name that contains the text, and the item whose name
is a text of one word first, before every favourite that is not (`ExactScores`). `FoundIsNamed`: both lookups find a name asked for.
`FieldIsHeld`: the field copied is one the item has. `CodeLasts`: a code stays the same exactly for the seconds it says, for any
period and moment; this is `StepEnds`, arithmetic with `div`. `PasswordAsAsked`, `PhraseAsAsked`: lengths and counts. It assumes
lines as `IsLine` has them, which is what the argument parser and the matching give; the run's own are such lines
(`LineAssumption`).

**Only model-checked.** All liveness properties and the absence of deadlock, since fairness and
`ENABLED` are beyond the prover: `CeilingHoldsUnlocked`, `SuspendWipes`, `ReasonsLock`, `SecretGoes`,
`EveryCommandEnds`, `CallsReturn`, `LockIsShown`, `ClosingDenies`.

## 9. Limits observed

Where a property is narrower than one might wish, this is why. Each was met while
modelling; the models reach those they cover. None contradicts a line of the repository unless
one is quoted.

**Account.**
- A sync or renewal that has loaded `data.json` before a logout resets it saves the
  account again (`vault.rs:841`), so `LogoutLeavesNothing` is about logouts nothing overlaps.
- A login over another account keeps its refresh token when the new one brings none, and its items when
  the first sync fails; hence logins over a blank file.
- `get_status` drops both tokens of an older file once one of them was stored.
- A keyring that fails to clear leaves tokens that the un-scoped lookup may pair with the next account:
  `AccountsApart` takes failing requests and kills, not that. A `data.json` that cannot be removed when the server changes keeps the old account.
- A `config.json` that cannot be read is taken for the defaults, which the next save writes
  (`config.rs:200`, `auth.rs:645`).
- The terminal's email method never has the code mailed (`main.rs:986-1005`).
- A server address without a scheme never matches the certificate's origin, so the certificate is not presented.
- Fewer than 100 000 iterations of PBKDF2 are replaced by 600 000, so such an account does not unlock.

**Daemons.** Two starters at once may leave an unlocked daemon that no path leads to
(`daemon.rs:773`); two changes of the agent's setting at once may leave `running` set and no socket (`ssh_agent.rs:430`).

**Clipboard.** Where the generation file cannot be written a worker finds a fresh
generation and leaves the secret. Where `wl-copy --clear` fails nobody tries again (`clipboard.rs:163`), so `SecretGoes` is
about a clearing that works. A daemon's end takes the timers of its copies along; its lock has cleared the clipboard first. A later copy may be cleared by an earlier worker, since both
count from the same start.

**Attachments.** A request that has its key before a lock may write its preview after the
lock has cleared them (compare `docs/agents/security.md:129`). It is in the model;
`ShownIsAsked` is about what is shown. Two attachments of one file name share a download, and two of one item and
one file name share a preview as well: `ShownIsAsked` is about items without such a pair.

An attachment whose body comes empty is saved as an empty file (section 7).

**Keys.** A type 0 part that brings a MAC is checked like a type 2 one under a key that has a MAC key; the models have type 0
without. Where an item's or attachment's key is under the user's key, beside the one it is expected under, the latter is tried
first: without a MAC what that gives may be taken for the key, so `Regular` leaves such parts out.

**Certificate.** At the clouds it also goes to their identity and API hosts, which are not the origin it was set for, and with a
storage address of the web vault's own origin.

**Command line.** A lost answer to a creation makes a second key, and so does a created key that does not decrypt.
An import takes a public key that does not match. A TOTP period of zero ends the process (`totp.rs:124`). `create
--out-dir` reports success when its files could not be written. The command line's own lookup takes the first name
that is or contains the query, where the daemon's prefers the one that is (`main.rs:1466`).

**Overlay.**
- An API key's login that answers "locked" does not clear the view; the status asked for with it does.
- A summons that comes while the query for prompts runs is dropped with it
  (`OmarchyBitwarden.qml:431-436`, `497-501`, `2868`), so its prompt may stay unseen until it
  times out, against the third point of ADR-0024.
- A query for prompts or a reply that fails may leave the prompt the window closed over undenied (section 7), so
  `ClosingDenies` exempts it.
- The loop that denies after the window closed also denies prompts posted meanwhile, unseen.
- An error in place of a list replaces the items, and since its length is undefined a poll does
  not load them again until a sync (`3102`, `3533-3545`).
- A late preview is shown under the item selected since (`1618-1630`, `3648`); the code of the item
  selected before stays until the new one's answer (`1088-1097`).
- A closed overlay keeps its items until it is opened: it polls only while open.

## 10. Not modelled

- **No state a model would show:** locked memory (`mlock`, zeroize, `PR_SET_DUMPABLE`),
  `hook.rs`, `logging.rs`, the report of `health.rs`, parsing of arguments, printing, HTTP and JSON
  below what a property tells apart, packaging, scripts and CI.
- **Cryptography** is symbolic (`VaultKeys`): the ciphers, HMAC, the key derivations and TOTP's truncation are
  taken to be sound.
- **`verify_peer_credentials`** (`daemon.rs:827-865`): it compares one number and closes the connection.
- **Code only tests call:** `detect_ssh_key_metadata`, `parse_raw_items`,
  `extract_metadata` (`vault.rs`).
- **Of the overlay:** search, key management, settings, updates, dependency checks, toasts, layout and the
  components under `components/`. What they keep is local and is rebuilt from the items.
- **Of the agent:** the wire format, which is parsed request by request, and the wording of prompts.
- **WebAuthn:** the CBOR and the arguments of `fido2-assert`; finding the key, the probes and what
  the sign-in does without one are in `SignIn`.

## 11. Running

```
tlc -config VaultManager_calls.cfg MCVaultManager.tla
tlapm VaultManager_proofs.tla
```

Definitions named in `PROJECT.json` under `mutants` (their comment begins with "Mutant") are
variants of a step with a plausible mistake in it; put in place of the step they break the property named there. They are not part of
the specification.
