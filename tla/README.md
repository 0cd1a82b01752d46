# vpn-authd in TLA+

A verification project for `wg-auth`: a control server (`server/src`, the program
`vpn-authd`) that gives out temporary WireGuard peers to users who log in, and its
clients for Linux (`client/`) and Windows (`windows/`, `windows-ui/`).

## 1. The system

### Components

| Component | State it keeps | Operations |
|---|---|---|
| Address pool, `ip_pool.c` | a bitmap with one bit for each address of a CIDR block, an excluded range, a mutex; lost with the process | init, allocate (first fit), release, (mark_used: no caller), destroy |
| WireGuard device, `wg_ctl.c` | the kernel's peer table and its cryptokey routing table, which gives an address to at most one peer; survives the process, not the machine | load the static configuration, add a peer, remove a peer, read a peer's counters, read the device's public key |
| Session database, `db.c` | sqlite tables `accounts`, `sessions`, `audit_log`; survives process and machine | insert, look up by token, revoke, extend, select the overdue, count the active, revoke all, audit |
| API handlers, `api_handlers.c` | the rate limiter's table of failed logins; the locals of the one request in progress | login, logout, renew, status; start, stop |
| Reaper, `reaper.c` | one thread, the batch it works on, `stop_flag` | a round every `session_reap_interval_seconds` |
| Process, `main.c` | where start and stop have got to, `keep_running` | start, run until a signal, stop |
| Configuration, `config.c` | `g_config`, constant after `load_config`; while it reads, the current section | load |
| Credentials, `auth.c` | none | hash and verify a password, draw keys and tokens |
| User tool, `add_user.c` | none of its own (a second process on the database) | add an account |
| Linux client, `client/src` | token, configuration, a renew thread, `keep_running`; the token file and the interface `wg-vpn`, which it shares with every other run of the program | login, status, logout |
| Windows library and user interface | token, `g_is_running`, renew thread, status; a button and a timer | WgLogin, WgLogout, WgGetStatus |

### How they interact

The API is served by one libmicrohttpd polling thread (`MHD_USE_INTERNAL_POLLING_THREAD`,
`api_handlers.c:696`), so requests are handled one after the other. The reaper is the
only other thread that works on sessions. The two share the database (opened
`FULLMUTEX`: a statement is atomic), the bitmap (a mutex held for one call) and the
kernel's device (a netlink message for one call). Nothing is held across calls: a login
is *count, allocate, add peer, insert, audit*; a logout is *look up, remove peer, release,
revoke, audit*; the reaper selects up to 100 overdue sessions and for each of them does
what a logout does. Between any two of these calls the other thread, the clock and the end
of the process can come in.

`main` reads the configuration, opens the database, starts the pool, loads the static
peers, revokes the sessions of the previous run, starts the API and then the reaper; on a
signal it stops the reaper, then the API, then closes the database and frees the pool. The
result of the configuration and of the static peers is ignored; after any other failure
`main` returns 1 and leaves the rest to the end of the process.

A client sends one request at a time, with curl (Linux) or WinHTTP (Windows). On the
server libmicrohttpd hands the body to `api_router` in pieces, then calls it once more for the
handler; the answer is queued and `request_completed` frees what the request held. The
Linux client is a process for each command: `login` stays until Ctrl+C with a thread that
renews; `logout` is another process, which finds the token in a file.

### What is hard

- **Interleaving.** Logout and reaper work on the same session; the reaper works from a
  snapshot; a renewal writes what it decided earlier. Expiry is a race with the clock.
- **Partial failure.** Each of the calls can fail (the database has no busy timeout, and
  `add_user` is a second writer); the login undoes what it did, the others ignore failures.
  Most calls of the start can fail, and the parser of `wg0.conf` has several exits.
- **Lost and broken messages.** A request or its answer may not arrive; the client then does
  not know what the server did. A body loses a piece when memory runs out.
- **Timing.** The Linux client renews by its own clock, once a minute, with no timeout on a request.
- **Crash and restart.** Database, kernel and bitmap have three different lifetimes.
- **Limits.** The pool's ends and its excluded range; the session limit; the batch limit.
- **Progress.** Each overdue session must be reaped; a shutdown must complete.

`PROJECT.json` lists every hazard at its line, with the properties that watch it.

### What makes each component correct

| Component | Properties |
|---|---|
| Address pool | The addresses to lease are those of the block without the excluded ones (`PoolExact`); no address leaks (`NoLeakedAddress`), no two sessions get the same one (`NoSharedAddress`, and `SharingNeedsContention` for when that can be relied on) |
| Device | A live session has its peer (`LiveSessionHasPeer`); a revoked one has none (`RevokedPeerGone`); no peer is left behind but by the end of the process (`OrphanOnlyByRestart`); those left take no traffic from a session (`MisrouteNeedsContention`); a static device is not disturbed (`StaticRouteKept`); a file with a bad key is not applied (`SpoiltNotApplied`), any other as it is written (`AppliedWhole`), and the list is freed (`LeakOnlyByBadAddress`) |
| Login limit | Nobody is refused without reason (`RefusedWithReason`); every failure counts (`CountsExactly`, and `FailuresBounded` where it does not) |
| Sessions | No login takes an account over its limit (`OverLimitOnlyByRenewal`), the grace period is honoured (`GraceHonoured`), an end is audited but at a restart (`UnauditedOnlyByRestart`), a session lives as promised: it ends once and for a reason, and a renewal neither revives nor shortens it (`SessionsServed`) |
| Reaper | An overdue session is taken down (`OverdueIsReaped`, `OverduePeerRemoved`) |
| Windows client | A running tunnel is whole (`RunningIsWhole`); the token is not shared between threads (`TokenNotShared`) and not lost (`TokenLetGo`); the button follows (`ButtonFollows`) and calls return (`CallsReturn`); Exit disconnects (`ExitDisconnects`) |
| Linux client | The session of a process that is up does not expire (`KeptAlive`); its token is not lost (`SessionLetGo`); Ctrl+C ends the process (`CtrlCEnds`); a session nobody can log out ends by itself (`OrphanEnds`) |
| Configuration | The settings are what the file says (`ConfigMatchesFile`) and within their limits (`ConfigSane`) |
| Requests | A body is in order (`BodyInOrder`); what a client takes for success is one (`AcceptedIsTrue`); nothing is kept (`NothingKept`); every request ends (`RequestEnds`) |
| Process | A shutdown completes (`ShutdownCompletes`) and gives everything back (`ShutdownReleases`); no request runs without the database and the pool (`HeldWhileServing`) |

## 2. The modules

- `IpPool` models `ip_pool.c`. An address is its offset from `pool_start`, the bitmap is
  the set of the offsets whose bit is set, and an operator is what one call does between
  lock and unlock. First fit is kept, and so are the marks that a scan leaves on the
  excluded addresses it passes.
- `WgDevice` models what `wg_ctl.c` does to the kernel's device, as the flags of its
  calls say. The device is external code. A call takes effect as a whole or not at all.
- `SessionDb` models the SQL statements of `db.c`. Row id, token and device key of a
  session are all fresh and unique, and one `Key` stands for the three. A row keeps its
  account, address, expiry and revoked flag. `NoRow` is a key with no row yet.
- `AuthServer` composes the three with the threads. `proc` says where `main` is. `api`
  is the API thread: the call it is about to make, and the locals it keeps between calls.
  `reaper` is the reaper: its next call, the session in hand and the rest of its batch.
  `row`, `audit` survive the process; `peers` and `route` survive the process and not the
  machine; `bitmap` survives neither. `clock` is `time(NULL)`.
- `AuthProperties` states the properties.
- `SessionService` is what the server promises about a session to those who see no threads,
  addresses or peers. `AuthServer` implements it: `live`, `over` and `until` are read off
  the rows, `asked`, `doomed` and `granted` off what the two threads have in hand, and
  `serving` is `ApiUp`. What is asked or granted may be forgotten, since statements fail and
  processes end. `SessionService` lets any number of requests be under way at once.
- `MCAuthServer` gives the small instances; each `.cfg` is one run.
- `AuthProofs` and `SessionProofs` hold the theorems.
- `RateLimiter` models the table of failed logins of `api_handlers.c`: a hash table
  without a delete, searched over a few slots from the hash on. A search is not a loop
  here: `StopsAt(p, i)` says that it ends at its `i`-th probe. `Check` and `Record` are
  `check_rate_limit` and `record_login_failure`; between the two a handler verifies the
  password (`attempt`), and only the clock can move, because one thread serves all requests.
- `FailureCounter` is what the table is for: a counter for each address. `RateLimiter`
  implements it for the addresses that share no slot with another one (`Alone`); for the
  others the table can do less, and the runs say what.
- `MCRateLimiter` gives the instance, `RateLimiterProofs` the theorems.

- `WindowsClient` models the library `authwg.cpp` with the window of `main.pas` that calls
  it. `ui` is the window's thread: `"loop"` when it handles messages, otherwise the call it
  is about to make inside `WgLogin` or `WgLogout`, which block it. `btnConnectClick` calls
  `ProcessMessages` before it logs in, so further clicks, the timer and Exit can be handled
  inside it: `frames` counts the clicks that wait. `renewer` is the renew thread. `tunnel` is
  the Windows service, `conf` the file with the keys; both outlive the process, whose
  memory `Blank` resets. `session` is the server's side, reduced to none, live or ended.
- `WindowsProperties` states its properties, `MCWindowsClient` gives the instance,
  `WindowsProofs` the theorems.

- `LinuxClient` models `client/src` for any number of processes (`Proc`) on one machine.
  `pc[p]` says where process `p` is; main and its renew thread share it, because main
  joins the thread before it sends a request of its own. `file` is the token file and `dev`
  the interface `wg-vpn`: a session, or nothing, whoever wrote it last. `stop` is
  `keep_running`. The server is its sessions: `sess` and `left`, the time to their expiry.
  Times are relative to now, so that the clock needs no bound: `known` is what the process
  believes of `left`. `Accepted` and `Renewable` are the conditions of `handle_logout` and
  `handle_renew`, `Reap` is the reaper, `ServerRestart` is `revoke_stale_sessions`.
- `LinuxProperties` states its properties, `MCLinuxClient` gives the instance,
  `LinuxProofs` the theorems.

- `ServerConfig` models `load_config`: `section` is the current section, `setting` is
  `g_config`, `ConfigLine` one line of the file. A line is a header or a key with a value.
- `StaticConfig` models `wgctl_load_static_config`: `part` is `enum parse_state`, `peers` the
  list it builds, `blocks` what it has allocated, `device` what the kernel was given.
- `CidrPool` is the arithmetic of `parse_cidr` and `ip_pool_init`, for addresses of `W` bits.
- `Startup` composes the three: `phase` is the call of `main` in progress, `held` what the
  process holds. Each call that may fail does so when it is in `StartFaults`.
- `Exchange` is one request and its answer: `cpc` is the client (`client` says which), `mine`
  what it holds, `conn` the connection with the pieces still to come (`up`, `down`), `spc`
  is `api_router`, `theirs` what it holds for the request, `body` the pieces it has.
- `Daemon` composes `Startup` with `Exchange`: a request is served between `api_start` and
  `api_stop`, and both the stop and a failing start cut it off.
- `DaemonProperties` states their properties, `MCDaemon` gives the instance,
  `DaemonProofs`, `FileProofs` and `StaticProofs` the theorems.

`AuthServer` and `Daemon` look at the same process twice: `AuthServer` follows what its
threads do to sessions, addresses and peers over several lives of the process, and takes a
request as the calls of its handler; `Daemon` follows one life of the process, all its
failing calls, and takes the handler as one step of a request (`done`).

Each action of `AuthServer` is one call, named after its handler: `LoginAllocate` is
`ip_pool_allocate` in `handle_login`, and so on. What a handler reads and checks before
its first effect is one action with the read (`LoginCount`, `LogoutLookup`,
`RenewLookup`): the checks look at the row that was read and at the clock, and reading the
clock a moment later only makes them stricter. Requests that are refused there
change no state and are not actions; `handle_status` changes none either. The rate limit that comes
before is `RateLimiter`; the body it parses is `Exchange`'s. `Die` is the end of the process
outside its orderly shutdown, which includes the returns of `main` when `api_start` or
`reaper_start` fails.

Operators whose comment begins with "Variant" are plausible mistakes. No action
uses them; each is substituted for the operator that follows it to show that a property
notices.

## 3. The runs

The instances of `AuthServer` use a pool of five addresses (six in `AuthCore`): the first and
the last are reserved, 1 is excluded and belongs to the static device, the others can be
leased. `AuthFaults` also excludes 2, so that its two sessions compete for one address and
the pool is exhausted; with two or three addresses the other runs have addresses reused and
in conflict. `Ttl` is
1 and the clock stops at `MaxTime`, 2: a session can be active, at its limit, overdue,
renewed, and overdue again. `MaxExits` bounds how often the process ends.

| Run | Bounds | Shows |
|---|---|---|
| `AuthCore` | 3 keys, 3 leasable addresses, 1 account, limit 2, batch 2, grace 1, no failures, no end | `TypeOK`, `OrphanOnlyByRestart`, `SharingNeedsContention`, `OverLimitOnlyByRenewal` |
| `AuthFaults` | 2 keys (symmetric), 1 leasable address, every statement and netlink call may fail, one end | `NoLeakedAddress`, `StaticRouteKept`, `UnauditedOnlyByRestart`, `SessionsServed` |
| `AuthLiveness` | 2 keys, 2 leasable addresses, batch 1, fairness, one end with or without the machine | `LiveSessionHasPeer`, `MisrouteNeedsContention`, `OverdueIsReaped`, `OverduePeerRemoved`, `ShutdownCompletes` |
| `RateLimiter` | 4 slots, 2 probes, 2 addresses of one hash and one alone, limit 2, window 1, clock to 4 | `LimiterTypeOK`, `RefusedWithReason`, `CountsExactly` |
| `WindowsClient` | 2 sessions, 2 nested clicks, every fault, fairness | `WinTypeOK`, `RunningIsWhole`, `TokenNotShared`, `TokenLetGo`, `ButtonFollows`, `CallsReturn` |
| `LinuxClient` | 2 processes, 2 sessions, every fault, fairness; session time 5, margin 5, grace, poll, delay, outage and clock difference 1 | `LinuxTypeOK`, `KeptAlive`, `SessionLetGo`, `CtrlCEnds`, `OrphanEnds` |
| `Daemon` | 5-bit addresses, 4 inputs, a request counts as 3, bodies of 0, 2 or 3 pieces (2 allowed), answers of 1 or 2 (1 allowed by the Windows client), every fault, fairness | `DaemonTypeOK`, `ConfigMatchesFile`, `ConfigSane`, `PoolExact`, `SpoiltNotApplied`, `AppliedWhole`, `LeakOnlyByBadAddress`, `HeldWhileServing`, `NothingKept`, `ShutdownReleases`, `BodyInOrder`, `AcceptedIsTrue`, `RequestEnds` |

The audit statement does not fail in `AuthFaults`: nothing reads the audit log, and an entry
that could not be written is missing for a plain reason. `UnauditedOnlyByRestart` names the
other ways: `project.md:345` asks for an entry for every login, logout, renewal, expiry and
revocation, but the action `revoke` is never written, neither when a restart revokes the sessions
of the process before nor for a row whose entry a crash cut off. A batch limit of 1 with 2 sessions in
`AuthLiveness` is the case of more than 100 overdue sessions. In `AuthCore` the limit of 2
with three keys is enough for a session to expire, a login to take its place and a renewal
to bring it back, which is how an account gets over its limit: `handle_renew` does not
count (`api_handlers.c:499`). The deadlock check is on in every run but `Daemon`: once the
bounds are used up the reaper's rounds still go on, or the process can be started again. A
process that is down, or whose start has failed, is the end of a behaviour of `Daemon`.

In `RateLimiter` two probes and two addresses of one hash are enough for a full probe
chain, and a clock of 4 with a window of 1 for two windows one after the other. `failed` is a
history variable: `failed[p][n]` is how often address `p` failed in the last `n` seconds.

`WindowsClient` has two sessions, so that a login can follow a logout, a failed login, an
Exit or a kill, and two nested clicks, enough for a click whose login is done inside
another's `ProcessMessages`. Every fault is possible: a request or its answer is lost, the file
cannot be written, the installer fails or is stopped after it worked, the tunnel is not
removed, the process is killed.

`LinuxClient` has one process that logs in, again after each of its ends, and one that runs
`logout` at any moment: two processes that log in multiply the states and are left to the
proofs, which hold for any number. The session time and the margin are the smallest that
`Tolerable` allows with the other values, so that one second less would let a session
expire; the code's values (43200, 900, 60) satisfy it with an outage of minutes. `Outage`
says how long renewals may go on failing, `Delay` how long one takes: without a bound on them
no client can keep a session.

In `Daemon` the lines of the two files and a request are drawn from one budget, `MaxInputs`: four
lines in any mixture, or one request and one line. The lines are those that differ for the
code: known and unknown sections, blocks that are usable, too large, too small or no
blocks, numbers at both ends of a range, keys that decode or do not, addresses that parse or do
not. Four lines are enough for a section, a setting in it, a section in between and a
setting after it, and for a peer with two lines and what may spoil it. The fault `"read"` is
WinHttpReadData failing, `"handle"` a handle that cannot be had.

Five more runs show where the code and its documents disagree. Each is a counterexample
to one property.

- `AuthDoubleRelease` (`NoSharedAddress`). A client logs out just before its session
  expires; the handler has passed its checks when the reaper selects the session. The
  first of them releases the address, a login is given it, the second releases it again,
  and the next login is given the same address. The kernel's table moves the address to
  the newer peer. `SharingNeedsContention`, which holds, says this is the only way.
- `AuthZombie` (`RevokedPeerGone`). A restart revokes all sessions in the database and
  leaves their peers in the kernel. The reaper looks only at rows that are not
  revoked, so they stay until the machine restarts or the address is given to another peer
  (which takes the route, not the peer).
- `AuthGrace` (`GraceHonoured`). The reaper does not know of the grace period.
- `RateForget` (`FailuresBounded`). The reset of an expired entry leaves an empty slot in
  front of the entry of another address. The search stops there, so the second address is
  counted from one again while its full entry is still in the table.
- `WindowsExit` (`ExitDisconnects`). Exit looks at `FIsConnected`, which the timer refreshes
  once a second from the status. It is still false right after a login (the run's
  trace), and it is false for good after a refused renewal has changed the status, so that
  neither Exit nor the button can end a tunnel that is up.

### Fairness

`FairSpec` is weak fairness of the steps of `main`, of the API thread and of the reaper,
each as a whole: each is one thread that always has at most one next step, and the kernel
schedules a thread that can run. Nothing is assumed of clients, signals, the clock,
failures or a restart. `ReaperWake` is fair because the sleep of the reaper is a bounded loop of
`sleep(1)`. The liveness properties give way when the process ends (`proc # "run"`), and
`OverdueIsReaped` also when the session is renewed.

The `FairSpec` of `WindowsClient` is weak fairness of the window's thread once it is in a
call, of the timer, and of the renew thread: requests time out and the installer is
stopped after five seconds, so each call goes on. Nothing is assumed of the user, of kills
or of the server.

The `FairSpec` of `LinuxClient` is weak fairness of what a process does by itself (`Step`: its
loops sleep one second at a time), of the reaper for each overdue session (which
`OverdueIsReaped` shows of the server), and of the clock. No answer is assumed to come:
curl is given no timeout, and `CtrlCEnds` says that this is the only thing that can keep
Ctrl+C from ending the process. Because `Delay` bounds a renewal, the clock of the model waits
for its answer; `OrphanEnds` therefore gives way to a request that is never answered.

The `FairSpec` of `Daemon` is weak fairness of the client in a request and of the thread of
libmicrohttpd while it runs. No connection is assumed to come about or to last, nor the
server to start or stop. `RequestEnds` then says that between the two nobody waits for ever.

## 4. The proofs

Every invariant and every action property that a passing run checks is a theorem, and so are
the two refinements. TLC finds each to hold on its instance; the theorems are for all values of
the constants. Where a theorem assumes that some call does not fail, the section says which and why.

`AuthProofs` proves, for every pool, set of keys, limit, failure set, bound on the clock
and number of restarts:

- `TypeCorrect`: `Spec => []TypeOK`
- `AddressesNotLeaked`: `Spec => []NoLeakedAddress`
- `StaticDevicesKept`: `Spec => StaticRouteKept`

They rest on the assumptions of the modules: `PoolAssumption` (what `ip_pool_init`
accepts), `WgAssumption` (static and session keys differ, static addresses are distinct),
`DbAssumption`, `ServerAssumption`, and `StaticAssumption`, which is what
`wg0.conf.example` asks of the administrator: the static addresses are excluded from the pool.
The last is used for `StaticDevicesKept` only.

The inductive invariant `IInv` is `TypeOK` and `NoLeakedAddress` with what they need:

- `LoginLocals`: while a login is in progress its key has no row (so an insert cannot
  overwrite one), and its address is leasable once allocated;
- `KeysHaveRows`: a handler or a reaper works on a key that has a row, so that the address
  it releases and the row it revokes exist;
- `RowsLeasable`: the address of a row is one the pool can lease;
- `ThreadsOfMain`: without an API thread no request is in progress and the bitmap has
  only its reserved bits, so revoking all sessions strands no bit.

`NoLeakedAddress` is not inductive alone: it says that a set bit has a holder, and a step
can take the holder away. The proof follows the holder. A login in progress hands its bit
to the row it inserts, or clears it on its way out. A live row keeps its bit until one of
the two releases clears it. `PastRelease` marks a row after its release, so that
it no longer counts as a holder; `LiveStep` and `PastReleaseStep` say which steps end a
session and which bring a thread past a release, and `RowStep` that a row keeps its address.

`SessionProofs` goes on from `IInv`:

- `LimitKept`: when the count does not fail, `Spec => OverLimitOnlyByRenewal`. The count of
  `handle_login` is old when the row is inserted, four calls later. The invariant
  `LoginUnderLimit` says it is still good: no other request runs meanwhile, and the reaper
  and the clock only end sessions. `ActiveStep` shows that a session becomes active by an
  insert or a late renewal only. That the set of rows is finite is an invariant too.
- `SessionsHavePeers`: when revocations do not fail, `Spec => []LiveSessionHasPeer`. If
  one fails, the row stays live without its peer, so the assumption is needed; failures of
  every other call are allowed. `DeadStep` and `RemovingStep` follow a session from the
  removal of its peer to its revocation through both threads.
- `EndsAudited`: when the audit statement does not fail, `Spec => UnauditedOnlyByRestart`, over
  any number of restarts. `RevokedStep` says who revokes and `OwedStep` that a thread that has
  revoked a row writes its entry. An orderly stop is not exempt: `ReaperJoined` says that the
  reaper has ended when the API stops, and the API stops between two requests.
- `NoneOrphaned`: when the kernel does not fail, `Spec => OrphanOnlyByRestart`. The
  invariant `PeerGone` says that a thread past the removal of a peer finds it gone; `PeerAdded`,
  that only a login adds one. A failing removal does leave an orphan, so the
  assumption is needed.
- `AddressesNotShared`: when revocations do not fail, `Spec => SharingNeedsContention`. The
  invariant `HolderInv`, kept as long as there is no contention, says that every holder's bit
  is set (`HoldersMarked`), that there is one for each address, that what a logout or the reaper
  works on is live (`WorkIsLive`), so that nobody releases an address twice, and that
  the API starts without live sessions (`NoneBeforeApi`). `HolderStep` and `BitCleared` follow
  the address. After a failed revocation the row stays live and its address is free: two
  sessions then share it without contention.
- `RoutesKept`: when revocations do not fail, `Spec => MisrouteNeedsContention`. A peer that
  a crash between `wgctl_add_peer` and the insert, a restart or a refused removal left in the
  device keeps its route until the address is given out again; then `wgctl_add_peer` moves it.
  That it is not moved away from a session whose row is live is `NoSharedAddress`, hence the same
  assumption; that the bitmap starts empty does no harm because no row is live then.
- `SessionsServedAsPromised`: `Spec => SessionsServed`, for all failures and restarts. Each
  call of a handler is one step of `SessionService` or none: `QuietStep` covers those that
  take nothing on, `MainServes`, `ApiServes`, `ReaperServes`, `RequestServes` and
  `EnvironmentServes` the others. The invariant `ServiceInv` says that the reaper has no old
  batch when it selects (`NoBatch`), that no session has more than `Ttl` before it, and
  that a renewal in progress gives at least what the row has (`ExpiryBounds`): the update
  does not look at the row again, and it is right because only one request runs at a time.
- `SessionsEndOnce` is what follows for a client: ended sessions stay ended, live ones end
  only if asked for, seen overdue, or while no request is served, and the time of a session
  that goes on is never shortened.

`LinuxProofs` proves, for any number of processes and sessions, every set of faults and all
values of the times, `LinuxTypeOK`, `KeptAlive` and `SessionLetGo`. For `KeptAlive` the
invariant `Punctual` bounds from below how much time a process knows it has left, by where
its renew thread is and how long it has been there (`InTime`): a sleep, a request, another
sleep. `Born` and `Answered` say that tokens are of sessions that were made, and
that a process past its logout has a session that ended or is in `unheard`.

`DaemonProofs` proves `ConfigSane`, `HeldWhileServing`, `NothingKept`, `ShutdownReleases`,
`AcceptedIsTrue` and `BodyInOrder`, for all files, faults, and sizes of bodies and answers.
`HeldAt`, `RouterAt` and `ClientAt` say what main, the router and the client hold at each of
their steps; `AnswerAt` says that what a client has of an answer is the beginning of it, unless
reads may fail, and that an answer with status 200 comes from a handler that has done its
work; `BodyAt` says where the pieces of a body are: those received and those still to come
make up the request, until one is lost.

`FileProofs` proves `PoolExact` and `ConfigMatchesFile`.

- `PoolIsExact` holds for addresses of any width. The prover has no powers and no remainders
  of a variable: that powers of two are positive, grow and divide each other is shown by
  counting subsets (`2^n` is the number of subsets of `1..n`), and the remainders by lemmas
  on division. The invariant `PoolInv` says that what the settings hold are blocks or marks of
  none, and that the pool was made from one that `ip_pool_init` takes.
- `LastLineWins` holds for files of any length. The invariant `ConfigAt` says that section
  and settings are those of the lines read so far. What the last line is for
  a file with one more line follows from lemmas about the greatest element of a set of
  lines, which exists because a bounded set has one.

`StaticProofs` proves, for any `wg0.conf`, `LeakOnlyByBadAddress`, `SpoiltNotApplied` and
`AppliedWhole`, and then `DaemonTypeOK`, which needs the types of all parsers.

- `StaticAt`: while the file is open the allocated blocks are those that the list reaches;
  afterwards what is left comes from one way out.
- `CleanAt`: while the file is open, the parser's state is that of the last known header and
  no line so far spoils the file.
- `PeersAt`: while the file is open, the list has the peers of the lines so far. Which peer
  and which address is the n-th is said by rank, the number of those at or before it, so
  that one more line changes one cardinality and no fold over the file has to be unrolled.

They assume of the files what `LinesAssumption` and `StaticAssumption` of `Startup` say: a
number is one or is marked as none, a block likewise, and the entries of an `AllowedIPs` line
are a sequence. The last is an assumption because `Parsed` selects from a sequence by a
test, which the prover cannot unfold; TLC evaluates it on the instance.

`RateLimiterProofs` proves, for every table size, number of probes and hash function:

- `LimiterTypeCorrect`: `Spec => []LimiterTypeOK`, which says that no entry counts past the
  limit although `record_login_failure` does not look at it;
- `CountsCorrect`: `Spec => CountsExactly`, the refinement of `FailureCounter`;
- `RefusalsHaveReason`: `Spec => []RefusedWithReason`. The invariant `ReasonInv` says that what
  an entry counts are failures since its window began (`CountedSince`), whichever slot it is
  in, and that `failed` grows with the time it looks back (`Cumulative`).

The invariant `LInv` adds to the types that an entry is where its address's search may look
(`Placed`), that an entry in use counts something (`Counting`), and that between check and
record the entry is below the limit (`Room`). For an address of `Alone`, `Placed` makes
the first slot its own or empty (`OwnSlot`), so its search ends at the first probe
(`OwnSearch`) and no other search writes there (`OthersAway`).

`WindowsProofs` proves, for any number of sessions, any nesting of clicks and every set of
faults, `WinTypeOK`, `RunningIsWhole`, `TokenNotShared` and `TokenLetGo`. The invariant `WInv`
adds which thread exists when (`Threads`: a renew thread is there only while the tunnel
runs or is being taken down, and a running tunnel means that no call is in progress) and
what the calls have done so far (`Progress`).

Model-checked only are the liveness properties, which need fairness and are outside the reach of
TLAPS: `OverdueIsReaped`, `OverduePeerRemoved`, `ShutdownCompletes`, `ButtonFollows`,
`CallsReturn`, `CtrlCEnds`, `OrphanEnds` and `RequestEnds`. The five properties that TLC finds
violated have no theorem either.

## 5. Not modelled

- Password hashing, key generation, base64: stateless calls into libsodium. Keys and
  tokens are assumed fresh.
- `add_user`: writes only `accounts`, which the models keep constant. It is the reason why
  a statement of the server may find the database busy.
- Trimming, comments, the lengths of lines and fields, `ListenPort`; `listen_addr` is read and never
  used (`MHD_start_daemon` listens on every address).
- What TLS does; heap memory and file descriptors other than those of `StaticConfig`, `Startup`
  and `Exchange`. The buffer that an empty round of the reaper leaks is a hazard without a
  property: it needs no order of steps.
- `status` of server and client: it reads only. Its exchange is `Exchange`'s with an empty body.
- `ip_pool_mark_used` and `db_get_active_sessions`: no caller.
- `wireguard.c`, `cJSON.c`: vendored.
- A netlink call that takes effect in part.
- Two instances of the Windows program at once; the extraction of its resources.
- More than one request at a time: one thread of libmicrohttpd serves them, and each client sends
  one after the other. What several clients do to the sessions is `AuthServer`'s.
- The routes that `client_wg_up` adds: they go with the interface, and their failures are ignored.
