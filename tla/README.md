# A formal model of Kvas-web

Kvas is a set of shell scripts that route chosen domains of a Keenetic router
through a tunnel; `src/web` is its web interface, one Go process (`kvasweb`)
that runs on the router. The part of it with a life of its own is the
*automatic VPN* (`internal/autovpn`): a subscription lists VPN servers, a daily
check ranks them, a watchdog keeps the tunnel alive, and the user may pick a
server by hand, all in one process, at the same time, on a router that loses
power, network and files. Beside it the models cover the scheduler of those
checks, the two goroutines that keep kernel tables in step with files (extra
networks, whole-traffic mode), the device rules the latter reads, the list of
protected domains, the password and its sessions, and the two updates, of xray
and of the package itself. All of it is checked with TLC, and most of its safety
properties are proved with TLAPS for every value of the constants.

Contents: [inventory](#inventory) · [plan](#plan) · [modules](#modules-and-code) ·
[runs](#runs) · [things to know](#things-to-know) ·
[proofs](#proofs) · [what is left out](#what-is-left-out) · [running it](#running-it)

## Inventory

Paths are relative to `src/web/internal` unless they begin with `src`.

### Automatic VPN: `autovpn/`

*State.* `Manager.state` in memory (mutex `mu`), the same structure in
`subscription.json`, `Manager.running` (mutex `runningMu`); outside the
process: `/opt/etc/xray/kvas.json`, its one backup, the xray process that reads
it on start, the Keenetic proxy interface. *Actors:* the goroutines `WatchTunnel`
and `RunScheduler` which `main.go` starts, a goroutine per check, one per HTTP
request. *Operations and their interaction:*

| operation | what it does | shares |
|---|---|---|
| `Apply` (manager.go:378) | fetch the list, back up and write the configuration, restart xray, wait for the port, raise the interface, record `ActiveKey`, save; roll back on failure | everything, with no lock around it; called by all the others |
| `WatchTunnel`, `EnsureTunnel` (watch.go, manager.go:533) | every few minutes: is the tunnel up, else `Apply` the active server again | a copy of the state taken earlier |
| `liveVerify` (watch.go:82) | does traffic get out; else apply the active server again, then spares | a copy of the state, used for several `Apply` |
| `StartCheck`, `runCheck` (manager.go:173, 217) | measure, rank, store, perhaps switch; minutes long | the flag, `Results`, `Apply` |
| `StartSiteCheck` (sitecheck.go) | test one site through every server | the flag |
| `UpdateSettings` (manager.go:95) | save link and settings, in memory and on disk under the mutex | the state the others hold copies of |
| `handleSubscriptionApply` (httpapi/subscription.go:237) | `Apply` with the request's context: closing the tab cancels it | as `Apply` |
| `RunScheduler`, `dueNow`, `NextRun` (scheduler.go, state.go) | start a check at a time of day | the flag, `LastCheck` |

*Hard:* two `Apply` at once; copies of the state that grow old while a step of
minutes is made by them; saves that reach the disk out of order; failures and
restarts between any two steps. *Correct when:* a switch is atomic; recorded
and configured server agree; the service switches by itself only as permitted;
one check at a time, which ends; a repairable tunnel comes back; what was
decided survives a restart. Of the scheduler: days of 23 and 25 hours, a ticker that
drops ticks while a check lasts, a check refused because another runs, a record
of the last check that failed to be saved. *Correct when:* no moment is passed
over and no day has two checks.

### Measuring and ranking: `probe/`

*State:* the results of the last check, kept from day to day (`State.Results`):
latency to the entry node, latency through the tunnel, speed, and whether the
speed is an earlier day's (`SpeedStale`). *Operations:* `CheckAll` (three stages,
the last for `SpeedTopN` servers only), `speedCandidates`, `Better`, `Sort`,
and their users `refreshWinner` and `keepCurrent`. *Hard:* thresholds (15 %, 10 ms)
make `Better` intransitive; old and new numbers are compared; a check is cut short
in any stage; the active server is read before minutes of measuring, and again after
them. *Correct when:* a check never replaces a server by a worse one,
compares by fresh numbers, gives every server its turn, and settles.

### Authentication: `auth/`, `httpapi/auth.go`

*State:* the password file, the sessions in memory and in their file, one counter of
wrong passwords in a row with the time of the last. *Operations:* first setup, login
(`Verify`), change of password, logout, expiry. *Hard:* `Verify` frees its mutex while
it compares, so tries made at once all pass the gate; a change of password is three
calls (`Verify`, `SetPassword`, `RevokeAll`) and a first setup two, and another request
may come between any two of them; the session file is written without a look at
the result. *Correct when:* after a change of password only sessions made with the
new one live; an ended session stays ended; tries are bounded.

### Whole-traffic mode: `fulltunnel/`

*State:* a choice file (`on`, `off`) against the mangle table of the kernel: a chain
`KVASWEB_FULL` that lets excluded devices return and sends the rest to Kvas's
`KVAS_MARK`, and the jump to it from `PREROUTING`. *Operations:* `Set` by request;
`restore` at start and at every tick of `KeepApplied`; both under `Store.mu`.
*Interacts with* Kvas and the firmware, which rebuild the table, and with the
device rules, whose excluded list it reads. *Hard:* ten runs of iptables in a row,
any of which may fail, find the table rebuilt, or be the last before a restart.
*Correct when:* the kernel follows the files again after anything; what is
recorded as on was on; an excluded device is let go before the mark.

### Extra networks: `networks/`

*State:* the list file against the ipset table `KVAS_LIST`, which `kvas init` makes
anew. *Operations:* `Add`, `Remove` by request, `Apply` by `KeepApplied`, all under
`Store.mu`. *Hard:* file and table change in two steps, and either may fail; the
list may hold lines that ipset refuses. *Correct when:* every usable line is in
the table in the end; nothing removed comes back; no tab undoes another's work.

### Device rules: `httpapi/routes.go`

*State:* the lists of devices in `kvas.conf`. *Operations:* read a list, change, write
the whole file back. *Hard:* no common lock. *Correct when:* requests lose no change,
and a device is in at most one list.

### Domain list: `httpapi/hosts.go`, `tags.go`, `adblock.go`

*State:* `kvas.list`, its one backup, the file of the resolver generated from the list
(`kvas.dnsmasq`), what the resolver read of it at its last start, and the line of
`dnsmasq.conf` that turns on ad blocking. *Operations:* add and
delete a domain, add and delete a group, import in two modes, toggle; all but the
toggle run `kvas add`, `kvas del` or `kvas import`, batch after batch, which change the
list line by line and, if they changed anything, empty the file of the resolver, fill it
anew line by line and restart the resolver; the toggle only restarts it. *Hard:* no lock;
`sed -i` and `clear_file_content` put back a list they read before; a run is killed
after its time limit or with its tab, and leaves a generation under way to go on by itself;
the generator and the restart may fail and kvas goes on; domains are compared as text. *Correct when:*
success is reported only of what was done, the resolver follows the list, and
nothing leaves the list but by a removal.

### Updates: `xrayupd/`, `httpapi/xray.go`, `selfupd/`, `httpapi/selfupdate.go`

*State:* the xray binary with its `.new` and `.bak`, the running xray; the program's
files, the version in opkg's database, the running service. *Operations:*
`handleXrayUpdate` (download, extract, ask for a version, back up, swap, restart the
tunnel, go back); `handleUpdateInstall` from the page and `kvasweb -update` from the
console, which download and examine a package and leave the rest to a detached script: `opkg
install` with its `prerm` and `postinst`, then check or start. *Hard:* the script stops the
service, and with it an update of xray at any step; the watchdog restarts the same
tunnel without a lock; time limits strike between any two steps; an older package
may be served under an announced name. *Correct when:* there is always a binary that
runs, an update is whole or not at all, or failed to go back and left the former build
beside it; what opkg has on record is not ahead of the program; service and tunnel come back.

### The rest

`src/opt/bin/libs/failover` is a shell daemon that switches between two protocols
on failure counters; `subscription/` translates text; `keenetic/`, `kvas/exec.go`
and the status pages are input and output; `src/opt` is Kvas itself, which the
models see as commands that may fail and as `kvas upgrade`, which deletes
`/opt/etc/xray` (`setup:424`).

## Plan

| step | modules | abstract specification and properties | theorems |
|---|---|---|---|
| 1 done | `Tunnel`, `AutoVpn`, `ServerSwitch` | atomic switch; consent; exclusion; repair; persistence | types, exclusion, consent, picks; under a hypothesis each, the atomic switch and persistence |
| 2 done | `CheckRounds` | fair comparison, no downgrade, settling, coverage | types, fair comparison, no downgrade |
| 3 done | `Networks`, `KernelFollowsFile` | nothing removed comes back; the table follows the file; everything listed gets in | the invariant, `OnlyListed`, `LeavesByRemove`, the refinement `FollowsFile` |
| 4 done | `Routes`, `FullTunnel` which extends it | the kernel follows the files; one list for an address | types, `FewCopies`, `MarkLast`, `RecordedOn`; for tabs that take turns, `OneList` and `OthersKept` |
| 5 done | `Service`, `SelfUpdate`, `XrayUpdate`, composed by `Updates` | a runnable binary, whole updates, only forward, service and tunnel come back | types, all five safety properties |
| 6 done | `DomainList` | truthful answers, accounted losses, a resolver that follows | types, all three |
| 7 done | `Scheduler` | no moment passed over, no day with two checks | types, `Daily`, `Prompt` |
| 8 done | `Auth` | sessions of the password in force, ended is ended, few tries | types, all three |
| 9 | proofs about what exists | what `FullTunnel` promises of choice, rules and chain, as `KernelFollowsFile` is for `Networks` | every step maps to one of it or a stutter |
| 10 | `Failover`: counters of the shell daemon | no switching when both protocols work | bounds of the counters |

The runs are kept to a dozen, one question each. Behaviours in which the code
departs from what one may expect are told under [things to know](#things-to-know).

## Modules and code

### `Tunnel`: the tunnel and `Manager.Apply`

One `Apply` is one process's walk through the labels `fetch`, `backup`, `write`,
`restart`, `wait`, `raise`, `commit`, `save`, or back through `undo` and
`unrestart`; each label is one call of the code which may block or fail, so any
other process may run in between.

| variable | code |
|---|---|
| `conf`, `bak`, `xray`, `iface` | server in `kvas.json`; in its backup; that the running xray was started with; is the Keenetic interface up |
| `mem`, `disk` | `Manager.state`; `subscription.json` |
| `sub` | what each link would list if fetched |
| `pc`, `call` | where process `p` is; the parameters and locals of its `Apply` |
| `out` | a copy of the state `p` took under the mutex and has yet to save |
| `gone`, `faults` | processes whose context is cancelled; failures left to the environment |

`Fails(p)` stands for every error return of a step: its context is cancelled
(free), or something of the environment failed (costs one of `MaxFaults`). A
cancelled context makes the next step that heeds it fail, and also makes the
rollback's restart of xray fail, as in the code.

### `ServerSwitch`: what `Apply` promises

The recorded and the configured server change in one step or not at all, except
for a failure, a crash, and one case the code has: a failed switch that found no
earlier configuration leaves its own (`Stray`; `rollback` returns at once,
manager.go:492). `AutoVpn` implements it: `current` is read from the
configuration or, during a switch, from what the switch would go back to.

### `AutoVpn`: the goroutines

Extends `Tunnel` with the watchdog (`Wake`, `Ensure`, `Look`, `Probe`, `Inet`,
`Reprobe`, `Spares`, `SpareProbe`), checks (`StartCheck`, `StartSiteCheck`,
`CheckServers`, `CheckResults`, `Decide`, `RefreshWinner`, `Choose`, `RecordError`,
`Release`), the user (`UserApply`, `CloseTab`, `NewTab`, `UpdateSettings`) and the
environment (`Upgrade`, `TunnelDies`, `Withdraw`, `ServerDies`, `NetDown`, `NetUp`,
`ServiceRestart`). `snap[p]` is what process `p` decides by of the copy of the state
it took: the code's `st := m.State()`. An action begins where the code has waited
and ends before it waits again; a copy and its use fall in different actions
whenever something slow stands between them.

What a check measures is a free choice here (any ranking of any servers found);
`CheckRounds` says how it comes about.

### `CheckRounds`: day after day

`world` is what each server is like; a check walks through `latency`, `tunnel`,
`speed`, `winner`, `switch`, one action per stage and one for each way to cut a
stage short (`LatencyCut`, `TunnelCut`, `SpeedCut`, `RefreshCut`). `outcomes` are
`CheckAll`'s results under way, `results` is `State.Results`. `told` is the active
server as the check began (`opt.ActiveKey`, manager.go:232), which is measured first;
`copied` is the one its decision goes by (`stateCopy`, manager.go:250). `UserApply`, of a
tab or the watchdog, may change `active` itself at any moment. `Better`,
`Sort`, `speedCandidates` and `keepCurrent` are translated with their thresholds
in whole numbers: a speed is within 15 % when 100·slow ≥ 85·fast. `Positions`
is the insertion sort Go's `SliceStable` uses up to 20 elements, which for an
intransitive `Better` is not a detail; it sorts places by a relation between them,
for the sake of the proofs, and serves `Better` and `Urgent` alike.

### `Networks`: list and table

| variable | code |
|---|---|
| `list` | the lines of `networks.list`, some of which `normalize` refuses (`Junk`) |
| `table`, `created` | what `KVAS_LIST` holds for good; is it there |
| `call` | the call each tab or `KeepApplied` (`Keeper`) is in, with its locals: the list to be saved, the lines still to be applied |

`Store.mu` is `Unlocked`: a call begins (`Add`, `Remove`, `Apply`) when nobody is in
one. Its other steps are one write of the file (`SaveAdd`, `SaveDel`,
`SaveFails`) or one run of ipset (`ApplyLine`, `Delete`). `DestroyTable`,
`CreateTable` and `Restart` come between any two of them.

`KernelFollowsFile` is what all this promises, with no calls and no lock in it: the
file takes in usable lines and loses one at a time; the table may be emptied whenever
Kvas likes, takes in only what the file says at that moment, and loses nothing else
that the file says. `Networks` implements it (`FollowsFile`), `list` being the file
and `table` the kernel. A network whose `ipset del` failed may stay for good: that the
table follows in time is said by `Kept`, and only of what is listed.

### `Routes`: the device rules

`conf[k]` is the value of key `k` of `kvas.conf` as a sequence; `req[t]` is the request of
tab `t` with its locals. `RouteAdd` reads the list, `ClearOther` is one turn of the loop
over the other keys, `SetRead` and `SetWrite` are `Conf.Set`, which replaces the whole
file as it read it. There is no lock, as in the code; how many tabs there are is a constant.

### `FullTunnel`: choice and chain

Extends `Routes`. `choice` is the choice file, `marked` says whether Kvas's rule is in
`PREROUTING` (the code finds the interface by it), `hooks` counts the jumps to our
chain, `chain` is its rules, and `lost` counts jumps that a rebuild on the fly took out
and may yet put back (`PutBack`), as fulltunnel.go:177 has it. `call[p].at` says which run of iptables is next, and
every run ends in one of two ways (`ok`), of which the bad one costs a fault:

| code | actions |
|---|---|
| `Set`, `restore` | `SetMode`, `Restore`, `SaveChoice` |
| `lanIface`, `hookPresent` (`-S`, `-C`) | `LanIface`, `HookPresent`, each at its several places |
| `applyLocked` | `MatchRules`, `NewChain`, `FlushChain`, `AddRule`, `AddHook` |
| `removeLocked`, `dropChain` | `Unhook`, `EmptyChain`, `DeleteChain` |
| Kvas, firmware, init | `Wipe`, `PutBack`, `KvasMarks`, `Restart` |

`Subnet` is the set of devices that iptables prints as they were given: it adds `/32`
to a single address, and `rulesMatch` compares text. With a single address
excluded the chain is emptied and filled at every tick.

### `Service`, `SelfUpdate`, `XrayUpdate`, `Updates`: the two updates

`Service` has what both share: the version the service process is of
(`serving`), and the failures left to the environment.

| variable | code |
|---|---|
| `latest`, `program`, `installed` | version the marker file of the release names; version of the program's files, none while opkg replaces them; version in opkg's database |
| `order[i]` | where installation `i` is, with `rel.Version`, the version it read and the package it got |
| `bin`, `fresh`, `bak` | the xray binary, its `.new`, its `.bak`: a build, part of one, or nothing |
| `proc`, `iface` | the build the running xray was started from; is the proxy interface up |
| `job`, `watch` | where `handleXrayUpdate` and `EnsureTunnel` are |
| `cut` | an update died, or could not go back, after the swap |

| code | actions |
|---|---|
| `handleUpdateInstall`, `runSelfUpdate` | `Install`, `Latest`, `Download`, `Verify`, `Launch`, `GiveUp` |
| the script of `selfupd.go`, opkg, `prerm`, `postinst` | `Prerm` (with all it kills: `Stop`), `Refuse`, `Abandon`, `Unpack`, `Unpacked`, `Postinst`, `Record`, `Clean`, `Check`; opkg writes its database last, after `postinst` has started the service |
| `handleXrayUpdate`, `xrayupd.go` | `Begin`, `FindLatest`, `DownloadArchive`, `Extract`, `Write`, `RunVersion`, `Backup`, `Swap`, `GoBack` |
| `RestartTunnel` | `RestartXray`, `WaitProxy`, `RaiseInterface`, after the swap and again after going back |
| `EnsureTunnel`, from the restart on | `Ensure`, `WatchRestart`, `WatchWait`, `WatchRaise` |
| release, clock, power | `Publish`, `TimeOut`, `Reboot` |

A build answers `version` (`Runs`), or also carries the tunnel (`Carries`): the first is
what the update asks before the swap, the second what it finds out after it. Since
nothing in the code keeps two updates of xray apart but the page, the model has one.

### `DomainList`: requests and the kvas commands they run

`list`, `bak` and `conf` (the file of the resolver) are the files, as sets of lines; `loaded`
is what the resolver read of `conf` at its last restart, `stale` says whether the directive
may have changed since; `req[t]` is the request of tab `t`: its domains, those left, the batch
in the present run of kvas and what the present command has yet to write of what it read. The handlers are `HostAdd`, `HostDel`, `ApplyTag`, `Import`, `AdblockToggle`
with `Backup`, `Have`, `NextBatch`, `Reply`; `kvas add` and `del` are `AddOne`, `DelOne`, `Sed`,
`RunEnds`; `kvas import` is `ReadExisting`, `AppendAll`, `Clear`, `Truncate`, `Write`. Either ends
with `Empty`, one `Fill` for each line, `Filled` and `Reload` (`update_ipset`, `main/dnsmasq`,
the restart), where `FailUnseen` is a step that fails without kvas noticing. The generator is
run again when it counts its lines wrong; as the count is not modelled, `Empty` may come again
any number of times. `Kill` ends a run anywhere; a generation it leaves behind is a request
`"stray"` until `StrayEnds`. `missed` and `mixed` serve the property: since a generation last
began, a run was killed or failed unseen; when it did, another was still writing. The commands match text, which three relations
stand for: a line begins with a domain, ends with it, holds it.

### `Scheduler`: the clock

`clock` counts ticks of the ticker, absolute; `Begins` and `Moment` give the calendar, whose
days may be longer or shorter than 24 hours. `Tick` is time and the channel of one tick;
`Look` is a turn of `RunScheduler`, which waits for the check it began; `StartCheck`,
`Record`, `End` are a check by anyone; `UpdateSettings`, `ChangeLink`, `Restart` the rest. `begun`
and `quiet` only serve the properties. That a check takes its time is the free choice of
when `Record` and `End` come.

### `Auth`: password and sessions

`file` is the password file, `sessions` and `disk` the sessions in memory and in their file,
`fails` and `recent` the counter and whether `lockoutTime` has yet to pass. A request `req[t]`
goes through `Gate` (under the mutex), `Read` (mutex free), `Wrong` or `Open` (under the
mutex again), and, by its kind, `SetPassword` and `RevokeAll`. A session is named
by the number of the request that opened it. `opened`, `late`, `ended`, `lost`, `cut` and
`tries` record what the properties speak of.

### `MC...` and `..._proofs`

Values for the constants; theorems and their proofs.

Definitions named `X_Something` beside `X` are variants of `X` with a plausible
mistake, kept to see that each property would notice (`mutants` in PROJECT.json).
Nothing else uses them.

## Runs

All pass. Every property has a mutant that breaks it in the same run.

| run | question | instance | properties |
|---|---|---|---|
| `WatchUser` | may the watchdog and a user with a toggle surprise each other? | 2 servers, no failures, no interface | `TypeOK`, `Consent`, `PickedAlive` |
| `Checks` | do two checks of both kinds, with a toggled permission and repairs, exclude each other, ask, and end whatever fails? | 1 server, 2 checks, 1 failure, no interface | `OneCheck`, `Consent`, `CheckEnds` |
| `Serial` | is a switch atomic when no two overlap? | 2 servers, 1 failure, 1 restart, constraint `OneSwitcher` | `AtomicSwitch` |
| `Watchdog` | does the tunnel come back, and is the state kept? | 3 servers, 3 failures, 1 restart | `TunnelComesBack`, `StateSaved` |
| `RoundsSafety` | may a check, whole or cut, switch to something worse, but for a measured gain? | 2 servers, 6 qualities, 1 measurement a day, servers applied by others at any moment | `TypeOK`, `FairComparison`, `NoDowngrade` |
| `RoundsDaily` | does it settle, and is everyone measured? | 3 servers whose measurements vary from day to day by less than 15 % and at times fail, 2 measurements a day, whole checks | `Settles`, `Covered` |
| `Networks` | do list and table agree, however calls, ticks, wipes, failures and restarts fall? | 2 networks, 1 bad line, 2 tabs, 1 each of failure, wipe, restart | `OnlyListed`, `LeavesByRemove`, `FollowsFile`, `Kept` |
| `FullTunnel` | does the kernel do what choice and rules say, and are rules kept? | 2 devices, 3 lists, a tab for each page, 1 failure or restart, 1 wipe or rebuild | `MarkLast`, `RecordedOn`, `FewCopies`, `OneList`, `OthersKept`, `Follows`, `LeftAlone` |
| `Updates` | is there a working binary, a service and a tunnel, however two updates, the watchdog, failures and loss of power meet? | the page as installer, 2 versions, 3 builds of which one answers but carries no tunnel, 1 failure | `Runnable`, `WorkingBinary`, `ServesInstalled`, `AllOrNothing`, `Forward`, `ServiceReturns`, `TunnelReturns` |
| `Domains` | does the page say what happened, and does the resolver know? | 2 tabs, 2 domains (`ex.com`, and `ex.com.ex.com`, which begins and ends with it), a group with a line kvas refuses, batches of 2, 1 run killed or failed unseen | `Reported`, `ResolverFollows`, `LossAccounted` |
| `Schedule` | is every moment followed by one check? | 5 days of 6 ticks, one shorter and one longer, 2 times of day, 2 changes or restarts | `Prompt`, `Daily` |
| `Sessions` | who is logged in after a change of password, a failure, a restart? | 2 tabs, 2 passwords, pause after 1 wrong one, 4 requests, 2 failed writes or restarts | `SessionsOfPassword`, `EndedStays`, `FewTries` |

`TypeOK` is checked where a run lists it; it is proved of all modules.

*Why these bounds are enough to be interesting.* Two servers are the fewest
between which a switch may go wrong; the repair run has three, so that a spare
may fail and the next be tried, and `MaxRepairServers` 2 so that it may run out
of them. Three failures cover a deleted configuration, a dead server and a
failed repair in one behaviour. One restart is enough because it forgets all
but the disk. Two checks test exclusion; the theorem does for any number.
`LiveGap` counts wakes between live checks: 2 in `Watchdog`, so rounds with and
without one alternate. In `RoundsSafety` three
qualities beat each other in a circle, one is unreachable, one lets no traffic
out, one cannot be measured. `RoundsDaily` has three servers, so that with two
measurements a day the active one takes one and the others share one; its
qualities are days of one and the same server, as a noisy line has, one of them with
a failed measurement, so that servers may starve and `Room` of `Covered` matters. All
subscriptions are shorter than SliceStable's limit of 20. In `Checks` one server
is enough, since the question is who may begin and who ends; it may still be
withdrawn or die under a check. In `Networks` two tabs are the fewest that may undo
each other's work. In `FullTunnel` one device is a single address, which iptables
prints otherwise, and one a subnet; `MaxTries` is 1 for the code's 8, so that with
two copies of the hook one call does not take them all; they come of a failed check, or of
the one rebuild, when it puts the hook back after the keeper has added one. One failure or restart
beside the one wipe is what a run has time for; the theorems say that its five safety
properties hold for any number of either. One tab edits rules:
with two, `OneList` and `OthersKept` are false, since requests have no lock.
In `Updates` the third build is what makes going back happen, and two versions let an
older package be served under the newer name; the one failure may be a
loss of power at any step of either update. In `Domains` the one domain begins with, and
ends with, the other, which are the cases `kvas add` and `kvas del` treat differently; a
request for one domain is a batch that is not full, the group fills one; an import has the
shorter one only, so that the backup must account for the other. A second batch
would take a third domain, and with it more states than a run can have: that no batch
is forgotten then is left to the theorem `AlwaysReported`, which is for any size. In
`Schedule` the clock is changed between the two times of day, and a check may last
days. In `Sessions` two tabs and four requests allow two setups at once, and a login,
a change and a login under way together; `MaxFails` 1 for the code's 5 so that tries
beyond it occur.

*Fairness.* `main.go` starts the watchdog and the scheduler and Go schedules
every runnable goroutine, so each process in the middle of its work takes its
next step (`WF` of `Apply(p)`, `WatchStep`, `CheckStep(c)`); every wait of the code
has a time limit, so a step is never blocked for ever. Nothing is assumed of the
user, of failures, of when a check starts, or of the network coming back.
`networks` and `fulltunnel` start their `KeepApplied` from `main.go`: the
ticker ticks (`WF` of `Apply`, `Restore`), a call goes on (`WF` of `Step(p)`; a run of
iptables is killed after 15 seconds, one of ipset is assumed to end), Kvas's making of
the table is not assumed but a premise of `Kept` and `Follows`.
`TunnelComesBack` assumes in its own statement that from some moment the tunnel
stays repairable. `DailySpec` of `CheckRounds` lets the scheduler start a check every day
and the check come to its end, which is what `CheckEnds` says in run `Checks`; there
`[]<>(phase = "latency")` says of the whole check what a `WF` of each stage would.

In `Updates` every step of an installation, of its script, of the update of xray and of
the watchdog's repair is taken in the end (`WF` of each): downloads, commands and
waits have time limits, and the watchdog's ticker never stops. Nobody has to begin an
update. `TunnelReturns` is about the time after the last update of xray, with a
binary that carries the tunnel and a program whose watchdog can start.

*Deadlock* is checked but in `Updates`, `Schedule` and `Sessions`, which stop when their
bounds are used up: versions and failures, the calendar, requests.

## Things to know

What the models show of the code that a reader of its documents may not expect.
None of it contradicts a property above; where a property excludes it, the
property says so.

*Automatic VPN.*

- `active_key` is the applied server (state.go:41), but two overlapping `Apply`, of the
  watchdog and of a tab, may leave one server in `kvas.json` and record the other.
- Settings saved by `POST /api/subscription` (`web/README.md:139`) may be taken off the
  disk again by a copy of the state made before and saved after them.
- Permission to switch is read once, with the results: `AutoApply` taken back while a check
  measures its winner again, or while the watchdog works by its copy, is not honoured.
- A new link drops the results of the old one, but a check that runs meanwhile
  stores them again when it ends (manager.go:108).
- The order of servers is circular at its thresholds (probe.go:446-477), so the sort may
  put first a server that ranks after the active one. With three servers a check does
  switch to such a server: of 115, 118 and 100 units at 30, 40 and 10 ms, the third being
  active, the first is 15 % faster and in front, although it is ranked after the third
  for its latency. `NoDowngrade` says that such a gain, measured, is the only case.
- Some checks are to cover the subscription (`probe/run.go:151-153`, `189`), but servers whose
  measurement always fails keep their places every day. `Covered` therefore has a premise,
  `Room`: with the active server and those whose measurement fails, one measurement is left.
- A server that a tab or the watchdog applies while a check measures is not the one
  the check was told of, so the check may leave it by an earlier day's number, or none
  (manager.go:232, 250; `FairComparison` excepts it). One applied while the winner is
  measured again is not looked at at all: the check compares with the one before it.
- Only the first winner of a check is measured again, not the one that takes its place
  when it falls back, so a switch may rest on an earlier day's number (`refreshWinner`).
- A check that fails is not repeated before the next moment of the schedule. A link
  changed while a check runs is first checked at the next moment, since the check
  records itself as the new link's. A record that could not be saved,
  followed by a restart, allows a second check that day.

*Kernel tables and device rules.*

- Two tabs that edit device rules at once may lose a rule or leave an address in two
  lists (routes.go:69-90).
- A table rebuilt on the fly leaves a copy of the hook if `KeepApplied` looks between its two
  ends, as removeLocked says (fulltunnel.go:177), and so does a check that fails; `applyLocked`
  leaves copies in place, and only switching the mode off takes them out.
- An excluded single address makes `KeepApplied` rebuild the chain at every tick
  (fulltunnel.go:220; `LeftAlone` has it as a premise).

*Domain list.*

- `kvas import` adds to the list and never replaces it, although hosts.go:91-94 and
  228-229 speak of replacing. The one backup is overwritten by the next import.
- With `ex.com.ua` listed, adding `ex.com` adds nothing and is reported as done; deleting
  a domain deletes every line that holds its text. A wildcard `*.x` is listed as
  `.x`, which the page cannot delete.
- A killed `kvas add` leaves the resolver without the domains it had already put into the
  list, and asking again does not help: nothing changes, so nothing is generated. Toggling
  ad blocking does not help either: it restarts the resolver, and generates nothing
  (adblock.go:132-143). Any later request that does change the list makes it good
  (`ResolverFollows` has no other exception for listed domains).
- kvas neither looks at what the generator says nor at whether the resolver restarts
  (opt/bin/kvas:101-106, 140-145): the page reports success, while the resolver may have the old
  list or, when the file could be emptied but not filled, a part of it.
- Two generations at once write the same file, the later one having emptied it under the
  earlier one: a domain removed in between may be written back, and the resolver then goes
  on with it until the next change. No listed domain is missed, for the later one writes all.
- `kvas add` ends with success even if its write to the list failed; the model assumes
  such writes succeed. Runs are killed after the runner's own two minutes, not the
  fifteen the handlers allow.
- Requests at once may lose what one of them adds.

*Updates.*

- Two updates of xray at once would share `.new` and `.bak`; two installations, from the page
  and from the console, may put the older package over the newer one (`Forward`
  and `ServesInstalled` are proved for one installer).
- A service that dies between the swap and the end of the restart leaves a binary nobody has
  seen carry the tunnel, and nobody goes back (`cut`).
- Where going back fails as well (xray.go:144-147), the update ends with the build that does not
  bring up the tunnel and the former one in `.bak`, which the next update overwrites; the
  page is told. `AllOrNothing` has it as its third case.
- A loss of power after `postinst` and before opkg writes its database leaves the new program
  running under the old version: the page offers the update again, and it is installed
  once more. `ServesInstalled` allows the record to be behind, never ahead.
- When time runs out after the swap, going back restores the file but cannot restart
  xray; the watchdog does so. A binary that does not run has no version, which
  reads as being up to date.
- An installation that fails after its download leaves the package where it is.

*Sessions.*

- The use of a session prolongs it in memory only: a restart may drop one in use, if the
  file was last written more than 12 hours ago. The counter of wrong passwords is not kept
  over a restart.
- A change of password whose `SetPassword` fails leaves a session nobody holds, and a failed
  write of the session file goes unnoticed: after a restart the sessions it still has
  are back.

## Proofs

`AutoVpn_proofs` proves, for all values of the constants that satisfy the named
assumptions (`TunnelAssumption`, `AutoVpnAssumption`: the processes are the
watchdog, checks and users, all different, and `InitStates`, `Settings`, `Listing`
are well typed):

- `TypesHold`: `Spec => []TypeOK`
- `ChecksExclude`: `Spec => []OneCheck`
- `OnlyWithConsent`: `Spec => []Consent`
- `OnlyFromResults`: `Spec => []PickedAlive`
- `SwitchIsAtomic`: `Spec /\ []OneSwitcher => AtomicSwitch`
- `NothingUnsaved`: `Spec /\ TakeTurns => StateSaved`

`OneCheck` and `Consent` are not inductive. That `running` is cleared only by the
check that set it needs to know where a check may be; that the watchdog inside
`Apply` may only have entered with leave needs the copy it holds to be a state and
where it will return to. The invariant is `IInv`: `TypeOK`, `OneCheck` and, for each
process, `ProcOK(p)`, which ties the label to the kind of process, to
the labels `Apply` returns to, to the copy it holds and to the server it asked
for. The proof has one lemma per action: each leaves `ProcOK(q)` alone for other
processes `q`, since it changes only its own entries, and establishes it for its
own. `ServiceRestart` puts all processes back at their start. The theorems
follow with PTL.

`PickedAlive` rests on `Picked`: what a process asked of `Apply` is among the results it
decided by wherever its return leads, the spares still to be tried are others than
the active server, and no more are tried than may be (`Spared`, `RoundBegins`).

`SwitchIsAtomic` is the refinement of `ServerSwitch`, step by step: each action of `AutoVpn`
is an action of the abstract switch or a stutter. The invariant `Switches` says what
configuration and backup hold at each label of an `Apply`: the server it came from
can be gone back to as long as the switch is not committed. Two overlapping
`Apply` break it, as the code has no lock, so the theorem is about behaviours in which at
most one is under way (`OneSwitcher`, the constraint of run `Serial`; the other
processes are free, and nothing else is asked). Likewise `NothingUnsaved` is about
behaviours in which nobody changes the state in memory while a copy of it waits to be
saved (`TakeTurns`); a restart is no such change. Its invariant is `Fresh`: a copy that
waits is the state itself. Both hypotheses hold of every behaviour of one process and of
many with several, and each is needed: without it the property is false, which
is told [above](#things-to-know).

`CheckRounds_proofs` proves, for any subscription of up to 20 servers, any qualities and any
number of measurements a day:

- `Types`: `Spec => []TypeOK`
- `ComparedAfresh`: `Spec => FairComparison`
- `SwitchedUp`: `Spec => NoDowngrade`

Its first part is about the insertion sort, for any asymmetric relation between
positions, as `Better` is no order: what is sorted is all there (`PositionsArranged`) and
nothing comes right after what it precedes (`InOrder`). That the sort is a recursive function
costs the proof that there is such a function (`LoopRuns`). From neighbours to the
head goes `HeadLeads`: for whatever is alive in sorted results, the head is alive,
has a speed if that has one, and answers no later where neither has; that much of the
order is transitive, and enough for `NoDowngrade`. `ActiveMeasured` finds the active server
first among the candidates, if it is the one the check was told of. The invariant keeps a result of every server at the server's
place while `CheckAll` works (`Measured`), and afterwards sorted results that are fair to the
server `told` if it went through (`Ranked`); where that is the server `copied`, which the
decision goes by, the comparison is fair.

`Networks_proofs` proves, for any networks, any number of tabs and any bounds:

- `NetworksTyped`: `Spec => []TypeOK`
- `TableListed`: `Spec => []OnlyListed`
- `LinesLeaveByRemove`: `Spec => LeavesByRemove`
- `TableFollowsFile`: `Spec => FollowsFile`

None follows from itself: a call works with a list it read some steps
ago. `IInv` adds that the mutex admits one call (`Mutex`) and what that call may rely on
at each step (`CallOK`): a list about to be saved by `Add` contains the one on disk, one about
to be saved by `Remove` lacks just its line, what is still to be applied is listed, and what
is about to be deleted no longer is. The refinement rests on the same facts: `CallFollows`
takes the steps of a call one by one, and `Idle` those that move neither file nor table.

`FullTunnel_proofs` proves, for any devices, tabs and bounds:

- `Types`: `Spec => []TypeOK`
- `HooksDoNotPileUp`: `Spec => []FewCopies`
- `NothingAfterTheMark`: `Spec => []MarkLast`
- `RecordedRulesStand`: `Spec => []RecordedOn`
- `AddressesInOneList`: `Spec /\ OneList /\ []TakeTurns => []OneList`
- `RulesOfOthersKept`: `Spec /\ []TakeTurns => OthersKept`

For `FewCopies` the strengthening is `AboutToHook`: the call that is about to add a hook
has seen none, or a fault or a rebuild was spent on its not seeing it, and a rebuild holds no
more hooks back than failures and rebuilds so far account for; with `Mutex`, and with the shape of
`call`, this is inductive. `Quietly` does all steps that leave the hooks alone. For
`MarkLast` and `RecordedOn` it is `Progress`, what a call has done so far: while it fills the
chain, the chain is a beginning of the rules it wants, or was wiped; once it is about
to record, nothing is missing.

The rules of devices change hands between requests without a lock, and two tabs at once do
lose rules; the last two theorems are about tabs that take turns (`TakeTurns`), through
failures and restarts, and the first of them about a file in order at the start. `Underway` says
what a request has done: what it read of its own list still stands, and the
address is out of the lists that had their turn.

`Updates_proofs` proves, for any installers, versions, builds and bounds:

- `Types`: `Spec => []TypeOK`
- `AlwaysRunnable`, `AlwaysWorking`: `Spec => []Runnable`, `Spec => []WorkingBinary`
- `WholeUpdates`: `Spec => AllOrNothing`
- `OnlyForward`, `AlwaysServesInstalled`: `Spec => Forward`, `Spec => []ServesInstalled`, both
  assuming `Lone`: there is one installer

The invariant says what the three files hold at each step of the update (`FilesOK`): the
`.new` has passed the question once the label is `backup`, the `.bak` is the binary
in use from `swap` on, and what is gone back to is one that carried the tunnel,
unless `cut` (`WorkOK`). `PkgOK` says what an installation knows of its package, `NewerOK` that it
is newer than what opkg has on record, and that the record is never ahead of the program,
nor behind it without a failure, which only holds with one installer.

`DomainList_proofs` proves, for any domains and relations between them, tabs,
groups and batch sizes: `Types`, `AlwaysReported` (`Spec => []Reported`), `AlwaysFollows`
(`Spec => []ResolverFollows`), `AccountedLosses` (`Spec => LossAccounted`). The invariant has
one part for each request (`Tabwise`: `Shape`, what is left of it; `Progress`, what it has
done as long as it is alone; `Losses`, what the copy it is about to put back may lack), one for
all of them (`Alone`). A second one (`Resolver`) follows the list to the resolver, unless
a generation is owed (a request has it before it, or one was missed): every domain is
in `conf` or in what some generation has yet to write, and nothing else unless they
overlapped (`Generated`); the resolver has read that, or a restart comes (`Taken`); so for the
directive (`Directed`). Most steps leave all that aside (`Aside`), so that only those from
the list to the resolver have a lemma of their own.

`Scheduler_proofs` proves `Types`, `OneADay` (`Spec => Daily`) and `NoMomentPassedOver`
(`Spec => []Prompt`), for any calendar that `ClockAssumption` allows. The invariant adds
`OnRecord`: a check the schedule has
begun is on record or is still running and will be. The days of the calendar come
from the order of the numbers (`DayOfDay`: the last day that begins before a time is its day).
For `Prompt`, `Quietly` and `Looked` say that while the service is left alone every tick is looked at
before the next, and that none of them found a check due. `QuietPrompt` then looks at two
ticks: the last but one looked 24 hours back, and found the latest moment, which is
recorded, or, on a long day, one to come; in that case a tick just after the
moment of the day before found that one (`NextRunFirst`).

`Auth_proofs` proves, for any number of tabs, passwords and bounds: `Types`, `AlwaysOfPassword`
(`Spec => []SessionsOfPassword`), `AlwaysEnded` (`Spec => []EndedStays`), `AlwaysFewTries`
(`Spec => []FewTries`). The invariant says what a request knows at each label (`Knows`: one
that compared found the password of the file, or was crossed since), that numbers
of requests under way name no session (`Fresh`), which ended sessions the file may
still have (`Gone`), of which password the sessions are also while a change is under way
(`OfPassword`), and that wrong tries and those being compared together
stay below the limit (`Bounded`, which counts with cardinalities).

The assumptions are the named ones of the modules: `ServiceAssumption`, `SelfAssumption`,
`XrayAssumption`, `ListAssumption`, `ClockAssumption`, `AuthAssumption`; they only type
the constants, and say that a domain begins and ends with itself, that a day and the time
between two moments of the same time of day are 24 hours give or take `Shift`, and
that `Rest`, two minutes, is a tick of the ticker at least; `RoundsAssumption` bounds the
subscription by 20 servers, all different, and refuses an empty one as `subscription/parse.go:73` does.

*Model-checked only:* what TLAPS cannot do, the
liveness under fairness (`TunnelComesBack`, `CheckEnds`, `Settles`, `Covered`,
`Kept`, `Follows`, `LeftAlone`, `ServiceReturns`, `TunnelReturns`).

## What is left out

Within the modelled components:

- The contents of configurations: a configuration stands for its server.
- `State` keeps the link, the active server, `AutoApply`, `LiveCheck`, the live
  verdict and the results. `LastCheck`, `LastError`, `History` and repair counters
  are left out there: of what reads them only the scheduler matters, and `Scheduler`
  has `LastCheck`.
- A change of the link in the runs of `AutoVpn`, which keep one; `Schedule` changes it.
- `backupConfig` reads and writes as one step; `testConfig` is one of the
  failures of the step it belongs to.
- A limit of time (30 minutes for a check, minutes for the watchdog) is a fault
  at the step where it strikes.
- Data races of the Go runtime inside one step (`History` encoded while another
  goroutine writes it) are below the grain of the models.
- `Results` holds a server once: keys of a subscription are unique after parsing.
- More than 20 servers, where `SliceStable` merges blocks; a change of link
  between checks in `CheckRounds` (it starts over with no results); fractions.
- Jumps of the router's clock, which has no battery, in `Scheduler`.
- Digests of releases (`fetchDigest`): a build that arrives damaged is `Part`, whether a
  digest tells or the question for its version does.
- The generator for AdGuard Home (`main/adguard`), which takes the place of `main/dnsmasq`
  where that is installed; the filling of the ipset table by addresses.
- Adding and deleting a blocked site, which hand one command to kvas; the order and
  repetition of lines in `DomainList`.
- How passwords are hashed and session tokens drawn.
- Reads of local files in `Networks`, `Routes` and `FullTunnel` do not fail; a router
  without ipset or iptables; order and repetition of the lines of a list, which
  `Networks` has as a set; entries of `KVAS_LIST` that Kvas adds for a day.
- `List` and `Status`, which only read, and the fetch of Telegram's networks,
  which ends in an `Add`.
- What `kvas route refresh` makes of the device rules.

Hazards without a property have a note in PROJECT.json: the order of two saves and what
another Apply may do meanwhile (manager.go:224, 434, 440), a permission withdrawn after it
was read (manager.go:264), two tabs on the device rules (routes.go:70), a failed `ipset del`
(networks.go:144), a lost write of the sessions (auth.go:219), and the failover daemon. For
these a property or theorem says at most what holds as long as they do not bite. A crash
in the middle of `Apply` (manager.go:440) leaves any mixture of file and record, which
`ServerSwitch` allows: only that the tunnel comes back afterwards is checked.

Not modelled: the components marked so in PROJECT.json, each with its reason.
The failover daemon is in the plan; the others keep no state of their own.

## Running it

    tlc -workers 2 -config AutoVpnWatchUser.cfg MCAutoVpn.tla
    tlc -workers 2 -config RoundsSafety.cfg MCCheckRounds.tla
    tlc -workers 2 -config Networks.cfg MCNetworks.tla
    tlc -workers 2 -config FullTunnel.cfg MCFullTunnel.tla
    tlc -workers 2 -config Updates.cfg MCUpdates.tla
    tlc -workers 2 -config Domains.cfg MCDomainList.tla
    tlc -workers 2 -config Schedule.cfg MCScheduler.tla
    tlc -workers 2 -config Sessions.cfg MCAuth.tla
    tlapm AutoVpn_proofs.tla

and so on with the other configurations of `MCAutoVpn` and `MCCheckRounds`, and the
other `..._proofs`. The longest runs take about two minutes with two workers; so do
the longest proofs.
