# Formal verification of bypath

bypath turns a Linux box into a network gateway: it runs a tunnel engine
(sing-box or xray), a DNS proxy and a TUN device, and rewrites the routing
rules, `/etc/resolv.conf` and `/etc/hosts` of its host. This directory holds
TLA+ models of its core, TLC configurations that check them on small instances,
and TLAPS proofs of the properties that matter most, for every instance.

What makes the program hard is less its own concurrency than the machine it
rewrites: each step of `Start` and `Stop` changes state that outlives the
process, and the process may be killed after any of them, by a crash, by
`kill -9`, by `bypath stop` or by systemd. The core of the project is therefore
a model of the gateway *and* its host, in which every such step is an action of
its own and a crash may come between any two. Around that core stand the tunnel
manager, the files of links and groups, the generator of the engines'
configuration, and the terminal menu from which most of it is driven.

## 1. Inventory

| Component | Source | State | Operations | Modelled |
|---|---|---|---|---|
| Gateway | `internal/gateway/gateway.go` | the cmd fields, `nativeTUN`, `activeEngine`, the config; through them the host | `Start`, `Stop`, `Reload` | `Gateway`, `ResolvLoan` |
| Run loop | `cmd/bypath/cmd_run.go` | pidfile, signal channels | `cmdRun`: acquire, retry loop, shutdown | `Gateway`, `PidFile` |
| Engine fallback | `internal/engine/fallback.go` | the process being polled | `StartWithFallback`, `tryEngine`, `engineOrder` | `Gateway` |
| Stop command | `cmd/bypath/cmd_system.go` | none of its own | `cmdStop` | `StopCommand` |
| Pidfile | `internal/pidfile/pidfile.go` | one file | `TryAcquire`, `Remove`, `IsRunning`, `StopFromFile` | `PidFile`, `InstanceLock` |
| Service unit | `install.sh` | what systemd is going to restart | `Restart=`, `Conflicts=`, control group | `Gateway` |
| Tunnel manager, chains | `internal/tunnel/tunnel.go`, `chain.go` | maps of tunnels and chains under one lock | `StartChain`, `StartTunnel`, `StopTunnel`, `GetStatus` | `Tunnels` |
| Processes, engines | `internal/engine/process.go`, `manager.go` | a flag and a cancel function per process | `StartProcess`, `Stop`, discovery | `Tunnels`, without the discovery |
| Config generator | `internal/tunnel/configgen.go` | one file per engine | link + settings to an engine's JSON; a chain to one JSON | `EngineConfig`, `ConfigGen` |
| Geo data | `internal/geo/downloader.go` | rule sets on disk | download, validate | `ConfigGen` |
| Profile store | `internal/profile/profile.go`, `subscription.go`, `autoselect.go` | groups in memory and on disk, the active link | add, remove, subscriptions, select, bench | `ProfileStore`, `LinkBook` |
| Commands on links | `cmd_profile.go`, `cmd_sub.go`, `cmd_select.go`, `cmd_bench.go` | none of their own | load, change, write | `ProfileStore` |
| TUI, bench | `internal/tui/tui.go`, `bench.go` | one model; jobs and messages | keys, dialogs, actions, benchmarks | `Tui` |
| API, metrics | `internal/api`, `internal/metrics` | none | reads, `StopTunnel`, `GetStatus`, edits of groups | the first two calls: `Tunnels` |
| DNS proxy | `internal/dns/socksproxy.go` | socket, stop channel | `Start`, `Stop` | no: nothing calls it |
| Updater | `internal/updater`, `cmd_system.go` | the binary | download and swap | no |
| Parser, paths, build | `internal/profile/parser.go`, ... | none | pure, or I/O | no |

Interactions. `cmdRun` takes the pidfile, builds a `Gateway` and calls `Start`
until it succeeds. `Start` calls the cleanup of a previous run, the profile
store for a link, the config generator and the fallback controller for an
engine, then the helpers and the host's tools (`ip`, `iptables`, `chattr`,
`systemctl`, `pkill`). A SIGTERM is a message in a channel that the loop reads
only at two places; SIGHUP runs `Reload` in a goroutine that waits for `gw.mu`.
`bypath stop` is another process: it shares the pidfile and the host with the
gateway and no lock. systemd starts the gateway again when it failed. DHCP
clients, the user's own programs and the kernel's choice of pids are the
environment. The commands on links and the gateway share the group files and
`.active`, each with a copy of the groups of its own. The menu is one process
that runs such commands as children and some work on the files itself; what it
starts comes back as messages to its one loop.

What makes each component correct:

- gateway: a crash in any step is recoverable, and the next `Start` recovers
  it; no child is lost; the rules never outlive what they point at; the mode it
  says it is in is the one it runs in; a `Stop` that gets to its end leaves no
  process, listener, device, rule or resolv.conf of bypath's;
- stop command: whatever step it interrupts, ports, device and routes are free
  afterwards;
- pidfile: one instance (which it does not keep when commands overlap, see
  `one_instance`), which the pidfile names, and no stale file that keeps the
  next one out;
- tunnel manager: no process that nobody accounts for, whichever way a chain
  fails; a process behind every name one may stop; no chain that holds up the
  gateway; traffic that goes through every hop;
- profile store: every edit on the page it is meant for, nothing lost but by a
  death half way; the gateway starts the link that was chosen, and records the
  one it runs;
- config generator: every reference resolves, whatever geo data is missing; the
  proxy server is found without the proxy; what is forced goes through; the
  engines agree, so that a fallback changes nothing; a chain passes every hop;
- menu: the group shown and the link selected are those on the screen, whatever
  arrives late; every wait is for something, and ends.

The list of hazards, each at its line, is `hazards` in `PROJECT.json`.

## 2. Modules

| Module | What it is |
|---|---|
| `HostNet` | the host: processes with owner and status, who holds the SOCKS port, port 53 and tun0, rule groups, pins, resolv.conf with backup and immutable flag, children file; what it does by itself (`HostNext`) |
| `Gateway` | extends `HostNet` with the process: `pc`, the fields of the struct (`gw`), the config, the engine search; one action per step of `Start`, `Stop`, `Reload` and `cmdRun` |
| `ResolvLoan` | what `Start` and `Stop` promise about resolv.conf: it is lent out only while its content is kept, and given back as it was, until a write fails |
| `StopCommand` | composes `Gateway` with a `bypath stop` that runs concurrently with it |
| `PidFile` | the pidfile protocol of any number of processes, one system call a step |
| `InstanceLock` | what the pidfile promises: a lock that its holder may lose, and that nobody takes before |
| `Tunnels` | the tunnel manager, startAutoChains that drives it, the API that uses it afterwards, and the engines as processes of their own |
| `Tui` | the menu: what a key or a message does to its model, and the jobs behind it |
| `ProfileStore` | the group files and `.active`: commands that load, change and write them, and the gateway that reads them |
| `LinkBook` | what the group files promise: a book with a page per group, one edit at a time |
| `EngineConfig` | the config generator as pure operators, and what the engines make of its result |
| `ConfigGen` | extends `EngineConfig` with the runs of the program around it: downloads, engines in turn, chains |
| `MCGateway`, `MCStopCommand`, `MCPidFile`, `MCTunnels`, `MCTui`, `MCProfileStore`, `MCConfigGen` | the instances TLC checks |
| `GatewayProofs` | type correctness of `Gateway` |
| `GatewayHostProofs` | the safety invariants of `Gateway` about its host, and that it implements `ResolvLoan` |
| `GatewayStopProofs` | those about its children, ports and mode; the safety of `StopCommand` |
| `PidFileProofs` | the safety of `PidFile`, and that it implements `InstanceLock` |
| `TunnelsProofs` | type correctness and the two safety invariants of `Tunnels` |
| `ProfileStoreProofs` | the safety of `ProfileStore`, and that it implements `LinkBook` |
| `TuiProofs` | the safety of `Tui`, for any groups, jobs and keys |
| `ConfigGenProofs` | the safety of `ConfigGen`, for any configuration |

### How the state corresponds to the code

| Variable | Code |
|---|---|
| `proc[p]` | an OS process; `owner` says whose child it is, `zombie` that nobody has waited for it, `native` that its config has a TUN and a DNS inbound |
| `socks`, `dns53` | who listens on `server.socks_port`, on port 53; `Gw` is the gateway process (embedded engine, built-in DNS) |
| `tun0` | no device, the persistent one of `ip tuntap add`, or the one an engine opened |
| `fw` | groups of rules: mangle/PREROUTING, nat/PREROUTING, nat/POSTROUTING, FORWARD, the fwmark rule, table 100 |
| `resolv`, `backup`, `immutable`, `pins`, `children` | `/etc/resolv.conf`, `.bypath-backup`, `chattr +i`, `# bypath-pin`, `/var/run/bypath.children` |
| `gw` | `Gateway`'s fields; `NoProcess` is a cmd whose `Start` failed, with a nil `Process` |
| `search` | where `startEngineWithFallback` and the loops below it are: stage, links left, engines left, process polled |
| `restart`, `supervised` | systemd has a restart scheduled, and owns the process |
| `orig` | what `setResolvConf` has read and is about to save |
| `etcFailed` | history, read by the properties only: a write of resolv.conf, of its backup or of `/etc/hosts` has failed, and no cleanup has brought resolv.conf in order since |

In `PidFile`, `file` holds the pid in the file and, as the inode would, who
created it; `robbed` (the processes whose file somebody else has removed) and
`overlapped` (a command was started while another one was in `TryAcquire` or
`StopFromFile`, and what came of it is not over yet) are history, read by the
properties only.

In `Tunnels`:

| Variable | Code |
|---|---|
| `proc[p]` | an engine process with its `Process` and its `Tunnel`, which are made together and never parted; `status` is the `Tunnel`'s, `told` that its context is cancelled, `ours` that the gateway that started it still runs |
| `tunnels`, `chains` | the maps of the `Manager`; a `Tunnel` is the index of its process |
| `link[l]` | `ListenPort` and `ChainProxy` of a link in memory, to which `StartChain` writes |
| `files[e]` | the config file all links of engine `e` are written to |
| `pc`, `at`, `hops`, `awaited` | where `startAutoChains` is: the chain and hop, `chain.Hops` so far, the ssh whose port is awaited |

In `Tui`, the variables have the names of the fields of `model` where there is
one. `confirm` and `input` are the open dialog and line editor with the action
they are for, `jobs` the `tea.Cmd`s under way and their messages, `disk` the
files of the groups, `over` whether the menu was left or panicked. A job has
two steps, its effect on the files and its message, so that other jobs and keys
come in between.

In `ProfileStore`:

| Variable | Code |
|---|---|
| `disk[g]` | `<g>.json`; `Torn` between the two halves of an `os.WriteFile` and after a death in between; `tag` is the group its links name |
| `active` | `.active` |
| `cmd` | the command: `mem` is its `Manager`, `todo` what it has still to write |
| `gw` | the gateway's `Manager`: `mem` its groups, `cur` its `activeLink`, `link` the one being started |

In `ConfigGen`, `conf` is `config.yaml`, `srs` and `dat` are the geo data in
the two formats, `geosite` is the list that `cmdRun` has validated, `written[e]`
the JSON of engine `e`: its outbounds, route and DNS section, each rule a set of
matchers and a tag.

Steps are cut where a crash or another process in between makes a difference:
`setResolvConf`, for one, is save (truncate), save (fill), write, lock. A step
that only computes is part of the next. Comments above the actions name the
function they stand for; `map` in `PROJECT.json` gives the lines.

### What the models abstract

- The SOCKS requests of `verifyConnection` are one verdict, of either kind.
- A link is a count: the number of other testable links in the group.
- A rule group is there or not; `iptables` is assumed not to fail. A failing
  `ip` or `chattr`, a helper that cannot be started, an engine that is not
  installed or does not come up are all outcomes of the model.
- A write of `/etc/resolv.conf` is one step, that of its backup is two, because
  the restore distinguishes an empty backup. Each write may fail
  (`WritesFail`): the file stays as it was or is empty. It is never cut in the
  middle, as these files are a few lines. `os.Remove`, `chattr -i` and the writes
  under `/var/run` are assumed to work; a `chattr +i` may fail.
- Of `/etc/hosts` there is only whether it has a pin.
- The rules and routes that sing-box makes for its own TUN (prio 9000 to 9010,
  table 2022) are in no variable, and so is their removal by the cleanup
  (`gateway.go:1498-1502`).
- systemd-resolved, once disabled, stays so: no step of the code enables it.
- A user's sing-box does not listen on bypath's ports.
- `StopCommand` takes the pidfile to name the gateway that runs; `PidFile` has
  the runs in which it does not. `RulesHaveTun` is not claimed under
  `bypath stop`, which deletes tun0 before the rule.
- `startAutoChains` is not in `Gateway` but in `Tunnels`, which in turn knows
  of the rest of `Start` only that it comes before.
- `Tunnels` is the tunnel manager as the program uses it: `StartChain` is called
  by `startAutoChains` only, at the end of `Start`, one chain after the other,
  and the API is served when `Start` has returned. `StopChain` has no caller,
  and `/tunnels/start` starts none. A caller that starts chains concurrently
  would need `StartChain` and `startSSHTunnel`, which drop the lock, to be
  looked at again.
- The exit of a process and `running = false` are one step. Firejail and log
  files are left out; every reason for which a hop cannot be started is one
  outcome (`HopFails`), always possible.
- Port 10800 + i is taken by hops only. `wireguard-go` and `openvpn` have none.
- Chains of one name have one strategy (`ChainsAssumption`). `bypath chain add`
  refuses a second chain of a name (`cmd_chain.go:76`).
- `Tui`: items of the Home tab with the same handling are one (`task`, `edit`);
  a job that changes no group file has only its message; the look at the
  gateway's status is part of the message it follows; a latency is one number,
  where the menu has a ping and a relay; a link at `0.0.0.0` is listed or not
  in both tables alike; after the self-update the menu ends.
- `ProfileStore`: a link is its remark; commands run one at a time, beside the
  gateway; the HTTP handlers that write groups from the gateway's memory are
  left out (see "Not modelled"). A write that fails while the process lives on,
  whose error `SetActiveLink` ignores (`profile.go:222`), is left out too; one
  that a death cuts short is not.
- `LinkBook` lets a page be dropped or lost at any time (the removal of a group,
  a death half way): it promises that nothing else happens to a page.
- `EngineConfig`: a list of domains is a set; the local rules of several
  servers are one rule and one server; the URL of an external outbound is its
  scheme; a bare string in an xray rule is a matcher of its own that is looser
  than a suffix; inbounds, TLS, transports, ports, pinned addresses and SNI
  spoofing are left out. `ConfigGen`: the age of a file is left out, so that
  some of the wanted files arrive and the others stay as they were.
- What engines do with a config (`Holds` to `DnsDefined`) is modelled from the
  comments of the generator and the documented behaviour it relies on: the
  first rule that matches decides; sing-box sniffs and resolves first; xray has
  the address as well as the sniffed name when a client gives an address
  (`routeOnly`, `configgen.go:1186-1190`), and otherwise tries the name and then
  its addresses (`IPIfNonMatch`). A destination has one address.
  `Private` (sing-box's `ip_is_private`) and `Ranges` (the list written for
  xray) are different matchers, and the instance has a link-local address that
  only the first one matches.
- A query for a name is decided by `dns.rules` when it names no server
  (`QueryServer`); the `resolve` action of the route names its own (`resolver`
  of `SingboxRoute`), and the dial of an outbound has `default_domain_resolver`
  (`DialServer`). The generator writes no DNS-hijack rule, so that what a client
  asks reaches `dns.rules` only through the DNS inbound.

A definition named `Slip...` is a plausible mistake in the definition after it.
No specification uses it: it is there to see that a property notices it.

## 3. What TLC checks

| Run | Instance | Shows |
|---|---|---|
| `gateway` | full build; native TUN with engine fallback, plain proxy, and the legacy mode; 2 pids, 1 other link | `FailedStartLeavesNoEngine`, `NativeIsSingBox`, `StopUndoesStart` over all three stages of the engine search, and `RulesHaveTun` |
| `gateway_live` | native TUN, lite build, 2 pids, 1 sing-box of the user's, fairness | `SignalEnds`, `CrashHeals` |
| `stop_command` | legacy mode on xray, 2 pids, writes that fail, a `bypath stop` at any time | `StopReleases`; `ChildrenKnown`; `ResolvRecoverable`, `SelfHealed` and `ImplementsLoan` also with a killer that is not the gateway |
| `tunnels` | 3 processes; an ssh chain, its name again with a hop whose profile is gone, a single-process chain | `Accounted`, `Stoppable`, `ChainsTried` |
| `pidfile` | 3 processes, commands overlap, disk full at times | `RobbedInOverlap`, `FileNamesInstance`, `OneRetryIsEnough`, and `ImplementsLock`: what the protocol gives in spite of the overlap |
| `tui` | 3 groups, 2 jobs, 8 keys; fairness | the menu shows and selects what the user sees, and waits for what comes (`GroupIndexValid`, `WaitsForAJob`, `ShownGroupKept`, `EnterNamesHighlighted`, `WorkEnds`) |
| `profile_store` | 2 commands, groups of up to 3 links, a gateway that restarts at will | `StartsWhatWasChosen`, `ActiveIsRunning`, and `ImplementsBook`: the files implement `LinkBook` |
| `config_gen` | 2 runs of the program; modern and legacy settings, with every subset of the geo data | the references of a config (`RouteIsDefined`), who resolves what (`ServerFoundWithoutTunnel`, `DnsRulesFollowRoute`), where traffic goes (`ForcedIsTunnelled`, `EnginesAgree`, `ChainPassesEveryHop`), and `RulesStay` |

Four more runs show where a document or comment promises what the code does not do:

| Run | Counterexample |
|---|---|
| `one_instance` | two overlapping `bypath run`: the second reads the pidfile of the first before its pid is written, and removes it when the first has gone on; both run (`pidfile.go:113`, against `pidfile.go:87`) |
| `traffic_flows` | two ssh hops: `ChainProxy` means nothing to ssh, so that the second dials its server directly (`chain.go:21`, `chain.go:32`) |
| `proxy_is_a_tunnel` | sing-box fails for a trojan link, xray takes over: its outbound `proxy` is a direct connection, and its port opens (`configgen.go:1572`; README, "Multi-protocol", "automatic fallback") |
| `dns_is_defined` | a local name: the DNS rule names `dns-local-0`, which was appended to a slice after that had been stored (`configgen.go:562`; CHANGELOG, v2.6.4). With `MCConfs` the same property is broken by a direct `geoip` rule whose file is missing (`configgen.go:513`) |

### Other divergences met while modelling

The models contain these behaviours; no run is spent on them.

- `tryEngine` takes whoever listens on the SOCKS port for the engine it has
  started, such as an orphan of a crash (`fallback.go:134` says the port would
  stay closed).
- `Stop` starts dnsmasq while the DNS proxy still holds port 53
  (`gateway.go:1469`; `gateway.go:831` says it must come back).
- A native or proxy-only run has no backup of resolv.conf, as only the legacy
  mode changes the file (`gateway.go:1251`). `Stop` restores it all the same
  (`gateway.go:1464` says both modes may have modified it), and without a backup
  replaces the host's own content by a fallback (`gateway.go:1424`). This is
  `Replace` in `ResolvLoan`.
- `bypath stop` sends SIGKILL: resolv.conf keeps naming 127.0.0.1
  (`cmd_system.go:28`; CHANGELOG.md:97 says it is restored on `bypath stop`),
  and systemd, whose `Restart=on-failure` sees a failure, starts the gateway
  again (`install.sh:477`).
- `setResolvConf` ignores the errors of reading resolv.conf and of writing the
  backup, and overwrites the file all the same (`gateway.go:1391-1398`, against
  "saves the current resolv.conf ... as a backup, then overwrites it",
  `gateway.go:1387`); `cleanupPreviousRun` ignores that of the restore and
  removes the backup (`gateway.go:1508-1509`). With a full disk the host's own
  content is then lost, or resolv.conf names a bypath that is gone. `Stop` does
  better: a backup that it cannot restore stays (`gateway.go:1416`), and the
  next `Start` takes it up. The models have all of it; `etcFailed` marks it, and
  `ResolvRecoverable`, `SelfHealed`, `ImplementsLoan` and `StopUndoesStart` say
  what is true until then.
- `Stop` panics when tun2socks, dns2socks or dnsmasq could not be started,
  because the field is set before its `Start` fails (`gateway.go:228`, `235`,
  `891`; `StopPanics`). The rest of its work is left to the next cleanup.
- With `routing.rules`, the `resolve` action asks dns-tunnel for every name a
  client connects to, also one that a rule then sends direct
  (`configgen.go:633-636`; the reason is given at 629-632). The comment at
  437-440, "dns-tunnel is never needed when setting up a direct connection", is
  true of the DNS rules (`DnsRulesFollowRoute`) and not of this action.
- A forced name at a private address goes direct under xray when the client
  gives the address (`configgen.go:1210` comes before 1219, and sniffing is
  `routeOnly`), and through the tunnel under sing-box: the comment at 1216,
  "These domains always go through the tunnel", has this exception, which
  `ForcedIsTunnelled` states.
- sing-box takes more addresses for private (`ip_is_private`,
  `configgen.go:638`, `868`) than the list written for xray (1212, 1321):
  link-local, multicast and unspecified ones go direct under the one and through
  the proxy under the other. `EnginesAgree` excludes them.
- In portable mode the cleanup does not match the engines of earlier runs
  (`gateway.go:1480`): a native sing-box that a crash has left can open the TUN
  device late, while this run is on its way to xray, which then runs with
  `nativeTUN` set. TLC finds it with `Installed = FALSE`.
- The menu panics on enter when the Home tab has shrunk under the cursor
  (`tui.go:353`), or when late results are shown for a list of groups that is
  empty.
- `t` and `d` act on the row of the file under the cursor, while the table that
  is shown is sorted (`tui.go:573`, `606`: "Delete selected server"); enter acts
  on the sorted one (`EnterNamesHighlighted`).
- The removal of a group keeps the results of its benchmark, which enter then
  uses on the next group (`tui.go:795`), and so do results that come under
  another group or before a change of the file. `EnterNamesHighlighted` excludes
  these stale rows.
- Without `routing.rules`, the geoip files of whitelisted countries are neither
  downloaded by `bypath run` nor looked for (`configgen.go:895`, `914`), and
  bypassed domains have no DNS rule in sing-box. Hence `EnginesAgree` and
  `DnsRulesFollowRoute` are about what they say they are about.
- xray's list of rules ends with one for everything, so that `IPIfNonMatch`
  never gets to addresses, and a geoip rule never holds for a named destination
  (`configgen.go:1355`).
- Whitelisted countries stand in for a list of geosites of which every download
  failed (`gateway.go:718`).
- The doc comment of `GenerateChainConfig` (`configgen.go:101`) has the detours
  the wrong way round; that of `buildChainOutbounds` has them right
  (`ChainPassesEveryHop`).

Bounds. Two pids are an engine and one helper, or one of them and an orphan, or
a program of the user's under a reused pid (in `gateway_live`). A gateway has at most one engine,
and engines of earlier runs die of the taken port. All three helpers at once are
met in `gateway`, whose full build has the engine in the gateway process; in
`stop_command` any two of engine, DNS proxy and tun2socks are, the built-in DNS
or a failed start standing for the third. The theorems are for any number.
Writes fail in `stop_command`, whose properties are the ones about
resolv.conf; the other gateway runs are about engines, ports and rules, which no
write touches, and about pins and resolv.conf only as far as no write fails (the
theorems have both). In `pidfile` three processes are an
owner, one that removes its file and one that takes its place. One other link makes
the link fallback take, repeat and exhaust its loop in each of its three
stages. In `tunnels` three processes are the two hops of a chain and one left
over from before a restart; the chains have an ssh hop (which waits), one with
a config file, a failure after a started hop, a name used twice and a hop
shared with a later chain. In `tui`, three names are the default group, another
one and a third to rename to or create; two jobs are what it takes for one to
come back after the other was abandoned; eight keys open a dialog, answer it,
dismiss what it shows and act on another tab. In `profile_store` two commands
are a rename or a death and what comes after it. In `config_gen` the second run
begins with the files of the first, one of them outdated. The settings have,
each at least once, every kind of matcher, a rule that shadows another, a
missing and a present file, a bypassed name that is forced as well, a link that
both engines know and one that xray does not, and chains of one and of three
hops. `MaxUser` bounds the user's programs and nothing of bypath's. No run
bounds the number of crashes, restarts or signals. Pids are symmetric in the
safety runs (no definition orders them); the liveness run has no symmetry.

Deadlock is checked in every run but `tui` and `config_gen`, whose programs
may end for good: in the others the host, a launch or a gateway can always move.

Fairness. `FairSpec` assumes weak fairness of `RunStep`, the process's own
steps: the scheduler runs it, and every wait in them has a timeout
(`waitForPort`, `waitForTUNDevice`, `tryEngine`, the 30 s timer), so that one
of the two outcomes is always enabled. Nothing is assumed of the host, of
engines, of signals. Weak fairness of `SystemdRestarts` is `Restart=on-failure`
with `StartLimitIntervalSec=0`. `CrashHeals` supposes that crashes cease: a
process that is killed again and again heals nothing. `FairSpec` of `Tunnels`
assumes weak fairness of `StartStep`: each step of `startAutoChains` is a call
that returns, and its one wait, for the port of an ssh, has a deadline of 10 s.
Nothing is assumed of the engines, which may hang, exit or never listen.
`FairSpec` of `Tui` assumes weak fairness of each job: every network call and
wait of a job has a timeout, and bubbletea hands every message over. Nothing is
assumed of the user.

## 4. What is proved

Every invariant and every action property of the passing runs, and all three
refinements, are theorems for every value of the constants that the assumptions
and the hypotheses named below allow. The argument of
each is an inductive invariant; where the property is not inductive itself, what
has to be added says why the code is right.

**Gateway and its host** (`GatewayProofs`, `GatewayHostProofs`), for all sets of
pids, all configurations, any number of links, crashes and restarts
(`HostAssumption`, `GatewayAssumption`):

- `TypeCorrect`: `Spec => []TypeOK`. The type is not inductive: `PollReady`
  puts `search.pid` into `gw.engineProc`, `DNSReady` puts `gw.dnsProc` into the
  children file, `FillBackup` writes `orig`. `TypeInv` adds what these steps
  rely on: there is a process while it is polled, the DNS process is set while
  its port is awaited, what is saved is a content.
- `Heals` (`SelfHealed`) and `RulesFollowDevice` (`RulesHaveTun`) from
  `HostInv`, which is `TypeInv`, `BackupIsForeign`, `Healing` and
  `DeviceFirst`.
  `BackupIsForeign` is the heart: the backup never holds bypath's own
  resolv.conf, because a content that names 127.0.0.1 is not saved: without it a
  crash, a restore and a second crash could restore 127.0.0.1. It also says what
  the ghost `etcFailed` allows: until a write fails the file is readable, and
  after the cleanup not bypath's. `Healing` says what the cleanup has done by each of its
  steps, `DeviceFirst` that the device is there from before the rule until
  after it.
- `ResolvSafe` (`ResolvRecoverable`), from `HostInv` and `SavedFirst`, as long as
  no write of these files has failed, for hosts whose own resolv.conf does not name 127.0.0.1 (`Loopy = {}`): such a content
  is not saved, on purpose (`gateway.go:1392`).
- `LoanOfResolv` (`ImplementsLoan`), for the same hosts: `Gateway` implements
  `ResolvLoan`. `ResolvRecoverable` says that there is a backup; the refinement
  says that it is the right one. What is kept (`Saved`) is the backup, or what
  `setResolvConf` has read while the backup is truncated. Each step is then one
  of the loan: the save keeps, the write lends, both restores give back, the
  removal of the backup forgets, a write that fails breaks it, and a crash is
  none of them but in the middle of the save, where it forgets what is still in
  its place. A cleanup or a Stop that leaves the file readable makes a broken
  loan sound again (`Mended`). That `Keep` finds
  nothing kept is `Healing`; that `Lend` finds something is `SavedFirst`; that
  `Forget` comes when the file is not lent is `BackupIsForeign`.

**Children, ports and mode** (`GatewayStopProofs`):

- `ChildrenAreKnown`, `FailedStartIsClean` and `StopIsComplete`, from `SlotInv`:
  what the gateway itself listens on matches its fields (`OwnPorts`), each child
  is in the field that this step of `Start` or `Stop` looks at
  (`InTheirFields`), the native mode is set only in the stages that native mode
  has (`NativeStages`); from `Undone`, what `Stop` has undone so far, and from
  `DeviceGone`, which says where there is no device of `ip tuntap` any more. The
  lemma that all of them use is `Fate`: what becomes of a process when others
  end.
- `NativeRunsSingBox` (`NativeIsSingBox`), from `NativeInv`, for an installed
  gateway. It has to follow the TUN device back to the process that opened it,
  over crashes: `OrphansEnd` says that after the cleanup no engine of an earlier
  run goes on for good, `DeviceHolder` that only this run's can have opened the
  device since. In
  portable mode the cleanup does not end them, and the property is false there
  (see the divergences above).
- `StopCommandReleases` (`StopReleases`) of `StopSpec`, for an installed
  gateway too: `pkill` does not match a portable xray. `HolderInv` says who can
  hold a port, `ReleasedSoFar` what each step of `bypath stop` has released,
  whatever the gateway still did when the signal came. `StopHeals` is
  `SelfHealed` under `StopSpec`, and `StopKeepsTheLoan` is `ImplementsLoan`:
  `bypath stop` restores nothing, but it loses nothing either.

**Pidfile** (`PidFileProofs`), for any number of processes and any overlap of
the commands. `ProtocolIsTyped` is `TypeOK`. `NamesInstance`
(`FileNamesInstance`) and `Refinement` (`ImplementsLock`) rest on `FileOwned`:
with or without overlap, the file belongs to who has created it until somebody
removes it. `OnlyOverlapRobs` (`RobbedInOverlap`), `OneRetry` and
`TwoOnlyInOverlap` say that only commands that overlap go wrong: `IInv` adds
`Orderly`, which holds until they do: what was read is still right when it is
used (`ReadIsRight`, `StopIsRight`), and the second attempt finds no file
(`SecondTry`). `TwoOnlyInOverlap` thereby tells what the counterexamples to
`OneInstance` are.

**Tunnels** (`TunnelsProofs`): `NoHopLeftBehind` (`Accounted`),
`EveryHopStoppable` (`Stoppable`) and `TypeCorrect`, for any links, protocols,
chains and number of processes (`TunnelsAssumption`). Two facts make `IInv`
inductive that neither property says. `WantedIsRunning`: a process that nobody
has told to stop is never marked as stopped; `StartTunnel` looks at the mark
before it overwrites an entry. `FirstHopInv`: until the API is served, the first
hop of a chain that is up is marked as running, so that a second chain of its
name fails at its first hop, before it has stopped anything or taken its entry.

**Profile store** (`ProfileStoreProofs`), for any groups, links, subscriptions,
files to begin with and commands: `StoreIsWellTyped`, `ActiveNamesTheLink`,
`StartsWithTheChoice` and `BookIsKept`, from
`Inv == TypeOK /\ Plans /\ Holds /\ Agrees`. `Plans`: a command works on what
the files still say, and what it has left to write is good. `Holds`: the
gateway's copy has the group of its link. `Agrees`: `.active` is the choice that
was made last, or that has been lost; until a command touches it, it names the
gateway's link. `BookIsKept` is
the refinement of `LinkBook`, step by step: the book shows the page that is
being written as it was (`cmd.old`), and as lost when the writer dies in it
(`Torn`); each step is then one edit, one loss or a stutter.

**Config generator** (`ConfigGenProofs`), for any configuration, link, geo data
and number of runs (`CoversAssumption`, `ChainsAssumption`, `ConfsAssumption`,
`NoneAssumption`). `IInv` says that the config of the engine that runs is the
one made from the settings, the link and the geo data of this moment; `WInv`
that the sing-box file on disk was made for this link from rule sets that are
still on disk. The rest is about lists of rules.

- `ForcedGoThrough`, `ServerFound`, `DnsRulesFollow` (`DnsRulesFollowRoute`) and
  `ChainsPass` are about which rule is the first to match (lemmas `Least`, `Greatest`,
  `PickIs`), in generated lists whose every part is any the settings can ask for.
- `RouteIsWhole` (`RouteIsDefined`): every outbound, server and rule set that is
  named is defined, whatever was not downloaded, if the user's rules name
  outbounds that there are (`OutboundsExist`): the generator does not check it.
- `RulesAreKept` (`RulesStay`) and `RunIsWellTyped`.
- `FallbackRoutesAlike` (`EnginesAgree`), but for an address that only sing-box
  takes for private: where the geo data that the rules ask
  for are there, the first rule of the one list and of the other that match a
  destination say the same (`ModernAgree`, `LegacyAgree`).
- `DnsBreaksOnlyThere` and `DirectOnlyIfUnknown` are about the properties that
  `dns_is_defined` and `proxy_is_a_tunnel` find broken, and say exactly when they
  are: a DNS section names what is not there if and only if there are local
  names, or a `geoip` that the user sends direct has no file on disk; the
  outbound `proxy` is a direct connection if and only if the engine that runs
  does not know the protocol of the link. No other settings, links or missing
  downloads do it.

**Menu** (`TuiProofs`), for any files, names, groups, jobs and keys
(`TuiAssumption`). `TuiWaits` (`WaitsForAJob`) needs nothing else.
`MenuIsTyped`, `ShownGroupExists`, `GroupStaysShown` and `EnterTakesTheRow` rest
on `TInv`, whose parts say what each screen may rely on: the dialog that deletes
a server still names a link and the rename editor a group when they are
answered (`DialogsOK`), and so do the jobs that remove and rename, however late
they come back (`JobsOK`). The table is written by rank (`InOrder`, `Only`) rather
than by recursion, so that it can be reasoned about: `InOrderIs` (a pigeonhole
argument: the members by rank), `OnlyIs` (a filter keeps what it should and
loses nothing), `SortedIs` (sorting loses no row) and `EntriesAre` are what
`EnterTakesTheRow` needs to find the link under the cursor.

**Only model-checked**: the liveness properties `SignalEnds`, `CrashHeals`,
`ChainsTried` and `WorkEnds`. Liveness under fairness, `ENABLED`, and induction
over what a recursive definition computes are beyond the prover. So the
theorems about the profile store say of a list put together by `FlattenSeq` that
it is one of the lists that a page may hold, and not which.

Run the proofs with `tlapm <module>.tla`, a check with
`tlc -config <cfg> <module>`.

## 5. Not modelled

- The DNS over SOCKS proxy: nothing calls it.
- The self-update: a download, two renames and a restart; what a crash between
  the renames leaves is told in `hazards`.
- The HTTP handlers that edit groups and links: they write whole files from the
  memory of the gateway and lose what commands have written meanwhile. A model
  of them would have to give up `ImplementsBook`; it holds for commands that run
  one at a time, and says what is lost when they do not.
- Parsing of links and of the configuration, discovery and download of engines,
  paths, metrics: data conversion and I/O, without steps that interleave.
- How a test of a link measures (ports, engines of its own), beyond its result.

What could come next: the writers in the gateway as a third actor of
`ProfileStore`, with what their overwriting loses; the rules and the device as
a second loan of the host.
