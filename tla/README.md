# Virtual Chime: TLA+ models, checks and proofs

Virtual Chime is a Wi-Fi doorbell chime: a Raspberry Pi Zero W that subscribes
to MQTT topics, plays a sound when a ring message arrives, is configured over an
HTTPS page, and is updated over ssh with two root file systems (A/B).

## Inventory

| Component | Source | State it keeps | Operations | What makes it correct |
|---|---|---|---|---|
| A/B firmware update | `buildroot/.../usr/local/sbin/ota-*`, `etc/init.d/S42otaguard`, `S99otaconfirm`, `scripts/deploy.sh firmware*` | two root partitions, `/boot/cmdline.txt`, `/data/ota/pending.env` | install, confirm, rollback, the guard at each boot | no boot into a half-written slot; an unconfirmed firmware boots only while counted and falls back to a confirmed one, as far as the card keeps up; every trial ends |
| Audio player | `chime/src/audio/aplay_audio_player.cpp` | `playing_`, the playback thread, a temporary scaled wav | `Play`, the thread body, destructor, scaling | one sound at a time; the flag never sticks; `Play` never waits for a sound; no file or thread left behind; the scaler stays in its buffer |
| Chime service | `chime/src/service/chime_service.cpp`, `chime/src/main.cpp`, `common/src/mqtt/client.cpp`, `common/src/runtime/signal_handler.cpp` | MQTT session and `mqtt_connected_`, startup notification, timers | main loop, MQTT callbacks, reconnect, shutdown, topic matching | every session subscribes again; exactly one startup notification; reconnects; stops on a signal; rings for what the filter covers |
| Observed topics | `chime_service.cpp` 349-438, read by `web_server.cpp` 241-265 | list and set in memory, `observed_topics.txt` | record, load, evict, persist | list and set agree; a topic is lost only by eviction, a cut or a file that could not be read |
| Configuration store | `chime/src/webd/config_store.cpp`, `common/.../kv_config.h` | `chime.conf`, `wpa_supplicant.conf` | load, validate, save | a save is atomic per file; what is saved is what both daemons read, but for outer white space; a secret stays with its user |
| Apply manager | `chime/src/webd/apply_manager.cpp`, `main.cpp` | current job | `StartApply`, `CurrentStatus`, the detached job | one job at a time; what is reported applied was applied |
| Ring sounds | `web_server.cpp` 71-177, 1286-1527 | sound directory, `ring.wav`, `selected.txt` | seed, upload, select, list | the selection names what is played; no half sound |
| HTTPS server | `web_server.cpp` (rest), `json.cpp` | accept thread, TLS context, key and certificate, stop flag | start, stop, serve one connection at a time, read a request | stops when asked; answers every client not behind a stalled one; judges a request by what it is |
| mDNS responder | `mdns.cpp` | a socket, a thread, a stop flag | start, stop, announce, answer | stops when asked; reads inside a packet and comes to its end |
| Wi-Fi scan | `wifi_scan.cpp`, `linux_wifi_monitor.cpp` | a child process and its pipe | run a command with a timeout, parse, deduplicate | the child is reaped and its output whole; one entry per network, the strongest |
| Supervisors | `etc/init.d/S99chime`, `S45webd` | pid file, supervisor shell, daemon | start, stop, restart, respawn, log rotation | until two runs overlap, the live supervisor is the one `stop` ends; a crashed daemon comes back |
| Boot scripts | `S30modules`, `S31persistent`, `S40network`, `S41timesync` | bind mounts, network daemons, clock | start, stop | persisted state is mounted before it is used |
| Web UI | `webui/src/App.svelte` | form, apply status | load, save, poll | "applied" is shown only for what was applied |
| Deploy scripts, build, OpenSCAD/step parts | `scripts/`, `buildroot/` build files | - | build, copy | - |

How they interact: `S99chime` and `S45webd` keep the two daemons alive. The web UI
posts a configuration to `chime-webd`, whose configuration store replaces two files
and whose apply manager restarts the network and, through `S99chime`, the chime
daemon, which reads the file at its start. The chime daemon writes the topics it
observes to a file webd serves; webd writes the ring sound the daemon plays.
`S42otaguard` runs before everything that could confirm an update; `S99otaconfirm`
asks the two supervisors whether they run.

What is hard here: power cuts between durable writes and a kernel that writes back
late (updates, stored files); callbacks, a playback thread and signals around one main
loop (chime); several shells that check and then act on one pid file, processes that
inherit descriptors, a detached job that later requests are folded into
(configuration); a stop that closes sockets other threads use, blocking reads from
clients that stall, a child process that ends between poll, read and waitpid (webd);
sizes, pointers and pieces that somebody else chose (formats).
PROJECT.json lists each hazard with its line.

## Modules

| Module | Models | Uses |
|---|---|---|
| `AbUpdate` | what an A/B update promises: one committed slot, a candidate, its tries | - |
| `OtaUpdate` | the update scripts, the boot scripts and the operator's session | - |
| `OtaProperties`, `OtaProofs` | their properties, the refinement mapping to `AbUpdate`, proofs | EXTENDS `OtaUpdate`, INSTANCE `AbUpdate` |
| `AplayAudioPlayer` | `Play`, the playback thread, the destructor, and the player's promises | - |
| `ChimeService` | the daemon: main loop, MQTT callbacks, signals, composed with the player | EXTENDS `AplayAudioPlayer` |
| `ChimeProperties`, `ChimeProofs` | properties and proofs of both | EXTENDS |
| `Supervisor` | `S99chime`: any number of callers, supervisors and chime processes | - |
| `ConfigApply` | save and apply: the POST handler, the two files, the job's thread, the UI's polling, webd's end and start, composed with `Supervisor` | EXTENDS `Supervisor` |
| `ConfigProperties`, `ConfigProofs` | properties and proofs of both | EXTENDS |
| `ObservedTopics` | the daemon's list, set and file of topics | - |
| `RingSounds` | sounds, `ring.wav` and `selected.txt` | - |
| `TlsMaterial` | the making and loading of key and certificate | - |
| `ConfigStore` | the two configurations line by line, and what is read from them | - |
| `MCConfigStore` | `ConfigStore` with the bounds of its runs | EXTENDS `ConfigStore` |
| `ConfigStoreProofs` | proofs that a saved configuration is read as saved and a password stays with its user | EXTENDS `ConfigStore` |
| `Storage`, `StorageProofs` | topics, sounds and TLS files as one specification; proofs | EXTENDS the three |
| `WebServer` | `Start`, `Stop`, the accept thread and its clients | - |
| `MdnsResponder` | `Start`, `Stop` and the responder's thread | - |
| `WifiScan` | `Scan`, `RunCommand` and its child | - |
| `Webd`, `WebdProofs` | the process: main thread and the three above; proofs | EXTENDS the three |
| `WavScaler`, `HttpRequest`, `DnsName`, `WifiNetworks`, `JsonParser`, `TopicFilter` | readers of data from outside, a step at a time | - |
| `Formats`, `FormatsProofs` | the six as one specification; proofs | EXTENDS the six |
| `JsonProofs` | proof that the parser accepts the grammar | EXTENDS `JsonParser` |

A definition whose comment says "mutant" is a plausible bug in the definition that
follows it; it is used by no specification, only to test that a property can fail.

### Firmware update (`OtaUpdate`)

`file` is what the running system reads from `/data/ota/pending.env` and
`/boot/cmdline.txt`, `disk` what the card holds; the second lags until a script calls
`sync` or the kernel writes one of the two files back, and nothing orders the two.
`pc` says where the boot sequence ("init") and the ssh session are; both may
be inside `ota-confirm` or `ota-rollback` at once. One action is one durable step:
`InstallWrite` (dd, which first makes the slot `Torn`), `InstallPending`,
`InstallRoot`, `InstallSync`, and so on. `PowerLoss` takes everything but the card;
`SshAbort` stops a script anywhere. `passes`, `trusted` and `split` are history
variables; `split` says that a power cut has undone more than a count of boots, that
is, took one of the two files back and not the other. The code does nothing to
prevent that: the only sync of an installation comes after both files. So
`TrialIsGuarded`, `FallbackTrusted` and the refinement of `AbUpdate` are claimed until
such a cut, and `NextBootIntact`, `ConfirmedIsSupervised` and `TrialEnds` whatever
the card does. What the documentation claims beyond that is false of the code: the run
`ota_count`, and `EveryTrialGuarded` under Findings.
`Careful` names the commands the operator gives only where the README's workflow
gives them: install from a confirmed slot with nothing staged, roll back to a
confirmed slot, confirm a firmware whose supervisors run.
Only the result report `status.env`, which no script reads back, is left out.

### Chime daemon (`AplayAudioPlayer`, `ChimeService`)

`playing` is `playing_`, `thread` the state of the playback thread with its clean-up
split as in the code (remove the file, clear the flag, end), `call` where the main
thread is inside `Play` or the destructor. In `ChimeService`, `pc` is the place in
`Run`; `Loop` calls at most one callback before it returns; `link`, `subs` and
`broker` are the client's socket, the clean session's subscriptions and the outside.
The three clocks count seconds and stop at their limits. SIGINT is lost while
`std::system` runs, as the C library does it.

### Supervisor and configuration (`Supervisor`, `ConfigApply`)

`script[c]` is one shell running `S99chime`: each signal, each look at and each write
of the pid file is a step, so two shells interleave anywhere. `daemon[d]` separates
"forked" (still named S99chime, so `killall chime` misses it) from "running".
`SlowScript` is a timing assumption: a fork has become chime by the time a script,
which is a new shell or has slept a second, reaches its check. Process identities are
not reused while the pid file or a script names them. Nothing keeps runs of the
script apart; the history variable `overlapped` says that two have overlapped, and
`Stoppable` and `FewOrphans` are claimed until then (under Findings: what an overlap
leaves).
In `ConfigApply`, a configuration is the number of the request that saved it. `post`
is the request webd serves (one connection at a time), `runner` the place of the
detached thread, `loaded[d]` what a chime process has read, `heirs` what holds webd's
listening socket because a shell webd started left it running: supervisors, chimes,
and wpa_supplicant and udhcpc as "network". `WebdStops` shuts that socket down for all
of them, `WebdCrashes`, which may come between any two steps of a save, does not.
`BindFails` changes nothing: webd exits and is started again two seconds later. A save
fails at either file or at reading the configuration back (`ReloadFails`). `covers` is
a history variable. Requests that fail validation change nothing and are left out, and
webd ends only while no job runs.

### Stored files (`ObservedTopics`, `RingSounds`, `TlsMaterial`, `ConfigStore`)

As in the update, a variable for what a process reads and one for what the card holds;
a cut leaves of a file that was not written back the old content, the new one or a part
of it, unless the code syncs before its rename (`selected.txt`, the configurations).
`ObservedTopics` goes through load, insertion, eviction and persistence step by step,
and a daemon may end anywhere. A file that cannot be opened, or not be read to its end,
is taken for what was read so far, and the next new topic replaces it; the history
variable `missed` says that this happened to the running daemon. A topic may be padded
with white space, which reading it back removes.
`RingSounds` goes through an upload, a selection and the seeding of the default sound
by the steps of their temporary files (`WriteTemp`, `RenameTemp`), each of which may
fail, and a selection goes on to `selected.txt`; a listing that breaks off finds fewer
sounds and clears a selection it did not find. webd may end between any two steps.
`ring.wav` belongs to the firmware slot, the sounds do not, so `FirmwareBoot` changes
one without the other. `excused` is a history variable.
`TlsMaterial` has the order the code has: both files are opened (and truncated) before
the first is written, and what is written arrives at `fclose`.
`ConfigStore` keeps the lines: keys in any order or missing, with spaces before the
sign, blocks that are not closed, keys without quotes. A text of a request may have
outer white space, which the code writes and both readers cut, and one of them may have
a line break, which `ValidateRequest` lets through: what stands behind it becomes a
line of its own, such as another password or the end of the network block. `owner`
remembers which user an MQTT password was entered for, or that a line break may have
brought it.

### webd (`WebServer`, `MdnsResponder`, `WifiScan`, `Webd`)

`main` is the place of the main thread, `thread` that of the accept thread with the one
connection it serves, `responder` that of the mDNS thread, `at` that of `RunCommand`
within the handler of a scan, `child` the process it forked. A client may stall and
resume at any time; no socket option limits a read. `Fortified` says whether the C
library checks the argument of `FD_SET`: then the mDNS thread that meets the -1 left by
`Stop` aborts the process (`Aborts`), which the model allows at exactly that step.
Time in a scan is counted as the code counts it, 100 ms for each turn of the loop, also
for a turn in which poll returned at once.

### Formats

Each reader is a machine with one step per turn of its loop, over inputs chosen at the
start or while it reads. `WavScaler` computes with words that wrap at `WORD`; `DnsName`
lets a byte be anything each time it is read, which allows more than a packet does;
`JsonParser` sees tokens, named as in RFC 8259; `HttpRequest` sees lengths, whether the
first line is a request line, and a client that closes or only says no more. Three are
compared with reference definitions: the strongest network of each name
(`StrongestReported`), the grammar of JSON (`GrammarAccepted`), and MQTT's wildcards
(`RingsIfCovered`). The exception MQTT makes for topics that begin with "$" is `Hidden`:
the code does not have it, `RingsIfCovered` says nothing of the topics it is about, and
`RingsAsMqttSays`, MQTT's whole rule, is false of the code (see Findings).

## Runs

| Run | Question | Bounds | Result |
|---|---|---|---|
| `ota_update` | a card that lags behind, a careful operator: is the next boot intact and guarded, is what is confirmed healthy, is `AbUpdate` implemented, does every trial end? | 3 images (good; boots but is sick; never reaches the guard), 3 attempts; 89,994 states | holds |
| `chime_service` | the daemon with an unreliable broker, time and signals | a ring topic, another and a refused one; each limit 1 s; 85,928 states | holds |
| `config_apply` | saves, job, crashes, webd restarts and an operator at `S99chime` at any time | 2 saves, 2 supervisors, 3 chime processes, symmetric; after an overlap of runs only until the second save (`OverlapBound`); 1.7 million states | holds |
| `config_live` | does a job end, does chime come back? | the same without the operator; 25,518 states | holds |
| `storage` | do topics, sounds and TLS files stay what they are taken for? | 2 topics and a list of 2, 2 sounds and 2 recordings, 3 key pairs; 497,647 states | holds |
| `config_files` | is what is saved what is read, and a password its user's? | 2 users, 1 password, 2 networks, every order of lines, symmetric; one text of a behaviour's requests has outer white space or a line break (`MaxOdd`); 87,714 states | holds |
| `webd` | is nothing used after it is freed, is a scan whole, does webd stop, is every client answered? | 2 clients, a timeout of 2 turns, a pipe of 1 chunk, up to 2 chunks of output; 97,195 states | holds |
| `formats` | do the readers stay inside, end, and understand what the references say? | words of 54 values, 12 bytes of request, packets of 19 bytes, 5 lines, 8 tokens, 3 levels of which one name begins with "$"; 604,892 states | holds |
| `ota_count` | is a trial rolled back when its boots are used up? | as `ota_update` | `TrialBootsBounded` violated |
| `config_stale` | is what the UI calls applied in use? | as `config_live` | `AppliedMeansApplied` violated |
| `config_bound` | does a save work on the device's bind mounts? | 1 save | `SavesSucceed` violated |
| `webd_port` | does webd come back after a crash? | 1 save | `WebdReturns` violated |

Why the bounds are enough. Updates: three images are the three ways a firmware can
behave towards the scripts, two slots are all there are, and three attempts give the
first, a middle and the last boot of a trial. Chime: the code treats topics alike up
to being a ring topic or being refused; a limit of one second separates "not yet" and
"due", which is all the code asks of a clock. Configuration: two saves are what it
takes for one to fall into the other's job; three chime processes can violate
`FewOrphans`; the job, one more controller and two supervisors are what an overlap
needs. Stored files: three topics (two names and one of white space, each padded or
not) overflow a list of two; two sounds, two recordings and a slot change give every
way in which a name and a content can part; a pair can be the old, the new or a
third; of the two configurations one starts empty, since what becomes of a file
depends on the request and on that file only, so that every first file of each is met;
one such text, before or after plain saves, meets every kind of line the readers tell
apart.
webd: one client served and one waiting are what a stall needs; a pipe that holds one
chunk of two lets the child block, and an output limit of one truncates. Formats: 54
values leave room for the 44 bytes a wav file must have, for two chunks with padding,
and for sizes that wrap; a packet of 19 bytes holds a question with a name and a
pointer; 8 tokens reach three levels of nesting. Where a bound stays arbitrary, the
theorems below cover every value.
`config_apply` checks invariants and `config_files` what no user's or network's name
matters for, so permuting them is sound; the runs that check liveness use no symmetry.
Deadlock is checked everywhere but in `config_stale`, where saves are bounded and webd
never ends, so that a device whose chime could not be started may come to rest, and in
`formats`, whose tasks end.

Fairness. `ota_update`: the boot scripts run on, and somebody restarts an idle device
again and again; `TrialEnds` adds that faults stop. Nothing the operator does is fair.
`chime_service`: the main loop, the playback thread and the clock make progress
(every call in the loop has a timeout; aplay ends with its sound), and `OnConnect` is
strongly fair, because a broker that is reachable again and again answers CONNECT
some day. Neither the broker nor a signal is fair. `config_live`, `webd_port`: every
process, shell and thread is scheduled, and a chime told to stop ends (`Stops` of the
daemon). Posting, polling, crashing and running the script by hand are not fair.
`storage`: webd's start goes on and is repeated (`S45webd`); faults, requests and
write-back are not fair. `webd`: the three threads are scheduled, a child that is
forked gets its group and one that ends does end, and `Accepts` is strongly fair: an
accept that may fail is tried every 50 ms, and one that can succeed again and again
some day does. Clients and signals are not fair, so the two liveness properties except
the moments in which the client being served stalls. `formats`: a reader that can go
on does.

## Findings

1. `ota_count`: the guard counts a boot in `pending.env` without a sync
   (`S42otaguard:42`), so a power cut, or a firmware that resets the board soon after
   the guard, gives the boot back: it may be booted without end, although
   `buildroot/README.md:173` has the attempts tracked.
2. `webd_port`: webd's listening socket leaks into all its apply job leaves running
   (`web_server.cpp:691`, no `SOCK_CLOEXEC`; `apply_manager.cpp:112`): supervisor and
   chime, wpa_supplicant and udhcpc (`S40network:19`, 23). If webd crashes afterwards,
   the port stays taken until the last of them ends.
3. `config_bound`: `S31persistent` bind-mounts single files, and `AtomicWriteFile`
   replaces them by `rename`, which a mount point refuses: saves fail on the device.
4. `config_stale`: a save made during a job is folded into it, and reported as
   applied, although the job may be past the restarts.

What the code does not ensure beyond that is left out by a property's own words or by an
assumption of the run. Each can be seen by changing a cfg as described:

| Case | In the code | To see it |
|---|---|---|
| A cut writes `/boot` back and not `/data`: the new firmware boots unguarded. | the only sync of an installation comes after both files (`ota-install:111-116`, `ota-common.sh:154`) | `EveryTrialGuarded` instead of `TrialIsGuarded` in `OtaUpdate.cfg` |
| A second installation writes the slot `cmdline.txt` names. | `ota-install:72` does not look for it | `Careful` without "install" in `OtaUpdate.cfg`: `NextBootIntact`, and `FallbackTrusted` |
| A firmware is confirmed without its health checks. | `deploy.sh:428` confirms as soon as ssh answers | `Careful` without "confirm" in `OtaUpdate.cfg`: `ConfirmedIsSupervised` |
| Two runs of `S99chime` overlap and start two supervisors, one of which `stop` cannot reach. | the pid file is checked at 105 and written at 126, without a lock | `OneSupervisor` instead of `Stoppable` in `ConfigApply.cfg` |
| An MQTT password loses its outer white space, though the UI says "Saved and applied." (`App.svelte:434`) and does not trim it (395). | both readers trim (`kv_config.h:125`, `config_store.cpp:308`), `ValidateRequest` does not refuse it | `PasswordReadAsEntered` as a property in `ConfigFiles.cfg` |
| A Wi-Fi key of 64 digits without quotes comes back quoted, as a passphrase, from a save with the password left blank, which keeps it (`App.svelte:175`). | `config_store.cpp:203`, 694 | `BlankKeepsWifiKey` as a property in `ConfigFiles.cfg` |
| A ring topic that begins with "#" or "+" rings for topics that begin with "$", which MQTT 4.7.2 excludes and `chime/README.md:77-78` therefore too. | `chime_service.cpp:59-78` does not look for a "$" | `RingsAsMqttSays` as an invariant in `Formats.cfg` |

## Proofs

All proofs hold for every value of the constants that satisfies the named
assumptions; none bounds a counter or a set.

* `OtaProofs`. All of them allow for a card that lags behind in any order. `TypeCorrect`
  needs nothing more. `BootsIntact` assumes `Workflow`
  (install and rollback are careful); its invariant
  `IntactInv` says that every root either file system names is complete, and that an
  install writes only a slot nobody names: the goal alone does not survive
  `InstallRoot` or a write-back. `TrialsGuarded` and `Refinement` assume `Workflow` too
  and speak of the time until `split`; `GuardInv` ties pending record, `cmdline.txt`, the
  confirmed slots and the two scripts' positions together, because the goal is disturbed
  between `ota-install`'s two files, and survives the cuts that only give boots back.
  `ConfirmedStaysHealthy` assumes only that confirmations are careful; `HealthInv` adds
  that a confirmation under way is one of a healthy firmware and that an install writes
  only the slot that is neither running nor confirmed. `Refinement` maps the
  trial to "a pending record whose slot `cmdline.txt` names", and shows each script
  step, and each such cut, to be a step of `AbUpdate` or a stutter.
* `ChimeProofs`. `PlayerCorrect` proves the player's promises, which are inductive
  together. `ImplementsPlayer` shows that the daemon only takes steps the player allows, so
  they hold in the daemon too. `AlwaysSubscribed`, `NeverWaitsForSound` and
  `LeavesNothing` use `ServiceInv`, which adds that a loop error leaves the client disconnected and that the destructor
  runs last, over a closed socket.
* `ConfigProofs`. `RunsSupervisor` shows that saving and applying takes only
  `Supervisor`'s steps. `AlwaysStoppable` allows runs of the script to overlap and claims
  what holds until they do; `PidInv` follows the
  script: after the kill no supervisor lives until the spawn, and between spawn and
  write the only live one is the script's. `SuccessCovers` assumes nothing about other
  callers, who may overlap: `JobInv` says that the Wi-Fi file is never behind the chime file, the
  network has the job's configuration once the thread is past it, and once the job's
  script is past `killall` every chime that runs has read a covered file, since later
  ones read a newer one. `RunnerAlwaysMatches` comes from the same invariant.
  `TornInv` (for `TornAlwaysReported`) adds where the handler stands between the two
  writes. `OrphanInv` (for `OrphansStayFew`, again until an overlap) counts by place: at
  most one chime is between fork and exec, at most one has outlived its supervisor
  except just before `killall`, and that one has exec'ed before there is a supervisor
  again, so the next `killall` hits it. It rests on the timing assumption `SlowScript`.
* `StorageProofs`. `StoresApart` reduces a step of the composition to one of each store.
  `TopicsInv` (for `TopicsAlwaysAgree`) adds to the property the types and that only the
  two evicting loops see a list over its limit. `KeptInv` (for `OnlyEvicted`) says that,
  once loaded, a list that is not full holds every topic of the file but those still
  unread or, after a failed open or read, `missed`: a write can then lose nothing else.
  `SoundsInv` (for `SelectionAlwaysHonest` and `OnlyCutsTear`) says of a request under
  way that a temporary file whose writing was not found to fail holds the whole sound
  (`Copies`), and of a selection between its two files that `ring.wav` is the sound it
  is about already (`Honest`).
* `ConfigStoreProofs`. `SecretsStay` needs that a key has one line or none (`Plain`),
  which hand-written files of `ChimeFiles` have and `Rewritten` keeps: with two lines of
  a user, the daemon and webd could read different ones. A line break may make a second
  line of the password, so `Plain` is kept only while `owner` is known.
  `SavedIsAlwaysRead` needs what a rewrite does to a file of any lines, those of earlier
  line breaks included: a closed block keeps its start and gains at most two lines, and
  then every line of a key in it is the new one (`WpaWithBlock`); without a closed block
  the added one may be read as the end of an open one before it, and its lines are then
  the last (`WpaWithAdded`). `SavedInv` says that between the two writes the Wi-Fi file
  is new.
* `WebdProofs`. `ServerInv` (for `ContextIsThere`) ties the place of the main thread to
  thread and context. `ScanInv` (for `ScansAreComplete`) says at every step of the loop
  that what was read is what was written less what is still in the pipe, cut at the
  limit, which the property says of a finished call only.
* `FormatsProofs`. `WavInv` and `DnsInv` (for `ReadersStayInside`) show that none of the
  scaler's sums wraps, because each is bounded by the size before it is made, and that a
  name's offset stays in its packet. `HttpInv` (for `PiecesDoNotMatter`) says that the
  body so far is what came behind the head, however it was cut into pieces.
  `MatchInv` (for `RingsByWildcards`) says that the levels the loop has gone through are
  covered one by one and none of them is "#". `NetInv` (for `ScansReportStrongest`)
  says, while a line is read, that the access points found so far are those of the list
  but the last, in order, and that the last is `current`, with what its lines said of
  it; and while the networks are merged, that what is reported are the winners among
  those gone through. `ListingGrows` and `OneMore` are the lemmas: what a further
  line, or a further network, changes in the reference. `NeverCircle` is the safety half
  of `Finishes`: every step lowers `Left`, four numbers in the order of the dictionary
  (the part a reader is in, and what is left of it; a DNS pointer may lead back, but
  costs one of those that may be followed), so no input can keep a reader for ever.
* `JsonProofs` (for `AcceptsGrammar`). The invariant `Understood` reads the parser's
  stack and place as a set of texts: those that complete what was begun to a value. Each
  step takes one token off each of these texts, so what the parser has read and such
  a text together are always a value. The grammar is a recursive function over the
  length of a text; the proof unfolds it one level at a time (`GrammarFollows`).
  The library's induction theorems cannot be instantiated here; where induction is
  needed, `Induction` gives it for a set of naturals instead of a predicate.

Only model-checked: everything under fairness (`TrialEnds`, `Recovers`,
`StartupAnnounced`, `Stops`, `PlayerFree`, `JobsEnd`, `Respawns`, `ServesUnlessDamaged`,
`StopsUnlessStalled`, `AnswersEveryone`, `Finishes`), which is out of the prover's reach.
Of `Finishes`, what fairness adds to `NeverCircle` is that a reader is never stuck.
Every invariant and action property of a passing run is proved, `ConfigStore`'s for every
number of texts with white space or line breaks.

## Not modelled, and why

* Abstractions inside what is modelled. A scan's child is assumed to have its process
  group by the time its 8 s are over (`wifi_scan.cpp:30`). `WebServer.Start` is a start
  that succeeds; the failing bind is in `ConfigApply`, the failing TLS pair in
  `TlsMaterial`. webd ends during an apply job in no model: the detached script would run
  on, beside the next webd's job, as overlapping runs of `S99chime` do. A file of
  `ConfigStore` written by hand has each key of the form at most once; the ranges and
  lengths that `ValidateRequest` tests field by field are left out. The headers of a
  request are its last `Content-Length`, since the code passes over the lines it cannot
  take apart. `JsonParser` sees tokens: the leniency of `ParseString` (`strtol` takes
  `\u0x1F`) is below them, and the depth of its recursion (`json.cpp:125-263`), which
  nothing but the size of a body limits, is a sequence without a bound. The levels of a
  topic are given, the bytes of names and samples are not.
* Behaviours seen while modelling that no document of the repository speaks of, so that
  no run claims them: a TLS pair that a power cut, a full disk or an end of webd left half
  written keeps webd down, because both files exist (the exception in
  `ServesUnlessDamaged`, which so covers a missing file only); with a fortified C library
  a stop may end webd by an abort in the mDNS thread (`mdns.cpp:313`), which the model has
  as `Aborts` and `StopsUnlessStalled` counts as an end; `mqtt_password = x`, which the
  daemon reads, is not seen by webd (`ExtractConfigValue` wants no space), and lost by
  its next save; a list of topics that could not be written is written again only when
  the next new topic comes; a failed multicast join is logged and not retried; a command
  that writes often, or closes its output early, uses up its scan timeout in turns that
  took no time; `ring.wav` returns to the firmware's own after a slot change while the
  selection stays; a ring during a startup notification is dropped
  (`aplay_audio_player.cpp:300`, announced by `chime/README.md:60`); a refused SUBACK is
  not noticed (`chime_service.cpp:308`); a new job hides the result of the one the UI
  polls for (`App.svelte:201`); `mv` on the boot partition's vfat is taken as atomic
  (`ota-common.sh:15`).
* Parts without a model: the UI's static files and layout and the system version's
  handler, which keep no state; macOS' `airport` scan; logging and log rotation (best
  effort, nothing depends on it); the Wi-Fi monitor beyond its being an input of the
  daemon; `S30modules` and `S41timesync` (straight-line calls of external tools);
  developer scripts, CI, builds and the hardware drawings.
* What a next step would add: the validation of a form field by field.
