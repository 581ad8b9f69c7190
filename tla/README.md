# Verification of the RemRem / RustDesk core

TLA+ models of the parts of this remote desktop program in which several
threads, tasks or peers share state, their model checking with TLC, and proofs
of the most important safety properties with TLAPS. Paths are those of the
repository below `src/`.

## 1. The system

Two programs talk to each other. The *host* (controlled side) runs a `Server`:
a set of *services* (clipboard, displays, video per display, audio, input,
cursor), each with a thread of its own, and one `Connection` task per peer. The
*client* (controlling side) runs one `Remote` loop per session with decoding
threads and a user interface. A *rendezvous mediator* registers the host with
ID servers; a *connection manager* process shows connections on the host and
writes received files.

| Part | State it keeps | Operations | Interaction | What is hard |
|---|---|---|---|---|
| Service template, `server/service.rs` | `subscribes`, `new_subscribes`, `active` | `on_subscribe`, `on_unsubscribe`, `is_subed`, `snapshot`/`ServiceSwap`, `run`, `repeat`, `join` | shared by service threads and connection tasks under an `RwLock` | several locks per operation; swap between two reads |
| Server, `server.rs` | `connections`, `services` | `add_connection`, `remove_connection`, `subscribe`, `capture_displays`, drop | called by connections, calls services | requests racing the service's thread |
| Clipboard service, `clipboard_service.rs`, `common.rs` | `CONTENT`, the system clipboard | `check_clipboard`, snapshot, `update_clipboard`, reset | service thread, connections, the host's user | two locks between compare and store; newcomers |
| Display service, `display_service.rs` | `SYNC_DISPLAYS`, changed resolutions | `check_update_displays`, `get_update_sync_displays`, record and reset of resolutions | own thread, video threads, logins | stale readings, newcomers that missed a change |
| Video service, `video_service.rs` | encoder, options (`refresh`), `FRAME_FETCHED_NOTIFIER` | capture, encode, SWITCH, wait for the peers | QoS, options of connections, `rx_video` of connections | key frames for newcomers, lost refreshes, one channel for all displays |
| Quality of service, `video_qos.rs` | users, delays, cached `fps` and `quality` | `user_*`, `refresh`, `on_connection_close` | called by connections, read by video threads | stale caches, rounding, finding back after delays |
| Authorized connections, `mod raii` of `connection.rs` | `AUTHED_CONNS`, wallpaper, wake lock | `AuthedConnID::new`, `drop` | wake-lock thread, resolutions | several locks, counts that are old when used |
| File transfer, `hbb_common/src/fs.rs` | `TransferJob` on both sides, the disk | read, write, digest, confirm, cancel, resume | host connection, client loop, connection manager | two counts of files, lazy renaming, failures, lost connections |
| Rendezvous mediator, `rendezvous_mediator.rs` | registration state, `SHOULD_EXIT`, `MANUAL_RESTARTED`, `SOLVING_PK_MISMATCH` | `start_all`, `start_udp`, `handle_resp`, `restart` | ID servers over UDP, configuration | timeouts, lost and late answers, flags set and cleared by several threads |
| Privacy mode, `privacy_mode.rs` and below | owner, covers, hook, registry | turn on and off, change of the implementation, recovery at start | connections, video thread, host's user, the process's end | a thread that is given up on, hand-over, release at disconnection |
| Voice call, `io_loop.rs`, `connection.rs`, `ui_cm_interface.rs` | timestamps, recorder, device before the call | request, accept, decline, hang up | client, host, connection manager | clicks that cross, a device to be restored |
| Port forwarding, `port_forward.rs`; framing, `bytes_codec.rs` | two streams, decode state, raw or not | login, delay test, change to raw bytes, copying | client, host, local program and service | messages and raw bytes on one stream, boundary lengths |
| Input service, portable service, virtual displays, configuration, IPC | pressed keys, shared memory, plugged displays, cached files | see the sources | connections and the platform | release at disconnection |
| Capture, codecs, file clipboard, input injection, platform code, user interfaces, translations, plugins, web services | | | | bindings, presentation, I/O |

The properties that make each modelled part correct are listed in section 3;
`PROJECT.json` lists every component, the hazards at their lines, and which
property watches which hazard. All connections of a host run on a
multi-threaded tokio runtime and all services on operating system threads, so
any two critical sections may interleave; that is what the models do.

## 2. Modules

| Module | Models | Built on |
|---|---|---|
| `Service` | the subscription table, the Server's calls lock by lock, the swap | |
| `ClipboardService` | `repeat`, `check_clipboard`, snapshot, `update_clipboard` | extends `Service` |
| `DisplayService` | `run`, `SYNC_DISPLAYS` and its writers, login | extends `Service` |
| `VideoService` | one display's capture thread, SWITCH, refresh, `capture_displays` | extends `Service`, refines it |
| `FrameFlow` | sending frames of several displays and waiting for the peers | |
| `VideoQoS`, `VideoQoSRecovery` | frame rate and quality; a network that becomes good | |
| `AuthedConns` | `AuthedConnID`, wallpaper, wake lock, changed resolutions | |
| `FileTransfer` | downloads and uploads: read job, write job, confirmations, resume | |
| `Rendezvous` | the rounds of `start_all`, its two flags and those who change settings | |
| `Registration` | what the tasks of a round say to their servers, and what is shown of them | |
| `Mediators` | the constants of these two | |
| `BytesCodec` | the head of a message, as a pure algorithm | |
| `PortForward` | login and copying on both ends of a forwarded port | extends `BytesCodec`, refines `Tunnel` |
| `Tunnel` | what a forwarded port promises | |
| `PrivacyMode` | the one implementation in force, its owner, what it changes on the machine | |
| `VoiceCall` | client, host and connection manager of one call | |
| `*_proofs` | the theorems of the module they are named after; `Service_proofs` also those of `ClipboardService`, `DisplayService` and `VideoService`, `FileTransferFlow_proofs` (on top of `FileTransfer_proofs`) those about the messages under way in `FileTransfer`, `Network_proofs` those of `BytesCodec`, `Rendezvous` and `Registration` | extend it and `TLAPS` |
| `MC*` | symmetry sets and constant values for TLC | |

Variables and actions keep the names of the source where there is one. An action
is one critical section, or one message handler with everything it calls. A
definition whose name describes a mistake (`run_send_new_only`,
`answer_not_recorded`) stands before the definition it deviates from; no
specification uses it. Putting it in place of the correct one shows that the
property next to it in `PROJECT.json` notices that mistake.

### Service
`subscribes` and `new_subscribes` are the two halves of `ServiceInner`, by
connection id. `Server::subscribe` calls `is_subed`, which reads the two halves
under two read locks (the first guard is a temporary that ends with its
condition), and then `on_subscribe` or `on_unsubscribe`; `caller` says how far
the call has come. `want`, `gone` and `raced` are history: what was asked for,
who has left, and whose request to unsubscribe met a swap between the two reads
and was lost. That loss is real behaviour of the code, and
`TableMatchesRequests` says that it is the only one.

### ClipboardService and DisplayService
`clip_pc` and `display_pc` are where the thread is, one value per lock or call it
makes; the steps of its loop that every service has carry the prefix `display_` in
`DisplayService`, so that `Service_proofs` can speak of all services at once. Texts and
layouts are model values; `Oversize` are the texts above the limit, `Empty` is
none. `gap` holds the connections that joined between the snapshot's send and
the swap: they are moved over without a snapshot, as the code does, and the
properties name them as the exception.

### VideoService and FrameFlow
`VideoService` is one display's thread from `ServiceTmpl::run` to the wait for
the peers. `fresh` says that the encoder has made no frame yet, `outdated` that
an option it was set up with has changed (all reasons for SWITCH), `decoding`
who has had the encoder's key frame. Capturing, encoding and setting up may
fail or not each time. `FrameFlow` has several displays and one channel of
acknowledgements, which is what the code has; taking the receiver's mutex and an
id is one step, and `MaxWait` timeouts stand for the ten of 300 ms that make
three seconds. A wait may also be left in the middle, by the SWITCH of
`check_privacy_mode_changed` inside the loop; the frames it abandons count as given up,
like those of a timeout. Left out: peers that acknowledge frames themselves
(`video_ack_required`), recording, UAC and the GDI fallback of Windows.

### VideoQoS
The arithmetic is the code's, on numbers of milliseconds divided by `Unit`. At
`Unit = 200` the limit of 500 ms becomes 400. A quality's time is modelled by
the order in which qualities were set, without ties. The frame rates in use do not come near the
width of `u32`. `user_record`, `store_bitrate` and `bitrate` are left out.

### AuthedConns
`AuthedConnID::new` and `drop` in their locked sections, in order. The wake
lock's thread reads counts from its channel; `stale` remembers a message that
was overtaken. What it does with them depends on the `platform`: Windows and macOS
change a lock that is held (`set_display`, which may fail), elsewhere one that is held
stays as it is, and making one may give an object without a handle of the system's
(`refused`). Left out: virtual displays (Windows), the pipewire session and
`ChangedResolution::changed`, which only the list of displays shows.

### FileTransfer
Both jobs are the same record, as in `fs.rs`. In a download the host's connection
reads and the client writes; in an upload (`upload`, chosen once) the client
reads and the connection manager writes, and the connection between them hands
on what it gets, in order. The two writers differ: the client records the answer
about a file in its write job and ignores errors of `write`, the manager records
nothing and reports them. The reader's open file is the number of blocks read
from it, the writer's the path it was created under; contents are sequences of
blocks, a block standing for its file and its place in it. Reading or writing may fail at each of the
places where the code handles an error; `modify_time` renames a finished file and sets
its time, of which `stamped` records the files the user wanted to keep. `reconnect` stands for the end of
`io_loop`, `sync_jobs_status_to_local` and the next login. Peers older than
1.1.10, which are sent files without a question, are left out, and renaming is
taken to succeed.

### Rendezvous and Registration
`Rendezvous` has every load and store of `SHOULD_EXIT` and `MANUAL_RESTARTED` as a
step, and the writers of settings with their guard `CheckIfRestart` in three: the
snapshot, the change and the comparison when it is dropped; `configure_update` compares
the servers only, `set_and_restart` asks whatever has changed. Two writers ask for no
restart at all: the test of the network (`common.rs:725`) and the account server's answer
to a heartbeat (`hbbs_http/sync.rs:150`). `forgotten` names the two ways in which a
restart that was asked for gets lost, `unasked` a change by one of these two; both speak
of the present round. `Registration` is one task per server and a network that loses,
delays and reorders; time is the order of events. The latency shown of a server is
written by its task and, outside the tasks of the round, by the tests of the servers
(`common.rs:803-828`): `tested` are the servers whose latency these have shown last.

### BytesCodec, PortForward and Tunnel
`Byte` is the number of values of a byte: 256 in the theorem, 8 in the run, so that
short messages have heads of two bytes. A byte on the wire says what it is part
of, which is what lets the properties see a message that comes out as data. Bytes
arrive in chunks of any size. A login may be accepted by a message or by a click, may have
to be tried again (the client connects anew), or be refused for good: then the host
leaves the loop without `on_close` and, if it has already connected to the service, goes
on to forward. `left` says which way the loop was left. `Tunnel` is the abstract specification: complete, in
order, and going on; what is foreign comes before the first byte written.

### PrivacyMode
A step is one section under the mutex `PRIVACY_MODE`, except that turning on by
virtual displays is several (change of the displays and of the registry, storing the
way back). A request runs in a thread the handler waits for five seconds at
most. What the code does not look at fails freely: displays do not come back in
`restore`, the registry is not put right and its way back forgotten all the same
(`restore_reg_connectivity`), the next process unplugs nothing. The settings replace the
implementation in one step (`switch`) and store all options in a later one, with the
entry `reg_recovery` of whenever they were shown them (`set_options`). `untold`,
`outlived` and `left` name the losses of section 5; `left` is set by the failure, not by
what it leads to, so that a forgotten undoing still shows.

### VoiceCall
Four channels, each in order, between client, host and connection manager; the
setting of the host's device is done by threads of their own, in any order.
`crossed`, `revived`, `overlaid` and `raced` name the losses of section 5.

## 3. Runs

Each run is bounded by the constants in its cfg: `MaxEdits` texts copied,
`MaxChanges` layouts, `MaxRequests` requests, `MaxClicks` and `MaxSwitches` what
users do besides, `MaxFrames` messages, `MaxJobs` transfers, `MaxFailures` errors,
`MaxDisturbances` messages lost or late, `MaxSent` and `MaxWritten` what goes over
a forwarded port.

| Run | Checks | Instance |
|---|---|---|
| `clipboard` | `SubscribersAreCurrent`, `ForgottenWhenUnused`, `ClipboardSettles`, `JoinEndsThread` | a connection that comes and goes, a text and an oversize one, two edits: enough for host and peer to race each other's text |
| `display` | `SyncedMeansKnown`, `NewcomerIsResynced`, `LayoutReachesSubscribers` | two connections, two layouts, two changes: a reading can be stored after a newer one, and a newcomer can miss a change |
| `video` | `RemovedStaysOut`, `TableMatchesRequests`, `StartsWithKeyFrame`, `RefreshGivesKeyFrame`, `UsesTheTable` | two connections, three requests: one watches while the other comes, asks and leaves |
| `frames` | `BacklogIsBounded`, `NobodyHoldsTheOthersUp` | two displays, two connections, two frames, two timeouts |
| `qos` | `SlowUserCounts`, `FpsIsCurrent`, `GoodNetworkMeansAskedQuality`, `Recovers` | one user, frame rates, qualities and delays at and beyond their limits |
| `authed` | `WallpaperRestored`, `WakeLockIsRight`, `OriginalIsOnRecord` | two remote connections and one for files, a display and a resolution, all overlaps, four platforms; the thread of the wake lock at most two messages behind, displays changed on Linux only, since nothing about them depends on the platform |
| `files` | `KeptFilesUntouched`, `DoneMeansWhole`, `NoTruncatedFile`, `TransferEnds` | two downloads or two uploads of three files (two blocks, empty, one block), one failure: the second transfer finds what the first has left |
| `rendezvous` | `StaleOnlyIfForgotten`, `OthersAlsoExit`, `SettingsTakeEffect` | two servers, two writers of settings of each kind, who may undo each other's change: 844,466 states |
| `registration` | `ShownAsItIs`, `Registers` | two servers, of which one refuses the first id and the other the second; two disturbances (a loss, a delay, a test of the servers) |
| `port_forward` | `HeadsAreHeads`, `NoReplyAfterLogin`, `ImplementsTunnel` | heads of one and two bytes, three messages besides the answers, bytes written on both ends before the login is over, a login accepted, tried again or refused |
| `privacy` | `OwnerIsConnected`, `BelievedMeansOn`, `CoverGoesWithOwner`, `WayBackIsStored` | two connections, both implementations, two requests, one change of the settings, the process ending anywhere; each behaviour up to the moment something is left behind for good (`NothingLeft`). What comes after is left to the theorems, which have no bound |
| `voice_call` | `PartiesAgree`, `DeviceIsRestored`, `RecordingEnds` | three requests and four other clicks: an answer can meet the request after the next |

`CHECK_DEADLOCK FALSE` is set because all of these systems may come to rest:
nobody has to connect, copy or change anything, and a shut down service stops.

Fairness. Service threads and tasks are scheduled, so their steps are weakly
fair; a call that has begun goes on. Strong fairness is assumed where something
is tried again and again and is taken not to fail every time: reading the
clipboard, setting up the encoder, capturing, encoding. Nothing is assumed of
users and peers: no one has to copy, join, leave, fetch a frame or answer a
question. `Recovers` assumes a network that becomes good, and the timer that
asks every peer for its delay once a second. `Registers` assumes that a server
answers what reaches it and that the disturbances end; the tasks' timers run.
`ImplementsTunnel` assumes that both ends go on copying. `RecordingEnds` assumes
that messages of an open connection are handled and that a recorder's thread,
which looks for its stop signal in a loop, is scheduled.

## 4. Proofs

Proved for all values of the constants: any connections, texts, layouts, displays,
servers, settings, requests and delays, and histories of any length.

| Theorem | Property | Inductive invariant |
|---|---|---|
| `Service_proofs!RemovedStaysOutHolds`, `TableMatchesRequestsHolds` | the same | `ServiceInv` |
| `Service_proofs!SubscribersAreCurrentHolds`, `ForgottenWhenUnusedHolds` | the same | `ClipboardInv`, with the second property |
| `Service_proofs!ClipboardUsesTheTable`, `ClipboardTableIsRight` | `ClipboardSpec` implements `Service`'s `Spec`; so its table has the properties of `Service` | |
| `Service_proofs!SyncedMeansKnownHolds` | `SyncedMeansKnown` | `DisplayInv` |
| `Service_proofs!DisplayUsesTheTable` | `DisplaySpec` implements `Service`'s `Spec` | |
| `Service_proofs!StartsWithKeyFrameHolds` | `StartsWithKeyFrame` | `VideoInv` |
| `Service_proofs!VideoUsesTheTable` | `UsesTheTable`: `VideoSpec` implements `Service`'s `Spec` | |
| `AuthedConns_proofs!WallpaperRestoredHolds` | `WallpaperRestored` | `WallpaperInv` |
| `AuthedConns_proofs!WakeLockIsRightHolds` | `WakeLockIsRight` | `WakeInv` |
| `AuthedConns_proofs!OriginalIsOnRecordHolds` | `OriginalIsOnRecord` | `ResolutionInv` |
| `VideoQoS_proofs!QoSInvHolds` | types and order of qualities | `QoSInv` (`UsersInv`, `OrderInv`) |
| `VideoQoS_proofs!FpsIsCurrentHolds`, `SlowUserCountsHolds`, `GoodNetworkHolds` | `FpsIsCurrent`, `SlowUserCounts`, `GoodNetworkMeansAskedQuality` | `QoSInv` with the property |
| `VideoQoS_proofs!RecoveryIsAHistory` | `RecoverySpec` implements `VideoQoS`'s `Spec` | |
| `Network_proofs!RendezvousInvHolds`, `StaleOnlyIfForgottenHolds` | who runs and what guards remember; `StaleOnlyIfForgotten` | `RendezvousInv`; with `RoundInv` |
| `Network_proofs!HeadRoundTrip` | `decode_head` reads back what `encode` wrote, for every length up to 0x3FFFFFFF | (no state) |
| `Network_proofs!ShownAsItIsHolds` | `ShownAsItIs` | the property itself (`RegTypes`, `RegShown`, `RegOneSolver`) |
| `FileTransfer_proofs!KeptFilesUntouchedHolds` | `KeptFilesUntouched` | `Inv`, with `StampsInv` |
| `FileTransfer_proofs!OneQuestion` | the question about a file is in one place, and the reader waits for it | `Inv` |
| `FileTransferFlow_proofs!NoTruncatedFileHolds`, `DoneMeansWholeHolds` | `NoTruncatedFile`, `DoneMeansWhole` | `FlowInv` |
| `PrivacyMode_proofs!CoverGoesWithOwnerHolds`, `WayBackIsStoredHolds` | the same | `MachineInv` |
| `PrivacyMode_proofs!OwnerIsConnectedHolds`, `BelievedMeansOnHolds` | the same | `OwnerInv` |
| `VoiceCall_proofs!HostInvHolds` | host and manager agree, messages under way included | `HostInv` |
| `VoiceCall_proofs!DeviceIsRestoredHolds` | `DeviceIsRestored` | `DeviceInv` |
| `VoiceCall_proofs!PartiesAgreeHolds` | `PartiesAgree` | `AgreeInv` |

`ShownAsItIs` apart, none of the properties is inductive by itself, because each
speaks about moments at which nothing is under way. Each type invariant is part of
the inductive one.

* `ServiceInv` adds that the two halves of the table are disjoint (or an
  unsubscription would leave the second entry behind) and what a half-finished
  call may rely on.
* `ClipboardInv` and `DisplayInv` say, for each place of the thread, what it holds
  and who has already been sent it. `VideoInv` says that whoever is moved over
  without a switch finds nobody there.
* The refinements go step by step: each action of a service is one of the table's
  steps or leaves the table alone. What is proved of the table is thereby proved
  of the three services.
* `WallpaperInv` says what the number of remote connections that a task has read
  still means when it acts on it. `WakeInv`: once everybody who changed the
  registry has reported, the last message of the channel, or what the thread noted last
  when the channel is empty, is the one for the present connections, and the lock is the
  one the platform makes of what was noted, unless it refused. `ResolutionInv`
  relates a resolution change under way to the record.
* `OrderInv` says that the order of qualities lists each user that set one, once,
  so that the latest quality is that of a user who is still there. The proofs need
  that a set of frame rates has a least element; it comes from the well-founded
  order of finite sets (`LeastElement`), with no induction over an operator.
* `RoundInv`: while a round reads its settings and runs, what was read is what the
  settings are, or the restart is pending (`RestartPending`: a guard will see the
  difference or has seen it, or the flag is set), as long as nothing was `forgotten` or
  `unasked` in the round.
* `MachineInv` says what is covered and changed at each place of a call that holds
  the mutex: nothing before it changes the displays, then its own cover and no way back,
  so that a guard that fails, an early end of the process or a replacement leaves no more
  than `left` has on record. `OwnerInv` adds that of a connection at most the call it waits for is
  pending (`CallInv`), who is registered (`AuthedInv`), and why a client may show
  the mode as on before and after its answer (`Belief`).
* `DeviceInv`: at most one thread is about to set the option and, outside a call,
  it sets the chosen device. `AgreeInv` has one part for each thing the client can
  show and one for the timestamps: nothing but hang-ups follows the latest request
  on its channel, or its answer on the other (`StampInv`). `Finally` is what the
  manager will show when it has read its messages.
* `Registration`'s `ShownAsItIs` is inductive: it relates what is shown of a server
  to the latency on record and to the row of failures, unless it was `tested`
  (`RegShown`), and says that one task solves a refused id (`RegOneSolver`).
* `FileTransfer`'s `Inv` has to say where a question about a file can be: in a
  digest, in an answer, or with the user, in one of the three only (`OneToken`),
  while the reader waits at that file (`TokenWaits`). A file the user keeps is
  safe because an answer is always about the file that both jobs have reached
  (`AnsweredInv`), because at most one transfer, the latest, can be at work on the
  record of answers (`Owner`, `OrderInv`), and because a `.download` is of a file
  that is wanted or was left behind by an earlier transfer (`WriterInv`,
  `DownloadsInv`). `WriterInv` also says whose number a write job can have: in a download
  never that of a kept file, in an upload one only before it has opened any; so no job
  that writes sets the time of a kept file (`StampsInv`). The proof first brings every action to the form of its effect on
  the two tables and the two channels (`SendsDigest` to `Reconnects`), and then
  has, for each part of `Inv`, a case for each effect.
* `FlowInv` adds to `Inv` what is under way between the two jobs. A job is at a
  place, the file it is at and how many of its blocks it has dealt with, and a
  message takes its job from one place to the next. `StreamInv` says that, in the
  channel, each message of a job begins where the one before it ended, or after
  files that need not be sent (`Meets`), the first where the writer is and the
  reader where the last ended, up to an error, which ends the job. It holds only
  as long as a question is the last message of its job (`QuietInv`: an answer
  that jumps over a file cannot find blocks of it under way), `done` comes after
  the last file (`LastInv`), a message carries at most the one block read
  (`DataInv`), and a job the other side has not heard of yet begins where that one
  will, with its list of files before its blocks (`StartInv`). `DiskInv` then has
  the first blocks of the file being written under its `.download` name, all files
  before it dealt with and no other `.download`, and `FinalInv` and `DoneInv`, the
  two properties, follow when a file gets its name and when the job is `done`.
  A failed write loses a block and sets `broken`: from then on nothing of this is
  claimed (`WholeInv`), as in the properties. The cases in which a new transfer
  begins where the last was cut off (`Renews`), the user answers (`Decides`), a
  job is taken away (`Cancels`) or a block arrives have lemmas of their own.
* `HeadRoundTrip` goes by the four sizes of a head; TLC only sees small bytes.

TLC checked each of these invariants on the bounds of its run before it was proved.

The assumptions are the named `ASSUME`s of the modules: bounds are natural
numbers, the distinguished values lie outside the sets they are added to
(`NoneAssumption`, `PrivacyAssumption`, `FileAssumption`), kinds of connections are disjoint.
`UnitAssumption` keeps the scale of the delays in `VideoQoS` between 1 and 200
milliseconds per unit, where each delay state still has a delay of its own; the
code's own scale is 1. `CalmAssumption` says that a delay of 0 can be measured,
which is what a good network means in `VideoQoSRecovery`.

Only model-checked:

* everything under fairness (`ClipboardSettles`, `JoinEndsThread`,
  `NewcomerIsResynced`, `LayoutReachesSubscribers`, `RefreshGivesKeyFrame`,
  `NobodyHoldsTheOthersUp`, `Recovers`, `TransferEnds`, `OthersAlsoExit`,
  `SettingsTakeEffect`, `Registers`, `RecordingEnds`, and `ImplementsTunnel`, whose
  abstract specification is fair), which is out of this prover's reach;
* `BacklogIsBounded`, which counts messages over all queues, and
  `HeadsAreHeads` and `NoReplyAfterLogin`, which follow frames through the
  concatenation and cutting of byte sequences: both need induction over data.

## 5. What the models show of the code

Where a property has an exception, a history variable is set at exactly the step
where the code loses something, and the property fails without it. These are
those steps, and where comments say otherwise.

* Video. Newcomers join by a switch of the encoder "so that new sub and old sub
  share the same encoder after switch" (`video_service.rs:816`). When the last
  viewer leaves and another comes between two frames there is no old subscriber
  at the snapshot, no switch is made, and the newcomer is sent frames without
  their key frame. `StartsWithKeyFrame` says that this is the only way.
* Wake lock. `last_display` is set whether `set_display` succeeds or not
  (`connection.rs:3494-3500`), so a refused wish is not tried again until it changes back;
  on Linux and Android a lock that is held keeps its kind whatever is counted.
  `WakeLockIsRight` says so platform by platform.
* Frames. "break if all connections have received current frame"
  (`video_service.rs:612`): the ids on the channel are those of any display's
  viewers, and a SWITCH in the loop (`video_service.rs:610`) or a timeout abandons some.
  `BacklogIsBounded` says that the queues hold no more than what is awaited and what was
  given up on.
* Resolutions. The records can be cleared "because reset resolutions is called
  when there is no client connected" (`display_service.rs:125`); a login between
  the count and the clear is one (`lost`).
* Files. `tainted`: the first block of a resumed transfer renames the truncated
  `.download` of the interrupted one. In an upload it does so even when the user
  has decided to keep the file, because the connection manager's job never hears
  of the answer. For the same reason that job, as long as it has opened no file, stands
  at the file it began with, and its first block sets the time of that file although it
  is kept (`fs.rs:369-373`): the next comparison goes by that time. `broken`: the client ignores errors of `write`, and after a
  failing create both writers put the next file's blocks into the file before.
  `failures > 0` in `TransferEnds`: an error about one file ends the writer's job
  but not the reader's. A resumed upload names the path the client reads from
  (`io_loop.rs:625`) where the first request named the one on the host
  (`io_loop.rs:542`), so it may continue in another directory; and it begins with
  the file the client was reading, whatever of the ones before was still under
  way when the connection was lost (`"before"` in `DoneMeansWhole`).
* Rendezvous. Tasks run with old settings in three cases. A restart asked for between the reading of the servers and the
  clearing of `SHOULD_EXIT` (`rendezvous_mediator.rs:107`) is forgotten, and so is
  one whose guard sees the settings changed and changed back (`forgotten`). And the test of
  the network and the account server change servers and options without asking for any
  (`unasked`). `MANUAL_RESTARTED`
  is cleared only by a round that starts tasks: after a manual restart with
  `stop-service` set the loop goes round without the pause of line 121.
* Forwarded ports. "Avoid TestDelay reply injection into rdp data stream"
  (`connection.rs:590`) is guaranteed after a login by message; after a click in
  the connection manager the loop ends at once (`connection.rs:449`) and an answer
  under way comes out at the service. So it may after a login refused for good: the loop
  ends without `on_close` (`connection.rs:585`), the socket to the service is kept, and
  `try_port_forward_loop` (`connection.rs:737`) forwards for a client that was not let
  in, until that client, told of the refusal, closes. A second login or another message that
  crosses the change to raw bytes comes out too, before the first byte written.
* Privacy mode. A request that fails turns off the mode of whoever has it, who is
  not told (`connection.rs:2950`), although a request to an occupied mode is
  answered by "Privacy occupied by another one." (`privacy_mode.rs:37`); nor is
  the owner told when the settings replace the implementation (`untold`). A thread
  that answers after the five seconds may own the mode for a connection that has
  closed (`outlived`). The case marked unreachable in `win_input.rs:33` is
  reachable. What stays on the machine is `left`: `restore` logs a failing
  `commit_change_display` and ignores the rest (`win_virtual_display.rs:152-182`), so
  that displays may stay disabled without an owner; a registry that could not be put right
  loses its way back (`win_virtual_display.rs:484-491`); a replaced implementation whose
  hook could not be told to leave is never turned off; a process that ends between the
  change and `set_option` leaves no entry, and the next one unplugs only if there is one;
  and the settings replace the whole map of options, `reg_recovery` included, by the copy
  they were shown (`ipc.rs:464`). A viewer may never hear of somebody else's mode when the video
  thread reads its id only after another change.
* Voice calls. An answer that meets a later request is dropped and leaves the
  client waiting (`crossed`); a hang-up while waiting does not clear the
  timestamp, so an answer revives the request (`revived`); a request during a
  call, declined, leaves the client recording (`overlaid`). The host's device is
  not restored when the connection is lost in a call, nor when the option is read
  while a thread is about to set it (`raced`).

## 6. Not modelled, and the plan

Every component of status `not_modelled` or `partly` has its reason in
`PROJECT.json`. By lines, most of the repository is out of scope and will stay so:
the bindings between Rust and the user interfaces (`flutter_ffi.rs`, `flutter.rs`,
`ui.rs`, `ui_interface.rs`, `ui_session_interface.rs`), platform code and bindings to
capture, codecs, clipboards and keyboards (`platform/`, `libs/scrap`,
`libs/clipboard`, `libs/enigo`), key tables, translations, and the client's way
through login dialogs and web services. They call one system or library function
after the other, hold no state that another thread or peer disturbs, and a model
of them would repeat them line by line. What is modelled is where several
threads, processes or peers share state or exchange messages.

Next, in this order:

1. The input service: `KEYS_DOWN` with its timeout of six minutes, the release at
   disconnection while the input thread still has events to handle, and block
   input. On reading: `record_key_is_chr` tests the same as
   `record_key_is_control_key` (`input_service.rs:670-677`), so that a character
   taken off the record is not released.
2. Frames of the portable service through shared memory; removal jobs of files.
3. More of `Connection`: options, permissions, sessions and switching sides.
