# Verification of lazy-utils

lazy-utils is a set of small system utilities for Linux: a process 1, a sandbox
launcher, a few daemons that wait for datagrams with real-time signals instead
of `poll()`, and the commands around them. This directory models the parts of
it that have state to lose or somebody to meet, checks the models with TLC, and
proves some of what TLC finds about them for all values of their constants.

Line numbers (`tftpd.c:331`) refer to the C files of the repository.

## 1. The system

### Components, their state and what makes them correct

| Component | State it keeps | Operations | What makes it correct | Modelled |
|---|---|---|---|---|
| server loop: `daemon.c`, and the loops around it in `syslogd.c`, `modprobed.c`, `devd.c`, `tftpd.c` | the socket's receive queue, the pending signals, how far `daemon_init` has got | `daemon_init`, `daemon_wait`, one receive per signal, clean-up | signals and datagrams never drift apart; a datagram never kills the server; SIGTERM ends it | `Daemon`, inside `Syslogd` and `Devd` |
| `syslogd`, `syslog` | the log file (XORed), the message in hand | receive, frame, encode, append; read in chunks and decode | no message is lost, reordered or cut in two; the reader sees lines | `Syslogd`, `LogService` |
| names of sockets: `syslogd.c`, `modprobed.c` | the path in the file system, who listens, modprobed's children | `bind`, fork, leave, `unlink` | who listens owns the path; a stale path goes away | `SocketPath` |
| `tftpd`: one transfer | block number, the file, the packet in hand | `_handle_rrq`, `_handle_wrq` | the file arrives whole and in order, or the transfer fails | `TftpNetwork`, `TftpRrq`, `TftpWrq`, `TftpTransfer`, `FileTransfer` |
| `tftpd`: the server | children, the ports they hold, the directory | fork, `_pick_tid`, `_handle_request` | children do not harm each other's ports and files | `Tftpd` |
| `contain` | pending signals of the sandbox's init, children and orphans, exit code | start the script, reap, terminate, kill, exit | every end is noticed; poweroff and reboot work; the exit code tells why | `Contain` |
| `init`, `poweroff`, `reboot` | the scripts, the processes, what is not on the disk yet | start, wait, terminate, kill, shutdown script, flush, tell the kernel | nothing unwritten is lost; the shutdown script runs alone | `Init` |
| `modprobed`, `modprobe` | as the server loop, and a child for each request | receive a name, fork, load, leave | as the server loop; a child's work never harms the server's path | `SocketPath`, `Modprobed` |
| module loading: `module.c`, `cache.c` | the cache of names and aliases, the modules in the kernel, each child's recursion | look up, load dependencies, load | dependencies first; a module another child loaded meanwhile is no error; success means loaded | `ModuleLoader`, `Modprobed` |
| `devd`, `find.c` | as the server loop; the entries of the walk, who was forked for what | bind, walk `/sys/devices`, become a daemon, receive uevents, run modprobe | no device falls between the walk and the loop | `Devd` |
| `losetup` | the loop device's file, name and autoclear flag, who has it open | find it unused, set the file, set the status, undo, clear | two processes do not take, or clear, each other's device | `Losetup` |
| `mount`, `umount` | the types still to try, the device's users | guess the type or try each, mount, unmount lazily | an image that can be mounted is; the device is free again in the end | `LoopMount` |
| `klogd` | the offset into the message | parse the priority, forward | the priority is the message's own | no (section 7) |
| `autologin`, `odus`, `cttyhack`, `suspend` | none | a straight sequence of system calls | - | no: no state, nobody to meet |

### How they interact

* **Signals.** A datagram on a server's socket raises a queued real-time signal
  (`daemon.c:165-178`); the loop makes one receive for each. `poweroff` and
  `reboot` send SIGUSR1 and SIGUSR2 to process 1 of their PID namespace, which
  is `init`, or `contain`'s `_init`. Both get SIGCHLD from their children.
* **Sockets.** `syslog(3)` and `klogd` send to `/dev/log`; `modprobe` to
  `/run/modprobed.socket`; TFTP clients to UDP port 69 and then to a child's port.
* **Files.** `syslog` reads the log while `syslogd` appends to it; `tftpd`'s
  children create, read and unlink files of one directory; servers unlink the
  path of their socket.
* **Processes.** `tftpd`, `modprobed` and `devd` fork a child for every request
  or event, `init` forks two scripts, `contain` one.
* **The kernel.** Children of `modprobed` meet in `init_module(2)`, whose `EEXIST`
  says that another was faster; processes of `losetup` and `mount` meet in the
  loop device; `devd` reads the same devices from `/sys` and from its socket.

### What is hard here

Datagrams that arrive while the server is still arming its socket; signals that
do not queue (SIGCHLD) next to signals that do; clean-up by name rather than by
descriptor, done by whoever is on the way out; a protocol over a network that
loses, duplicates and reorders, implemented without any retransmission; equal
random numbers in children of the same second; an `errno` that is read after a
call that may have left it alone; a forked child that falls back into `main`; a
recursion that other children overtake; a list of devices that changes while it
is walked; a device that is checked, bound and named in three system calls.
`PROJECT.json` lists each at its line, with the properties that speak of it.

## 2. The models

### Conventions

Constants are parameters of the code (`QueueMax`, `MaxAttempts`) or bounds, and
the comment of a bound begins with "bound:". Variables marked "history" are not
in the code: they only record the past for the properties. Some definitions are
preceded by a *faulty twin* with the same parameters (`WaitWithoutSignal` before
`DaemonWait`): nothing uses it; it is a bug of the kind one could make in that
code, and replacing the definition by it makes TLC find the property listed
with it in `PROJECT.json` violated, so every property is known to be able to fail.

### Daemon: the loop of the servers

`pc` follows the process: `"init"` inside `daemon_init`, where `calls` counts the
four calls the kernel sees (`sigprocmask`, `F_SETSIG`, `O_ASYNC`, `F_SETOWN`, in
the code's order), then `"wait"` (`daemon_wait`), `"recv"`, `"handle"`,
`"cleanup"`. The kernel's side is `Arrive`, `Sigterm` and `Stray`. `RaiseIo` is
what an armed socket does: `io_signal` is queued if it was selected, and within
`RLIMIT_SIGPENDING`; otherwise the kernel falls back to SIGIO, which is not
blocked and kills. `RecvEmpty` (EAGAIN) has a parameter because the servers
differ: syslogd, modprobed and devd go back to `sigwait()`, tftpd gives up.

* `WakeupBalance` is the loop's central invariant: *queued datagrams + strays =
  pending signals + early datagrams + empty receives (+1 at the receive)*. It
  says exactly how far the loop can lag: by the number of datagrams that
  arrived between `bind()` and `F_SETOWN`, for which no signal was raised.
* `NoSignalDeath`: no datagram ever kills the server. It depends on the order of
  the four calls and on the signal limit.
* `DrainsToEarly`: the queue drains down to that lag. `TermStops`: SIGTERM ends
  the server although other signals are pending, since it has the lower number.

Daemon has no run of its own: its properties are checked of devd, which is Daemon
with something before the loop, and `Syslogd` is a second composition.

### LogService and Syslogd

`Syslogd` conjoins Daemon's actions with what syslogd does in them: `Wait` sets
the exit code, `SkipEmpty`, `WriteLine` and `WriteFails` are the three outcomes
of `"handle"`. Messages are byte sequences, since the properties are about
bytes: a message longer than the buffer is cut, then gets a line break unless it
ends in one, then every byte is XORed with `0xF1`. A failing `write()` may leave
any proper prefix of the line, so the log that is appended to, `OldText`, may end
inside one. `ReadChunk` is syslog's loop: a chunk that may end
inside a line, decoded, until a read finds nothing; `ReadFails` are its other
exits, the last of which may have written out a part of the chunk. A `write()` of a
whole line is one step with respect to the reader: the kernel holds the inode's lock.

`LogService` is `syslogd(8)` in three actions: messages are sent, recorded in
order, and at some point the service stops. `ImplementsLogService` maps `sent`
to the datagrams that were queued and `up` to the process being alive.
`LogIsLines` and `ReaderShowsLines` are the properties of the bytes: behind the old
text the log is lines, and a syslog that succeeds has displayed up to the end of one,
unless nothing was appended or syslogd failed. The first line that is appended joins
a partial one that was there: the code does not look.

### SocketPath

Every process that starts binds the path and, *whatever* made it leave, unlinks
it by name at `close_unix`, also when its own `bind()` failed. modprobed's
children leave through the same label but keep the path (`0 != pid`).
`LoneListenerHasPath`: a server that has not run next to another owns its path.
`PathHeals`: after any crashes and failed starts the path comes to name a
listener again: the failed start is what removes the stale path. The stronger
`ListenerHasPath` is what `syslogd.8` leads one to expect, and fails (section 5).
`crowded` records which servers have run next to another. `SocketPath` is checked as
a part of `Modprobed`.

### ModuleLoader and Modprobed

`ModuleLoader` is what a child of modprobed does between its fork and its end.
`frames` is its recursion, `_load_by_path` inside `_load_by_name_or_alias` inside
the callback of `module_for_each_dependency`: for each call the module and the
number of the next dependency. `Begin`, `Descend`, `NoField` and `Load` are the
call, the callback, the missing `depends=` field and `init_module()`. A name that
is not in the cache is taken for built in, and a file that cannot be opened is
passed over, both with success; every other failure goes all the way up
(`ReturnFalse`). `Find` is the look-up: the name first, then the first pattern in
the cache that matches as an alias, then the name after the alias's colon.
The cache, the dependencies and what the kernel refuses are constants, since
`cache_generate()` runs once before the first request; that the dependencies have
no cycle is assumed (`AcyclicAssumption`), as depmod and the kernel's build see to
it. Names stand for all their spellings, and patterns for the aliases that match.

`Modprobed` gives each child a server: `Serve` is the receive and the fork,
`ChildEnds` the way out through `close_unix`. A child outlives its server.

* `FailureHasACause`: a child fails only because loading some module in the closure of
  what it was asked for fails in itself (`Faulty`): that one is refused, has no
  `depends=` field or has a dependency that is gone. It never fails because other
  children load the same modules, and `EEXIST` taken for a failure breaks it. The
  fault may be that of a dependency, however indirect: that is what the code does,
  and not what its comments say (section 5).
* `SuccessMeansLoaded`: success leaves the module in the kernel, unless it is built
  in or gone. modprobe itself cannot tell: it ends when the request is sent.
* `RequestsEnd`: every request is done in the end.

`Kill` of a server that is `"starting"` also stands for a `cache_generate()` that
fails, which leaves without the `unlink()` (`modprobed.c:118`).

### Devd

`phase` is where main is before the loop: `"start"`, `"walk"`, `"daemonize"`; at
`"run"` Daemon's `pc` takes over. The socket is bound *before* the walk, so from
`Bind` on the kernel queues uevents (`Publish`), without signals until
`daemon_init` has armed the socket. A device that appears during the walk may be
found by it or not, one that goes may be visited or not; with it gone, opening
its alias fails and `StartFails` ends devd, as every failure of the walk does. A
full socket drops the event and reports `ENOBUFS` at the next receive (`overrun`),
which ends devd. `HandleAdd` runs modprobe in a child, `HandleAddFails` could not
fork. A uevent is its action and its device: its parsing is left out.

* `NoDeviceMissed`: while devd runs and nothing overran, each device that is there
  was given to modprobe, will be visited, or has its event on the way.
* `SuccessMeansColdplugged`: the exit status of the process that was started says
  that the walk is complete, and nothing more.
* `PluggedInIsDriven`, that a device gets its driver, fails (section 5).

### Losetup and LoopMount

One loop device, and scripts that each attach a file of their own to it, mount it,
unmount it and detach it. `at` is the script's place, inside losetup or between
commands; the device is the kernel's: `backing`, `lo_name`, `autoclear` and
`holders`, who has it open. Each `ioctl()` is an action. `LOOP_CLR_FD` on a device
somebody else has open only marks it, and the last `Closes` frees it. losetup may
be killed between any two calls, and then its script is too. Each call can fail for
reasons of its own: `UndoFails`, `DetachFails`, `ClearFdFails` and `UnmountFails` are
those after which the code leaves the device bound, and the script is at `"left"`.

`Guess` is `_guess_type` with a magic number that matches, `GuessFails` the same
without one, or when the device cannot be opened or read as far as that: brute force.
`tries` is then the one type guessed (at `"guessed"`), or the entries of
`/proc/filesystems` that are still to be read (at `"trying"`). `TryMounts`, `TryFails`
and `Skip` are what becomes of the first of them: `mount(2)` succeeds, refuses the
type for a reason of any kind, or is not called because the type needs no device
(`IsTried`), so that it would be mounted without a look at the device (`CanMount`).
`MountFails` is the end of the entries, `ListFails` a list that cannot be opened or
read to its end. `refused` records which types `mount(2)` has refused. `Unmount` uses
`MNT_DETACH`, so it may leave the mount in use until `LastFileClosed`. `_mount_brute`
reads entries with a buffer of a fixed size; the model takes them whole.

* `DeviceHasItsOwner`: from `LOOP_SET_FD` to `LOOP_CLR_FD` the device has the owner's
  file, and after `LOOP_SET_STATUS` its name; and nobody else clears it. A device
  that is bound without an owner is in use, or was left by a script that was killed
  or failed to unmount or to clear it.
* `MountOutcomeHasACause`: what is mounted is of a registered type that can mount the
  image, never one that ignores the device. Brute force that has read the whole list
  gives up only once `mount(2)` has refused every registered type that can mount the
  image. After a guess it is enough that the type guessed is refused.
* `DeviceIsFreed`: the device becomes free again and again, although `umount` and
  `losetup -d` return while it is in use; unless it is bound for a script that
  was killed or left it. The last disjunct is real: attempts at attaching that overlap
  without end, each of which only finds that the device is used, keep it open and
  so bound.

### TftpNetwork, TftpRrq, TftpWrq, TftpTransfer, FileTransfer

`TftpNetwork` is UDP as a bag of packets: delivered in any order, lost,
duplicated (`MaxDups`), and joined at the server by packets that are not the client's
(`MaxStrangers`), because the ports of ended transfers are reused. All that the code
compares of a packet's sender is its UDP port (`FromTid`; `tftpd.c:316-329`, `467-480`),
never its host. So `Strange` makes two kinds: a *stranger's* packet comes from
another port and is refused; a *namesake's*, from the client's port number, is one of
another host or of an earlier transfer of the client, and the server takes it for
the client's: it stores the DATA and acknowledges it to the client under its number,
or counts the ACK. `mistaken` records the numbers of such packets.

A DATA packet of the client carries the number of its chunk instead of its bytes; only
the last chunk is short. One of somebody else carries a full or a short chunk of
another file. The server halves are `_handle_rrq` and `_handle_wrq`, one action for
every way each call can go: `SendChunk` and its failure; the expected packet, another
one, the right one from another port, none until `SO_RCVTIMEO`; `Write` and its
failure; `Ack` and its failure. The client is external: it follows RFC 1350, resends
(`MaxRetries`) its last DATA packet or acknowledgment, and does not answer old
acknowledgments (RFC 1123). It tells its server from others, by host and port: packets
to the client that are not its server's are left out, and so are those of an earlier
child that had the same port. `disturbed` records whether anything but prompt delivery
has happened.

* `LockStep` (download): the server sends a chunk only when the client has those
  before it, in order, but for chunks whose number a namesake acknowledged; no old
  acknowledgment of the client and no stranger's is ever counted.
* `AcknowledgedIsStored` (upload): what the client knows to be acknowledged is in
  the file, in order, unless the server has given up, or acknowledged a namesake's
  packet under the same number. What a namesake sent is in the file, too.
* `QuietNeverFails`: a transfer that nothing disturbs does not fail. With block
  numbers that wrap around this is the property a 16-bit counter could break.
* `ImplementsFileTransfer`: both halves implement `FileTransfer`: chunks are
  copied in order, the receiver succeeds only with all of them, the sender only
  after the receiver. From the first namesake's packet that the server takes on
  (`misled`, the action `Misled`) nothing is promised any more, except that what is
  over stays over. `TransferEnds`: the child always ends.

`TftpTransfer` has one variable, `kind`, beyond those of the two halves: the
request's opcode decides which of them takes its steps, over one network.

An upload that stores a chunk twice still implements `FileTransfer`, because its
`copied` is the greatest chunk stored: the mapping says that nothing is
*skipped*. That something may be *repeated* is what `StoresTheFile` excludes, and
that is violated (section 5).

### Tftpd

The daemon and its children, one per request, all for the same file name: the
case in which they meet. A child draws ports from its own sequence `seed[r]`,
which equals that of every child forked in the same second (`srand(time(NULL))`,
`NextSecond`), tries at most `MAX_TID_ATTEMPTS` of them unless the socket or `bind()`
fails for another reason (`SocketFails`), checks the request and
runs the transfer, abstracted to a number of chunks each of which may fail.
`name` is the file the directory entry refers to, `size` the chunks of each
upload's file, whether or not the name still refers to it, and `settled`
records whether a download opened a complete file.

* `WriterOwnsName`: no failed upload deletes another's file by `unlink(path)`.
* `NoHalfFiles`: a file that is neither being written nor whole is the work of a
  crash, or of a first ACK that could not be sent.
* `SettledDownloadIsWhole`: no later upload, failure or unlink cuts it short.
* `SameSeedShares`: of the clients of one second at most `MAX_TID_ATTEMPTS` are
  connected at once.

### Contain

The sandbox's init, its script, and the orphans it adopts. SIGCHLD is one slot:
`chld` holds the siginfo of the pending one and a second finds it taken, so
`lost` collects those whose end raised none. `Reap` is `waitpid(pid, WNOHANG)`
with its three outcomes and the test of `errno` after it, which is only set by
the failing one. `Outer` is contain's own exit.

* `ZombiesAccounted`: in the loop a zombie is named by the pending SIGCHLD, is
  in hand, or was lost; no other way to miss one.
* `NoticedEndIsActedOn`: an end of the script that raised a SIGCHLD ends the
  sandbox. `RequestEnds`: so does poweroff or reboot, whatever the children do.
* `UnaskedRebootIsTheScripts`: a reboot nobody asked for is never an orphan's doing.

### Init

Process 1, its two scripts and the other processes. A child whose `execl()`
failed is still inside `main`: for the startup script it leaves through `end`, for
the shutdown script it goes on to `sync()` and `reboot()` while its parent waits,
so `ChildFlushes` and `ChildTells` are its steps. `dirty` is set by any write
and cleared by `sync()`.

* `ScriptRunsAlone`: SIGTERM, the two seconds and SIGKILL leave nobody when the
  shutdown script starts, and nobody appears before the kernel is told.
* `NothingUnwritten`: what was written is on the disk by then, also when the
  failed child and not init makes the call. This supposes that the shutdown
  script leaves no process behind (`Leftovers = {}`): with one, the property is
  false, as nothing kills what the script started.
* `RequestIsServed`: a request made at any time reaches the kernel.

## 3. The runs

| Run | Bounds | States | Shows |
|---|---|---|---|
| `devd` | 2 devices, queue of 3, 4 arrivals, 3 early, 1 stray | 355648 | a device comes, goes and comes again around every step of devd's start; the queue fills, overruns and lags |
| `syslogd` | 5 messages, 2 arrivals, 1 early, 1 stray, buffer and chunk of 2, a log of half a line | 92454 | every framing case next to every other, with a concurrent reader |
| `modprobed` | 2 servers, 1 kill, 2 children, 9 modules, 5 requests | 505164 | a dependency shared by two children, and faults that go up their recursions, at every point of them, under servers that start, leave and die |
| `tftp_transfer` | 4 chunks down, 3 up, numbers modulo 4, 1 duplicate, 1 packet of another, 1 retry | 485119 | the number wraps, with each disturbance at each point, and one packet that is mistaken for the client's |
| `tftpd` | 2 uploads, 1 download, 3 ports, 2 attempts, 2 chunks | 256382 | two writers and a reader of one name; more clients than attempts |
| `contain` | script, 2 orphans, 2 stops | 37167 | two SIGCHLDs at once while a third is in hand |
| `init` | 2 processes, none left over | 485 | survivors of SIGTERM, both signals, both scripts failing |
| `loop_mount` | 4 scripts, one device, 1 kill, 4 images, 4 file systems | 14424 | an owner, one that loses the race for `LOOP_SET_FD`, one that finds it used and one that was killed; a type that is guessed wrong, one that is not guessed, and none at all |
| `devd_late`, `socket_path_taken`, `tftp_upload_twice`, `contain_lost_end` | as above, the third without packets of others | - | section 5 |

`IdMod` stands for 2^16. It is at least `FileLength`, so that an old packet is
never mistaken for a new one because the number wrapped while the packet was in
flight: with real numbers that takes a packet that is delayed for 65535 further
blocks, and the code, like the protocol, does not exclude it. In a download the
last block has number 0, so the wrap itself happens. `UploadLength` is below
`IdMod`, so that a delayed first ACK, which has number 0, cannot pass for a later one.
One packet of others, which may have any number and come at any moment, is enough to
meet each receive of the server; the proofs have no bound on them. `tftp_upload_twice`
has none, so that its violation is due to a duplicate or a retry of the client alone.

In most runs deadlock is not checked because a
system in which all processes have ended, and all bounds are used up, stops. In
`loop_mount` it is checked: with a script left alive something is always possible.

Two servers, children or orphans are the least number that can harm each other,
and what a third could do is what one of them does twice: servers, children and
scripts start again after they ended. What the bounds leave open for the
invariants is closed by the proofs of section 4, which hold for all numbers.
Symmetry (`MCTftpd`) is used for uploads, downloads and ports, in a run with
invariants only.

### Fairness

* `DevdSpec` (and `DaemonSpec`): weak fairness of the process. The scheduler runs a
  process that is not blocked; nobody has to send or plug in anything.
* `ModprobedSpec` (and `SocketPathSpec`): weak fairness of each server's own
  progress, its restart included (a supervisor or administrator starts what has
  ended), and of each child's work until it returns. Leaving, forking and being
  killed are not fair, and neither are requests.
* `TransferSpec`: weak fairness of the server's child, which includes its timeout:
  the kernel ends every `recvfrom()` after `SOCKET_TIMEOUT`. The client and the
  network are not fair.
* `LoopMountSpec`: weak fairness, per script, of a losetup that was started, of the
  commands that follow in it, and of the closing of open files: a premise of
  `DeviceIsFreed`, as the device stays in use as long as a file is open.
  Attaching and being killed are not fair.
* `ContainSpec`: weak fairness of init and contain only.
* `InitSpec`: weak fairness of init and of the two scripts' processes; the
  shutdown script is supposed to end, which init waits for without a limit.

## 4. What is proved

`DaemonProofs`, `SyslogdProofs`, `DevdProofs`, `ModprobedProofs`, `LoopMountProofs`,
`TftpdProofs` (the server and the transfers), `ContainProofs` and `InitProofs` hold
theorems for every value of the constants, under the `ASSUME`s of the modules:
finiteness, positive bounds, datagrams and the log are sequences of bytes, the look-up
and the dependencies are as `cache_generate()` and depmod leave them, a type is registered
either as `nodev` or not, and none of those with a magic number is `nodev`. TLC evaluates
them in every run. Every invariant the runs check is a theorem, where the code needs a
condition for it under that condition, which is given with it.

* **`DaemonTypeCorrect`** `DaemonSafety => [](DaemonTypeOK /\ CallsOfPc)`. The
  added conjunct relates `pc` and `calls`: the loop is only entered with all
  four calls made. Everything below rests on it.
* **`DaemonBalance`** `DaemonSafety => []WakeupBalance`. Inductive together with
  `CallsOfPc`; the interesting steps are an arrival, which adds a datagram and
  either a signal or an early one, and the receive.
* **`DaemonNoSignalDeath`** `DaemonSafety => []NoSignalDeath`, assuming
  `QueueMax + MaxStrays <= SigPendingMax`. The strengthening `SignalsBounded`
  says that pending signals never outnumber queued datagrams and strays. The
  lemma `ArmedLast` is where the order of `daemon_init`'s calls enters. The
  assumption is needed: with a smaller limit the kernel sends the deadly SIGIO.
* **`SyslogdIsDaemon`** `SyslogdSafety => DaemonSafety`: every step of syslogd is
  one of the loop or leaves it alone, so the theorems above hold of syslogd.
* **`SyslogdNothingLost`** `SyslogdSafety => []NothingLost`, from four lemmas on
  sequences (`ArrivalExtends`, `ReceiveMoves`, `HandleMoves`, `NextToHandle`).
* **`LogHoldsLines`** (`LogIsLines`), **`ReaderSeesLines`** (`ReaderShowsLines`): what
  is in the file and what syslog has displayed, byte by byte, for all messages, sizes of
  buffer and chunk, logs to append to, and failures. `LogInv` is the invariant: the
  decoded log begins with the old text and the lines of the handled messages, which end
  where a line ends, and goes on behind them only if syslogd `Failed`; `Failed` stays
  (`FailureIsFinal`) because the exit code is `EXIT_FAILURE` until SIGTERM is seen. So a
  whole line goes behind whole lines (`LogGrows`), a part of one is the last that is
  written (`PartFails`), and what the reader writes out is the log's next bytes whatever
  is appended meanwhile, and also when it is cut short (`ShowsKeeps`). The lemmas under
  it: XORing twice is the identity (`XorTwice`, for all 256 bytes), the frame of a
  message is its line (`FrameIsLine`), and the concatenation of all lines grows by a
  line (`FlattenAppend`). The last is about a recursive function of the community
  modules; that it is the sequence one expects is proved by induction with a set of
  numbers (`Induction`), as an operator cannot be passed to the library's theorem.
* **`SyslogdIsLogService`** `SyslogdSafety => ImplementsLogService`, under the
  assumption of `DaemonNoSignalDeath`: initial states map to initial states, each
  step to `Send`, `Record`, `Stop` or a stutter. `NothingLost` gives that the
  message being recorded is the oldest that is not in the log.
* **`ListenerKeepsPath`** `SocketPathSafety => [](SocketPathTypeOK /\
  LoneListenerHasPath)`, for any number of servers. Not inductive alone: it needs
  `CompanyCrowds`, that two servers running at the same time are both crowded,
  so whoever unlinks the path does it to no lone listener.
* **`DevdIsDaemon`** `DevdSafety => DaemonSafety /\ []WakeupBalance`: the walk and the
  daemonization are stutters of Daemon, uevents its datagrams.
* **`DevdTypeCorrect`**, **`DevdSuccessMeansColdplugged`**, **`DevdNoDeviceMissed`**. The
  strengthening `ColdPlug` says what is true in each phase: during the walk, what
  was there at `bind()` is driven or still to be visited; after it, driven; the
  starter's success comes with `"run"`. For `NoDeviceMissed` an event must stay on
  its way: an arrival only appends (`AppendKeeps`), a receive only moves the head
  into the hand (`TailKeeps`), and what is in the hand ends driven or refused.
* **`ModprobedKeepsPath`** `ModprobedSafety => SocketPathSafety /\ [](ModprobedTypeOK /\
  LoneListenerHasPath)`: with children at work modprobed is a server of SocketPath.
  The added `ParentOK` says that a child that is not idle has a server.
* **`SuccessIsTrue`**, **`FailuresAreTrue`** (`SuccessMeansLoaded`, `FailureHasACause`), for
  all modules, dependencies and numbers of children. The invariant `LoaderInv` is
  about the recursion: each call's module is in the closure of what was asked
  for, each caller is at the dependency its callee loads, and every dependency
  before that one is in the kernel, built in or gone (`CallOK`). So when
  `init_module()` refuses a module that is not rejected, the missing dependency
  is gone (`RefusalHasACause`), and the module that fails all calls above it is in
  the closure of what was asked for. What other children load only adds to the kernel
  (`OthersKeep`). That the look-up returns a module rests on the least element of a
  set of numbers (`FirstExists`), from the library's well-foundedness theorem.
* **`DevicesHaveTheirOwner`** `LoopMountSafety => []DeviceHasItsOwner`, for any number of
  scripts. `DeviceInv` adds that a script inside losetup has the device open. An
  owner excludes all others since the device is bound to one file; `ClosesKeeps`
  and `ClearKeeps` are the two ways in which the device can become free. A device that
  its owner could not clear stays bound for a script that `Leaves` it.
* **`LoopMountTypeCorrect`**, **`MountsAreExplained`** (`MountOutcomeHasACause`), for
  any list of registered types and any images, and with every failure of the guess, of
  `mount(2)` and of the list. `TryInv` says what a mount in progress has behind it: the
  entries before those left have been skipped or refused (`HasTried`), or the one guess
  is left or refused (`HasTriedAGuess`). It rests on `DeviceInv`: who tries owns the
  device, so all of its tries are on its own image (`SuccessIsMountable`), and a guess
  names a type whose magic number matches (`GuessIsAMatch`).
* **`SeedsShare`** `TftpdSafety => []SameSeedShares`. The invariant `ChildrenInv`
  has it that a connected child holds the port it drew last (`Holds`) and that
  connected children hold different ports (`Apart`). Children of one second
  drew from one sequence, so their numbers of tries differ: `tries` is an
  injection from them into `1..MaxAttempts`.
* **`TftpdTypeCorrect`**, **`UploadsOwnTheirName`** (`WriterOwnsName`),
  **`HalfFilesHaveACause`** (`NoHalfFiles`), **`SettledDownloadsAreWhole`**
  (`SettledDownloadIsWhole`), from one invariant `FilesInv`. It adds that only
  uploads are greeted, that a transfer that is not over is not complete, and
  that a download reads from an upload's file, a complete one of a successful
  upload if it is settled; a successful upload never writes again.
* **`ContainTypeCorrect`**, **`ZombiesAreAccounted`**, **`UnaskedRebootsHaveACause`**,
  from `ContainInv`. `ZombiesAccounted` has to hold from the fork of the script
  on, before the loop (`AccountedFromFork`); the SIGCHLD in hand is used up when
  the next one is taken (`InHand`); and a SIGCHLD that names the script means
  that it has ended or somebody has stopped a child (`ScriptHasCause`). They
  assume that no orphan is the script or `NoProc`.
* **`InitTypeCorrect`**, and assuming `Leftovers = {}`, **`ShutdownScriptRunsAlone`**
  and **`AllIsWritten`** (`NothingUnwritten`), from `ShutdownInOrder`: whoever is
  about to tell the kernel has just flushed, and until then nobody can write.

* **`TransferTypeCorrect`**, **`UndisturbedTransfersSucceed`** (`QuietNeverFails`),
  **`DownloadsInLockStep`**, **`UploadsStoreWhatTheyAcknowledge`**, from `TransferInv`,
  which is about the packets in flight. A packet on the network is a DATA packet that
  was sent, an acknowledgment of a chunk that was received, a stranger's, a namesake's,
  or an error; so an acknowledgment the server takes for the one it awaits is a
  namesake's, whose number is then in `mistaken`, or has the number of a chunk the
  client has, and is the right one unless the number has been used before
  (`NumbersDiffer`). This gives `InLockStep` and `StoredInOrder` until the numbers start
  again, with the exception that the two properties make: chunks whose number is in
  `mistaken`. While nothing has disturbed the transfer, `QuietDownload` and
  `QuietUpload` say more: at most one packet is in flight, the one that is awaited, so
  there the numbers may start again any number of times.
* **`UndisturbedUploadsAreStored`** `TransferSafety => [](~disturbed => StoresTheFile)`:
  the condition under which the property that section 5 refutes does hold, for files of
  any length. `QuietFile` relates the file to the one packet in flight: the block on its
  way or in hand is the one that is not stored yet.
* **`ShortDownloadsInLockStep`** (`FileLength <= IdMod`),
  **`ShortUploadsStoreWhatTheyAcknowledge`** (`UploadLength < IdMod`), and under both
  **`ShortTransfersAreFileTransfers`** `TransferSafety => ImplementsFileTransfer`: each
  step of either half is one of `FileTransfer` or a stutter, and once a namesake's
  packet was taken (`MisledSteps`) one of its `Misled` or a stutter, since who has ended
  does not end again (`EndsStay`). Packets from other ports, losses, duplicates and
  retries are covered in any number. With real numbers these are files of less than 32
  megabytes (65536 blocks of 512 bytes). For longer ones the condition is needed:
  neither the code nor the protocol excludes that a duplicate is delayed by a whole turn
  of the block numbers and then taken for a new packet.

Only model-checked: the liveness properties (`DrainsToEarly`, `TermStops`, `PathHeals`,
`RequestsEnd`, `TransferEnds`, `RequestEnds`, `NoticedEndIsActedOn`, `RequestIsServed`,
`DeviceIsFreed`), since the prover has no rules for fairness and `ENABLED`. That the
detailed specifications with fairness imply the safety ones holds by their form, so
all theorems hold of them too.

## 5. Where the code and its documentation disagree

Four runs check what a page, a comment or a cited standard says, and TLC finds
it violated by what the code does:

* `devd_late` (`PluggedInIsDriven`): a uevent that arrives between `bind()` and
  `F_SETOWN` raises no signal, and from then on the loop is one receive behind: the
  newest event stays queued until the next one arrives, and its device gets no
  driver. The cause is in `daemon.c`, so syslogd's newest message waits likewise
  and so does modprobed's newest request; only a stray signal makes up for it.
* `socket_path_taken` (`ListenerHasPath`): a second syslogd fails to bind and
  unlinks the first one's path on its way out.
* `tftp_upload_twice` (`StoresTheFile`): the block number of a DATA packet is never
  looked at, so a duplicate is stored twice and the upload succeeds. Without a
  disturbance the file is right (`UndisturbedUploadsAreStored`).
* `contain_lost_end` (`ScriptEndIsSeen`): the script's SIGCHLD is dropped while
  an orphan's is pending; the script's end is never noticed.

The models also show, without a run of their own:

* `tftpd.c:316-329`, `467-480`: the sender of a packet is told by its port alone. A late
  packet of an earlier transfer of the same client port, or one of another host that
  sends from an equal port, passes for the client's: its DATA is stored, and
  acknowledged to the client as if the client's own block had been, and its ACK makes
  a download run ahead of the client. The comments there say that the packet "was sent
  with the right transaction ID", which it was. `LockStep`, `AcknowledgedIsStored` and
  `ImplementsFileTransfer` exclude what follows by name (`mistaken`, `Misled`);
  without that exclusion TLC finds each of them violated in the run `tftp_transfer`.
* `modprobed.c:47-56`: the comments say "load the module dependencies - ignore failures,
  because built-in modules are not handled; if a dependency is missing, the kernel
  will fail to resolve symbols without any damage" and "report failure only upon
  failure to load it". What is passed over is a dependency that is not in the cache
  or whose file cannot be opened. One that the kernel refuses or that has no
  `depends=` field fails, `module_for_each_dependency()` fails with it, and so does
  every request above it without `init_module()` having been called for the module
  that was asked for (`Load`, `NoField`, `ReturnFalse`; `"x:hub"` and `"heir"` in the
  run `modprobed`). A missing `depends=` field of its own does the same.
* `losetup.c:68`, `97-105`: a `LOOP_CLR_FD` that fails, or a `losetup -d` that cannot open
  the device, leaves it bound for good (`UndoFails`, `DetachFails`, `ClearFdFails`); the
  first goes unnoticed by the code.
* `mount.c:203-213`: a `/proc/filesystems` that cannot be opened or read to its end makes
  mount fail for an image of a type that the kernel has (`ListFails`).
* `tftpd.c:289-296`: if the first ACK of an upload cannot be sent, the empty file
  stays, and later uploads of that name are refused (`GreetFails`, state `"kept"`).
* `tftpd.c:506-521`: with `MAX_TID_ATTEMPTS` below `MAX_CLIENTS`, a client is
  refused while ports are free (`NoPortFound`).
* `tftpd.c:426-486`: a download of a file that is still being uploaded ends with
  success at what has been written so far (`SendChunk` in `Tftpd`).
* `contain.c:124-138`: `waitpid(WNOHANG)` returns 0 for a script that was stopped
  or continued, and init takes it for its end (`Reap` on a process that is not a
  zombie). `contain.c:149-151` (`EXIT_KILLED`) is never reached, and an init
  killed by a signal has `WEXITSTATUS` 0, so contain reports success (`Outer`).
* `init.c:39-40`: the SIGTERM sent to process 1 when the startup script cannot be
  run is discarded by the kernel (`StartupRuns`).
* `find.c:69`, `devd.c:23-89`: one modalias file that is gone or empty when its turn
  comes ends the whole walk, and devd (`StartFails`). `devd.c:251`: so does a burst
  of uevents that overruns the socket (`ReceiveFails`).
* `syslogd.c:56-58`: a log that ends within a line, where a syslogd failed, is appended to
  as it is: the next message continues that line (`SyslogdInit`).
* `losetup.c:62-67`: a losetup killed between `LOOP_SET_FD` and `LOOP_SET_STATUS` leaves
  the device bound under no name (`Kill` at `"bound"`).
* `mount.c:25-59`: the magic number of xfs is compared in the machine's byte order but is
  big-endian on the disk, so on little-endian machines it never matches; that of
  ext4 is in ext2 and ext3, too, and there is no second guess (`g_file_systems`).
* `init.8:11-14` calls the scripts `rc.d/startup` and `rc.d/shutdown`; the code
  runs `rc.d/rc.sysinit` and `rc.d/rc.shutdown`.

## 6. Plan

In this order:

1. *done*: all modules of section 2 and the proofs of section 4.
2. *done*: the proofs of the transfers, of the bytes of the log, and of what mount tries,
   so that no invariant is only model-checked.
3. *done*: the error paths of losetup, mount, umount, syslog and of a child's socket,
   and packets that tftpd cannot tell from the client's.
4. A run for the comments of `modprobed.c:47-56` (section 5).
5. Proofs: for the other properties of section 5 that fail, the conditions under which
   their safety part holds, as `UndisturbedUploadsAreStored` and `ListenerKeepsPath` do.
6. `Losetup` with several devices and the search for a free one by the caller, if
   the loop of a script is to be a part of the system.

## 7. Not modelled

* `klogd`: a loop of `klogctl()` and `syslog()` whose only state is the offset past the
  priority. By reading: `klogd.c:67` leaves the offset of the message before in place
  when the priority has not one digit. Nothing else meets it.
* `daemon_daemonize` and the double fork (`daemon.c:13-110`) call by call: `Daemonize`
  and `StartFails` are what the starter and the rest of the system see of them.
* The scan of module files for `alias=` and `depends=` (`module.c:123-226`), the tree walk
  (`find.c`) as such, and the parsing of uevents (`devd.c:91-171`): they compute data the
  models take as constants. Requests to modprobed that are empty or too long,
  which it skips.
* Options of mount, `-B`, `-R` and `-M`: flags of one call of `mount(2)`, as is read-only
  mode of losetup.
* Parsing of TFTP requests; packets shorter than a TFTP header (a DATA packet of
  less than four bytes makes the size negative; what `write()` then does is the
  library's). The client never repeats its request: it would be a new
  transfer with a new child. Packets to the client that are not its server's. What an
  earlier transfer of the same file sends late: packets of others are about another
  file. At `EAGAIN` tftpd's loop ends, unlike the others'.
* `chroot()`, namespaces and mounts of contain before its init runs; failures
  there end contain with `EXIT_FAILURE` and nothing to clean up.
* A failure of `sigwaitinfo()` in `contain.c` and `init.c`: both block what they
  wait for and handle no other signal, so nothing interrupts it. (`init.c:100`
  tests for 0, which it never returns.)
* The utilities without state, the build files, and the text of messages.
