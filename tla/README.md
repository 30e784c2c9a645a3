# Samsung TV Voices: verification project

TLA+ models, TLC runs and TLAPS proofs for the NVDA add-on *Samsung TV
Voices*: a speech synthesizer driver (Python, inside NVDA) that talks over a
framed byte channel to a helper (C++) in an emulated ARM guest, a store of
firmware packs on disk, a voice manager and an updater; and for the image tools
(C, `vdfs-tools`) that the add-on's extractor is built from.

## 1. The system

| Part | Source | State | Operations |
|---|---|---|---|
| Speech channel | `guest/samsung_protocol.h`, `_SamsungHost.send`, `sendMessage` | two byte streams of one virtio-serial port | write a frame, read a frame |
| Guest helper | `guest/samsung_guest.cpp` | job slot and mutex, condition variable, atomics `shuttingDown`, `cancelling`, `activeGeneration`, the engine's voice | main thread: SPEAK, CANCEL, QUIT, end of stream; worker: take, select voice, synthesize by pieces, answer |
| Driver | `addon/synthDrivers/samsungTVVoices.py`, class `SynthDriver` | current and active generation, job queue, stop event, wave player | `speak`, `cancel`, `pause`, `terminate`, the worker thread, `refreshFirmwareRuntime` |
| Host | same file, class `_SamsungHost` | QEMU process, socket, bounded message queue, lifecycle lock | `start` (two attempts), `stop`, `send`, `cancel`, `getMessage`, reader threads |
| Firmware store | `_samsungTVVoices/firmwareStore.py` | `packs/<id>`, `<id>.old`, boot image and its `.tmp`, download and `.part`, work directories, `_installLock` | `installPack`, `removePacks`, `rebuildRuntime`, `cleanupStaleInstallerFiles`, settings, voice listing |
| Download, extractor client | same file | partial file; QEMU process and socket | `_download` (Range), `_extractSpeechTar` (two attempts), TAR checks |
| Voice manager | `addon/globalPlugins/samsungTVVoices.py` | `_downloadState` under a lock, panel `_busy`, 250 ms timer | download a batch, remove, refresh |
| Updater | `_samsungTVUpdater.py` | timer, check lock, interval | check, offer, download, install |
| Installation tasks, init scripts, build scripts | `addon/installTasks.py`, `guest/*-init`, `guest/build-guests.sh` | - | straight-line scripts |
| B-tree of images | `extractor/vdfs-tools/lib/btree.c`, `bnode.c` | the bnodes of a tree, the bitmap of ids, root and height | insert, remove, search, with splitting, rebalancing, merging, repair of dangling bnodes |
| Space manager | `lib/space_manager.c` | first free address, or sorted free extents and a bitmap | init, allocate, mark as used |
| Image maker | `mkfs/mkfs.c`, `lib/compress.c`, `disk_op.c`, `snapshot.c`, `flush_metadata.c`, `hlink.c` | catalog, containers of small files, known data ranges, image blocks; two pools of threads with mutexes and condition variables | enter the directory, compress listed files, copy the rest, pack small files, place and write the metadata |
| Image reader | `unpack/unpack.c`, `lib/decompress.c` | names still to do, hard links kept, open containers | read the superblock, the tables, the trees; write folders, files, links |
| Other extraction tools | `extractor/` | - | fsck, tune, unixtract, msddecrypt |

How they interact: NVDA's main thread calls the driver; the driver's worker
renders utterances by sending one text at a time through the host; the host's
reader thread moves frames from the channel to a queue of 64 messages; the
helper's main thread puts a request in its slot and its worker synthesizes it.
Every text and every answer carries a *generation*; `cancel()` begins a new one
and everything of an older one is to be ignored. The manager's thread calls the
store, whose image the helper boots from, and then has the driver refresh. The
host is shared: it belongs to the session, and a driver that is replaced leaves
it to the next one, with its own worker perhaps still at it. The extractor runs
in a guest of its own; it reads Samsung's images with `unpack`, and what `unpack`
expects of an image is what `mkfs`, of the same sources, writes.

What is hard here: the main thread, the driver's worker, the reader, and the
helper's two threads run freely between a handful of locks; most tests of "is
this still wanted" are followed by the act after the lock has been released; the
helper may die, hang or be restarted at any moment; the store is changed by
threads that hold different locks (or none) and NVDA may end between any two
file operations; the image tools share one space manager, one catalog and one
error variable between two pools of threads, and their trees are long
sequences of local repairs. `PROJECT.json` lists the hazards line by line.

## 2. Modules

| Module | Models | Composed of |
|---|---|---|
| `SpeechChannel` | frames and the two bounded FIFO streams | |
| `SpeechGuest` | the helper's two threads, one action per step visible to the other | `SpeechChannel` |
| `GuestService` | the helper under *any* host that submits a text once and writes frames in the order of their generations | `SpeechGuest` |
| `GuestProofs` | theorems about `GuestService` | `GuestService` |
| `SpeechDriver` | the driver's main thread, worker and reader thread | `SpeechChannel` |
| `SpeechSystem` | driver, channel and helper together; start, restart and death of the helper | `SpeechGuest`, `SpeechDriver` |
| `SystemProofs` | theorems about `SpeechSystem` | `SpeechSystem`, `GuestProofs` |
| `Announcer` | the promise to NVDA, without threads, channel or helper | |
| `AnnounceProofs` | the proof that `SpeechSystem` implements `Announcer` | `SystemProofs` |
| `HostLifecycle` | the host's start, stop, send and wait, step by step, between NVDA's main thread and the workers of successive drivers | |
| `HostProofs` | theorems about `HostLifecycle` | `HostLifecycle` |
| `FirmwareStore` | the files of the store and the threads that change them | |
| `StoreProofs` | theorems about `FirmwareStore` | `FirmwareStore` |
| `Updater` | the timers, checks and posted calls of the add-on updater | |
| `UpdaterProofs` | theorems about `Updater` | `Updater` |
| `OrderedMap` | what the B-tree promises | |
| `Btree` | the B-tree, bnode by bnode | refines `OrderedMap` |
| `SpaceManager` | which blocks of an image are given out | |
| `SpaceProofs` | theorems about `SpaceManager` | `SpaceManager` |
| `Mkfs` | mkfs: the main thread and the two pools | `SpaceManager` |
| `VdfsImage` | mkfs, then unpack on what it made | `Mkfs` |
| `ImageProofs` | theorems about `VdfsImage` | `VdfsImage`, `SpaceProofs` |
| `MCGuest`, `MCSystem`, `MCStore`, `MCBtree`, `MCImage` | constants for TLC | |

An operator preceded by the comment "Mutant of X" is a plausible bug in X; it is
not part of any behaviour and serves to show that the properties notice it.

### 2.1 Speech channel and helper

A frame is `[type, gen, text]` or `[type, gen, text, chunk]`; a text is an opaque
value and its samples are the pair of text and piece. Both sides write a frame
under one lock, so a frame is sent and received as a whole; a writer that finds
the stream full is not enabled. The frame type `bad` stands for every reason
that ends the helper's reading loop (end of stream, wrong magic number, a
payload over 1 MiB).

`mainPc` and `workerPc` name the place between two accesses the other thread can
see. `cancelActive` is three steps (compare, raise, report). The condition
variable is modelled with the window that matters: `WaitPark` evaluates the
predicate while the worker holds `jobMutex`, `Park` blocks and releases it;
`ReadSpeak` needs the mutex and is disabled in that window, the notifications of
the shutdown sequence do not and are lost in it. The voice the engine is
initialized for (`synth`) and what the worker remembers of it (`currentLanguage`,
`currentModel`) are variables of their own: `SelectVoice` uses the engine again when
the memory fits, else makes it anew, which may fail (`SelectFails`). QUIT runs the shutdown sequence
twice, as the code does (`ending`). `WorkerMishap` is a failing initialization
or a refused piece; `SpuriousWakeup` is allowed by the language.

`GuestService` adds a host with only the discipline the proofs need, and a
history of what was written about each text. `KeepsDiscipline` in
`SpeechSystem` says that the real driver keeps that discipline, mishaps and
restarts included; TLC checks it, and `SystemProofs` proves it.

### 2.2 Driver and system

`SpeechDriver` follows the code line by line where it tests and acts:
`_isCurrent` under the lock is one step and the notification, feeding or
completion after it another (`hand` holds what is about to be passed on). The
main thread's `cancel()` is split where it releases the lock: `BeginCancel`,
`SendCancel`, `DrainJobs` (one job a step), `StopPlayer`. The wave player is
NVDA's: `feed` and `idle` block while it is paused, `stop` drops what it has
buffered and ends the pause, and both fail once it is closed.

`SpeechSystem` resets the helper, the channel and the message queue when a
helper is started; `HelperDies` keeps what the helper had already written and
ends it with `eof`. `Mishap` bounds the synthesis errors, timeouts, deaths and
failed starts of a run.

`Announcer` is the abstract specification: the sequence `out` of indexes, audio
pieces and completions NVDA receives is, utterance by utterance, exactly the
items of what was spoken, in order and once; a cancellation drops what waits,
except that **one** item already past its last test may still arrive. The
refinement mapping is `Promise` (`waiting <- Wanted`, `late <- InHand`); `Wanted`
takes from the queue what follows its unwanted jobs, and that the wanted ones are
at its end is itself part of what is proved. `Announces` states the refinement as a
temporal property, which TLC checks step by step and `AnnounceProofs` proves.

### 2.3 The host shared by threads

`SpeechSystem` starts and stops the helper in one step and has one driver.
`HostLifecycle` takes that step apart and adds the other callers: the main
thread that refreshes after an installation, the main thread that replaces a
driver, and the worker of each driver. `lifecycleLock` is held from `EnterStart`
to READY and over `_stopUnlocked`; `process`, `stream` and `messages` are read
without it by `Send`, `Write` and `Get`, one at a time, as the code does, so a
text may be written to the stream of one start and its answer awaited in the
queue of another. Every start has a number, which names its queue, process and
reader; a number nobody holds is used again, which keeps the model finite. A
reader passes on what it reads while the process is still the host's. Timeouts of a get
fire when nothing can come any more (a bound of 15 or 30 seconds against steps
of milliseconds), and additionally, as a mishap, while an answer is on its way.
Audio is left out; `SpeechSystem` has it.

READY may be taken from the queue by a worker that found `isRunning()` true
while another thread was still booting the helper
(`samsungTVVoices.py:229`); the starter then times out, ends a helper that was
ready, and tries once more. The model has these runs, and `CallsEnd` shows that
they end.

### 2.4 Firmware store

Contents are abstracted to the number of the installation they come from.
A pack's directory is absent, whole (`Version`), without its `pack.json`
(`Debris`) or with `pack.json` and files missing (`Gutted`). An image is the
function of the packs it was built from, or `Torn`. Every file operation of
`_installPack`, `rebuildRuntime` and `removePacks` that can fail or be followed
by the end of NVDA is a step; `Crash` forgets threads and lock and keeps the
disk; `Expire` makes what lies about 24 hours old. The extraction pipeline is
one step, `Prepare`, that works on a private directory and succeeds or fails.
`rmtree` with errors ignored, of a pack or of `<id>.old`, leaves nothing or what it
could not delete (`Left`), and a rename onto what is left fails, as it does on a
directory; what it leaves of work and merged directories, which nothing reads
again, is not modelled.

Removals take no lock. `BeginRemove` is offered while no download is running, as
the panel's buttons are; nothing holds an installation, or another removal, back
while one is running, since the panel's timer enables the buttons again within 250 ms
(`globalPlugins/samsungTVVoices.py:336`). Two threads may so build the image at
once, through one temporary file (`mixed`), or change packs the other is copying.
`raced` records that this has happened; `doomed` that a removal then under way had
yet to delete the pack an installation is about to replace.

### 2.5 Updater

Handlers of the main thread are atomic; a message box runs an event loop of its
own and so delays nothing. `armed` is the set of timers that will fire, `timer`
the one the code knows of; `Schedule` is `_schedule` and, as in the code, arms
a new timer without stopping the old. A check's thread is `Judge` (fetch,
verify, compare, post a dialog), `Release` and `Leave` (post `_schedule`), three
steps because the lock is free between the last two. Which version was found
and what is then downloaded and installed is left out.

### 2.6 B-tree

The B-tree is sequential: an action is one whole call (`BtreeInsert`,
`BtreeRemove`), and the tree is a record (`nodes`, `used`, `root`, `height`).
A record of a bnode is a key, a length and, above the leaves, a child. The
lengths are what leads the algorithm: a bnode is split when a record does not
fit, and looked after when more than a third of it is free. A failing
allocation is `InsertKeyShort`, an insertion for which the bitmap has memory for
no or one more bnode: a split may then be left without its index record, and the new bnode
is *dangling*, reached over the chain of its level only, until an insertion
comes past it. `broken` records an overflowing bnode or a failing
`VDFS4_BUG_ON`. The run begins with a tree of three levels (`BuiltTree`) and
from there inserts and removes in every order.

`OrderedMap` is the abstract specification; the mapping takes the keys in the
leaves (`contents`). `Implements` states the refinement.

### 2.7 Images

Sizes are in chunks: a block of the model is one chunk of a large file, or a
small file, or a piece of metadata. A *plan* is a directory and the arguments of
one call of mkfs. The main thread runs through the phases of `mkfs.c:main`
(`main.at`), with its loop counters and its running offset; a file to compress
is a job for a thread of `files` (`thread_file`), which reads it and gives each
chunk to a thread of `chunkers` (`thread`). Chunks come back
in any order and are appended in the order they come; the table behind the
file has them in the order of the file. Containers (`boxes`) hold the small
files, one container of each kind.

`SpaceManager` is a module of pure operators over a record, so that what it
promises can be proved: `GetFreeSpace`, `AllocateSpace` and what they leave of
an extent. `unpack` starts when mkfs is done and reads the blocks of the
image, as `unpack.c` and `decompress.c` do, by following superblock, tables and
records; what it writes is compared with the directory mkfs was given.

`faults` keeps two kinds of failures apart. What the code checks for (`seen`) is a
failing read of the source (`SplitFails`), compression or append to a temporary file
(`AppendFails`), read back of what did not get smaller or write of the table
(`WriteFails`), or anything main reads, copies or flushes (`CopyFails`). What nobody
checks for (`lost`) are the writes of a compressed file's chunks and the read of the
packed ones (`compress.c:812, 825-826`; `WriteLost`): a run of consecutive chunks is missing, what
comes behind takes its place, so that the table may end up in blocks that are not
the file's, and mkfs reports success. A failure of both kinds within one write is
not modelled.

The code has three kinds of ends that are no result. *Stuck*: `destroy_threads`
sets a thread's exit flag and signals once, and a thread between its test of
the flag (`compress.c:1522`, `251`) and its wait misses that, after which mkfs
waits in `pthread_join`; `StopThread` chooses. *Undefined*: memory is used that
the code has given up, when a read fails while chunks of the file are with the
threads (`compress.c:684`), when `compress_dir` reports an error while threads
of `tune_files` still run, and when the free list of a full image is read
(`disk_op.c:621`). The model goes no further there. `Ends` allows both by name.

## 3. Runs

| Run | Instance | Shows |
|---|---|---|
| `guest` | 2 texts, 2 generations, 2 models of one language, 2 pieces | safety of the helper under every disciplined host |
| `guest_live` | 2 texts, 1 voice, 1 piece, one-frame streams, fair | the newest request is answered, a cancellation ends its job, shutdown ends or leaves the worker asleep |
| `guest_shutdown` | same | **violation**: `ShutdownCompletes` |
| `system` | 2 utterances with an index after and before the text, 3 generations (one only for `terminate`), up to 2 mishaps | `Announcer` is implemented; nothing wanted is silenced, lost or announced too early, with errors, timeouts, deaths and failed starts |
| `system_live` | 2 short utterances, one-frame streams and queue, no mishaps, fair | speech is completed, calls return, the worker ends |
| `host` | 2 drivers, 2 texts, 1 new boot image, 1 mishap, fair | one helper at a time, answers taken only from the helper that was asked, refreshes that take effect, calls that end |
| `store` | 2 packs, 2 installations, a removal thread beside them, one crash | packs and downloads survive and failures are undone; the image is whole and that of the packs until threads race for it |
| `store_cleanup` | 2 installations | **violation**: `CleanupIsComplete` |
| `updater` | 3 uses of "Check now" or of the interval, fair | checks go on while wanted, multiply only by the user's calls, and "Check now" is answered |
| `updater_never` | same | **violation**: `NeverMeansNever` |
| `vdfs_btree` | 8 keys, bnodes of 3 or 4 records, keys 2 to 5 inserted and removed in every order, one failing allocation | `OrderedMap` is implemented; chains and records stay sound, nothing leaks, searches are right, dangling bnodes get repaired |
| `vdfs_image` | 11 plans, 2 threads in each pool, one failing read, write or compression, fair | what is unpacked is what was there, but for data lost in a write nobody checks; areas do not overlap; no failure the code checks for is hidden; mkfs and unpack end |

`CHECK_DEADLOCK FALSE` in all runs but `vdfs_btree`: a helper that has exited, a
driver that has been closed, a store that has used up its installations, an
updater with no timer and an image that is unpacked may rest.

The type invariants of `GuestService`, `FirmwareStore` and `Updater` are in no
run because they are proved (section 5); `SpeechSystem`'s is checked.

**Bounds and why they suffice.** The hazards of the helper concern two
generations: the one being cancelled and the next; two texts let the slot be
overwritten while the other is active, two pieces give a point between pieces,
two voices force the engine to be made again. In the system, one cancellation
between two utterances and one at termination give every order of test,
cancellation and act; `QueueCap = 1` and streams of one or two frames make every
writer block, which the code's 64 messages and kernel buffers do only rarely.
`Modulus` is larger than any generation reached, so a wrap at 2^32 is outside
the bounds. `MaxGen` bounds the generations, `Spare` keeps one of them for
`terminate()`. A mishap takes the place of a cancellation in that bound
(`Room`), so that two mishaps come only with no cancellation but the last; one
mishap comes with one cancellation in every order, which is what the races of a
late answer, a restart and a cancellation need.

In `host`, two drivers and one refresh put three threads at the host, which is
all that the code can bring there but for a third driver; two texts are one of
the old driver, whose worker outlives it, and one of the new. One mishap hangs, ends or
does not start a helper; the retry that follows succeeds.

In the store, two installations are an installation and an update that succeeds,
fails or is interrupted; one crash can fall in either or in a removal
(`MaxInstalls`, `MaxCrashes`), and a removal thread may begin again and again, beside
an installation or after it. Two removals at one time are left to the proofs, which are
for any number of them. `MaxExpired` bounds the files that are 24 hours old at one time;
`store_cleanup` needs two, the download and the merged directory.

The updater's chains of checks grow by at most one for each call, so three calls
show two chains meeting on the lock and a third call cutting into them;
`MaxPosted` bounds the calls waiting for the main thread.

The B-tree's run starts with eight keys in bnodes of three or four records,
which is a tree of three levels: bnodes split at the end of a level and inside
it, are filled up from the left and the right, merge, and the root is lowered and
raised again. Lengths differ between keys, so that a bnode may be full by bytes
and not by count. `MaxBnodes` is never reached.

The plans of `vdfs_image` are chosen so that each way a file can take occurs
with each other: a folder to compress with two names of one file, equal files,
an empty file, an incompressible chunk, small files in signed and unsigned
containers with two names, read-only and sized images, the latter with too
little room at every stage. Two threads in a pool are enough for two chunks out
of order and two files at once.

**What `raced` exempts.** `RuntimeWhole` and `RuntimeMatches` say nothing once a
thread has begun to build the image, or has changed the packs, while another was
building it. Without the exemption TLC finds both violated: an installation and a
removal write the temporary file together, and what one of them puts in place is
torn; or an installation fails at a rename after a removal beside it has rebuilt
the image from the packs in between. The panel's timer lets the user do this; no
document speaks of it. `PackSurvives`, `RollsBack` (but for a pack the removal itself
is deleting), `UsesVerified` and `RetainsDownload` have no such exemption.
`RuntimeMatches` also stops where the last call ended, by a failure or with NVDA,
between its change and its rebuild (`failed`), until the next rebuild; any end of NVDA
in the middle of a call counts as such, so it says less after a crash.

**What `PackSurvives` does not say.** A call that fails or is cut short between
the two renames (`firmwareStore.py:602-603`) leaves the pack as `<id>.old`. It
is not listed any more, and the next installation of it deletes the `.old`
before it has a replacement in place. The property covers one call; over two
calls the pack can be lost.

**Fairness.** Threads of both programs run on (weak fairness per thread in
`SpeechSystem`). `GuestService` takes strong fairness for each thread, because a
thread waiting for `jobMutex`, or for room in the stream, is enabled again and
again and is not passed over for ever by the scheduler and a reading host. The
reader thread does nothing but read. In `HostLifecycle` it is enough that
*some* thread, helper or reader that can go on does (`RunsOn`, one weak
fairness): no thread there repeats itself without a call or a mishap, which are
bounded. The updater's fetch has a timeout and the
main thread runs its loop, hence weak fairness of both in `Updater`. In
`VdfsImage` the main thread, each thread of the pools and unpack run on. No fairness is assumed of calls by the
user, mishaps, spurious wake-ups, or the end of a pause (hence the
`paused` alternative in `Rendered`).

## 4. Findings

1. **Lost wake-up at shutdown** (`guest/samsung_guest.cpp:298`). The flag is
   stored and `notify_all` called without `jobMutex`; a worker that has
   evaluated the predicate of `wait` and not yet blocked sleeps for ever and
   `worker.join()` does not return. `guest/clean-init:13-14` expects the helper
   to return and powers the guest off afterwards. In practice the host's
   two-second wait ends in killing QEMU.
2. **Directories `runtime-*` are never cleared** (`firmwareStore.py:108, 517`).
   The manual says temporary extraction files are removed automatically after
   24 hours (`addon/doc/en/readme.html:18`).
3. **Timers that "never" does not stop** (`_samsungTVUpdater.py:97-101, 138`).
   Every check ends in `_schedule`, which overwrites the timer it finds. When the
   user sets the interval while an automatic check is under way, the timer armed
   then is overwritten by the one the end of the check arms; setting the interval to
   "never" stops only the latter, and the former starts a check. The manual says checks can run never,
   hourly or daily (`addon/doc/en/readme.html:23`).

The image tools state nothing in their documents or tests about the ends that
section 2.7 calls stuck and undefined, nor about the writes whose outcome nobody
looks at; they are hazards in `PROJECT.json`, not findings. Met on the way and outside the model: the `int dst_offset` of
`compress.c:784` overflows for compressed files beyond 2 GiB;
`find_file_duplicate` (`mkfs.c:331`) reads the new file where the old one lies
and so finds no duplicate; unpack returns success over errors in containers
(`unpack.c`, around 1418 and 1593).

## 5. Proofs

Every proof is checked by tlapm to the last leaf; each holds for all values of
the constants that satisfy the module's named assumptions, which TLC evaluates in
the runs.

**`GuestProofs`**, for every set of texts and voices, every assignment of
generations, every number of pieces and every stream size: `TypeCorrect`,
`RepliesAlwaysTagged` (`RepliesTagged`), `CancellationSparesOthers`
(`SparesOthers`). The inductive invariant is
`IInv == TypeOK /\ Tagged /\ Ordered /\ Guarded`:

- `Tagged` (`ActiveIsJob`, `RepliesTagged`): while the worker is engaged,
  `activeGeneration` is the generation of its job, and 0 otherwise, so the
  global the callback reads is right;
- `Ordered` (`StreamOrdered`, `HeldFirst`, `TargetBetween`): frames wait in the
  order of their generations, what the helper holds (slot and job) comes
  before them, and a generation being cancelled lies between;
- `Guarded` (`TargetIsHeld`, `ShutdownStored`, `SparesOthers`): once
  `cancelActive`'s comparison has succeeded, every job the helper holds is of
  the cancelled generation, and the main thread, being inside `cancelActive`,
  reads no other. That is why the flag, raised later and without a lock, hits
  nobody else: the safety of the helper rests on the order in which the driver
  writes frames (`KeepsDiscipline`), which `SystemProofs` proves of the driver.

Its second part adds what becomes of a single text: `DoneAlwaysComplete`
(`DoneMeansComplete`), `AlwaysInVoice` (`SpeaksInVoice`) and `AlwaysInOrder`
(`StreamsInOrder`). To `TypeOK` and `Tagged` come `Lined` (a text on its way, in
the stream or in the slot, is there once and has no history) and `InProgress`
(how far the job is: as long as the flag is down, as many pieces were streamed as the
engine has taken). A piece that is dropped leaves the flag up, the main thread
only ever raises it, and the worker lowers it only for the next job; so the last
test, after the loop, sees every drop before it. That is all `DoneAlwaysComplete` says
of cancellations: one that comes after the last test, or before the job is active,
leaves a complete text its DONE. `AlwaysInVoice` rests on `Remembers`: what the worker
remembers is what its engine is initialized for, as long as there is one.

**`SystemProofs`** is about driver, channel and helper together, for any
utterances and events, queue and stream sizes and number of mishaps: `SystemTypes`
(`TypeOK`), `CancelsAlwaysOnlyUnwanted` (`CancelsOnlyUnwanted`), `DisciplineKept`
(`KeepsDiscipline`), `AlwaysHeard` (`AnnouncedWhenHeard`), `NeverLost`
(`AwaitedNotLost`). Besides `DriverAssumption` they use `TextAssumption` (a text is
named by its generation, utterance and position, and each event may be one) and
`NoneAssumption` (Python's `None` is no job, generation or item).

- The helper is not proved again. `G` instantiates `GuestProofs` with the
  generations below the current one as the cancelled ones, and `GuestSound`
  says that while a helper is alive the inductive invariant `IInv` of
  `GuestProofs` holds. A step of the helper keeps it by the lemmas proved there;
  a step of the driver keeps it because it writes in order and cancels only what
  it has given up.
- That in turn is `GenerationsSound` (no job, and no frame written, is of a
  generation beyond the current one; while a generation is active no frame beyond
  it was written) and `CancelsOlder`: between the two halves of `cancel()`, where
  the lock is free, nothing of the new generation exists yet, because the thread
  that would speak it is the one that is cancelling.
- `HeardInv` follows utterances from the queue to the player (`SpokenOnce`,
  `Begun`, `WireBegun`, `HandBegun`): no text on its way either way belongs
  to an utterance still in the queue, so audio of an old request can never be of
  the utterance the worker begins next.
- `NotLostInv` says where the awaited request is (`Underway`): the **last** frame
  of the stream, or alone in the slot with nothing behind it, or the worker's
  job, or answered. `AwaitedNotLost` without "last" is not inductive: a later
  request in the stream would overwrite the slot.

**`AnnounceProofs`**, on top of these and under the same assumptions, is the
refinement: `SpeechAnnounces` (`Announces`). Every step of the driver's threads, of
the helper's, of a start, a stop or a death is a step of `Announcer` or leaves alone
all that it sees (`StepMapped`). The invariant `AnnounceInv` follows four things from
one end to the other:

- the queue (`QueueInv`): the jobs still wanted are its last ones, since a
  cancellation makes all that are queued unwanted at once, and nothing of the new
  generation is queued before they have been drained;
- the request (`Only`, `Single`): under the current generation nothing is under way
  but the text waited for, and that is in one place, in the channel, the slot, the
  helper's worker or the way back; nothing of it follows its answer (`Once`). This
  is why an answer to an earlier request cannot end a later one;
- its pieces (`InOrder`): a function counts, frame by frame, those that have been
  taken or come before a place in the way back (`Counting`); it begins with what
  NVDA has received (`TakenTo`) and ends with the next piece of the helper's worker
  (`WorkerAt`), so no piece can be skipped, doubled or overtaken;
- the items (`Progress`, `Place`, `OutBegun`): when it waits for nothing, NVDA has
  received of the utterance exactly the items before the worker's place.

`Frames` and `Mishaps` add that a frame is what its text says and that bad news comes
of a mishap, which is why an utterance is given up only after one. What `FlattenSeq`
makes of the events of an utterance, and where the items of each begin (`Layout`), is
proved by the lowest number for which it could fail (`LowestNumber`), since induction
itself cannot be cited here; what is counted is counted with finite sets.

**`HostProofs`**, for any number of drivers whose workers outlive them, texts, boot
images and mishaps: `Ownership`, `AlwaysOneHelper` (`OneHelper`),
`AlwaysRefreshed` (`RefreshTakesEffect`) and `AlwaysOwnAnswers` (`OwnAnswers`). `OneHelper` is not inductive: in
`_stopUnlocked` the fields are cleared before the process is ended, so for a while a
helper lives that the host no longer knows. `HostInv` therefore says who owns it
(`Owned`: the host's `process`, or the thread at "kill", and then the host has none)
and that only the holder of the lock can be there (`LockHeld`). A thread at
"enter" that gets the lock and finds nothing running thus finds nothing alive.
`Images` adds what the main thread may rely on between its stop and its return
(`Renews`): a helper started meanwhile, by whichever thread, has an image at least
as new as the one the refresh was called for. For `OwnAnswers` comes `OwnInv`, which
speaks of what the queues hold: a queue holds what the helper of its own number said
(`Sources`: the reader is given `messages` while the lock keeps it the queue of
`process`); a generation belongs to one driver (`OwnGenerations`), so nobody else can
write a waiting worker's generation anywhere; and in the queue a worker reads or is
going to read, its generation occurs only if that is the queue of the helper it wrote to
(`OwnQueues`, kept by `FreshStart`, which never takes a number a worker holds on to).

**`StoreProofs`**, for every set of packs, any number of removal threads beside
an installation, and any number of installations and crashes: `StoreTypes`, `AlwaysVerified`
(`UsesVerified`), `NoPackLost` (`PackSurvives`), `FailureRollsBack` (`RollsBack`) and
`DownloadKept` (`RetainsDownload`), and until threads have raced for the image (`raced`,
section 3) `BootsWhole` (`RuntimeWhole`) and `BootsInstalled` (`RuntimeMatches`). The invariant of the
first five, `Always`, is `Control` (where threads are and what they hold), `Disk`
(what is on it), `UsesVerified`, `Claims` (a removal has in hand only what the user
asked to remove, and not the pack being installed unless it had it before) and `Saved`:
at each step of an installation the former pack is where that step says, in its place or
as `<id>.old`, unless `doomed`. `Unraced` holds only until the first race: at most one
thread builds the image (`Single`), neither it nor what is about to replace it is torn
(`Whole`), the thread that builds has copied the packs as they are, and where no change
waits for its rebuild the image is theirs (`Matching`, `Settled`).

**`UpdaterProofs`**, for any number of calls: `UpdaterTypes`, `ChecksAlwaysGoOn`
(`ChecksGoOn`), `ChainsAlwaysBounded` (`ChainsBounded`). The types alone are not
inductive, since `asked`, the manual checks without an answer, is decremented: the
invariant says that it equals the answers still owed (`Owed`), counted over the
posted calls by lemmas about sequences.

**`SpaceProofs`**, for images of any size and any request: `NewSpaceGood`,
`GivenOnce` (a grant consists of blocks that were free), `NothingLeaks` (what
leaves the free extents of a sized image is exactly the grant) and
`AllocateSpaceGood` (the list and the bitmap agree afterwards), from lemmas
about one extent and one cut. **`ImageProofs`** puts them to work:
`SpaceAlwaysSound` (`SpaceSound`) and `GivenStaysGiven`, for every plan, number
of threads and number of faults. Its invariant `ImageInv` says of everything an
offset or a length is computed from that it is a natural number, and of the kind
of the space that it is the plan's. `VerdictAlwaysHonest` (`VerdictHonest`) says that a
failed read, write or compression that the code checks for, met by whichever thread, is
not lost before mkfs reports, and that a read-only image is refused for nothing else; over
the writes it does not check (`WriteLost`) mkfs does succeed. The error travels
from a chunk to its file, from the file to the frame it was started from, and
from there to main, which looks at each frame in one place only. So the
invariant (`VerdictInv`) ties the counters to the threads: the count of a frame is
the number of threads of files that work for it (`CountOk`), what a file has left is
the chunks not yet handed out and the threads of chunkers that hold one
(`LeftOk`), and a count above zero or an unread error says where main is
(`WaitingOk`, `SeenOk`). `BlameOk` then says that faults and errors under way come
together, and `TailOk` that in a read-only image main always asks for the next free
block, so that no error there is a refusal. A step into `"undefined"` (a frame
left while threads still use it, a free list read when it is empty) ends what the
invariant says. Besides `PlanAssumption` it uses `ProcessorsAssumption` (the number
of threads is an integer). `AreasAlwaysDisjoint` (`AreasDisjoint`) says that the forks of
the files, the fixed areas and the metadata never have a block in common. That a
grant consists of free blocks (`GivenOnce`) does not suffice: some forks are not the
grant itself. The fork of the plain container begins where the next free block
was before the grant, the metadata must go on where it ended, and a file equal to an
earlier one gets the blocks of a known range. `FrontOk` supplies the first two (one free
extent is left at most and every request is for its front, so that what is granted is
what was computed); `Areas` the third, by counting as given out not only what the
catalog knows but also the forks that threads still hold (`Marked`) and all known ranges
(`Ranged`). `Apart` then says that these areas are pairwise equal or disjoint and
taken. It holds after a step into `"undefined"` as well.
`WrittenStays` (`KeepsData`) says that what was
written into a block that was given out is there to the end. `GivenStaysGiven` and
`AreasAlwaysDisjoint` speak of the list and the forks, not of what is written, and
the code writes where it was given nothing yet: a thread of files puts its data at the
first free block and its table at the end of the image, asks for the space
afterwards, and cuts the image off when it finds the data there already.
So `KeepInv` adds that all that was given out lies in front of what is free (`InFront`);
that the blocks written are blocks given out, and neither metadata nor fixed areas, as
long as nothing went wrong (`Whole`), so that the image ends where the data begins
and the table comes right behind it; that the table and the trees go to blocks of the
metadata (`TableIn`) and the debug area and the translation tables to the fixed areas
(`FixedIn`). That the data and its table fill exactly the space asked for is
`PackInv`: the chunks in the two temporary files and those that threads of chunkers still hold
are all that were read (`PackOk`), and a file with no chunk is never given to a thread. After a
failed write `Whole` ends (`Trouble`): data and a table may be left where nobody was
given space, for a later file to replace; and so it does after a lost one, which leaves
the table where the image ended too early. `KeepsData` speaks of blocks that are given
out when they are overwritten, and for these `InFront` suffices; only `Flush` needs `Whole`.
Main does not get there after a failure it knows of; after a lost write it does, and may
write the metadata over such a table: that one step is the exception `KeepsData` makes. `RoomAhead` carries the superblocks' place
over a step into `"undefined"`, so that it holds then as well.

**Only model-checked**: all properties of `Btree`, with the refinement of
`OrderedMap` (its algorithms recur over levels through `RECURSIVE` operators, which no
module with a theorem may reach); `RestoresWanted` of `VdfsImage` (it follows the whole
of mkfs and unpack through recursive tables and boxes); and all liveness properties (`NewestAnswered`,
`Rendered`, `CallsReturn`, `CallsEnd`, `CheckNowAnswers`, `Ends`), which are beyond
this prover.

## 6. Not modelled

- **Speech**: byte framing and resynchronisation on the magic number; sizes of
  texts and payloads (the helper ends its loop on more than 1 MiB); the wrap of
  the generation at 2^32; mapping of rate, pitch, head size and volume; voice
  listing and settings files.
- **Store**: TAR and CPIO contents, progress texts; the download and the
  extractor's client run in one thread and depend on the server and the guest
  only, and are one step each (`Fetch`, `Prepare`).
- **Manager panel**: batches, progress and the panel's lifetime. Its buttons are
  the guard of `BeginRemove`; its refresh is in `HostLifecycle`.
- **Updater**: the signature arithmetic; the download and the installation of an offer.
- **Image maker**: extended attributes, volumes that are already installed or
  mounted, quotas and configuration files, bytes of the superblocks and
  snapshots, signing; lists that name signed containers with a key, sources
  that are themselves compressed files, and symbolic links as long as a chunk
  (`PlanAssumption` says so; shorter ones of a read-only image go into containers,
  so that `copy_symlink_file_to_image`, which ignores errors, is not reached); a lost
  and a noticed failure within one write.
- **unpack**: images that mkfs did not make or that are damaged, the squashfs
  list, extended attributes, device nodes, failing writes.
- **fsck and tune**: the add-on runs neither, and neither does the extractor. The two
  checks of a tree that fsck shares with the library are part of `Btree`
  (`LinksSound`, `RecordsOrdered`).
- **unixtract, msddecrypt**: one pass over one file whose correctness is that of
  formats and ciphers.
- **Installation tasks, init and build scripts**: straight-line scripts without
  state of their own.

## 7. Plan

What is left, in this order:

1. `Manager`: the panel's `_busy`, its timer, batches and the download state over
   `FirmwareStore`, replacing the guard of `BeginRemove` by the panel's own behaviour.
2. `Updater`: offers, downloads and installations, which may overlap.
3. `Download` and `Extractor`: Range resumption against a server that may
   ignore it, truncate or refuse; the two attempts and the three result forms.
4. Pure algorithms against reference definitions: `nextChunkEnd` (pieces cover
   the text, none empty, no code point split), `NextGeneration`, the parameter
   mappings, `_version` of the updater.
5. Proofs: the order of `FillBox` and the tables of `FinalTable`, the parts of `RestoresWanted`
   that need no induction.
