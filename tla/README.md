# Verification of the GB MCP server

TLA+ models of the Game Boy MCP server in `src/`, their model checking with TLC
and proofs with TLAPS. The server lets a user (an email) upload ROMs and play
them through MCP tools. Every game runs in a Docker container of its own,
`gb-play-<subdirectory>`, with a PyBoy emulator inside and a snapshot
(`rom.gb.state`) beside the ROM on a volume.

`PROJECT.json` is the machine-readable index: components, runs, mutants, the
map from definitions to source lines, findings, hazards and theorems.

## 1. The system

| part | state | operations | hard because |
| --- | --- | --- | --- |
| Play session registry: `gb_mcp/emulator/session.py`, tools in `gb_mcp/tools/play.py` | `_by_email` and its lock; per session the subdirectory, `_known_dead`, `close_reason` | `load`, `reset`, `stop`, `send_input`, `save_battery`, `discard_state`, `current`, `shutdown` | worker threads run calls concurrently; the lock is held for a whole `load` and not at all for `stop` and most of `reset`; containers die, idle out or answer late between any two commands; the registry is lost on restart, the containers are not |
| Docker backend: `gb_mcp/emulator/instance.py` | containers, found by name | `start`, `is_running`, `status`, RPCs, `request_stop`, `join`, `reap` | every command is a subprocess that may fail, hang or report late; the name is reused by the next container |
| Emulator loop: `gb_mcp/emulator/loop.py` | command queue, two events, idle clock, PyBoy, snapshot | `submit`, `request_stop`, `_run`, the four commands | lost wake-ups, idle timeout against late commands, failures of the final save |
| Instance control plane: `docker/instance_server.py` | the session, the HTTP server | one handler thread per request; the main thread joins the loop and exits | daemon threads die with the process; boot timeout |
| Uploads: `gb_mcp/storage/uploads.py` | staging directories with their JSON and an index, a lock | begin, append, take, delete, expire | duplicated, reordered and concurrent chunks; expiry between any two calls |
| ROM store: `gb_mcp/storage/{roms,db}.py`, `gb_mcp/tools/ingest.py` | directories and the email-to-subdirectory table | persist and map, list, overwrite an owned ROM | two stores without a common transaction |
| OAuth server: `gb_mcp/oauth.py`, `identity.py` | clients, pending authorizations, codes, tokens | register, authorize, callback, token, refresh | one-time codes and rotated tokens under concurrent requests and expiry |
| HTTP front end: `gb_mcp/http.py`, `app.py` | none of its own | `POST /roms`, routing | streaming an upload of unknown length |
| Input schema: `input_schema.py`, `play_limits.py` | none | arguments of `play` into a play; the payload a host sends a guest and its second parse | the same play is parsed twice, with defaults and rewriting in between |
| Input engine: `input_engine.py`, `play_runtime.py`, `UntilMonitor` and `ScreenshotPlan` of `vision.py` | per play: position in its phases, held buttons, memory of the screens seen, images taken, what the LCD shows | run a play in chunks, look at the screen, stop early | phase ends, looks, images and the end fall on different frames; the screen, the clock or the emulator may end a play at any of them; the LCD is composed on rendered ticks only |
| Intents: `intents.py` | per call: frames used, looks since a text box was seen | series of plays with decisions on the screen between them | nested loops with budgets of their own, on a screen that does what it likes |
| Pixel arithmetic of `vision.py`, OCR, header, validator, catalog, contract, configuration | none | pure functions | image and byte arithmetic |

How they interact: an MCP tool runs on a worker thread and calls the registry;
the registry runs Docker commands; an RPC is a `docker exec` that posts to the
control plane in the container, whose handler thread queues a command for the
loop, which runs it on the input engine, directly or through an intent. The
loop writes the snapshot; `docker rm -f` kills whatever has the name.
Nothing tells the registry that a guest closed: it finds out by asking.

## 2. Modules

| module | contents |
| --- | --- |
| `PlayInstance` | Abstract contract of one play instance: progress leaves it only into the snapshot, and it is not removed while it holds progress. |
| `PlayHost` | Containers, guests (life cycle only) and snapshots as the server sees them; the Docker commands and how they fail. |
| `PlaySessions` | EXTENDS `PlayHost`: registry, worker threads, tool calls, atexit handler, restart of the server. Refines `PlayInstance` per container (`Instance(d)`). |
| `PlaySessionsInv` | The inductive invariants: of all calls (`CallInv`, `LiveInv`), of the atexit handler, of one call of a user. |
| `PlaySessionsProofs` | TLAPS theorems about `PlaySessions`, the refinement to `PlayInstance` among them. |
| `EmulatorSession` | The inside of a container: loop thread, handler threads, main thread. Refines `PlayInstance` (`Contract`). |
| `EmulatorSessionProofs` | Its inductive invariant and TLAPS theorems. |
| `GameLibrary` | Abstract contract of the ROM store: who owns a subdirectory, and which game it boots. |
| `RomStore` | Directories with their ROM files, and the table that maps them to emails: the primitive writes and lookups. |
| `Staging` | EXTENDS `RomStore`: the staging area of resumable uploads on disk, slices, expiry. |
| `Ingest` | EXTENDS `Staging`: the threads that begin, append, finalize, abort, list, add and post. Refines `GameLibrary` (`Library`). |
| `IngestProofs` | Inductive invariants and TLAPS theorems about its lock and the store, and the refinement to `GameLibrary`. |
| `StagingProofs` | EXTENDS `IngestProofs`: TLAPS theorems about its types and the staged bytes. |
| `OAuth` | The authorization server and the acceptance of its tokens. |
| `OAuthProofs` | Its inductive invariant and TLAPS theorems. |
| `PlayInput` | The arguments of `play`, the payload made of them, its two parses. Pure operators. |
| `UntilMonitor` | EXTENDS `PlayInput`: what stops a play early, and which of its images are kept. Pure operators. |
| `InputEngine` | EXTENDS `UntilMonitor`: one play on the emulator, chunk by chunk. |
| `PlayCommand` | EXTENDS `InputEngine`: a call of `play` from its arguments to its reply, with the six intents. |
| `PlayCommandInv` | What a call promises: type invariant, safety, action and liveness properties. |
| `PlayInputProofs`, `PlayEngineProofs`, `PlayCommandProofs` | TLAPS theorems about the second parse and the sums over a script, the engine with the phases of a play, and a call with what it costs. |
| `MCPlaySessions`, `MCIngest`, `MCOAuth`, `MCPlayCommand` | Instances for TLC: owner functions, small byte sequences, arguments and screens, symmetry. |

`PlayInstance` is the seam between the server and a guest: `PlaySessions`
abstracts a guest to its life cycle, `EmulatorSession` shows that the code in
the guest really behaves that way. `GameLibrary` is the seam between uploads
and play: what `PlaySessions` boots is the game of a subdirectory, `Ingest`
shows that it is always there and complete. A ROM is looked up at each boot and
not held open by the server, so the two models need not be run together.
`PlayCommand` is what `EmulatorSession` calls an input: there one step that
makes a new version of the emulator, here the frames it consists of. The guest
executes one command at a time, so the two need not be run together either.

### PlayHost and PlaySessions against the code

* `con[d]` is the container named after subdirectory `d`. `Up(d)` is
  `{{.State.Running}}`; a closing guest is up until its process has exited.
  `unsaved[d]` says that the emulator is ahead of `snap[d]`; `cold[d]` that it
  booted without the snapshot.
* A step of a thread is the code between two Docker commands or two uses of the
  manager's lock, because that is where other threads, guests and the clock
  move. `is_running` is called from a dozen places and is one procedure here:
  labels `query`, `mark`, `reap`, with the return label in `ret` and the result
  in `up`. The stop sequence and `status` are procedures the same way.
* `sess`, `held`, `tgt`, `who` are the local variables of a call (`session` or
  `current`; `current` of `reset`; `subdirectory`; `email`). Session objects
  are identities from a small set and are reused when nothing refers to them.
* Failures are constants: `SlowGuest` (the 15 s of `join` pass before the guest
  has closed), `GuestCrashes`, `InspectFlakes` (nonzero exit of
  `docker inspect`), `RpcFaults` (nonzero exit of `docker exec`), `DockerHangs`
  (`TimeoutExpired` from any command), `RunTimeouts` (`docker run` times out
  with the container created).
* The tool functions are assumed to run on worker threads; the code guards its
  registry with a `threading.Lock`. A one-element `Threads` is a dispatcher
  that runs one call at a time.
* One step is shorter than the code: when docker hangs inside `join`, the
  `finally` of `session.py:171` still asks `is_running`, and may mark the session
  dead, before the exception goes on. The model raises at once; whoever asks next
  finds the same container. Only runs with `DockerHangs` could tell, and none of
  their properties is about the flag.
* Abstracted: titles, wording, `close_reason` and exit codes (they choose the
  text of an error), the idle clock (a guest may idle out at any time), the
  user-facing resolution of a title to a subdirectory (it reads only).

### EmulatorSession against the code

* `loop` is the position in `_run`; `commands`, `available`, `stopRequested`
  are `_commands`, `_cmd_available`, `_stop_requested`; `clock` counts ticks
  since `_last_input_at`.
* A handler's `submit` is three steps (check `is_running`; append under the
  lock; set the event), `request_stop` another three (reason, flag, event).
* Emulator contents are version numbers: 0 what an earlier snapshot restores,
  1 a cold boot, plus one per input; `disk` and `sram` are the versions in
  `rom.gb.state` and `rom.gb.ram`.
* `accepted` and `finished` are history variables for the order of commands;
  `closeFailed` remembers that the last snapshot or the stop of PyBoy raised,
  after which the code goes on to exit with the same code.
* Abstracted: the reporting flags `saved`, `restored_state`, `restore_error`,
  and the `stop` command of `_handle`, which nothing submits.

### RomStore, Staging and Ingest against the code

* `dirs`, `meta`, `data` are `roms/.uploads/<id>/` with its `meta.json` and
  `data.bin`; `romDirs`, `files` the 32-hex directories; `owner` the table.
  All of it survives a restart; `lock` (`uploads._LOCK`) and the calls do not.
* A step of a thread ends at a write to the disk or a use of the lock, because
  that is where another thread, an `OSError` or the death of the process can
  tell the difference. The sweep of `list_games` takes no lock
  (it calls `expire_uploads` directly); its steps interleave with the locked ones.
* `mem` is the metadata a call has read, `undo` what a batch's rollback
  restores. A rollback whose own write raises is modelled too.
* Bytes are short sequences of numbers and slices of them; a digest is the
  identity of the bytes it was taken of. Instead of a clock, the time to live
  of an upload may run out at any moment (`old`).
* `counted`, `acked` and `spoiled` are history variables: what the progress
  counts, what a client was told, and which uploads a failing write has left
  with files that do not agree.
* Failures are constants: `WriteFails` (any write raises), `DockerFails` (the
  isolated validation raises). `Restart` is bounded by `MaxRestarts`.
* Abstracted: base64 and its limits, batch limits, the parsing of bodies and
  filenames, titles, the collision loop of the random name beyond its check.
* In this version the storage calls of a resumable upload have no caller in the
  server other than the tests: `operator.md:95` calls them the implementation
  behind `POST /roms`, but `POST /roms` stages nothing: it validates, saves and
  maps the ROM itself, as `add_rom` does (call `"post"`). They are modelled as operations of the store that any thread may call.

### OAuth against the code

* Every random value (a consent page, a code, an access or a refresh token) is
  the index of a record in `minted`; the dictionaries `_pending`, `_codes`,
  `_refresh` are the sets of the values that are in them. Access tokens are
  signed, not stored. A grant is named by the first page of its authorization,
  so that everything made of it can be traced.
* A step of a request is the code between two uses of the provider's lock. The
  event loop only switches at an `await`; the model lets it switch at every use
  of the lock, which includes all the schedules of the loop. `load` and
  `exchange` are two steps because the SDK's token handler awaits between them.
* Lifetimes end at any moment (`Expire`); `early` remembers whether what a
  request presents was still good when it came. A restart empties the
  dictionaries; the signing secret comes from the environment and stays.
* External (the MCP SDK): client authentication and the order in which the
  token handler calls the provider.
* Abstracted: scopes, PKCE and redirect URIs (they may refuse a request, which
  is a step of the model), the operator's own JWTs and the shared bearer token,
  and the revocation of a token, which no route serves. An explicit
  `require_email` override is not modelled.

### PlayInput, UntilMonitor, InputEngine and PlayCommand against the code

* A chord is the set of its buttons, a missing key is `Absent`. `Parse` is
  `parse_play_input` and `Acceptable` all that it does not refuse; `Payload` is
  `parse_play_args` with `play_input_from_args`; `AsPayload` and `Relayed` are
  the way to the guest, where `Parse` is applied again.
* A screen is the set of what the image arithmetic finds on it (a text box, a
  battle, a fade, the player standing still). Whenever the LCD is composed, any
  screen of `Screens` may appear: the game is not modelled, and nothing is
  claimed that depends on how it answers.
* `at` is where `run_play_input` stands: `loop` and `between` are the head of
  its loop and the place after a chunk, `gap` the released ticks after a mash,
  `wrap` the lines after the loop, `ended` its return and `raised` an exception.
  A chunk goes up to the next phase end, look, wanted image or end of the play
  (`ChunkEnd`) and ends in one of two actions, `Chunk` and `Interrupt`.
* `shown` is the tick whose screen the LCD holds. `capture_native` yields that
  screen whatever the number of the frame it is filed under; a `Shot` carries
  both.
* `label` is where the call stands: at the entry of the guest, at an intent's
  place between two plays, or waiting for a play to return. Local variables of
  the intents are `used`, `gone`, `round`, `waited`; `spent` is the sum of
  `frames_advanced` that `_merge` reports.
* History variables: `joy` (the joypad of every tick), `looked` (the frames the
  screen was evaluated at), `calm` and `clear` (looks in a row with the player
  standing still, or without a text box).
* The clock (`Timeout`) and `tick()` returning false (`Stopped`) may end a play
  wherever the code looks at them.
* Abstracted: emulation speed, image scale, OCR, hash regions and thresholds,
  the packing of images, the merging of the images of an intent's plays and the
  reason stamped on the reply.

## 3. Runs

The runs of `PlaySessions` use one user with two games `d1`, `d2` unless said
otherwise, and every combination of snapshots on disk at the start. The server may stop being
called, and a closed guest process has no next step: `CHECK_DEADLOCK FALSE`;
`EveryCallAnswered` and `EveryRequestAnswered` are what excludes a deadlock of
threads that have work. In `Ingest` and `OAuth` nothing happens either when the
bounded number of calls is used up; `LockInv` says there that a lock is only
held by a thread with a step to do.

| run | instance | question |
| --- | --- | --- |
| `PlaySessionsConcurrent` | 2 users with 2 games and 1, 2 threads, 3 calls, slow and crashing guests, failing RPCs | one live game per user, nothing running out of reach, no stale dead flag, a clean shutdown over the sessions of both users: `OneLivePerEmail`, `NoOrphan`, `DeadIsDown`, `ShutdownLeavesNothing`, and `CallInv` |
| `PlaySessionsSequential` | 1 thread, 4 calls, 1 restart | no lost progress and honest replies when calls come one at a time: `NeverRemovesUnsaved`, `NeverReapsLive`, `StopLeavesSnapshot`, `ResetIsCold`, refinement `KeepsContract` |
| `PlaySessionsFaults` | 2 threads, 2 calls, 1 game, every fault | `EveryCallAnswered` under fairness |
| `Emulator` | 2 requests, window of 1 tick, failing boots and saves, kills | `NoLostWakeup`, `CleanExitSaved`, `ExactlyOnceInOrder`, refinement `KeepsContract`; under fairness `ClosesWhenDue`, `EveryRequestAnswered` |
| `Ingest` | 2 threads, 2 calls, 1 restart, every failing write; 1 upload id, a ROM of 2 bytes in slices of 1, 2 subdirectories, 2 emails | `StagedInOrder`, `OnlyIntended`, `MappedBoots`, `OwnersOnly`, refinement `LibraryContract`, and `IngestInv` |
| `OAuth` | 2 requests at a time, 4 in all, 1 restart; 2 clients, 2 emails, 2 sites, 6 random values | `OneLivePerGrant`, `TokensBound`, `ActsAsConsented`, `RedeemedInTime`, and `OAuthInv` |
| `PlayCommand` | 26 calls that are accepted and 5 that are not: scripts, chords, holds, mashes and every intent, with conditions and image modes; 7 screens | the arguments (`RoundTrip`), what the game sees (`FollowsScript`, `NothingHeld`, `ReleasedAfterMash`), what the caller sees (`LooksInTime`, `ReasonIsTrue`, `BlockedMeansStill`, `ShotsCurrent`), what it costs (`SpentBounded`), how it ends (`StaysGone`, `EveryCallEnds`), and `PlayInv` |

Why the bounds suffice to be interesting: two threads and three calls contain
every pair of overlapping operations plus one that prepares the state they meet
(a boot before two overlapping calls, or a boot, a switch and a stop); three
session identities let a thread hold a session that was already replaced. Two
boots of different users give the atexit handler two sessions, of which the
first it visits may be alive, closing, crashed or dead. `PlaySessionsConcurrent`
is explored up to `SeenByServer`, all variables but `cold`, `unsaved` and `snap`:
no guard reads them, and its properties do not speak of them beyond their types,
which `CallCorrect` proves. Four
sequential calls and a restart are boot, play, a crash, and two calls after it.
Two requests give a batch of two, a command with another or a stop that arrives
while it is handled, and a command that meets the idle close; the window matters
only as passed or not passed. The safety properties of `EmulatorSession` are
proved for any number of requests and any window; only its liveness rests on the
two. In
`Ingest` an upload of an earlier process with any progress may be there at the
start, so two calls overlap at every stage of it: two slices, a slice and a
sweep, a finalize and an abort, two replacements of one game; slices come
repeated, too large and in the wrong order, which makes a ROM of the right size
with another digest. In `OAuth` four requests are a consent, a redemption and
two racing rotations, or two of each stage at once; six values hold a page that
is shown again, a code and two pairs of tokens. In `PlayCommand` the limits
are scaled down with their order kept (a tile 2 frames, a walk 10, a play at most
11; a look every 2 frames, 3 steady looks, a grace of 2; a gap of 1 to 3 frames):
a play then has phase ends, looks and wanted images on the same frames and on
different ones, is long enough for a wall to be reported and short enough for
every series of screens to be tried, and each intent runs into its budget in the
middle of a play as well as at its end. The invariants that are proved hold for
all values.

Fairness. `FairSpec` assumes that a call that has begun goes on (Python runs
its threads; every Docker command has a timeout, after which the step is one of
its failures) and that a guest out of its loop finishes closing (it does a
bounded amount of work). No client is obliged to call, no guest to idle out.
`Ingest` and `OAuth` claim safety only and assume no fairness. In `PlayCommand`
it is weak fairness of `Work`: the loop thread runs, and each of its steps is a
bounded amount of computation and ticks. No screen is owed to a call, so
`EveryCallEnds` shows that every loop of an intent ends by its own counters.
In `EmulatorSession`, `FairSpec` is weak fairness of each thread: the loop, the
main thread, each handler. The timeout of `submit`, failures and the clock get
none, so no answer in the liveness properties is owed to a timeout.

### Disagreements between the code and its documents

| run | what happens |
| --- | --- |
| `StopDeadline` | `join` removes a guest after 15 s although it is still writing the snapshot; the progress is gone (`instance.py:209`). |
| `OrphanAfterRestart` | after a restart a user can boot a second game beside the one that still runs (`session.py:242`). |
| `WarmReset` | a boot of the same user between `reset`'s look at the registry and its `load` makes the reset report success for a game restored from the snapshot (`session.py:577`). |
| `IdleLeavesContainer` | the idle close ends the guest process but nothing removes the container until the user's next call (`loop.py:665`). |
| `FinalizeKeepsStaging` | a finalize that is refused leaves its staging (`ingest.py:206`), against "Staging is always deleted." (`operator.md:109`) and "Caller must ``delete_upload`` in finally." (`uploads.py:429`). The run finds it with bytes missing; with all bytes there and another digest it is the same return. |

The same properties fail in neighbouring ways, named under "hazards": one
nonzero `docker inspect` makes `is_running` remove a live container
(`instance.py:418`, against "Inspect flake: do not reap a container we cannot
query" at `session.py:58`; `PlaySessionsSequential.cfg` with
`InspectFlakes = TRUE`); a reap
decided before another thread started the game anew, two hanging commands in
`status`, `docker run` timing out after it created the container, a reset after
a restart of the server. `PlaySessionsConcurrent` therefore does not claim
`NeverReapsLive`, the proofs that nothing runs beside the registered game
assume `Reliable`, and those about one call of a user exclude the faults that
break them (section 4).

Three more formulas at the end of `Ingest` are known not to hold. No run checks
them: the first two are about operations that no route of this version offers,
the third is a hazard of `PROJECT.json` that a later version of `Ingest.cfg`
with two new names will show.

* `BegunSurvives`: a `list_games` between `mkdir` and the writing of
  `meta.json` takes a new upload for an old one and deletes it.
* `NoUncountedBytes`: a slice is appended before `meta.json` is written; if that
  write fails or the process dies, the retry of the slice is appended again.
  `finalize` then refuses the digest, so nothing wrong reaches the store.
* `GameStays`: two concurrent replacements of one game under different file
  names each remove the other's file, against "atomically overwrite"
  (`CHANGELOG.md:84`). `Ingest.cfg` therefore gives one new name.

Met while modelling `PlayCommand`, each visible in the model though no run
claims the opposite:

* `BlockedMeansStill` excepts a hold with `until=blocked`: the caller's condition
  and the default abort then count into the same field, each look twice.
* `ShotsCurrent` excepts a late play: `last_lcd_rendered` is set by the first
  rendered chunk and never cleared, so the final image of a play that runs out
  of time after undrawn ticks is an older one (`input_engine.py:191`).
* `enter_door` with a direction of at most 16 frames goes up: a short chord
  comes to the guest as a script of one step, and `_door_direction` looks at the
  buttons, which are then empty (`Door`).
* An intent may take more frames than `MAX_FRAMES_PER_CALL` in total:
  `SpentBounded` has the real bound of each (`CostOf`).
* Every play of an intent has its own clock of up to 90 s, while the host waits
  120 s for the whole call.
* A chord with a `max_frames` below its frames is accepted by the first parse
  and refused by the second. The tool cannot make one (`NoOwnBudget`).

## 4. Theorems

`PlaySessionsProofs` (for any numbers of emails, games, threads, sessions and
calls):

* `CallCorrect`: `Spec => []CallInv`, whatever fails. `CallInv` says with which
  locals a thread can be where (`LocalsInv`), that shutdown visits registered
  emails (`TodoInv`) and that a thread inside `load` owns the lock (`LockInv`).
  A procedure that returns through `ret` needs an invariant about where the
  thread *will* be: `Pos(t)` looks through the procedures.
* `LiveCorrect`: `Steady` implies `Spec => [](restarts = 0 => LiveInv)`, where
  `Steady` is a Docker daemon that answers truthfully and in time. Slow and
  crashing guests and failing RPCs are allowed. `OneLivePerEmail` alone is not
  inductive: that a load starts a game
  safely rests on everything it has *seen down* staying down while it holds the
  lock (`SeenDown`), on the registered session being the only one that can run
  (`Registered`), on the session it looked at being still the registered one
  (`LoaderInv`), and on dead flags being true (`DeadInv`). After a restart the
  registry is empty and guests of the old server run on, so `LiveInv` ends there.
* `OneLive`, `Reachable`, `DeadFlagTruthful`: the safety properties
  `OneLivePerEmail`, `NoOrphan`, `DeadIsDown` from `LiveInv`, for a `Reliable`
  deployment, one that is `Steady` and whose server does not restart.
* `ShutdownAlone`, whatever fails: the atexit handler runs when no call is under
  way and nothing runs beside or after it (`AloneInv`). `ShutdownComplete`
  (`ShutdownLeavesNothing`, `Reliable`): what runs is still to be visited by the
  handler or the very session it is stopping (`VisitInv`).

Six theorems are about what a call does to its own user's game. They are for
behaviours in which the calls of each user come one at a time: `Spec /\
[]OneCallPerUser`. Calls of different users, guests, restarts and faults still
interleave in any way; with one thread the condition always holds (lemma
`Sequential`), which is the instance that `PlaySessionsSequential` checks. With
two overlapping calls of one user the properties fail, as the runs `StopDeadline`
and `WarmReset` and the hazards show. Each assumes the faults away that break it, and
no more:

| theorem | property | assumes | rests on |
| --- | --- | --- | --- |
| `SessionIsOwn` | | nothing | a call and the registry speak of the same session (`OwnSession`) |
| `ReapsOnlyDead` | `NeverReapsLive` | `Truthful`: no inspect flake, no hanging command | what a call is about to reap is down (`ReapsDown`) |
| `ContractKept` | `KeepsContract` | `Careful`: `Truthful`, every stop heard, every guest in time | a container that is removed has nothing to lose (`RemovesSaved`), and progress is only in a guest that lives or closes (`NothingAhead`) |
| `NothingLost` | `NeverRemovesUnsaved` | `Careful` | the same |
| `ResetCold` | `ResetIsCold` | `Steady` | a call told "down" may rely on it (`SeesDown`), so the reset unlinks the snapshot of a game that is down and boots it (`Resetting`) |
| `StopSaves` | `StopLeavesSnapshot` | `Faultless`: `Steady`, `Careful`, no guest crash | a guest boots only while a load waits for it (`BootAwaited`), what is known to be dead is gone (`DeadGone`, `SeesGone`), and a stopped guest that has left its container has left a snapshot (`Stopping`) |

`ContractKept` is the refinement to `PlayInstance`, one lemma per kind of step:
every step of `PlaySessions` is for every container a step of its contract or
none. The first four hold across restarts of the server; `ResetIsCold` and
`StopLeavesSnapshot` claim something only until the first one, since a new server
takes over what runs without knowing its history.

`EmulatorSessionProofs`, from one inductive invariant `Inv`, for any number of
requests, any idle window and all faults:

* `NeverSleepsOnWork` (`NoLostWakeup`): the invariant follows the loop between
  the pop and the wait: whatever was appended or requested since is about to be
  signalled or has been.
* `AnsweredOnceInOrder` (`ExactlyOnceInOrder`).
* `NothingLostAtClose` (`CleanExitSaved`): from the final snapshot on, no command
  is handled, so `disk = emu` until the exit, unless a last write has raised and
  `closeFailed` says so.
* `ContractKept` (`KeepsContract`): every step of the loop, its handlers and the
  main thread is a step of `PlayInstance` or none (`StepMaps`). It needs that
  versions only grow, that nothing runs before the boot and nobody leaves before
  the loop is closed (`StageInv`), and at the exit the invariant of
  `NothingLostAtClose` (`CleanInv`). With `SaveMayFail` the contract allows a
  crash; `SavesOnExit`, the second half of `KeepsContract`, says that an exit is
  one only where `closeFailed` holds (`ExitSaves`).

`IngestProofs`, for any number of uploads, threads, slices, names and
restarts, and all failures:

* `LockCorrect` and `InvCorrect`: the lock is held exactly at the labels
  between two writes to a staging directory.
* `StoreHoldsIntended` (`OnlyIntended`): the invariant carries through the
  calls that a thread past the digest has the announced bytes, and past the
  validator a playable ROM; what is staged under the id meanwhile is
  irrelevant because the bytes were read once.
* `OwnersOnlyCorrect` (`OwnersOnly`): an ownership, once looked up, stays true
  (`ReplacingInv`), and a thread about to write to a new directory has one that
  nobody owns and that no other thread is about to map (`FreshInv`).
* `MappedBootsCorrect` (`MappedBoots`) and `LibraryKept` (`LibraryContract`,
  the refinement to `GameLibrary`), assuming that clients give one file name
  (`NewNames = {n}`; with two, the replacements of one game can each remove the
  file of the other, see `GameStays`). Then a playable file under that name is
  never removed: a replacement writes over it and skips it in its listing. So
  what a call has stored (`Has`) is there when it maps the subdirectory, when it
  answers, and at every step that the contract sees (`GameInv`, `Lasting`). A ROM
  from before under another name may be there or not.

`StagingProofs`, for the same:

* `IngestInvCorrect` (`IngestInv`): types and the lock. Types need to know which
  call stands where (`WorkInv`: a thread in its writes has a slice left to
  write, one that rolls back has something to restore) and that the progress in
  `meta.json`, and in every copy a call holds of it, is the length of what is
  counted (`CountInv`).
* `StagedInOrderCorrect` (`StagedInOrder`): the invariant `StagedInv` says of
  every upload that a client counts on that it is there with what the client was
  told (`Kept`), and of every thread what it has left behind in the middle of
  its writes (`InStep`): the slice it is about to count, as much as is counted
  and more before the truncation, exactly what is restored after it. A sweep
  with the lock spares such an upload (`SweepSpares`); one without it only
  removes what is old or marked as `spoiled` (`SweepInv`). The other threads are
  nowhere in their writes because the lock has one holder.

  The proof has shown that a truncation to more than there is has to be modelled
  as Python does it, with zeros, before `data.bin` is a sequence in every state.

`OAuthProofs`, from one inductive invariant `IInv`, for any numbers of clients,
users, sites, requests and restarts: `OAuthCorrect`, `OneLivePerGrantCorrect`,
`TokensBoundCorrect`, `ActsAsConsentedCorrect`, `RedeemedInTimeCorrect`.
`OneLivePerGrant` is not inductive: between the pop of a page and what replaces
it, the grant is in no dictionary, and the proof needs that its holder is alone
(`HoldInv`) and that a grant at its page has nothing but pages (`PageInv`).
`RedeemedInTime` needs that what was late on arrival is still late (`LateInv`).

`PlayInputProofs`, `PlayEngineProofs` and `PlayCommandProofs`, for any limits
that `LimitsAssumption` and the other assumptions on constants allow, any
arguments, any screens and any length of a play:

* `SecondParse`: parsing, serializing and parsing again yields the same play. Its
  only condition is that a press or a wait has no budget below its frames.
* `CommandCorrect`: the inductive invariant `IInv`. It has two halves. For the
  engine it does not matter who runs a play: `EngineMoves` shows that every step
  of a call leaves the engine alone, ends a play, starts an accepted one or is
  a step of the engine, and the engine's invariants are preserved by those four.
  For the call, `LabelInv` says where it can stand and `CallInv` what has become
  of its arguments.
* `SpentBoundedCorrect` (`SpentBounded`): what a call has spent leaves room for
  the worst of the play that runs (`SpentInv`). A play takes its budget, a mash
  its gap besides (`PlainInv`), and what the budget of a script is needs the sum
  over its steps: `PlannedSum` in `PlayInputProofs` shows what the fold of
  `Planned` is, from the library's definition of folds and without induction on
  an operator. `RunWait`, `RunMash`, `RunPresses` and `RunDoor` show that every
  payload an intent can compose is accepted and what it takes at most; then there
  is one lemma per intent. It needs of the constants that three presses and a
  pulse of `skip_intro` fit into `MaxFrames` (`CommandAssumption`; in the code 48
  and 16 of 21600 frames), and that the mark for a missing key is no value of a
  payload (`TapsAssumption`).
* `FollowsScriptCorrect` (`FollowsScript`): `PhasesCover` shows that the phases
  `_phases_for` makes of a play are, laid end to end, what it asks for at every
  tick up to its budget, for any script, mash or hold. `Covers` says so of a
  sequence of phases and the frames at which they end; it holds of one step
  (`StepCovers`), of what is appended to what is covered (`AppendCovers`), of the
  alternation of a mash (`MashCovers`), and of what is cut to a budget
  (`CutCovers`). Then the engine stays on that course (`OnCourse`): the frames
  counted are those of the phases behind it and its progress in this one, so a
  chunk, which never passes the end of a phase, presses what is asked for
  (`DriveFollows`). Ticks after the last look may be the released ones of a play
  that was cut short (`SeenInv`). That a mash without text presses nothing needs
  that the screen a play begins with is remembered (`BaseKept`) and that only a
  play without an intent is rewritten (`BlindInv`, from `OfIntent`).
* `ReleasedAfterMashCorrect` needs that the ticks recorded are the frames counted
  (`JoyInv`); `LooksInTimeCorrect` that a chunk never passes a multiple of the
  interval (`NextMultiple`); `ShotsCurrentCorrect` and `ReasonIsTrueCorrect` that
  an image is filed at the end and at an interruption, and at no other place with
  these flags (`ShotsInv`), that an interruption is filed at the frame the play
  stops at but for the gap of a mash (`CutFrame`), and that a play that completes
  or reaches its budget has driven all its frames (`RanTo`); `BlockedMeansStillCorrect` that the counter of the
  monitor never runs ahead of what was seen (`CalmInv`); `StaysGoneCorrect` that
  the counter of `advance_text` is zero wherever its loop starts (`CountInv`).

Each proof has one step per action; the lemma for the steps of a call and the
one for everything else (arrivals, guests, restart, stuttering) are separate.

Only model-checked: the liveness properties (TLAPS does not treat fairness and
ENABLED here). What is kept of the images of a play is checked by TLC alone,
over all lists of up to five images (`SelectionAssumption` in `MCPlayCommand`).

## 5. Not modelled, and the plan

What is left:

1. The merging of an intent's images and reasons into one reply
   (`_merge`, `_merged`), and the packing of images.
2. The replies of a call that overlaps a shutdown, and the input log.
3. A proof of what `Select` keeps of a list of images of any length, which now is
   checked for short lists.

Not planned: the pixel arithmetic of vision and OCR, the ROM header (byte layout),
the validator (one sequential container run), catalog,
contract, configuration, compose files and scripts. The ROM store's listings
and titles only read.
