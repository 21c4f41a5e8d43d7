# Kirox in TLA+

Specifications of the parts of Kirox where the order of steps matters: the
managed service and its shutdown, `kirox stop` and the state file, streamed
chats, the client that the token scheduler and the request threads share, the
lazily created client of the HTTP application and of the MCP server, the way
files are replaced, the choice of credentials, and the loops that take bytes,
rows and requests apart. TLC checks every module on small instances; the
TLA+ proof system (TLAPS) proves every safety property the passing runs check,
the four refinements included, for every value of the constants (`ClosedOnce`
excludes one point where a signal handler may run). Paths below are relative to the
repository's `src/kirox/`.

## The system and its parts

Kirox is a local gateway: one process holds an `AssistantClient`, keeps its
token fresh and serves OpenAI- and Anthropic-compatible HTTP on a loopback
address.

| component | state | operations | talks to | what is hard | what makes it correct |
|---|---|---|---|---|---|
| `KiroxService` (`service/daemon.py`) | `_lifecycle`, `_stopped`, `_lock` (RLock), `_client_closed`, the parts it owns | `start`, `_rollback_start`, `stop`, `wait`, `run`, signal handlers | owns all the parts below; called by the main thread, the tray, shutdown requests, signal handlers | several threads stop it at once; every step may fail; a signal may interrupt any step | everything acquired is released, in order, once; nobody waits for ever |
| `TokenScheduler` (`service/scheduler.py`) | `_running`, `_thread`, `_stop_event`, `_lock` | `start`, `stop`, worker loop | calls and replaces the credentials of the client | stop against a waking worker; retries | joined before the client is closed; bounded calls; recovers from expiry |
| `ManagedHTTPServer` (`service/server.py`) | `_thread`, `_closed`, `_done`, `_lock`, the socket | `start`, `stop`, `wait`, `_serve` | Werkzeug; `wait()` of the service | the serving thread may die by itself | stopped and closed once; its death is noticed |
| HTTP application (`service/server.py`, `_http_adapter.py`, `utils/net.py`) | `shared_client`, `owns_client`, `closed`, `client_lock` | request handlers, `/internal` shutdown, `close_owned_client`, `run_server` | the client, the service's `stop` | requests during shutdown; failures while the lock is held | one client, made and closed at most once; who meets a closed one is known |
| MCP server (`mcp/server.py`) | `_client`, `_closed` of `_ClientOwner` | `call_tool`, the lifespan's and `_run_stdio`'s `close` | the client, on worker threads | the session ends or a call is cancelled while its thread runs | the same |
| streaming responses (`service/server.py`) | `upstream`, `failure` of a generator | two SSE generators, `_close_upstream` | the chat generator, the WSGI server | failure or disconnect after half an answer | well-formed stream, one verdict, upstream released |
| `AssistantClient` (`core/client.py`) | `_auth`, `_http` | `chat`, `list_models`, `list_tools`, `replace_auth`, `close` | upstream over httpx | no lock; lazily created `httpx.Client` | one credential bundle per request |
| `EventStreamDecoder` (`core/eventstream.py`) | `_buffer`, `_finalized` | `feed`, `finalize` | the chat generator | chunks know nothing of frames; corrupt and cut frames | whole good frames in order, in every chunking; what is cut or corrupt is never taken for whole (how much comes out before the error does depend on the chunking) |
| `AuthManager` (`core/auth.py`) | token, profile, source | `resolve`, `from_env`, `from_cli_db` | configuration, environment, kiro-cli databases | precedence; mixing of tiers; databases that change | token and profile of one source |
| `Config` (`utils/config.py`) | the values; the file | `load_config`, `to_file` | credentials | overlay of single fields; several writers; a killed one | readers see whole files; no temporary file stays that the system lets go |
| state file (`service/state.py`) | one file | `write_state`, `read_state`, `clear_state` | services and stop commands, all different processes | no lock between processes | only the owner's record is removed |
| process identity (`service/process_identity.py`) | none | `capture_process_identity`, `terminate_process` | the kernel | PIDs are reused | SIGKILL only to the recorded process |
| `kirox stop` (`cli/__init__.py`) | locals | post, poll, force | state file, HTTP, process identity | crash, lost answers, unreadable file, deadline, other services | "Stopped" is true if the file could be read; it returns |
| other commands, tray, logging, release scripts | | see "Not modelled" | | | |

The service creates client, server and scheduler in that order, starts the
scheduler, then the server, then writes the state file. `stop()` goes through
scheduler, server, state file and client. `kirox stop` reads the state file,
posts to the shutdown endpoint, whose handler calls `stop()` on the request
thread, and polls the file and `/health` until it may say "Stopped".

## Modules

| module | models | extends / uses |
|---|---|---|
| `ServiceLifecycle` | `KiroxService`, `TokenScheduler`, `ManagedHTTPServer` and their threads | refines `ServiceOwnership` |
| `ServiceOwnership` | what the service promises: acquire in order, release in order, stop with nothing held | |
| `Signals` | signal handlers and `KeyboardInterrupt` on the main thread | extends `ServiceLifecycle` |
| `StopCommand` | stop commands, state file, PIDs, services seen from outside | |
| `EventStream` | the decoder over frames with lengths | |
| `ChatStream` | the chat generator and the SSE generators over one response | extends `EventStream`, refines `Relay` |
| `Relay` | what a streamed chat promises | |
| `SharedClient` | scheduler, request threads, logins and `close()` on one client | |
| `Credentials` | `load_config`'s overlay, `_resolve`, the scheduler's resolver | |
| `ClientOwner` | `create_app`'s client and `_ClientOwner`, with requests or tool calls and the close | refines `OwnedClient` |
| `OwnedClient` | what the owner of a lazily created client promises | |
| `AtomicFile` | `Config.to_file` and `write_state` in several processes | refines `Register` |
| `Register` | what a file that several processes save promises its readers | |
| `HeaderBlock` | `_read_headers`, byte by byte | |
| `DatabaseRows` | `_read_sqlite`, row by row | |
| `RequestAdapter` | `parse_openai_request`, `parse_anthropic_request`, check by check | |
| `MCDecoders` | the three on all their small inputs | extends the three |
| `MCServiceLifecycle`, `MCSignals`, `MCCredentials` | sets for TLC that a .cfg cannot write | |
| `ServiceLifecycleProofs`, `StopCommandProofs`, `CredentialsProofs`, `SharedClientProofs`, `ClientOwnerProofs`, `AtomicFileProofs`, `ChatStreamProofs` | theorems | extend the module they are about (`ServiceLifecycleProofs`: `Signals` and with it `ServiceLifecycle`) |
| `DecoderProofs` | theorems about the three loops | extends `HeaderBlock`, `DatabaseRows`, `RequestAdapter` |

### How the models correspond to the code

**ServiceLifecycle.** An *activity* is a thread of control that calls the
service: the main thread in `run()`, other callers (a tray or library thread,
which may call `start`, `stop` or `wait` at any time) and shutdown requests.
`pc[a]` is the statement it is at, `cont[a]` where the call it is in returns
to, `mode[a]` whether the shared tear-down steps run for `stop()` or for the
roll-back of `start()`. `lock` is the set of activities inside the RLock,
`schLock` and `srvLock` the holders of the two plain Locks. One action is one
statement between two points where another thread can matter: taking or
releasing a lock, starting or joining a thread, a call that may raise. `Faults`
names the steps that may raise; a step of `start()` that raises goes to the
roll-back, as `except BaseException` does. `start` looks at the lifecycle
(`StartEnter`) and assigns it (`Begin`) in two steps, and `_close_client_once`
looks, marks and closes in three (`TearClose`, `TearMark`, `TearShut`), because
a signal handler can run in between. Of the tear-down only `clear_state` may
fail ("clear" in `Faults`): it raises, or it cannot read the record and removes
nothing; the tear-down goes on alike. The worker and the serving thread
have small state machines of their own (`worker`, `serve`). `closes` is a
history variable. In `StartEnter` a call in lifecycle "starting" goes through,
as in the code: the RLock lets the same thread in again.

**Signals.** A handler runs on the main thread between two statements and
freezes the frame below it, so `stack` holds the active handlers and only its
top is scheduled. Under Python's default handler the interrupted code gets
`KeyboardInterrupt`, at any label: in the `try` of `start()` it is caught by
`except BaseException` (`RaisedInStart`), in that of `stop()` it passes `except
Exception` and reaches the `finally` clause (`RaisedInStop`), and everywhere
else (before either `try`, in the roll-back, in the two assignments at the end,
in `wait()`, between the calls of `run()`) it leaves, with what the interrupted
step has done so far (`RaisedOutside`). The handler of `run()` may also arrive
inside `start()`: its `stop()` tears down what there is, marks the service
stopped and returns into a `start()` that knows nothing of it and may still
publish the service as running. `HandledSignalsRelease` says what remains true:
whoever takes the RLock and reads "stopped" finds everything released, wherever
the signals arrived (the theorem has no condition on the points). Three kinds of
points are left out of the run `signals` for handled signals, because there the
code does not do what the properties say ("What the violations mean"): inside the
two components' own locks (the run `signal_deadlock`), between `start()`'s look at
the lifecycle and its assignment (`begin`), and between the look at
`_client_closed` and its assignment (`td_mark`). (The
client is `close()`d once there, too; that a later step of that `start()` opens
a new `httpx.Client` in it is the reopening described under `ClientOwner`.)

**StopCommand.** All actors are processes. `file` is the instance whose record
the file holds; `write_state` is one step because `os.replace` is, while
`clear_state` is two (compare, unlink), because `_STATE_LOCK` belongs to one
process. A read finds what the file holds or nothing (`Readings`), because
`_read_state_unlocked` returns None on every error; `misread` is a history
variable: the commands for which a read after the first one came out as nothing
although there was a record. `Exit` is the end of a service at any point, so a crash leaves its
record. `holder` says who has a PID now, which may be a stranger or a later
instance. `forced` holds the commands with `--force`, `Legacy` the instances
whose record has no identity. `Post` succeeds, is refused, or fails after
either: an exception counts as acceptance. `displaced` is a history variable:
instances whose record another process replaced or removed.

**EventStream, ChatStream.** A frame is a length and a kind. `_buffer` is two
counters, the bytes fed and the frames taken. `Feed` does what the loop of
`feed()` does: it takes the longest run of complete good frames and raises if a
bad one follows, in which case the frames in front are gone. A generator's
suspension points are labels: `chat` for `AssistantClient.chat`, `sse` for the
two SSE generators; `yield...` labels are where `GeneratorExit` arrives. `out`
is everything sent to the HTTP client.

**SharedClient.** `autoRefresh` is `config.auto_refresh`, chosen once: without it
the worker wakes up and does nothing (`Skip`). A call of the client is a *plan*: the order in which its
expression reads `auth` and goes through the `_client` property. Credentials
are the number of the login that stored them. Requests start at any time before,
during and after `stop()`, whose order (scheduler joined, server stopped,
client closed) is that of `ServiceLifecycle`.

**Credentials.** The inputs (`given`, `paths`) are chosen once. `LoadConfig`
is the overlay with the stripping and the refusal of blank strings that
`Config` does; one action per tier of `_resolve` follows. A configured database
may succeed or fail, a known location may succeed or be skipped. `Refresh` is
the scheduler's resolver, which knows `config.db_path` and no environment.

**ClientOwner.** One module for two owners, because they differ in three
places, which are the tests of `App`: the application notes that it made the
client and forgets it when it closes, the MCP server closes whatever client it
has and keeps it; `client_lock` of the one is the event loop of the other,
which runs one thing until its next await; and `asyncio.to_thread` lets a
cancelled tool call run on in its thread (`Cancel`), whereas the reader of a
stream that leaves only ends a generator that has not begun (`Abandon`). The
property `_client` is three steps (check, open, read again), and an
`httpx.Client` is named by the user that opened it, so that one that is
overwritten can be told from one that is closed. A call may fail at any point
for reasons of its own (no credentials, an unreadable path, upstream, what
upstream answers); which status that becomes (`_mapped_error`) is not modelled.
`left` is how often `close` is
called: twice, which the MCP server does and the application's contract
("once and for good") allows.

**AtomicFile.** Writers are processes with one save each. `sweeps` is chosen
once: with it the file is the configuration, without it the state file. Every
step may fail and every writer may be killed at any point (`Killed`). The sweep
may be refused what it wants to remove, or the look at the directory
(`refused`), and goes on. A file
that was unlinked while open is written to all the same (`Fills`), and fails
only at the rename.

**HeaderBlock, DatabaseRows, RequestAdapter.** One iteration, or one check, is
one action, so that the order in which the code looks at things is there;
`MCDecoders` starts one of the three on each of its inputs. The reference
definitions have no loop: a block is accepted if and only if it can be cut
into headers, the token is the first row of a set, the reported field is a
member of the set of faulty fields. Of values there is only what the code can
tell apart (for a row: which words its key has and which shape its value has).

## Runs

| run | shows | bounds |
|---|---|---|
| `lifecycle` | releases everything, in order, whatever raises; every `stop()` returns; `run()` returns; refines `ServiceOwnership` | main thread, one free caller, two shutdown requests, all fault points |
| `signals` | handled signals at the points of `SafePoints` (those of `start()` included), and `KeyboardInterrupt` at every label, end `run()`; client closed once; handled signals release everything | two signals, one request, all fault points but "clear", so that the clause about the state file says something |
| `signal_deadlock` | *violation* of `SignalEndsRun` | two signals |
| `stop_command` | "Stopped" is true and final if no later read of the file failed; only the owner is killed; the command returns | two instances (one without identity), one stranger, one command, two PIDs, two URLs, one poll |
| `state_delete` | *violation* of `OnlyOwnStateDeleted` | as above |
| `chat_stream` | both protocols well-formed, upstream released before the verdict, refines `Relay` | up to three frames of every kind, prelude of two units, frames of three, every cut and every chunking |
| `shared_client` | one bundle per chat and per scheduler call; scheduler meets no closed client; two calls per wake-up; recovery where `auto_refresh` is on | worker, one request, two further logins, `auto_refresh` on and off |
| `credentials` | source and bundle agree; precedence; configured database only | every combination of values per tier, with padding and white space for `KIROX_*`, three database paths, two known locations |
| `mixed_tiers` | *violation* of `ProfileOfTokenTier` | as above |
| `client_owner` | one client, made and closed at most once; everyone is answered; who may meet a closed client; what stays open is explained; refines `OwnedClient` | two requests or tool calls, with and without a given client, two closes |
| `config_file` | a temporary file outlives the next save only if the system refused its removal; not all saves are lost; refines `Register` | three writers |
| `decoders` | header blocks exactly, first rows, the field that is reported | blocks of up to six bytes out of six values with one byte behind; three rows of any shape in three tables; two messages of two blocks with every fault |

Why the bounds are enough. Two concurrent shutdown requests beside the main
thread and a free caller give every pair of roles in the locks and a third
waiter; a fourth waiter waits like the third. With "clear" among the faults of
`lifecycle` the clause of `StoppedMeansReleased` about the state file promises
nothing; the theorem `StoppedReleases`, for every set of faults, and the run
`signals` cover it. Two signals are the least that nest. Two service instances and a stranger are the least for a replaced record
and for a PID that is given to a service or to someone else; one poll stands
for any number, because a poll that changes nothing leaves the command where it
was, and the theorems of `StopCommandProofs` hold for every `MaxPolls`. Three
frames are the least for a good frame in front of, and a frame behind, the one
that ends the answer; with a prelude of two units and frames of three, a chunk or the
body ends inside a frame's prelude, between the prelude and the rest or at the
end of a frame, and may span several frames. Two further logins give a refresh between two reads and an expiry of the
refreshed token. Two users of an owned client are the least of which one
overwrites what the other opened, and the close is a third actor. Three
writers are one that is killed, one that sweeps and one that is swept; with
three, losses may also go round in a ring, and the theorems of
`AtomicFileProofs` hold for any number. Six bytes hold a
header with a counted value of one byte, or two headers without, and the byte
values are a length of zero, one and two, the types that are counted and not,
the colon, and a byte that is not UTF-8. Three rows let a good one stand behind
and in front of a bad one in one table while another table has one as well.

Deadlock is checked in every passing run but `stop_command` and `config_file`,
where nothing has to happen once every process is gone. In the other modules
the ended program is an explicit stuttering action, so that TLC reports every other state without a successor.

### Fairness

- *lifecycle, signals*: every thread that can run is eventually scheduled
  (weak fairness per activity, worker step and serving step); `list_models`
  returns because its HTTP timeouts bound it; `serve_forever` polls its flag.
  Nobody has to call anything; only `run()` begins what it was called for.
  Handlers that are active return.
- *stop_command*: weak fairness of a command that has started (its sleeps and
  HTTP timeouts end). Nothing of the services, which may hang.
- *shared_client*: weak fairness of the worker; strong fairness of "upstream
  refuses" and of "the resolver reads the database", since both may fail any
  number of times in between (an error, a locked file) but not for ever.
- *client_owner*: weak fairness of each user's steps and of the close. Nobody
  has to ask, to leave, to cancel or to end the server.
- *chat_stream, credentials, config_file, decoders*: none; only safety is claimed. An upstream that
  is silent lets a stream hang until httpx's timeout, which is `ChunkFails`.

## What the violations mean

1. `signal_deadlock`. `ManagedHTTPServer.stop` holds a plain Lock across
   `shutdown()` and `join()`, and `TokenScheduler.stop` holds one for a moment. A
   second Ctrl-C there runs the handler on the same thread; the RLock of the
   service lets it in, the plain Lock does not: the process hangs.
2. `state_delete`. `clear_state` of one process and `write_state` of another
   interleave: the new service's record is deleted.
3. `mixed_tiers`. `_resolve` compares the stripped value of the configuration
   with the variable as it is, so a padded `KIROX_TOKEN` or
   `KIROX_PROFILE_ARN` passes for the file's.

Four more disagreements have no run of their own. The models contain each of
them, a property of a passing run leaves out exactly the case it is about, and
one change to that run shows it:

- *The client is closed twice.* `_close_client_once` (`service/daemon.py:145-149`)
  looks at `_client_closed` and sets it in two statements, and the RLock lets a
  handler's `stop()` in between: it closes the client, and so does the frame it
  interrupted. Kirox's own client has nothing left to close by then; one that a
  caller has passed in may mind. (Add `td_mark` to `SafePoints`: `signals` violates
  `ClientClosedOnce`.)
- *A signal is lost.* A handler's `stop()` between `start()`'s look at the
  lifecycle and `self._lifecycle = "starting"` (`service/daemon.py:78-81`) is undone
  by that assignment: the service comes up, with a client already closed if it was
  given one, and `run()`, which promises to run "until a signal", does not end.
  (Add `begin`: `signals` violates `SignalEndsRun`.)
- *"Stopped" is said too early.* `_read_state_unlocked` (`service/state.py:121-128`)
  turns every error into None, which `_wait_until_stopped` and the forced retry take
  for "the record is gone": `kirox stop` says "Stopped" while the service listens,
  although `docs/configuration.md:116` has it wait "for graceful teardown". The same
  None makes `clear_state` leave the record. (Quantify `StoppedIsTrue` over
  `Commands` instead of `Commands \ misread`.)
- *White space is not ignored.* `docs/configuration.md:83` says that a
  whitespace-only variable "does not overlay anything", :56 that such strings "are
  ignored"; `load_config` overlays every variable that is not empty, and `Config`
  refuses the result (`LoadConfig` ends in "failed", where `FirstTierWins` and
  `BundleFromItsSource` have nothing to say).

Further behaviour the models have and no document of the repository excludes,
so that no property is about it:

- `stop()` marks the service stopped in `finally`. A `KeyboardInterrupt` in the
  middle leaves the server, the state file or the client, and the next `stop()`
  returns at once (`RaisedInStop`; hence `HandledSignalsRelease` speaks of
  handled signals only).
- `feed()` raises on a bad frame and drops the messages it had decoded from
  the same chunk; in another chunking they would have been returned (`Raises`;
  `Relay` allows it).
- `list_models` and `list_tools` read `self.auth` twice, so a refresh in
  between pairs the token of one login with the profile of another
  (`ModelsPlan`, `ToolsPlan`; `ChatAndSchedulerSendOneBundle` leaves them out).
- A thread that reaches `_client` while or after the client is closed opens a
  new `httpx.Client` that nobody closes; `CHANGELOG.md:59` documents that
  requests in flight may meet a closed client. `ClosedClientIsExpected` says who
  can, and `LeaksExplained` that this and two threads that open one at the same
  time are the only ways to leave one open.
- Two saves of the configuration may sweep away each other's temporary file;
  the one that finds its own gone reports an error (`RenameFails`).
  `SomeSaveIsNotLost` says that they cannot all lose.

## What is proved

All theorems are about the specifications without fairness (`Spec`, unless
another one is named), for every value of the constants that satisfies the named
assumptions of the module.

`ServiceLifecycleProofs` (any callers, requests, handlers and faults; assumes
`DistinctActivities`, `KnownFaults`):

- `TypeInvariant`: `[]TypeOK`, in two halves (the Boolean flags, the rest).
- `StoppedReleases`: `[]StoppedMeansReleased`; `ClientIsLast`:
  `[]ClientOutlivesUsers`; `RunningWhole`: `[]RunningIsWhole`.

None of the three is inductive: that a stopped service has released everything
follows from where the activity that tore it down has been. `SafetyInv` adds:
who is past the entry of `start` or `stop` holds the RLock and there is one of
them (`LockInv`); what each phase of the lifecycle says about the others
(`PhaseInv`); how flags and threads of the scheduler and the server belong
together (`PartsInv`); what has been acquired at each point of `start`
(`StartInv`); what has been released at each point of the tear-down
(`TearInv`); and what holds while nobody is inside (`RestInv`).
With the same constants and assumptions:

- `ServiceKeepsPromise`: `Spec => OwnershipSpec`, the refinement of
  `ServiceOwnership`. `Phase` and `Held` name the refinement mapping; one lemma
  per action says which abstract step it is (`RunningMaps`: Publish) or that it
  is invisible. Most of it follows from `SafetyInv`: what is held where
  something is acquired (`StartInv`) and what is gone where something is
  released (`TearInv`). `MapInv` adds what the mapping alone needs: a tear-down
  is a roll-back exactly while the lifecycle is still "starting", and a serving
  thread that has left its loop has lost its socket.

The same module, about `SignalSpec` (any number of signals, `HandlerPoints` and
`RaisePoints` any sets of labels: also assumes `PointsAreLabels`):

- `SignalsRelease`: `[]HandledSignalsRelease`. `SafetyInv` is lost here: a
  handler's `stop()` runs inside the RLock above a frozen `start()`, so several
  activities are inside, and that `start()` later acquires in a service already
  "stopped". `SignalInv` keeps what survives. The activities inside the lock are
  frames of one thread (`FrameInv`), of which only the innermost runs, so whoever
  acquires is alone inside (`AcquiresAlone`); a frozen tear-down is therefore
  never undone, and `TearInv` holds of every frame. What a resumed `start()`
  acquires is known to the next tear-down (`KnownInv`, `AcquireInv`): in
  particular a `stop()` that found no socket has not marked the server closed.
  And while nobody is inside, the service is at rest (`RestingInv`). All of it
  holds until a `KeyboardInterrupt` is raised, which is never forgotten
  (`RaisedInv`).
- `ClosedOnce`: `[]ClientClosedOnce`, for every `HandlerPoints` without `td_mark`
  and every `RaisePoints`. The count is at most what the flag says; whoever is about to mark the client
  finds it unmarked, and one activity at most has marked it and has yet to close
  it (`CloseInv`). For that a frame of the main thread must not lie frozen between
  the look and the mark (`MarkInv`); the other threads wait for the RLock.

`StopCommandProofs` (any instances, commands, PIDs, URLs, polls; assumes
`KnownLegacy`, `DistinctProcesses`, `PollBound`):

- `TypeInvariant`: `[]TypeOK`.
- `ForceKillsOwner`: `[]KillsOnlyTheOwner`. The invariant behind it says that a
  handle that passed the comparison is the recorded process or refers to a
  process that has ended: a process that lost its PID does not get it back, so
  a PID that names the target *after* the handle was taken named it *when* it
  was taken.
- `StoppedHolds`: `[]StoppedIsTrue`; `StoppedStays`: `[]StoppedIsForgotten`, of
  the commands that have not misread the file.
  `ProcInv` says that a process keeps its PID until it ends, that who listens is
  up, and that neither the file nor a command speaks of an instance that has not
  published itself. `StoppedInv` says that the record of a service that is up is
  in the file unless another process displaced it, that a command removes only
  the record of a process it knows to be gone, and that what has been called
  stopped stays over and out of the file.

`CredentialsProofs` (any texts, inputs and known locations; assumes
`StringsDiffer`, `InputsAreStrings`, `NamesDiffer`, `FixedIsSequence`):

- `TypeInvariant`: `[]TypeOK`, in particular whoever is done has a token.
- `OneSource`: `[]BundleFromItsSource`. The invariant remembers what the
  configuration values were made of, field by field, until the tier is chosen.
- `NoSilentFallback`: `[]ConfiguredDatabaseOnly`.
- `FirstTier`: `[]FirstTierWins`. `FirstInv` carries it through a failing
  refresh and says that who looks at the databases found no token in front of
  them (`Held`: what each tier has, in the terms of the code's tests).

`SharedClientProofs` (any requests, any `MaxLogins`; assumes `DistinctActors`,
`LoginBound`):

- `TypeInvariant`: `[]TypeOK`.
- `OneLogin`: `[]ChatAndSchedulerSendOneBundle`. What a chat sends was read in
  one step; what the scheduler sends was read in two, and the invariant says
  that each equals the credentials *as they still are*, because nobody else
  replaces them (`BundleInv`).
- `SchedulerMeetsOpenClient`: `[]SchedulerFindsClientOpen`. Until the scheduler
  is dead nothing is closed (`OpenInv`), whoever opens or overwrites the client
  in the meantime.
- `TwoCalls`: `[]CallsBounded`, from what each place of the scheduler's loop says
  about the calls made (`CallInv`).

The lemma `Where` says which step of its plan a thread is at, so that the
proofs speak of positions and no longer of tuples.

`ClientOwnerProofs` (any users, both owners; assumes `DistinctNames`):

- `TypeInvariant`: `[]TypeOK`.
- `ClosedClientExpected`: `[]ClosedClientIsExpected`. Until the owner closes,
  whoever is past the check of `_http` finds it there, and open (`HttpInv`), and
  afterwards only a client the application made is closed (`OwnInv`); the MCP
  server closes when no call is waited for, and lets none in (`TaskInv`).
- `OwnersKeepPromise`: `Spec => OwnerSpec`, the refinement of `OwnedClient`,
  with one step per action. It rests on who may hold the lock (`LockInv`) and on
  what has been made, given and closed (`OwnInv`).
- `LeaksHaveReasons`: `[]LeaksExplained`. An open httpx.Client that is neither
  late nor one of two is still the one the client refers to, and the owner has
  yet to close it (`LeakInv`); there is only one client to look at, and nobody
  who is not late opens anything after the close (`OneClientInv`).

`AtomicFileProofs` (any writers; assumes `BeforeIsNoWriter`):

- `TypeInvariant`: `[]TypeOK`.
- `NothingLeftBehind`: `[]LeftoversRemoved`. What a save found left behind
  belongs to writers that are over, so it cannot come back, and waits in the
  set that the sweep works through, unless it was refused (`LeftoverInv`).
- `NotAllLost`: `[]SomeSaveIsNotLost`. The invariant `HitInv` is about losses
  before they show: if a save has been hit, some save that has begun has not.
  A sweep only happens before the sweeper has a file of its own to lose, so the
  sweeper is that save.
- `FileIsRegister`: `Spec => RegisterSpec`, the refinement of `Register`. It
  rests on `WholeInv`: what is renamed is whole, or is not there.

`ChatStreamProofs` (answers, frames and chunks of any length, both protocols;
assumes `Sizes`):

- `StreamsAreWellFormed`: `[]WellFormed`. Which event was sent last follows from
  where the generator is (`PlaceInv`), so the next one may follow it
  (`Parsable`).
- `ReleasedFirst`: `[]ReleasedBeforeVerdict`. The response is open only while
  the chat generator reads it, and until a generator has seen the end or the
  failure it has sent no verdict (`ReleaseInv`).
- `TypeInvariant`: `[]TypeOK`, the counters of the buffer included: what has been
  taken never exceeds what has been fed.
- `StreamIsRelay`: `Spec => RelaySpec`, the refinement of `Relay`. `ReadInv`
  relates the decoder to both generators: which frames have been gone through,
  that all of them were ordinary, that their texts have been relayed in order,
  and that who goes on to the verdict without a failure has seen the whole
  answer. It needs what the recursive functions compute (`EndOf`, where a frame
  ends; `InOrder`, the texts among the frames). That an element of such a
  function is what its equation says needs no recursion theorem but that the
  function exists, and that is shown by a least counterexample (`Least`: a set of
  natural numbers has a least member, from `WFMin`).

`DecoderProofs` (buffers, tables and requests of any length; assumes
`BytesAreNumbers` and `PayloadsHaveShape`, the shapes in terms of which
`RequestAdapter` describes a JSON body; nothing about rows). The theorems are
about each loop by itself (`HeaderSpec`, `RowSpec`, `AdapterSpec`), of which
`MCDecoders` runs one at a time:

- `BlocksExact`: `[]HeadersExact`. `HeaderInv`: the bytes before the header the
  reader is in are headers (`Whole`), `headers` is what the last of each name
  says (`Holds`), and *any* way to cut the block into headers cuts where this
  one begins, since a header's end follows from its bytes (`CutThere`). So when
  the reader raises there is no way, and when it is done its own cuts are one.
- `FirstRows`: `[]FirstRowsWin`. `RowInv` says of each table what the rows in
  front of the one being read had to offer.
- `OffenderNamed`: `[]ErrorNamesOffender`. `AdapterInv` says that what a check
  has let through is as it wants it, and that the transcript holds the messages
  read so far; that nothing else is wrong with an accepted body is `NoFaults`.

Only model-checked: the liveness properties (`StopReturns`,
`DeadServerIsStopped`, `RunReturns`, `SignalEndsRun`, `CommandReturns`,
`RefreshRecovers` and `Returns` of `ClientOwner`), since liveness under fairness
and ENABLED are beyond the proof system.

## Hazards

`PROJECT.json` lists what is hard to test in this code, line by line, with the
property that watches it, or says why none does.

## Not modelled

- **Tray**: a caller like any other; what is missing is that nobody waits for
  the service in tray mode, so a serving thread that dies goes unnoticed.
- **The other fields of `Config`** and the validation of a state record
  (`from_dict`): values nothing else here depends on; what does not validate is
  absent.
- **`/health`, `/`, the `Host` check, wording of answers and warnings**: they
  answer with constants or keep no state. A refused `Host` header is a request
  that is refused before the client (`Validate`).
- **`ModelInfo`/`ToolSpec` conversion, `kirox status`, logging, version, release
  scripts**: no state that anything depends on.
- **Platform code of the process identity**: how `/proc`, `sysctl` or the
  Windows API yield the identity; the model has "can" and "cannot".
- **Werkzeug, httpx, CPython, the kernel**: external; modelled by what the code
  relies on and marked so in the map.

## Plan

1. `ServiceLifecycle` with `ServiceOwnership` and `Signals`; `StopCommand`;
   `EventStream`, `ChatStream`, `Relay`; `SharedClient`; `Credentials`; their
   runs and first theorems: done.
2. `ClientOwner` with `OwnedClient`; `AtomicFile` with `Register`;
   `HeaderBlock`, `DatabaseRows`, `RequestAdapter`; signals inside `start()`;
   the theorems of `SharedClient`, `ClientOwner` and `AtomicFile`: done.
3. The theorems of `ChatStream`, the remaining ones of `StopCommand`,
   `Credentials` and `ClientOwner`, and the refinement of `ServiceOwnership`: done.
4. The refinement of `Relay`, the types of `ChatStream`, the theorems of the three
   loops and of `Signals`: done.
5. The steps between a look and its assignment in `start()` and
   `_close_client_once`, `KeyboardInterrupt` at every label, reads of the state file
   and removals of temporary files that fail, `auto_refresh`: done.
6. Next: what the liveness properties rest on, as far as it is safety (who waits
   for a lock waits for somebody who is not waiting for it), and the conversion of
   catalogue entries. For the hazards without a property `PROJECT.json` says why
   there is none.
