# TLA+ models of gosible

gosible is an Ansible-compatible configuration tool written in Go. It reads an inventory and a
playbook, opens SSH sessions to the hosts, uploads a Go agent binary to each host, and runs
modules there over gRPC tunnelled through the session's stdio. This directory holds TLA+
models of the parts of `src/` whose correctness depends on ordering, concurrency, failures and
caching, together with the TLC configurations that check them. `PROJECT.json` lists every
component, run, mutant, source mapping, finding and hazard.

## 1. The system (inventory)

| Part | Source | State | Operations | Interacts with |
|------|--------|-------|------------|----------------|
| C9 playbook executor | `executor/playbook_executor.go`, `utils/parallel` | current play, the task slice of the current `tasksExecutor`, one goroutine per host | `ExecutePlaybook`, `playExecutor.execute`, `executeStrategy` (linear / free), `tasksExecutor.execute`, `executeTasksOnHost`, `taskOnHostExecutor.execute`, `runLoop`, `executeActionIfWhenSatisfied`, `executeAction` | C8, C4, C10, C12 |
| C8 session manager | `executor/conn/connection_manager.go`, `plugins/connection_context.go` | per host: `defaultConn`, `becomeConns[user]` | `NewManager`, `GetConnForTask`, `createConnection`, `Close`, `CloseConnMgrs` | C7 (creates the agent), C9 |
| C4 variable manager | `vars/manager.go`, `vars/utils.go` | singleton; extra vars, loop vars per host, fact maps per host (never allocated, see below), one RWMutex | `SetExtraVars`, `GetVars` (13 precedence layers), `SaveFacts`, `DeleteHostFacts`, `ResetLoopContext`, `SetLoopItem`, `SetMagicVars` | C1, C3, C9 |
| C10 module executor client + agent server | `executor/moduleExecutor`, `remote/main/server.go` | per call: whether the python runtime was uploaded | `executeRemoteModuleTask` (10 s deadline, one retry with the runtime), `server.ExecuteModule` (ignores its context) | C7, C9 |
| C7 agent bootstrap | `remote/handler.go`, `remote/system_info.go`, `remote/main/main.go`, `connection/ssh` | remote files: the tmp path and the content-addressed binary path | probe (`gatherSystemInfo`), `SendFile` (fails if the file exists), self-rename, gRPC dial with a 3 s deadline | C6, C8 |
| C6 connection + become | `connection/connection.go`, `plugins/become/*` | the stderr buffer of a become session | `StartBecome` (reads chunks looking for the password prompt and the success sentinel) | C7 |
| C1 inventory | `inventory/common.go` (+ INI/YAML parsers) | groups with parents and hosts | `formatAndValidate`, `circularReference`, `DetermineHosts` | C4, C9 |
| C3 templates | `template/templar.go` | per-templar result cache | `Template` (single-variable fast path, cache) | C4, C9 |
| C2 config + callbacks | `config/manager.go`, `utils/callbacks` | settings; registered events | `RegisterEvent`, `ScheduleCallback` | everything |
| C5 registries | `modules/moduleRegistry.go`, `plugins/actions.go`, `utils/fqcn` | name maps | FQCN aliasing | parser, C9 |
| C11 lookups, C12 action plugins | `plugins/lookup`, `plugins/action` | none | `sequence`, `set_fact`, `wait_for_connection`, `debug` | C9 |
| meta tasks | `plugins/meta/meta.go` | — | `noop`, `end_play`, `reset_connection`, ... | unreachable (below) |

Flow: the CLI parses the inventory and the playbook and builds the variable manager. Then
`ExecutePlaybook` runs the plays in order and stops at the first play that returns an error.
A play does the following, in order:

1. Templates its banner.
2. Selects its hosts.
3. Builds one `conn.Manager` per host.
4. Runs its tasks:
   - under `linear`, one `tasksExecutor` per task, stopping at the first error;
   - under `free`, one `tasksExecutor` for all tasks.

A `tasksExecutor` starts one goroutine per host (`parallel.ForAll`) and joins them. A host's
goroutine does the following for each task, stopping at the first error:

1. Templates the banner.
2. Gets the session for the task's become user from the manager. The first use creates it: SSH,
   probe, upload the agent if it is missing, start it, dial gRPC.
3. Runs the loop or the single action:
   - A plugin runs locally.
   - A module is an RPC to the agent.
   - Facts in the result are saved into the variable manager.

When the play returns, a deferred call closes the managers.

Behaviours that make this hard:
- Goroutines per host that share the variable manager and join at the end.
- Lazily created sessions that are cached and reused across tasks.
- Errors on each step, and their propagation.
- An RPC deadline that the agent does not honour.
- A retry with the runtime uploaded.
- An upload and self-rename that a crash can interrupt.
- Become prompts parsed from a byte stream.

## 2. Modules (what is modelled and how)

### SessionManager (C8)
This module models the state of `conn.Manager` for every host. `defConn[h]` is `defaultConn`.
`becConns[h][u]` is `becomeConns[u]`. A session is `[st: none|open|closed, m: method]`. The
operators correspond to the code as follows:

| Operator | Code |
|----------|------|
| `NewManagers` | `NewManager` |
| `Cached` | the lookup of `GetConnForTask`, keyed by user alone |
| `Fresh` | `createConnection` |
| `ConnAfter` | what `getDefaultConn` / `getBecomeConn` hand out: a cached slot in any state, else a fresh session |
| `GetConnForTask` | `GetConnForTask`: store when creation succeeds, leave the slot empty when it fails |
| `CloseSess` | `ConnectionContext.Close` |
| `CloseMgr` | `Manager.Close`: only `becomeConns` |
| `CloseConnMgrs` | `CloseConnMgrs` |

### PlaybookExecutor (C9, composing C8 and the loop/fact parts of C4)

State:
- `pi`: the play index.
- `stage`: where `playExecutor` is: `start`, `batch`, `run`, `close`, then `done`, `aborted`
  or `panic`.
- `lo..hi`: the slice `ex.tasks`. Linear uses one task; free uses all of them.
- `scope`: `ex.hosts`.
- Per host `h`:
  - `wpc[h]`: where its goroutine is: `idle`, `run`, `loop`, `done` or `failed`.
  - `wt[h]`: its task index.
  - `left[h]`: loop items still to run.
  - `item[h]`: whether `hostLoopVars[h]` binds `item`.
- `err`: the origin of the play's returned error.

Two history variables support the properties:
- `orphans` counts open sessions left behind by finished plays.
- `lastUse[h]` holds the session the last action ran over, with the method the task asked for.

Actions, one per handler:

| Action | Code |
|--------|------|
| `PlayStart` | `playExecutor.execute` up to `executeStrategy`. The banner, `determineHosts` or `setupConnectionManagers` may fail. New managers. The strategy picks the slice. |
| `BatchStart` | `tasksExecutor.execute`: start the goroutines. |
| `RunTask(h)` | one whole `taskOnHostExecutor.execute`: banner and `setupConnection` (GetVars, `GetConnForTask`, creation may fail), then either `StartLoop` (`runLoop` up to its items) or `ExecuteActionIfWhenSatisfied`, then `Advance` or `HostFails` |
| `LoopItem(h)` | one iteration: `SetLoopItem` and `executeActionIfWhenSatisfied`. Its ends (`NextItem`, `LoopFails`) include the deferred `ResetLoopContext`. |
| `Join` | `ForAll` returns. Any failed host makes the play return its error. Otherwise linear moves to the next task, or the play ends. |
| `PlayEnd` | the deferred `CloseConnMgrs`, then `ExecutePlaybook`'s loop |
| `Terminated` | the process has exited |

`ExecuteAction` models `executeAction`:
- A plugin first templates its arguments, which may fail.
- A module call may fail (fault `remote`). Its error is dropped, because `err` is shadowed and
  the function returns nil.
- A result with facts goes to `SaveFacts`. `MakeManager` never allocates the fact maps, so this
  panics (`FactMapsAllocated == FALSE`). The `executor` run reaches this `panic` stage. No run states "never panics" as its own property,
  because every execution of `set_fact` reaches the panic. A single test of `set_fact` finds
  it, so it needs no model checker. It is still a bug: spec scenario S3 expects the fact to be
  visible to the next task.

Every template, GetVars or `when` evaluation that can fail is one nondeterministic outcome. The
constant `Faults` turns each class on: `play`, `vars`, `connect` and `remote`. `when` is true or
false nondeterministically.

Meta tasks are not inputs. `ResolveModuleArgs` (`playbook/module_args_resolver.go:49-53,70-72`)
accepts only plugin or module names as actions, and `meta` is neither. So the
`IsMetaTask`/`meta.Execute` branches of `tasksExecutor` are dead code. Even if they were
reached, `meta.Execute` looks up `task.Action.Name`, which is always `meta`, in a table keyed by
sub-action (`noop`, ...), so every meta task would fail.

### RemoteModuleCall and ModuleCallContract (C10 and the agent's gRPC server)

`RemoteModuleCall` models one host's module calls. On the client side (`executeRemoteModuleTask`
in `executor/moduleExecutor/module_executor.go`), the host's goroutine makes the calls `1..N` one
after the other. On the agent side (`remote/main/server.go`), every received request runs in its
own handler goroutine. A request is `[c, upl]`: the call, and whether the python runtime is
attached.

| Action | Code |
|--------|------|
| `Send` | `prepareArgs`, marshalling and `prepareMetaArgs` may fail before anything is sent. Otherwise `ExecuteModule` is sent. |
| `Receive` | The reply arrives in time. A `NeedsPythonRuntime` reply to an attempt without the runtime is repeated once with it. Otherwise the return is the call's answer. |
| `Timeout` | The 10 s `context.WithTimeout` expires. The call returns an error, but nothing reaches the server. |
| `HandlerStart(r)` | `ExecuteModule` up to the module's work. `PythonModule.Run` saves an attached runtime first. `getExecutor` answers `ErrNoExecutorRuntime` (which becomes `NeedsPythonRuntime`) while `py_runtime.zip` is missing. |
| `HandlerFinish(r)` | The module returns, either ok or failed. It has no fairness, because a module may hang. |

`ModuleCallContract` is what the client promises: call `c` is executed at most once, and only
after the calls before it were answered. Answers come in call order, and each is an error or
the outcome of the call's single execution. `RemoteModuleCall` implements it through
`INSTANCE ... WITH`. `executed` maps to the outcome recorded by a finished handler, and `next`
maps to the client's current call.

### PythonExecutorPipe (the agent's python executor)

This module models how `PythonModule.Run` (`module_utils/pythonModule/python_module.go`) gets
an executor from the `PythonExecutorManager` and runs a command on it, for `K` handler goroutines.
Executors are numbered 1..K in the order they are made (`exec[g]`: `nextTag`, the stdin and
stdout lines, `invalid`, and whether the process runs); `cur` is `m.current`. The steps are:
- `GetExecutor` is `getExecutor` (`python_executor_manager.go`). It returns `m.current` unless
  that is nil or invalid. Otherwise `newExecutor` either fails at `cmd.Start` (counted in
  `spawnFails`) or makes a new executor, and the handler first runs the `hello` command on it.
- `Start` checks `invalid` and takes `e.nextTag`. `Inc` is the separate `e.nextTag += 1`.
- `WriteHdr` and `WriteReq` are `writeLine`, which fails and invalidates once the process is gone.
- `ReadHdr` is `readLine` plus the tag check. On EOF or a wrong tag it invalidates, which kills
  the process.
- `ReadBody` is the last `readLine`. After `hello`, the executor becomes `m.current` and the
  handler starts its own command. Otherwise `BodyResult` is `Run`'s reading of the response.
  A header line decodes into an empty response, which `Run` reports as an empty success.
- `Fail` is `Run` returning an executor error.

The python side, `py_runtime`, is not in the repository. It is assumed (spec-modelled) to be a
sequential loop:
- `Runtime` reads two lines. It answers a header echoing the first line's tag and a body for the
  second line. The module may raise. A malformed pair gets an exception body.
- `Exit(g)` means process `g` exits on its own (`exited`).

`Sequential = TRUE` restricts the handlers to one call at a time, which is how a single host's
calls arrive unless a deadline expired (see `AgentPythonCall` and `python_concurrent`).

### AgentBootstrap (C7)

This module models `remote.Execute` (`remote/handler.go`) run against one machine by several
attempts, which may run concurrently or one after another. The shared state is the remote
content-addressed directory: `bin` (`gosible_client`) and `tmp` (`gosible_client_tmp`: absent,
partial or full).

| Action | Code |
|--------|------|
| `Probe(s)` | `gatherSystemInfo`, then `sendToRemote`'s choice: reuse `gosible_client` if `HasRunner=1`, otherwise upload. The ssh command may fail. |
| `LegacyDir(s)` | `sendToRemoteLegacy` for a become user: `mktemp -d`, always followed by an upload |
| `SendStart(s)` / `SendDone(s)` / `SendBreak(s)` | `SendFile`: scp creates the file (and fails when `gosible_client_tmp` exists, per the FIXME in `ssh.go`), then completes or breaks off |
| `Exec(s)` | `execute`: `ExecInteractiveCommand` (may fail), the agent's `renameSelf` (`RenameSelf`: under the fault `rename` it fails and main serves on), then the 3 s `grpc.DialContext`, which may time out |
| `ExecBecome(s)` | `ExecInteractiveCommand` with `becomeArgs.Become`: the session (which may fail) calls `StartBecome`, which starts the become command (`StartCmd`) |
| `BecomeRead(s)` / `BecomeRemote(s)` | `StartBecome`'s reader, and the become program with the ssh transport (`BecomePrompt`); the agent's `renameSelf` runs when the program authenticates |
| `BecomeDone(s)` | `StartBecome` returned: an error ends the attempt through `done`; the pipes go on to the dial, which may time out |
| `Crash` | The controller dies, and every attempt in flight stops. Idle attempts are a later run. |

`Become` holds at most one attempt (`s3` in `MC_AgentBootstrap`), because the reader's variables
are those of one session. Reading one session's stderr touches nothing the other attempts share.

### BecomePrompt (C6, `StartBecome` with the sudo and su plugins)

`connection.StartBecome` (`connection/connection.go:65-107`) starts the command built by the
become plugin. When `ExpectPrompt()` holds, it reads the session's stderr into a buffer of
`saveOutputReadLen` bytes and appends the **whole** buffer to `output` after each `Read`. The
first loop stops on the success marker or the password prompt. After a prompt it writes the
password, clears `output` and reads until the marker.

Bytes are symbols:
- `Success` stands for `BECOME-SUCCESS-<id>` (two symbols);
- `Prompt` is sudo's `-p` prompt (four symbols, longer than the buffer, like the real 70 bytes
  against 48) or su's `Password:`;
- `"Z"` is the zero byte of a fresh buffer.

| Definition | Code |
|------------|------|
| `BufLen` | `len(s.success)+1` for sudo, `1` for su |
| `ExpectPrompt` | `b.prompt != "" && GetOption("become_pass") != nil`. The option is a string, never nil. sudo sets its prompt only with a password; su always does. |
| `CheckSuccess` / `CheckPasswordPrompt` | `Base.CheckSuccess` and `CheckPasswordPrompt` (per line) and su's regexp (whole output). Neither word holds a line break, so a substring test models both. |
| `RemoteStart` / `RemoteAuth` | What the command does: `echo MARKER >&2; cmd` without a password, or a prompt and a read of stdin. A wrong password gets sudo's `Sorry, try again.` and a new prompt, or su's `Authentication failure` and exit. |
| `Deliver` | The ssh transport moves any nonempty part of what was written into the channel buffer, as one packet. |
| `Read` | `Stderr.Read` returns `min(len(buffer), bytes delivered and unread)`, as x/crypto/ssh's channel buffer does. The whole buffer is appended. |
| `ReadEof` / `Broken` | `Read` returns EOF after the program exited, or an error when the session breaks |
| `Loop1Exit` / `Loop2Exit` | The code after each loop |


### InventoryLoad (C1 inventory, INI and YAML parsers)

`InventoryLoad` models `parseIni` (`inventory/ini.go`) line by line, then `formatAndValidate`
(`inventory/common.go`), then the readers of the loaded data: `Group.GetHosts` and
`DetermineHosts`. The variable `d` is the `Data` value: the group and host maps, each group's
`initialized` flag, and the fields `Hosts`, `Groups`, `Parents` and `Children`. The Go lists
are sets here, because every reader ignores order and duplicates. The parser state is the
current `group`, its section `typ`, and `st` (`parsing`, or what `parseIni` returned).
`fmt` says whether the file is INI or YAML. For YAML, `doc` is the document: a sequence of
top-level entries, each a group name with a null value or with `hosts` and `children`
(`YamlEntry`).

| Definition | Code |
|------------|------|
| `HandleSectionLine` | `handleSectionLine`: `[g]` and `[g:children]` initialize `g`, and `[g:vars]` does not |
| `HandleDataLine` | `handleDataLine`: a host line, a child line, a variable line, or a parse error when the line does not fit the section (`Accepts`) |
| `AddGroup`, `AddHosts`, `AddChildren` | one pass of `getData`'s loop (`yaml.go`): `addGroup`, `processGroupElement`, `addHosts`, `addGroups`. A null `children` value is an error. A child whose value is not null panics (below) |
| `FormatAndValidate`, `AddUngroupedGroup`, `AddToAllGroup`, `RemoveAllGroupFromHosts` | the normalisation, in the code's order |
| `Validate`, `ValidateGroupInitialization`, `ValidateNoCircularReferences`, `CircularReference` | the validators. `CircularReference` is the code's bounded depth-first walk, written as a RECURSIVE operator |
| `GetHosts`, `DetermineHosts`, `DetermineHostsFromGroupsPattern` | host selection for a play's `hosts:` pattern |

The reference definitions come from spec §3:
- `HasCycle` uses `TransitiveClosure` from the community module `Relation`.
- `Members` computes group membership upwards over `Parents`.
- `SpecSelect` folds the host-selection expression right-recursively.

`MC_InventoryLoad` enumerates every file of up to `MaxLines` lines over the names `a` and `b`
(plus `all` and `ungrouped`). It also fixes the patterns:
- the empty pattern and `all`;
- every single name;
- every pair of hosts;
- every two-token colon pattern with each operator.

It also enumerates YAML documents (`MCYamlDocs`): every one-entry document with any hosts of
`a`, `b`, and with null children or at most one child, null or not; and every two-entry
document with distinct names whose entries are null or hold at most host `a` and one null
child. That covers a two-group cycle, a group named as a child before its own entry, a host
in two groups, and the panic.

**Observation (YAML children).** `addGroups` switches on a child's decoded value with the
cases `nil` and `yaml.MapItem`. yaml.v2 decodes a nested mapping as `yaml.MapSlice`, so a child
group with any content is appended as a nil `*Group`, and `g.Parents` at `yaml.go:115`
panics. The common nested form `all: {children: {web: {hosts: {h1: }}}}` therefore crashes
gosible. `AddGroup` models this, and TLC reaches `st = "panic"` in the `inventory` run. A
property "loading never panics" would need a violation run of its own, so the defect is a
hazard in `PROJECT.json`.

### AgentPythonCall (C10 composed with the python executor)

`AgentPythonCall` composes `RemoteModuleCall` (`Python <- 1..N`, the runtime already on disk)
with `PythonExecutorPipe` (`K <- N`, not sequential). The gRPC handler of call `c` is pipe
handler `c`:
- `RemoteStep` is a client step or `ExecuteModule` before `Run` (`agent/server.go`).
- `PythonStep(c)` is a step of `executeCommand`, enabled only while call `c`'s handler is
  running its module (`PythonModule.Run`, `python_module.go`).
- `PythonProcess` is the python side.
- `RunReturns(c)` converts what `executeCommand` returned into the handler's `Return`: an error
  or exception is a failed return, an empty body a success. `got[c]` records whose request the
  decoded body answered.

The client's deadline lets the host's goroutine send call 2 while call 1's handler is still
inside `executeCommand`, so two handlers share the executor's unlocked tag counter and pipes.

### FreeFormArgs (free-form argument parsing)

`FreeFormArgs` models `splitArgs`, `joinArgs` and `ParseKeyValuePairsString`
(`parsing/splitter.go`, `parsing/quoting.go`) and their caller `normalizeParameters`
(`playbook/module_args_resolver.go`) for a task written as `module: k=v ...`. A string is a
sequence of one-character strings over the characters that steer the parser (blank, line break,
both quotes, backslash, `=`, braces, `%`) and two letters: `k`, and `c`, which spells a key on
`ignoredFromRawParams`.

The loops of the code are actions, so a state is one iteration:

| Action | Code |
|--------|------|
| `Resolve` | `normalizeParameters`: a non-string args value is an error before parsing; otherwise `splitArgs` starts (`StartSplit`) |
| `SplitToken` | one iteration of the token loop: a repeated blank, a line continuation, or `Token` (quote state, the appends, the three `countJinja2Blocks` depths) |
| `SplitLine` | the end of a line: the line break put back, `lineContinuation` cleared |
| `SplitReturn` | `splitArgs` returns its params, the unbalanced error (`ParseKeyValuePairsString` returns `nil`), or panics at `params[len(params)-1]` |
| `KvWord` | one iteration of `ParseKeyValuePairsString`'s loop (`decodeEscapes`, `findUnescapedEqualsSignPos`, `checkRaw`) |
| `KvReturn` | `_raw_params` by `joinArgs`, laid over the task's args mapping |
| `Rejoin` | `joinArgs` of the first split's params, split again for the spec's round-trip law |

`MC_FreeFormArgs` enumerates every string of up to three pieces from a set of 15 (words,
`k=k`, `c=k`, an escaped `=`, opening and closing quotes, an escaped quote, a lone backslash,
the `{{ }}` and `{% %}` delimiters, blank, line break), for actions on and off the free-form
list and with args mappings that are empty, a string, or a list. The model reproduces every
ASCII vector of `splitter_test.go`.

Observations that no run states as a property (except where said):
- (PlaybookExecutor) `getBecomeConn` keys become sessions by user only. A `su` task for user
  u1 therefore runs over the `sudo` session cached for u1, while spec §3 keys sessions by
  (become, user, method, flags). `SessionMatchesBecome` states the spec's rule. A cfg like
  `MC_executor.cfg` with `Plays <- MixedBecomePlays` and that invariant shows the violation
  at the first play's second task.
- A string that starts with two blanks, with a blank line, or that is only blanks panics the
  controller (`params[len(params)-1]` on an empty slice, `splitter.go:167` and `:246`).
  `NoPanicAfterWord` checks that no other string does.
- An unbalanced quote or block makes `ParseKeyValuePairsString` return `nil`. The task then
  runs with its args mapping alone, where spec §7 makes a free-form parse error fatal.
- `k="a\\"` is reported unbalanced: `getQuoteState` treats any quote after a backslash as
  escaped, even when the backslash is itself escaped.

### GetUrl (the get_url module on the agent)

One call of `get_url`'s `Module.Run` (`src/modules/get_url/get_url.go`) with the `GosibleModule`
helpers it calls (`gosible_module.go`) and `pathUtils.Copy` (`src/utils/path/path.go`). The
module is created fresh for each call and runs sequentially, so a behaviour is one call. `pc`
is the step of `Run`, and each action is one helper with every early return of `Run` after it:
`HandleCheckSum`, `PrepareDownloadToFile`, `DownloadToTmpSrc`, `CheckNoDestFile`,
`HandleBackup` (with `BackupLocal`), `AtomicMove` (with `TryRenameWorkarounds` and
`TryRenameWithTemp`), `CheckChecksum`, `SetFsAttributes` and `Close`.

File contents are model values (`A`, `B`) plus `"empty"`. `dest` is a content, `"absent"` or
`"dir"`; `env` is the host (directory and file writable, how `os.Rename` fails, what the server
holds); `temps` are the temporary directory and file this call made. The outcomes of the host
(a failed request, a failed copy, a failed `chattr`) are choices of the action that meets them.
`Copied` is what `pathUtils.Copy` leaves behind. `CopyToFile` calls `io.Copy(srcFile, dstFile)`
with its arguments swapped, so `Copied` is the empty file. Whether that `io.Copy` returns an
error depends on the Go release: `copy_file_range` into the read-only source fails with
EBADF, and a release that falls back to reading and writing copies nothing and returns nil.
`env.copyErr` takes both, and every caller (`BackupLocal`, `tryRenameWithTemp`, the
unsafe_writes copies) returns the error when there is one. `AtomicMove`'s `CopyStat` error,
its chmod of a newly created `dest`, and the errors of `DigestFromFile`,
`LoadFileCommonParams` and `Stat` are failures of the step that meets them.

Read from the code and kept in the model:
- `handleCheckSum` parses the sum with `ParseInt(sum, 16, 64)`, which rejects every real digest.
- `prepareDownloadToFile`'s comparison is inverted.
- A 304 answer to the `If-Modified-Since` request is a failure.
- `checkNoDestFile` hashes `m.Params.Dest`, not the joined name, so a directory `dest` fails.
- The last `UpdateReturn` of `Run` resets `changed`.
- `tryRenameWithTemp` renames the source twice.

### ServiceModule (the service module on a Linux host)

One call of `service`'s `Module.Run` (`src/modules/service/service.go`) over `baseService`
(`base_service.go`) and `linuxService` (`linux_service.go`). The host is a record of its init
system, its sysv enable tool, the `service` binary and an init script (`MC_AgentModules` lists
nine: systemd, upstart with and without `service`, OpenRC, four sysv tools and none). `svc` is
the service itself. A command either exits 0 and takes effect, exits non-zero, or cannot be
started (`RunCommand` then returns a nil result). The actions follow `Run`:
- `ParseParams`, `GetServiceTools` and `HandleServiceEnabled` (one operator per enable method);
- `ServiceStatus` (`CheckPs` or `GetServiceStatus`);
- `CheckServiceChanged`, `ModifyServiceState` (`ServiceControl`, `HandleRestart`,
  `HandleNonRestart`, then `checkRc`) and `AddStateToReturn`.

`running` is the shared `*bool`: `"nil"`, `"true"` or `"false"`. A nil result that `checkRc` or
`checkPs` dereferences is `ret.panicked`.

Read from the code and kept in the model:
- `getServiceTools` stats `/etc/init.d/<name>` with `IsRegular` and returns the error of a
  missing file (`linux_service.go:50-54`), whatever the init system, so a service without an
  init script fails on every host.
- `getSystemdStatusDict` returns early when `systemctl show` succeeded (`err == nil`,
  `linux_service.go:104`), so on systemd every call with a state and no `pattern` fails; with a
  pattern `checkPs` replaces the status call.
- The OpenRC zap is `rc-service zap` without the service name (`:380`), so it never resets a
  crashed service; its exit code is ignored.
- `checkRc` accepts a non-zero exit whose stderr says "Job is already running" (upstart), for
  a plain start and for the summed result of `handleRestart`.
- `sysvServiceEnable`'s "does not support chkconfig" test is inverted (`:570`), so enabling on
  a chkconfig host always fails.
- On OpenRC the enable command is `rc-service`, which no branch of `serviceEnable` matches,
  so `enabled` succeeds without doing anything.
- The local `Return` is never merged into the module's (`service.go:87`), so the module never
  reports `changed`.

### VarsManager (C4, the variable manager)

`VarsManager` models `vars/manager.go`. Every method takes the manager's lock for its whole
body, so each call is one step. `GetVars` only reads, so it is an operator of the state.

- **State.** `extraVars`, the three fact maps and `hostLoopVars` are the `Manager`'s fields.
  `conf` is what the parsers produced and stays fixed: the vars of group `all` and of each
  other group, the host's groups and vars, and the play's and task's vars templates. `phase`
  records whether `SetExtraVars` failed or a fact write panicked, either of which ends the
  process. A Vars is a function from the names it sets. A value is a tag naming its source,
  such as `"all"`, `"a"`, `"host"`, `"play"` or `"e1"`. A play or task var is a literal or the
  template `{{ k }}`.
- **Actions.** `SetExtraVars` (once, before the play, as `playbook/play.go` calls it),
  `DeleteHostFacts`, `SaveFacts`, `ResetLoopContext` and `SetLoopItem`.
- **Fact maps.** `MakeManager` allocates only `extraVars` and `hostLoopVars`. `SaveFacts`
  into any bucket therefore panics, and `DeleteHostFacts` is a no-op on the nil map.
- **GetVars.** It is the sequence of `combine` calls in `manager.go`:
  - `groupVars` walks `VARIABLE_PRECEDENCE` (`ApplyPrecedence`), with the host's groups
    sorted by name (`SortedGroups`);
  - then `hostVars`, `hostFactVars` and extra vars;
  - then `playVars`, rendered in the environment so far (`TemplateVarsTemplates`,
    `Render`), and extra vars again;
  - then `taskVars`, also rendered, `includeVars` and extra vars a third time;
  - then `SetMagicVars` of the result, and finally `loopVars`.
- **Templates.** An undefined name in a template either fails or renders empty, as a fixed
  choice of each behaviour. `doTemplate` ignores `FailOnUndefined` and leaves the outcome to
  gojinja2, which is not in the repository.
- **SetExtraVars.** Its raw forms are `key=value`, a bare word, an empty string, `@file`,
  yaml, a path without `@`, and an item with unbalanced quotes. A bare word is stored as
  the extra var `_raw_params`; an unbalanced item is dropped without a word. A path returns
  an error after the earlier items were already combined.

`PrecedenceLaw` compares `GetVars` with an independent reading of spec §4.5. In that reading
the layers form a list and each name takes its value from the highest layer that sets it.
Play vars are rendered in the environment of the layers below them, and task vars the same
way. Both sides use the same `SetMagicVars`, so the law checks the layering around
canonicalisation, not the alias order (see the observation below).

`ExtraVarsWin` relates the raw `-e` list to every environment: the last `key=value` of each
key wins, except for the names the magic and loop layers set above the extra vars.

`groupVars` sorts `host.Groups` in place while holding only the read lock. This is not a
race in the program: two `GetVars` calls for the same host never overlap. A host's goroutine
makes that host's calls, and the meta tasks and `setupConnectionManagers` call from the play's
goroutine before the host goroutines start.

**Observation.** `SetMagicVars` (`manager.go:356`) lets the last alias present win. Spec §8
says the canonical value is the first defined alias. With both `ansible_ssh_host` and
`ansible_host` set, `remote_addr` takes `ansible_host`, so the spec's property would be
violated. It is not a run of its own: each violation run checks one property, and the
project's violation runs are spent on other findings.

### Hostname (the hostname module on the agent)

One call of `hostname`'s `Module.Run` (`src/modules/hostname/hostname.go`). The module is
created fresh for each call and runs sequentially. `strat` is the strategy `getStrategy`
returns: the file strategy (Debian family, OpenBSD, SLES), redhat, openrc, alpine, freebsd,
solaris, systemd, generic (`baseDeriverStrategy`), or darwin (not implemented). `host` holds
the running hostname (`kern`), the permanent store (`store`: a file, the systemd static name or
the Solaris nodename) and the systemd pretty name. A file is missing, not a regular file,
regular without the strategy's entry line, or holds a name. Each strategy's getters and
setters are operators named after the Go methods (`fileGetPermanent`, `alpineSetCurrent`,
`systemdSetPermanent`, ...). They return the set of outcomes a command or write can have:
with `Fallible`, each command and write may fail, and a failed rewrite may leave the file
truncated. The effects of the host's commands are taken from what they do, not from this
code: `hostname -F file` loads the file's content, and Solaris's `hostname name` sets both
the nodename and the running name.

| Action | Code |
|--------|------|
| `ParseAndGetStrategy` | `ParseParams` with `Params.Validate`, then `getStrategy` and the strategy's constructor (darwin fails; `GetBinPath` may) |
| `ReadHostnames` | `Run` reads the current and the permanent name and fails if either read fails |
| `updateCurrentHostname` | `updateCurrentAndPermanentHostname`'s first step, with `updateCurrentHostname` |
| `updatePermanentHostname` | `updatePermanentHostname`, the return of `updateCurrentAndPermanentHostname`, and the rest of `Run` |

The ghost `swallowed` records that an update step hit an error that was dropped.
`updateCurrentAndPermanentHostname` turns every update error into `(false, nil)`.
`if err != b.setCurrentHostname(...)` compares the set error with the read's `nil` and returns
`nil`. So with a failing command the call returns success, and its `changed` may be false
although the host changed. No run states this as a property: every model with a failing
command breaks such a property at once, so it would need a violation run of its own. The
properties are therefore stated for calls that dropped nothing.

### Command (the command and shell modules on the agent)

`Command` models `command.Module.Run` (`src/modules/command/command.go`; `shell` sets
`_uses_shell` and calls it) together with the `GosibleModule.RunCommand` it calls
(`module_utils/gosibleModule/gosible_module.go`). A behaviour is up to `MaxCalls` runs of one
task on one host, as when a playbook is run again. Each run gets a fresh module (`NewReturn`),
and the host's file system `fs` (whether the path `F` exists) persists between runs. The
task's arguments `params` range over `ParamSpace`:
- every form of the command string, which may be unset, a word, blanks only, or an unclosed
  quote;
- every form of `argv`: nil, empty or a word;
- a first word that is an absolute path or a bare name;
- shell, warn, creates and removes on `F`, chdir, stdin;
- what the command does to `F` when it exits 0: creates it, removes it, or leaves it.

The started process is a second actor (`proc`, `ProcessExits`). It exits with 0 or 1 at any
point after `Start`.

| Action | Code |
|--------|------|
| `ParseParams` | `Run`'s `ParseParams` (mapstructure decode) with `prepareVars` |
| `checkPrerequisites` | `checkPrerequisites`: `checkCommand` under warn (`CheckCommandPanics`, `CheckCommandFails`), then removes, creates, and exactly one of cmd/argv |
| `getCmd` | `getCmd`: `getArgs` (`/bin/sh -c` under the shell, else `shlex.Split`) and `getCmdHelper` (`args[0]`, then the chdir check) |
| `Start` | `RunCommand` up to `cmd.Start`. `exec.Cmd{Path: args[0]}` does no PATH lookup |
| `WriteStdin` | the write and close of `Data` (stdin plus a newline) |
| `Wait` | `readOutput` to EOF, `cmd.Wait` and `waitError`, then the `UpdateReturn` of `runCommand` |
| `Rerun`, `Finished` | the task run again on the same host; the last run returned, or the agent died |

A panic ends the agent (`pc = "panic"`): nothing in `src/remote` recovers.

Observations that no run states as a property:
- A command that exits non-zero is not a failure. `waitError` returns the exit code with a
  `nil` error (`CheckRc` is off), `runCommand` only sets `Rc`, and no caller reads `Rc`.
  So `command: false` succeeds. Spec §7 lists a non-zero exit among the remote execution errors
  recorded on the task result, and a failed task halts its host.
- Without the shell, a bare program name (`command: id`) never starts. `getCmdHelper` builds
  `exec.Cmd{Path: args[0]}` directly, and `Start` execs the relative path. Every test of the
  package sets `UsesShell`.
- With `warn: yes`, a blank command or a missing or empty argv panics in `checkCommand`
  (`splitCmd[0]`). This happens before the cmd/argv check could report it. A blank command, or
  an empty argv without the shell, panics at `args[0]` in `getCmdHelper` too.
- A command given stdin that exits before reading it makes the write fail with EPIPE.
  `RunCommand` then returns without `Wait`, and the task is reported failed although the
  command ran.
- An existing `creates` path or a missing `removes` path is an error, not a skip as in
  Ansible. The package's tests expect this.

### Sequence (C11, the sequence lookup)

`Sequence` models `Run` of `plugins/lookup/sequence/sequence.go` as operators:
- `Reset`;
- `parseSimpleArgs` and `parseKvArgs`, sharing `Override`;
- `sanityCheck`;
- `generateSequence`, whose loop is the RECURSIVE `Numbers`;
- `RunFrom`, RECURSIVE over the terms.

A term records:
- whether it matched the shortcut expression;
- which of start, count, end and stride it sets;
- which of those `ParseInt` rejects;
- their values;
- the format: none, good (exactly one `%`, contains `%d`) or bad;
- whether key=value pairs name an unknown key.

The number strings are abstracted to their parse result, and the items to the numbers before
`Sprintf`. The one action, `Lookup`, is the template engine's call. `RefRange` is the
reference: the progression from start by stride that stays between start and end, computed by
counting rather than looping. `EndTermsMatchReference` compares `Run` against it.

Observations that no run states as a property:
- `CountYieldsCount` (stated in `Sequence`) is violated. For a count, `sanityCheck` sets
  `end = start + count*stride - 1`, which is right only for a positive stride. With
  `start=-1 count=1 stride=-1` the lookup yields three numbers. Checking the inventory cfg with
  that invariant shows it.
- `-1` marks "not given". So `end=-1` alone is rejected ("must specify count or end"), and
  `count=-1 end=3` is accepted although it gives both. Spec §4.8 asks for exactly one.
- `count*stride` is int64 arithmetic and may overflow; the model's values are small.

### MC_AgentModules (the agent running a module call)

`server.ExecuteModule` finds a fresh module with `ModuleRegistry.FindModule` and runs it. The
four modules (get_url, service, hostname, command) share no state, so `MC_AgentModules`
instantiates each with renamed variables. A behaviour is one call of one of the first three,
or two runs of a command task (`which`), and the other modules' variables stay `"off"`. The
state space is therefore the sum of the four, not their product.

## 3. Runs

The executor runs (`executor`, `linear_isolation`) instantiate `MC_PlaybookExecutor` with two hosts (`h1`, `h2`), two become users and the
methods `sudo` and `su`. Loops have 1 or 2 items (`MaxItems = 2`).

| Run | Expect | Properties | What it shows |
|-----|--------|------------|---------------|
| `executor` | pass | `TypeOK`, `LoopItemScoped`, `DispatchOverOpenSession` | Two free plays (a become loop, modules and a plugin loop), then a linear play, an empty play and a play whose module returns facts, over both hosts with every fault on. (1) `item` is bound only inside `runLoop`, on every exit of it, the failing ones included. (2) A later play never reuses a session closed at the end of an earlier one. No run claims that a playbook run ends: a session start can block forever (see `become_sudo`). |
| `linear_isolation` | violation | `FailureIsolation` | Under linear, one host's failure stops the other hosts before their next task. The spec (§4.6 step 6, §5, §6) says only the failing host stops. |
| `remote` | pass | `TypeOK`, `AtMostOnceExecution`, `AllCallsReturn`, `ImplementsContract` | Three calls, two of them python modules with the runtime missing, every deadline/failure outcome. (1) A module runs at most once per call even with the runtime retry. (2) Every call returns, even when a module hangs. (3) The client refines `ModuleCallContract`. |
| `pipe_sequential` | pass | `TypeOK`, `FailuresPaidByExits`, `AllCommandsReturn` | Three sequential python module calls with failed process starts, module exceptions and the process exiting at any point. (1) A dead process costs one failed call: the executor error count never exceeds the exits plus failed starts, so `getExecutor` replaces an invalidated executor. (2) Every call returns. |
| `python_concurrent` | violation | `CallGetsOwnResult` | Two python module calls of one host (`AgentPythonCall`, `N = 2`). Call 1 times out while its handler is inside `executeCommand`; call 2's handler then shares the executor with it, and call 2 succeeds with the result of call 1's request. The spec (§5) says a host runs one module at a time and the python worker serialises requests. |
| `bootstrap` | pass | `TypeOK`, `InstalledAfterUp`, `AuthenticatedBeforeUp`, `AllAttemptsEnd` | Three attempts against one machine, in any interleaving, with ssh failures, dial timeouts and controller crashes. The third uses su (`nopass`, right or wrong password), with packets split anywhere. (1) Every attempt ends. (2) An attempt that came up over the content-addressed path leaves `gosible_client` for later probes. (3) `StartBecome` hands on the pipes only after the remote authenticated, with no password line left for the agent. |
| `bootstrap_crash` | violation | `NeverWedged` | A crash after `SendFile` created `gosible_client_tmp` and before the agent renamed it leaves the file behind. Every later upload then fails on it, so the machine cannot be bootstrapped again. |
| `become_sudo` | violation | `AllAttemptsEnd` | The become attempt uses sudo with the right password and no faults. The prompt or marker reaches the channel in two packets. The short read leaves stale bytes between the halves (`M1 P2 P3 M2`), nothing matches, and `StartBecome` blocks on a silent stderr. `ExecInteractiveCommand` then waits on `<-done` forever. With `Remotes = {"wrong"}` the same property fails because sudo re-prompts on stdin while the second loop waits on stderr. |
| `inventory` | pass | `ParseTypeOK`, `CycleDetectionExact`, `AllCoversHosts`, `GroupPatternsMatchSpec`, `BlockFreeRoundTrip`, `NoPanicAfterWord`, `PrecedenceLaw`, `ExtraVarsWin`, `EndTermsMatchReference` | The controller's two parsers of user input and its variable manager, one per behaviour (`MC_InventoryLoad` composes `InventoryLoad`, `FreeFormArgs`, `VarsManager` and the sequence lookup `Sequence`; the state space is the sum). Every INI file of up to 5 lines over two names, and the YAML documents of `MCYamlDocs`: (1) `validateNoCircularReferences` reports a cycle exactly when the group-parent graph has one, for every chain length the names allow; (2) every loaded host is under `all`; (3) `DetermineHosts` selects what spec §3 defines for the special forms, single names, comma lists and colon lists of group names (a colon list naming a host is the divergence in the observations below). Every free-form string of `MC_FreeFormArgs`: (4) `splitArgs(joinArgs(xs)) = xs` for every string without a jinja2 delimiter, across blanks, line breaks, quotes and escapes (it fails with one: see the observations of retired runs); (5) `splitArgs` panics only on a string that starts with a blank, a line break or a line continuation. Every manager of `VM` (one host in groups `a` and `b`), for every host or none and with or without a task: (6) `GetVars` binds each name as spec §4.5's precedence list does, with play and task vars rendered in the layers below them; (7) once the play runs, the last `-e` value of each key is bound in every environment below the magic and loop layers. Every sequence lookup of one term, or of two end terms: (8) a lookup of terms given by their end that returns numbers returns each term's reference progression, in order. |
| `agent_modules` | pass | `TypeOK`, `CleanOnSuccess`, `SafeSuccessIsFresh`, `RunningAsAsked`, `ConvergesUnlessSwallowed`, `RunsOnceWhenGuarded` | One get_url call over every checksum form, backup, unsafe_writes, tmp_dest, rename failure, host and both outcomes of `pathUtils.Copy`, one service call over every state, enabled value and host, one hostname call over every strategy, file state and failing command, or two runs of a command task over every argument form (`MC_AgentModules`). (1) A get_url call that returns success has removed its temporary file and directory. (2) One that downloaded without unsafe_writes leaves `dest` holding the server's content: every path through the rename workarounds that empties `dest` ends in an error. (3) A service call with a state that returns without error, and knew whether the service ran, leaves it running for started/reloaded/restarted and stopped for stopped, unless OpenRC still shows it crashed (see the observations). (4) A hostname call that returns success without dropping an error leaves both of its strategy's getters reading the name. (5) A command task whose command creates its `creates` path (or removes its `removes` path) never starts its process again once a run of it exited 0, however the process's exit races the stdin write. |
| `get_url_backup` | violation | `BackupHoldsOldContent` | get_url with `backup: yes` over an out-of-date file. `BackupLocal`'s copy goes through `pathUtils.Copy`, whose `io.Copy(srcFile, dstFile)` copies from the freshly truncated backup into the read-only source, so the backup file is empty, whether the build's `io.Copy` then returns EBADF (the call fails) or nil (it goes on). The option exists to keep the old content. |
| `hostname_alpine` | violation | `RunningNameSet` | The alpine strategy with every command succeeding (`Hostname` with `MC_hostname_alpine.cfg`). `updateCurrentHostname` runs `hostname -F /etc/hostname` while the file still holds the old name, and only then does `updatePermanentHostname` write the new one. The call reports a change with the running hostname at the old name, and it resets a running name that was already right. A second call finds the file named and does nothing. |

Every property of a passing run has a mutant in `PROJECT.json` that TLC catches:
- `Advance` overrunning the slice, or wrapping around.
- `LoopFails` without the deferred reset.
- `NewManagers` replaced by keeping the old managers.
- `Return` moving past the last call; `Timeout` retrying the call, or never firing; `Receive`
  accepting the reply of an earlier attempt.
- `Start` advancing the tag twice; a failed `writeLine`
  not invalidating; `WriteReq` not flushing.
- `Probe` returning the directory; the agent not renaming itself; `SendFile` waiting on an
  existing file instead of failing; `StartBecome` returning at the end of its first loop.
- `handleCheckSum` accepting a checksum without `<algorithm>:`; `Close` not removing the
  TmpDir; the last rename of `tryRenameWithTemp` losing its error; `checkServiceChanged` not stopping a running service.
- `Token` writing the blank spacer before a quoted string continued at the start of a line,
  or concatenating a quote-opening token onto the previous param.
- `checkPrerequisites` without its creates check; `generateSequence` stopping before `end`.
- `systemdStrategy.setPermanentHostname` without its `--static` call.
- `GetVars` without the second application of the extra vars (a task var templated from a
  name the play sets sees the play's value); `SetExtraVars` keeping the first value of a
  repeated key.
- A section name keeping its `:vars` suffix; `circularReference` comparing only a group's own
  parents; `addToAllGroup` running before `addUngroupedGroup`; `&g` keeping the hosts outside `g`.

The remote runs use `N = 3` with calls 1 and 3 as python modules (`MC_RemoteModuleCall`). Three
calls are enough for a retry on the first call, a plain call, and a second python call that
finds the runtime the first one saved. The pipe run uses `K = 3` sequential handlers: enough for a call to make the executor, a second to meet its dead process and invalidate it, and a third to get a replacement (or to reuse a live one). `python_concurrent` uses two calls, which
are enough for a timed-out call and the next one to interleave their four lines on the pipe. The bootstrap runs use three attempts (`MC_AgentBootstrap`). Two of them
take the content-addressed path, which is enough for one to meet the other's temporary file
and for a later attempt after a crash. The third is a become-user attempt on the legacy path.
Its become program may need no password, or get the right or wrong one. Every split of its
output into packets is explored. A two-symbol marker and a prompt longer than sudo's
three-symbol buffer are enough for:
- a full read followed by a short one;
- a split inside either word.
The inventory run explores every file of up to five lines over two names. That covers:
- a two-group cycle (four lines);
- a cycle through `all` (`[a:children]` then `all`);
- the longest acyclic chain the four groups allow (`ungrouped`, `b`, `a` under `all`), which is
  where an off-by-one in the depth bound would show;
- a host listed twice.

The variable manager's part of the inventory run takes one host in two groups. That is enough
for the sort of `host.Groups` to matter. Every group, `all` and the host either set `x` or not,
and the host may set the alias `ansible_ssh_host`. The play may set `x` or template `y` from
it. The task may template `y` from a defined or an undefined name, or set the other alias
`ansible_host`. The six `-e` lists hold a repeated key, an alias, the canonical `remote_addr`,
`item`, a bare word, a path and unbalanced quotes. Each layer's value is its own tag, so a
wrong winner always shows.

The free-form strings of three pieces include a block split over two lines, a quote
spanning a blank, escaped `=` and quotes, and the leading blanks that panic.

The agent_modules run takes two contents (`A`, `B`), enough for `dest` to be up to date or
not, and every value of each get_url parameter the code tells apart: the five checksum forms,
the three tmp_dest cases and the three rename outcomes. The service hosts are one per branch
of `getEnableAndSvcCmd` and of `serviceEnable`. The hostname call takes every strategy, two
names and one over 64 characters, and a file that is missing, not regular, without the
strategy's entry, or named; every command and write may fail, and a failed write may leave
the file truncated. A command task runs twice (`MaxCalls = 2`). That is the least for
creates/removes to matter, and it takes every argument form `checkPrerequisites`, `getCmd` and
`Start` tell apart, each with a starting state of `F`. Each call is a short run, so nothing is
cut off by a bound.

The sequence lookup takes every single term and every pair of end terms:
- shortcut terms with `start`, `end` and `stride` in {0, 1, 3} (digits are non-negative in the
  shortcut), a bad end, and every format;
- key=value terms with any subset of the four keys over {-1, 0, 1, 2, 3}, with an unknown key
  or not;
- pairs of end terms over {-1, 2, 3}.

These cover both directions of stride, a zero stride and zero count, the `-1` mark, and a
second term that would inherit the first's stride without the reset.

**Observations without a run.** These violations have no run of their own, because the
project keeps twelve runs. The properties that state them are still in the modules, and TLC
finds each of them violated when it is added to the named cfg.
- `NoOrphanSessions` (PlaybookExecutor): `Manager.Close` (`connection_manager.go:43`) closes
  only the become sessions. The default session of every host, with its SSH connection and
  agent, stays open after its play returns.
- `UngroupedExact` (InventoryLoad): a host listed before any section and also under `[a]` (or,
  in YAML, under both `all`'s and `a`'s `hosts`) ends up in `ungrouped` as well as in `a`.
  Spec §3 says `ungrouped` holds exactly the hosts in no explicit group.
- `SplitJoinLaw` (FreeFormArgs): `{%`, line break, `%}` splits to one param with two line
  breaks (the one put back at the end of the line, then another because the next line is one
  token inside a block, `splitter.go:246` and `:207`), and joining and splitting that again
  gives four. Spec §8 says `splitArgs(joinArgs(xs)) = xs` for balanced `xs`. `MC_FreeFormArgs`
  with `INVARIANT SplitJoinLaw` shows it.
- `SelectionMatchesSpec` (InventoryLoad, `MC_inventory.cfg`): spec §3 lets each `ti` of
  `t1:t2` be a host or a group name, but `DetermineHosts` sends every colon list to
  `determineHostsFromGroupsPattern` (the FIXME at `common.go:271-272`), which rejects a host
  name. `SpecSelect` follows the spec, and `GroupPatternsMatchSpec`, the property the run
  keeps, is `SelectionMatchesSpec` restricted to colon lists of group names.
- `RunningAsAsked` without its `~svc.crashed` guard (ServiceModule, `MC_agent_modules.cfg`): on
  OpenRC a crashed service is "zapped" with `rc-service zap`, which lacks the service name, and
  a call with `pattern` never learns of the crash (`checkPs` does not set `crashed`). OpenRC
  does not start a crashed service that was not zapped (the comment at `linux_service.go:377`),
  so `state: started` returns success with the service still down.
- `InstalledAfterUp` and `NeverWedged` (AgentBootstrap, `MC_bootstrap.cfg` or
  `MC_bootstrap_crash.cfg` with `"rename"` in `Faults`): main drops `renameSelf`'s error
  (`main.go:25`). The agent then serves from `gosible_client_tmp`, no `gosible_client` is made,
  and every later attempt re-uploads to the existing temporary file and fails.

**Bounds.** Two hosts are enough for every interleaving of two goroutines and for the question
of one host failing while the other runs. Two plays with two tasks are enough for:
- session reuse across plays;
- the linear barrier;
- a loop followed by a non-loop task.

Two loop items separate the first item from a later one, which matters for the reset on failure.

**Fairness.** `PlaybookExecutor` has no fairness and no liveness property. `RunTask` opens
a session as one step, and the session start can block forever: a sudo become waits on
`<-done` with no deadline (`ssh.go:164`, shown by `become_sudo`). No fairness that the code
justifies therefore makes a playbook run end.

In `RemoteModuleCall`, there is weak fairness on `Send`, `Receive`, `Timeout` and `HandlerStart`:
the deadline always fires, and the gRPC server runs each handler goroutine. `HandlerFinish` is
not fair, because a module may never return. In `PythonExecutorPipe`, each handler is weakly fair,
and so is `Runtime`, on the assumption that py_runtime answers every well-formed pair. `Exit` is not
fair. In `AgentBootstrap`, each attempt's steps are weakly fair, and the faults (`SendBreak`,
`Crash`, the failing disjuncts) are never forced. The become reader, the remote program and the
ssh transport (`Deliver`) are weakly fair. The module calls of `MC_AgentModules` are weakly
fair as a whole: `ExecuteModule` runs `action.Run` on the handler's goroutine to its end. The agent's goroutine reads while data is there,
sshd forwards what the program wrote, and the program answers a line on its stdin. `Broken`
is a fault and is not fair.

## 4. Plan (next modules, in order)

1. *Done:* **RemoteModuleCall**, **ModuleCallContract** and **PythonExecutorPipe**, including
   `getExecutor`. With `Sequential = FALSE` and `K = 2`, `OneLiveProcess` fails: two handlers
   that both find `m.current` nil each start a process, and the earlier one is left running
   (recorded as a hazard; it shares its cause with `python_concurrent`).
2. *Done:* **AgentBootstrap**. Still open: the dropped closer on a failed dial (leaked remote
   processes), and scp overwriting for a root login.
3. *Done:* **VarsManager** (C4), composed into the inventory run. Still open: the inventory's
   own group and host variables feeding `conf`, and `SetMagicVars`'s alias order as a run.
4. *Done:* **InventoryLoad** (C1), INI and YAML. Still open: the spec's law that INI and YAML
   forms of one inventory load to equal data, and `Parse`'s fallback to INI for a YAML file
   `getData` rejected. Also open: the ungrouped hosts' missing `Host.Groups`
   entry, which keeps `[ungrouped:vars]` out of `GetVars`.
5. *Done:* **BecomePrompt** (C6), composed into `AgentBootstrap`. Still open: `ExecCommand`'s
   buffered become path (`DefaultExecCommandImpl`), and sudo without a password. There
   `ExpectPrompt` is false, so a sudo that does ask reads the agent's protocol as its password.
6. *Done:* **FreeFormArgs**.
7. *Done:* the `sequence` lookup (C11), as operators checked against a reference. Still
   open: the template cache (C3), callbacks (C2) and the FQCN registries (C5).

## 5. Not modelled

These parts are left out:
- The CLI, and the YAML and INI text below the level of entries and line kinds. Group and
  host variables are not modelled in the inventory.
- The remote modules other than get_url, service, hostname and command (`pip`, `group`, ...).
  Each is a sequence of host commands with no concurrency of its own. In the executor models, each enters as a
  call that returns, fails, or returns facts.
- `wait_for`: `Params.Validate` (`waitFor/wait_for.go:48`) rejects every valid state, and the
  default state is `started`, so every call fails there. With an invalid state and a port it
  returns success without waiting. Its handlers are unreachable.
- The file mode arithmetic of `mode.go`. `syscallMode` tests `ModeSetgid` twice, so setgid also
  sets S_ISUID and setuid is lost. The `=` operation for `o` tests `case '0'`, so `o=` acts as
  `o+`. Both are listed as hazards.
- Display and logging.
- The e2e harness.
- `ResolveModuleArgs`'s search of a task's keys for its action. `taskKeywords` and
  `moduleRequireArgs`, which it and `isFreeformAction` read, are not defined in the
  repository; the free-form list is an input of the model (`Tasks[...].freeform`).
- The lost close error. The deferred close in `playExecutor.execute` assigns to a local after
  the return value is fixed, so close errors are lost. No state the model keeps depends on it.
