# go-sshd: specifications, model checks and proofs

TLA+ models of go-sshd, an OpenSSH-compatible server in Go built on gliderlabs/ssh,
golang.org/x/crypto/ssh and pkg/sftp. The repository is the reference: each
definition is read off its Go code, and `PROJECT.json` ("map") names the lines.
Libraries are modelled from how the code uses them and marked external there.

Run a check with `tlc -config MCAuth.cfg MCAuth.tla`, a proof with
`tlapm AccessProofs.tla`. `PROJECT.json` lists the module and the cfg of every run.

## 1. The system

`cmd/sshd` and `cmd/garlicsshd` call `internal/cli`, which loads a configuration
and, in its standard mode, listens, builds a `StandardEmbeddedSSHServer` and runs it
beside a metrics server and a signal handler. `pkg/server.Server` is a second,
older server with the same parts: the command line uses its inetd variant, tests
and library users its `Start`. Both give gliderlabs/ssh the same handlers.

| Component | State it keeps | Operations | Works with |
|---|---|---|---|
| `pkg/signals` Handler | two channels of capacity 1, a context | NewHandler, WaitForShutdown, WaitForReload, Shutdown, Stop | os/signal; owned by server and cli |
| `pkg/server` Server | current `ssh.Server`, its error channel, config, logger, metrics server, under one mutex | New, Start (three kinds of goroutine), reloadConfiguration, handleShutdown, Stop | signals, metrics, gliderlabs Serve/Close |
| `pkg/embedded` | options, logger, listener, `ssh.Server`, `started`, `stopOnce` | Configure, Start, Stop(ctx), Cleanup | the program that embeds it |
| `internal/cli` | cfg, channels `serverErr`, `reloadRequested` | runStandardServerMode and two goroutines | embedded, signals, metrics |
| `pkg/handlers` auth, authorization, certificates | CA keys and revoked serials (read once); key options in the connection's context | password, publickey and keyboard-interactive handlers | crypto/ssh, PAM, files, group database |
| `pkg/handlers` privilege | the credential of the process | drop, run, restore; credential for a child | sftp, shell, the kernel |
| `pkg/handlers` x11 | map of sessions to displays (mutex); context values | x11-req, x11 channel, release when the connection ends | gliderlabs, the local X server |
| `pkg/handlers` shell, agent | nothing between calls; one process, PTY and agent socket per session | session handler, window changes, Wait and Exit | os/exec, privilege, auth's key options |
| `pkg/handlers` sftp | root directory of a session | root, path resolution, checked file operations | pkg/sftp, privilege, the file system |
| `pkg/handlers` forwarding | nothing | permission callbacks | gliderlabs |
| `pkg/config` | a Config | Load (defaults, file), Validate | everything |
| `pkg/crypto` | key files | load, or generate and save | server, embedded, cli's -G |
| `pkg/metrics` | counters, sessions (mutex); HTTP listener | Record..., Start, Stop | server, cli |
| `pkg/logging`, `pkg/network` | a logger; none | set-up; examples of net interfaces | - |

What is hard here, and what makes each component correct:

* **server**: a reload replaces the running generation while main waits for its
  result. A result of an old generation must not end the server, no goroutine may
  block on a result that nobody reads, only a shutdown or the server's own replacement
  may cut its connections, shutdown completes.
* **embedded**: operations are called by several goroutines and fail half-way. It must
  be known which configuration is served on which listener, and Stop's nil must mean
  something.
* **cli**: signals pass through two buffers and a send that drops. No SIGHUP may be
  lost, `cfg` must follow the server, Start's result must end the program.
* **auth**: a client may ask for any number of keys before it signs or sends a
  password; options are left in the context by asking. Who gets in must be allowed
  to, and be bound to the options of his own key.
* **privilege**: sessions change one credential of the whole process. The daemon
  must find back to root, and a user's work must be done as the user.
* **x11**: numbers are allocated, overwritten and released by goroutines of several
  connections. No number is shared, none is lost.
* **shell, agent**: a session is a handler, a process, two copies and up to two more
  goroutines, over a channel that may close at any moment. The client must be told
  what became of the process, the key's options must hold on every path, the agent
  socket must live exactly as long as it is needed, and the session must end.
* **sftp**: a path is checked by its text and by where its links lead, and is then
  named again to every system call, while other sessions rename and link, which changes
  where a relative link leads. It must be known what can touch anything outside the
  root, and a Setstat must not claim more than it did.
* **host keys**: several processes (the daemon, the keygen unit, a daemon per
  connection) look for a file, make a key and write it in place, and may crash
  between. What is offered must be what the next start will offer.
* **config**: the file is read line by line while it is saved. The handlers must be those
  of one whole file, through failed reloads too, beside a metrics server that stays with
  the file of the start.
* **metrics, forwarding, logging**: section 7.

`PROJECT.json` ("hazards") has the list with lines, and the properties that cover
each.

## 2. Modules

| Module | Models | State | Run module / cfg |
|---|---|---|---|
| `SignalHandler` | `pkg/signals/handler.go` | contents of the two channels, context done, stopped | part of the next and of `CliServer` |
| `Service` | what `pkg/server.Server` promises: a line of servers, each with one result | the current server, a result and the clients of each, what Start returned, whether a shutdown was asked for | as property of the next |
| `ServerLifecycle` | `pkg/server/server.go` from New to the end of Start; `INSTANCE Service` as `Promised` | the Server fields, a state per generation, channel contents, a program counter per goroutine | `MCServerLifecycle` |
| `EmbeddedServer` | `pkg/embedded/standard.go` | its fields, the listener among them, what Start took from them, one counter per caller of Stop | `MCEmbedded.cfg` |
| `CliServer` | `runStandardServerMode`; built from the actions of `EmbeddedServer` and `SignalHandler` | the variables of both, channels, three program counters | `MCCliServer.cfg` |
| `Auth` | `auth.go`, `authorization.go`, `certificates.go` | context options, crypto/ssh's one-key cache, outcome | `MCAuth` |
| `Privileges` | `privilege.go`, its callers in `sftp.go` and `shell.go` | the process credential, a program counter per session and command | `MCPrivileges.cfg` |
| `X11Displays` | `x11.go` | the map, the context values, channels, waiting goroutines | `MCX11Displays.cfg` |
| `Session` | `shell.go`, `agent.go` for the channels of one connection | channel, handler's program counter, process, copies, exit status, agent socket, windows | `MCSession` |
| `HostKeyRules` | which keys a path can have, are valid and get offered | none: operators | the next two |
| `KeyStore` | what a store of host keys promises: write-once registers | a key per path, what each server came up with and the keys it offers | as property of the next |
| `HostKeys` | `pkg/crypto/hostkey.go` and its callers; `INSTANCE KeyStore` as `Store` | files, a program counter and locals per process | `MCHostKeys` |
| `ConfigRules` | `pkg/config`'s directives and Validate, `configToEmbeddedOptions`, when `NewLogger` fails | none: operators | the next |
| `ConfigLoad` | `config.Load` and the programs that call it | the file, what Load has open and read, the Config of the handlers and that of the metrics server | `MCConfig` |
| `FileTree` | external: what system calls and `filepath.EvalSymlinks` do with a tree of directories, files and links | none: operators | the next |
| `Sftp` | `secureSFTPHandlers` of `sftp.go` | a tree of directories, files and links, their attributes, a request per session | `MCSftp` |
| `*Proofs` | theorems about the module in their name; `CliServerProofs` also about `EmbeddedServer`, `AccessProofs` about `Auth` and `Privileges` | | |

Correspondence. A critical section of a mutex is one step. Whatever a goroutine does
between two of them, or between two channel operations, is a step of its own, with its
locals as variables (reset when they go out of scope). In `Auth` a whole handler is a
step, since crypto/ssh calls handlers one at a time. In `Session` the handler's steps
are separated where another goroutine can be seen: the options, the agent's listener,
the start, the end of Wait, the cleanup and the Exit(0) that gliderlabs adds. In
`Privileges` every system call is a step and so is every `canDropPrivileges`. In
`HostKeys` a look at a file, its truncation and the end of its write are steps; in
`ConfigLoad` every line read is, and every line an editor writes; in `Sftp` every system
call that names a path is. Definitions that begin with "Regression:" are not part of the
model: each is a plausible bug in the definition it precedes, used to show that a
property notices it (`PROJECT.json`, "mutants").

Abstractions. A configuration is the data that differ in the property at hand: its
number (`EmbeddedServer`, `CliServer`), its port (`ServerLifecycle`), the outcome of its
rules for one user (`Auth`). In `Auth`, a list of patterns is "empty", "match" or
"other"; a line that does not parse is not there; a file list is one sequence; PAM and
the client's signature may succeed or fail. The case with no method enabled is left out,
since gliderlabs/ssh then asks for no authentication and no handler runs. In `Session`
the environment is the set of the two variables that depend on the session's course, a
window change is only its arrival, an exit code is 0, 1 or -1 (killed, which goes out as
32 bits of ones), and a copy's data is only whether it ended and failed. In
`ConfigRules` a Config is a function from directives to values and a line the sequence
of its words; what `strconv.Atoi`, `net.SplitHostPort` and the like say of a word is a
constant. In `HostKeys` a key is a value with an algorithm, and whether a file parses is
part of its content. In `Sftp` a path is the sequence of its names, and ".." does not
occur, since every handler refuses it first; a link holds an absolute path, as those do
that the server makes, or a relative one, which may start with ".." and is read from
where the link is, and at most `MaxHops` are followed for one path, counted over the
whole of it; a request that the checks refuse changes nothing and is no step. In
`Privileges` one id stands for an account's uid, gid and group list.

External behaviour assumed:

* gliderlabs/ssh: `Serve` registers the listener and makes a new done channel if it
  has none, so a `Close` before that is lost; `Close` closes registered listeners and
  cuts connections; the default handlers are only installed into a nil map.
* gliderlabs/ssh, sessions: a second shell or exec is refused, a window change waits
  for room in the channel, the first Exit counts and closes the channel, Exit(0)
  follows the handler, and an agent request on a channel sets the flag unasked.
* os/exec: Wait needs the process and both copies to end; an exit code other than 0
  comes before a copy's error; a failed write to the process is no error.
* crypto/ssh: the answer about the last key is cached; a query and a signature both
  go through that cache.
* POSIX files: a rename over an open file leaves the reader the old one; an
  in-place write shows whole lines in order to `config.Load`, and to
  `LoadOrGenerateKeys` a file that is there and not yet whole.
* pkg/sftp's request server: one command of a session at a time.
* `filepath.EvalSymlinks` and the kernel resolve a path the same way, one at the
  check and the other at the use.
* os/signal: a signal that does not fit the channel is dropped.
* Go's `syscall.Setgroups`, `Setresgid`, `Setresuid`: they apply to every thread
  (since Go 1.16; `go.mod` asks for 1.26). `setresuid(id, id, 0)` without effective
  uid 0 takes only ids the process has.

## 3. Runs

| Run | Bounds | Shows |
|---|---|---|
| `server_lifecycle` | 2 generations, 2 ports, 1 connection | refinement of `Service`: which results end Start, with what, and who cuts connections; results find their channel empty, metrics stop, every current generation is started, a shutdown that no reload overtakes completes, no SIGHUP is lost |
| `server_reload_bind` | the same, 1 port | counterexample: a reload can end the server with EADDRINUSE |
| `embedded_server` | 2 callers of Stop, 3 Configures, 2 listeners, 1 forwarding | which configuration is served, on which listener, what Stop's nil means, Stop returns |
| `cli_server` | 3 configurations, 1 forwarding | cfg follows the server, SIGHUP leads to a Load, Start's result ends the program |
| `auth` | 2 keys, 1 certificate, 2 lines, 3 attempts, some 100 policies | who gets in, and with whose options |
| `privileges` | 2 SFTP sessions, 1 command, 2 users and root | restore never fails, root at rest, who overlaps nobody runs as himself |
| `privileges_shared` | the same | counterexample: overlapping sessions change each other's credential |
| `x11_displays` | 2 sessions, 1 channel, 2 requests each | displays are distinct, stored before announced, held, released, reused |
| `session` | 1 channel, all options of the key | 0 is only reported for success, options hold, agent socket's scope, the session ends |
| `hostkeys` | 2 processes, 2 paths, 3 keys to make, 5 lists of paths, crashes and repairs | an offered key is the stored one, only faults leave broken files; refinement of `KeyStore` |
| `config` | some 400 files, 3 to save over them, 1 save, 2 loads, 3 programs | Load returns what the file means; the handlers come from the last file taken over, the metrics server from the first |
| `sftp` | 2 sessions, 3 requests, 3 paths on 2 levels, 4 first trees | while no link leads out nothing outside the root is touched, and only a relative link in another place ends that; what was checked is what is used, Setstat tells the truth |

Why the bounds are enough to be interesting. Two generations are one reload that
succeeds and any number that fail; the next reload meets the same situation with other
numbers, and the proofs hold for any number. Two Stops and three Configures contain a
failed Configure between two good ones and a Stop behind another, and two listeners a
failed Configure that leaves its own behind. Three attempts and two lines let one key
leave options behind, another line replace them and a third request log in. Two SFTP
sessions and a command contain every interleaving of two drops and restores; the proofs
hold for any number. Two sessions with two requests contain an overwritten entry, a
freed number and its reuse. The channels of a connection only share the key's options,
which do not change, and the agent flag, which only ever rises: with one channel,
`AgentRequest` stands for what the others do, and the safety theorems hold for any
number. The account of `MCSession` has a shell that is not installed, behind a line of
another account. Two processes and three keys contain two that make a key for one path
while another path has its own, and the names of the two paths generate keys of the same
algorithm, of which one is then not offered. Two lines decide every interference between
directives except that of a fourth HostKey with the three defaults before it, for which
there are files of up to five lines; one save meets every line of two loads, which is
one reload behind a start. Three requests are a link, a rename and the use of a path
that was checked before both; one of the first trees has a link out of the root, where
only `CheckedIsInside` promises anything, and one a relative link that leads inside from
where it is and outside from a directory further up, where one session can move it while
another writes through it. `MaxDisplay` leaves room for one number more than any request
can get, so that `NumbersReused` could fail.

`CHECK_DEADLOCK FALSE` everywhere: each of these programs may end, and the clients
may go away.

Types. Each module has one type invariant (`TypeOK`, `AuthTypeOK`, `CliTypeOK`), proved
for every value of the constants (`TypeCorrect` and its like) and not run again; in
`ConfigLoad` and `Sftp` it is a part of the inductive invariant.

Composition. `CliServer` calls the embedded server by its actions, so that each of its
steps is one of `EmbeddedServer`, or none: nothing to be checked, but the lemma
(`StepSimulation`) by which the proofs carry what holds of the embedded server over to the
program.

Refinement. `Service` is the abstract specification of `pkg/server.Server`: servers that
replace each other and end with one result each, of which Start takes one at a time. It
drops a replaced server's, returns the current one's, and nil only when a shutdown was
asked for; and a server cuts its clients off only when it was replaced or on a shutdown.
`ServerLifecycle` implements it (`ImplementsService`) under the mapping `result[g]` =
what generation `g` ended with, wherever that is on its way: in the goroutine that is
about to send it, in the channel, or in `runServerLoop` between the receive and the
comparison (`ResultOf`). So a result that is lost, overwritten or taken twice, one of a
superseded generation that ends Start, and a Start that returns nil because a reload
closed a generation all have no counterpart. `Service` has no fairness; when a result
must come is `ServerLifecycle`'s to say. `KeyStore` is the abstract specification of the
host keys: registers that are written once, and servers that offer what their registers
hold, in one step. `HostKeys` implements it under the mapping `key[p]` = the whole key
in `p`'s file, if there is one (`INSTANCE KeyStore WITH`); a path that two processes
found absent at the same time is contested and promises nothing, which is how far the
code's lack of a lock goes.

## 4. Fairness

Weak fairness is given to each goroutine of the program: the Go scheduler runs
what can run. Strong fairness is given to a case of a `select` that is ready
again and again (`CliServer`, `TakeServerErr` and `TakeReload`), since Go chooses
among ready cases at random. In `Session` the handler's goroutine is fair, and the
copy of the input is once the process has exited (before, it may be stuck in a write);
the end of the output is not, since children of the process may hold it, and
`SessionEnds` says so in its premise. Nothing is assumed of clients, operators, callers
before they call, deadlines, or a listener that may break. `Auth`, `Privileges`,
`HostKeys`, `ConfigLoad` and `Sftp` have no liveness property and no fairness: a
process may crash, a client or an administrator may stop at any point.

## 5. Proofs

All theorems hold for any values of the constants that satisfy the named assumption of
the module (`LifecycleAssumption`, `EmbeddedAssumption`, `X11Assumption`,
`AuthAssumption`, `PrivilegesAssumption`, `SessionAssumption`, `KeyAssumption`,
`HostKeysAssumption`, `ConfigAssumption`, `LoadAssumption`, `FileTreeAssumption`,
`SftpAssumption`), which the runs evaluate. Each proof module defines an inductive
`IInv`, proves that `Init` implies it and every action preserves it, and derives the
properties.

* `ServerLifecycleProofs`: the properties are not inductive. `IInv` adds which channel
  each generation reports on (`OwnChannel`: a channel has one writer, which is why its
  buffer of one is enough), what main, reload and Stop hold in their locals between
  critical sections (`Locals`, `ReloadPhase`), that the closed generation of a Stop is
  the current one only after the context is done (`CurrentClosed`, `ShutdownRequested`),
  and where metrics can still be up (`MetricsPhase`). In the refinement
  (`ServiceImplemented`) the send and the receive of a result are stutters
  (`SameResults`), the comparison is `Drop` or `Return`, the swap is `Replace`, and each
  of the three Closes is a `Close` of a superseded generation or under a shutdown
  (`Closes`). It needs two facts more of the locals: the channel that main waits on
  belongs to the current generation or an older one, so a channel that is no longer
  current is a replaced server's, and what a reload is about to swap in is the newest.
* `CliServerProofs`: for the embedded server, `IInv` ties `started` to Start's
  progress, a server to there being a listener, which is the one it was made with unless
  a Configure has failed since, and `stopOnce` to the goroutine that closes. For the
  program, the step simulation, one case for each action of main, the server goroutine
  and the environment, and the invariant that cfg is the number of the last good
  configuration and the listener the program's. From the simulation the program inherits the
  inductive invariant of the embedded server (`EmbeddedInvariance`), and with it its
  theorems (`EmbeddedPromises`) and types.
* `X11DisplaysProofs`: `IInv` relates a request's progress to the map and the
  context. `NumbersReused` rests on a pigeonhole argument: a number is skipped only
  if some session holds it, so Offset plus the number of sessions is never passed.
* `AccessProofs`, on `Auth`: a cached yes must stay justified by the options now in the context
  (`CacheJustified`): a scan for another key replaces both together. A login is then
  justified by the handler's own checks, from which sshd_config's rules follow.
* `AccessProofs`, on `Privileges`: `IInv` says that only a daemon run as root ever changes its
  credential and keeps saved ids 0 (so restores are permitted), that a session which
  overlaps no other has the credential to itself, and how far its drop has come.
* `SessionProofs`: `IInv` has three parts, by what they speak of: every path to the
  cleanup has called Exit (`Answered`, so the Exit(0) that follows says nothing), a
  process exists only between Start and Wait and with the key's command (`Spawned`),
  and a socket that the environment names is listening until the cleanup
  (`Listening`).
* `HostKeysProofs`: `IInv` says that the keys a process has loaded are those of its
  paths, entry by entry (`LoadsInOrder`); which phases go with which configurations
  (`Serves`); that two processes make a key for one path only if it is contested
  (`OneMaker`); and what the only maker knows of the file (`MakerKnows`): this is why
  nothing else can change it before the key is used. In the refinement the end of a
  write is `Make`, a second process that finds nothing `Contend`, the end of a load
  `Serve`, a crash `Leave`, a write to a contested path `Disturb`, and everything else,
  half-written files included, a stutter.
* `ConfigLoadProofs`: for files of any length. `IInv` says of the lines read so far
  what `LoadedIsMeant` says of the file (`Reading`), so the induction over the file is
  the one over the steps. What one more line does is a lemma for each kind of
  directive (`LineAdds`, `LineLists`, `LineBinds`, `LineEnds`); the lists need the rank
  of a line among those of its directive (`RankOfMore`). Two files are in use: that of the
  handlers and that of the metrics server, and `IInv` says of both what they mean until a
  save tears one (`RunsAsWritten`).
* `SftpProofs`: for trees of any size and paths through any number of links. First the
  operators: paths and their beginnings; where a path leads is a recursive function of
  the number of links followed, so a fact about it is shown for a set of numbers that
  has 0 and, with every number, the next (`SetInduction`, from the least number of a set,
  which the library's order of finite sets gives). Two facts carry the rest: in a
  `Closed` tree no path from below the root leads out of it (`FollowInside`,
  `PlaceInside`), and what is above a path that leads somewhere leads somewhere too
  (`PrefixLeads`), so a request whose path was there makes no directories. Then the
  system calls: each leaves a tree, and one in which a link leads out only if it is the new
  one or was moved with its place (`WithTree`, `WithoutTree`, `MovedTree`): an absolute one
  led inside before, so it is a relative one. `Confined` is an action property: each action
  preserves `IInv` and `StaysInside`, the latter from the tree being closed before the step
  and not from any history. `IInv` adds
  what a request knows between its calls: the next call is one of its operation on
  paths below the root (`Serving`), a path that led inside still does unless the request
  is raced (`KnownInside`), and a Setstat has set a first part of what it was asked to
  (`Setting`). A call of another session makes every request in progress raced, so one
  lemma (`LastCall`) serves all the calls that end a request.

Only model-checked: all liveness properties (`CurrentGenerationStarts`,
`ShutdownCompletes`, `HupNotLost`, `StopReturns`, `HupReloads`,
`StartResultEndsMain`, `DisplaysReleased`, `SessionEnds`), since the prover has no rules for
fairness and ENABLED; and the counterexamples. The first states of `Sftp` are trees that
the proofs assume to be trees (`IsTree`) and nothing more; that no link leads out is the
premise of `Confined` at each step.

## 6. Where the code and its documents differ

`PROJECT.json` ("findings") quotes both sides.

With a counterexample: a reload that keeps the port can end `Start` (server.go:437),
and a credential taken for a thread's that is the process's (privilege.go:129).

Read off the code while modelling it, without a run of their own:

* Life cycle: SIGTERM is captured but never read (cli.go:191); a channel map without
  "session" wherever a forwarding is enabled (standard.go:510, the first case of
  `ChannelTypes`); a Stop can be lost before Serve (standard.go:536: the model has the
  interleaving); Configure refuses after Start, so a reload of the running program
  always fails (standard.go:77); Stop does not wait for connections (standard.go:581);
  a reload cuts the connections that it promises to keep (server.go:439); a Configure that
  fails leaves its listener to the server that was configured before (standard.go:111);
  the metrics server stays with the first file (server.go:421); `ListenAddress` has no
  effect on `pkg/server` (server.go:99), nor has `Subsystem` (server.go:166).
* Login: options of a key that was only asked about stay for a password login
  (auth.go:432); certificates are not subject to forced-commands-only (auth.go:142);
  AllowGroups and DenyGroups do not reach the daemons' handlers (cli.go:395).
* Sessions: Wait keeps a session whose client waits for its exit status (shell.go:207);
  a terminal's forced command is not told the original one (shell.go:93); accounts
  that share a uid share a shell (shell.go:318); agent requests on a channel are not
  subject to AllowAgentForwarding (agent.go:130); a second x11-req frees the display of
  the first (x11.go:331); supplementary groups are not restored (privilege.go:137); a
  root directory behind a symbolic link refuses what exists (sftp.go:345); a relative
  link that is renamed can lead out of the root (sftp.go:513), and a path that does not
  exist yet is let through below a link that leads out already (sftp.go:338).
* Host keys: two first starts overwrite each other's keys (hostkey.go:124), an
  empty key file is never replaced (hostkey.go:92), and the name for DSA makes an
  Ed25519 key (hostkey.go:164).
* Configuration: default HostKeys given in the file are cleared by a fourth
  (config.go:694), unknown directives and Match are ignored and the last value wins
  (config.go:650), keyboard-interactive alone counts as no authentication
  (config.go:302); with PermitRootLogin yes and PasswordAuthentication no, root still gets
  in with a password through keyboard-interactive, and -t calls that valid
  (config.go:472).

## 7. Not modelled, and the plan

Done, in this order: `ServerLifecycle` with `SignalHandler` as an implementation of
`Service`, `X11Displays`,
`EmbeddedServer`, `CliServer` on top of it, `Auth`, `Privileges`, `Session`,
`HostKeys` as an implementation of `KeyStore`, `ConfigLoad` with `ConfigRules`, `Sftp`.

Next, by importance:

1. `HostKeys`: writes that the system has not yet put on disk when it loses power.
   The operator's removal of a broken file (`Repair`) is an assumption about him.
2. `Sftp`: links with ".." behind a name, and directories that processes outside the
   server change.
3. `ConfigLoad`: reads that end inside a line.
4. Abstract specifications: a login oracle implemented by `Auth`, a file service with
   atomic requests implemented by `Sftp` as long as nothing else changes the tree.

Left out for good: the permission callbacks of `forwarding.go` (a comparison
without state) and the forwarding itself (gliderlabs/ssh); the counters of
`pkg/metrics` (only tests call the Record functions); the output and formats of
`pkg/logging`; `pkg/network` (no state, no caller); the inetd mode (sequential,
one connection); the two copies of data (only that they end matters,
`X11Displays`); scripts, systemd units and benchmarks.
