# Verification of the Maui shell

TLA+ models of the parts of maui-shell (the *Cask* compositor, its plugins and
its session starter) whose correctness depends on the order of events, with
TLC configurations that check them on small instances and TLAPS proofs of what
matters most for every instance. Every definition is translated from the
source; `PROJECT.json` maps it to its lines and lists the hazards of the code
with the properties that cover them.

## 1. The system

`startcask-wayland` prepares the environment and runs `cask_session`, which
starts `CaskServer`, `MauiManServer` and the compositor `cask` one after the
other. `cask` is a Qt Wayland compositor written in C++ controllers and models
under a QML shell; plugins give it power management, media players, a launch
history and a polkit agent. Almost everything runs in one thread on the Qt
event loop: what interleaves is *events* (client requests, input, queued calls,
deferred deletes, layout passes, D-Bus replies and signals), and what is hard is
that state read in one event is used in a later one. Between processes there are
D-Bus, signals and the environment they inherit.

| component | state | operations and interactions | hard behaviour | correctness |
|---|---|---|---|---|
| Workspaces (`zpaces`, `zpace`, `zpacesmodel`, `surfacesmodel`) | list of workspaces, windows of each, all windows, limit, mode | add, move and remove windows; insert, move, remove workspaces; geometry changes; called from QML with the view's index | indices out of date, signal handlers that change lists while others run, a limit that shrinks | each window in one workspace, empty workspaces go, limits follow the mode |
| Workspace view (`main.qml`, `WorkZpace*.qml`, `Zpace.qml`) | current index, pending index, overview | takes the index addWindow returns; touch switcher, taps, task bar | index between a removal and the next layout; -1 | a new window is shown; a valid index is passed on |
| Windows (`abstractwindow`, `xdgwindow`, `Chrome.qml`) | life, app id, hidden, active, stacking | created for a toplevel, activated by configure and acknowledgement, closed with its shell surface, deleted later | deferred delete, dangling pointers, several configures under way | nobody uses a deleted window; the active window has the keys |
| Task bar (`task`, `tasksmodel`, `TaskBar.qml`) | tasks, their windows, pinned ids in QSettings | app id announced or changed, closed() queued, pin, unpin, drop, restart | queued call against deferred delete; ids that change under a pin | one task per window, no deleted window, pins kept |
| Cursor grabber | seat, cursor surface, grab in flight | cursor requests, redraw, drag icon, success or failure of a grab | one flag for all grabs, a grab that outlives its surface | images of its own grabbers only, one grab at a time |
| Compositor application (`main.cpp`, `caskapp.cpp`) | process, error screen, signal handlers, environment | startup once, load failures, crash, fork, kill, exec | a crash in a crash, a parent that is killed but not gone, an inherited environment | a crash at every start does not respawn for ever |
| Polkit agent | dialog, sessions, answers | initiate, request, completed, dialog answered, deleted | several sessions, one dialog; answers to an old dialog | a request finds its dialog, a password its session |
| Media players (`mpris2*`, `playersmodel`) | rows, copies of properties, pending replies | list names, watch owners, GetAll, PropertiesChanged | overlapping fetches, list-then-watch gap, takeovers | rows and copies follow the bus |
| Session start (`startcask*`, `cask-session`) | job chain, processes, environment | service jobs, loops, SIGTERM, terminate and kill, sync and restore of systemd's environment | processes that fail or die early, services registered out of turn, replies not awaited | each program once; the session ends and leaves nothing behind |
| Autostart | entries, items by phase, started stack | edit entries, startService | chains across phases, the order of a hash | each item of a job once, after what it depends on |
| Power and session dialog | pending replies, what bindings read | Can* replies | announced with the last reply only | the Shutdown button shows what was answered |
| Launch history | database file, counts, rows of each shell | create, read, launch, count; several shells, any of which dies | file without tables, opens, reads and writes that fail | what is shown is stored |
| Server bridges, file models, panels, status bar items | mostly bindings | D-Bus forwarding, layout | little | - |

## 2. The modules

| module | models |
|---|---|
| `WindowHomes` | abstract specification: windows live in rooms, are never moved, a room goes with its last window |
| `Zpaces` | workspaces, windows, the view's index; implements `WindowHomes` |
| `ZpacesApi` | `Zpaces` composed with the calls its interface offers and the shell's QML does not make (moveWindow, moveZpace, removeZpace) |
| `Tasks` | the task bar, the event queue and the pinned ids |
| `Focus` | keyboard focus, acknowledged states, `m_activeWindow`, window switcher |
| `Session` | `cask_session`: job chain, processes, SessionTrack |
| `Login` | `startcask` composed with the `Session` it starts: its loop, logout, SIGTERM, the wait for drkonqi |
| `Environment` | the environment of the login and of systemd's user manager, from the first `qputenv` to the cleanup |
| `Autostart` | which autostart files count and the order `startService` gives |
| `Replica` | abstract specification: a client's copy of a service's values never goes back in time |
| `Mpris2Player` | one media player: `GetAll` replies, signals, the faked `CanStop`; implements `Replica` |
| `Players` | list-then-watch of the players on the bus and their rows |
| `PolkitAgent` | authentications, their sessions and dialogs |
| `CursorGrabber`, `ShellProcess`, `RecentApps`, `PowerManager` | the components of these names |
| `Parts` | the ten components that share no state with another, in one state space (section 3) |
| `SequenceLemmas` | facts about lists without duplicates |
| `*Proofs` | the theorems (section 4) |
| `MC*` | the instances TLC checks |

### Zpaces

`zpaces` is `m_zpacesList`; `windows[m]` and `linked[m]` are, for the model of
each workspace and for `m_allSurfaces`, its list and the windows whose
`destroyed()` it is still connected to. A window is `none`, `open` or `closing`
(its shell surface is gone and a deferred delete is posted). `currentIndex` is
`WorkZpace.currentIndex`; `nextIndex` is what the ListView will make of it at
its next layout: removing a row is applied then, while assigning an index
applies what is pending first. Actions are the handlers: `ToplevelCreated`
is `handleShellSurfaceCreated` with the whole of `Zpaces::addWindow`
(a workspace with room from the index on, a new one, or the null pointer),
`DeleteWindow` is the deferred delete with every `destroyed()` handler, the
emptied workspace's `closed()` and its removal; `GeometryChanged`,
`InsertZpace`, `SwitcherReleased`, `ZpaceTapped`, `WindowPicked` and
`ViewPolished` are the rest. The read of `m_zmode` before it is initialized
makes the limit of the first workspace arbitrary in `Init`. A null dereference
sets `crashed`, after which nothing happens; that is why the configurations of
this module say CHECK_DEADLOCK FALSE.

A removed workspace is never deleted by the code. As nothing refers to it any
more, its identity is used again in the model, as is that of a deleted window,
whose address the allocator may return again. The set `Zpace` is therefore the
bound on the workspaces alive, and an action that would need one more is not
enabled.

### Tasks

`bar`, `id`, `window`, `pinned` are `m_tasks` and the fields of its tasks;
`settings` is the list `TaskBar/Pinned`; `posted` is the event queue, in which
the queued `closed()` of a window stands before its deferred delete because
`Q_EMIT closed()` precedes `deleteLater()`. `m_isPinned` has no initializer: a
task built for a window is pinned or not as it happens, and `setIsPinned(true)`
on one that reads true already does not store its id. What KService says of an
id is the constant `Exec`; two ids may name one program (a file dropped by its
path, the app id its windows announce). An app id set to the empty string is
left out. `Restart` is the end of the shell, clean or not, and its next start:
QSettings survives, windows do not.

### Focus

`focus` is the surface item with the active focus, `acked` the windows whose
last acknowledged states hold Activated, `configures[w]` the configures on their
way to a client, which may acknowledge any of them and by that skips those
before, `isActive` is `m_isActive` and `activeWindow` is `m_activeWindow`,
which may be the address of a deleted window. The handlers change several of
these one after the other and one may call another, so that an action computes
its effect on a record, the *scene*. Clients are told that they are active by
`XdgWindow::activate` and, past it, by `onFormFactorChanged` of every chrome
(`FormFactorChanged`); a title bar, the end of a pinch, `onSetMinimized` and the
`onItemRemoved` of the Repeater, which both call `focusTopWindow(1)`, activate or
deactivate a window without the focus (`TitleTapped`, `Pinched`, `Minimized`,
`Destroyed`). Most of these come right again: a client that acknowledges
Activated emits `activatedChanged`, and its chrome takes the focus, even when it
is hidden. `aside` and `astray` remember the two ways found in which it does not:
`m_isActive` is not initialized, so that where it reads true no signal is emitted;
and a window that was told to step back but has not acknowledged it is told by a
change of the form factor to be active, which is no change for it. `ActivatedHasFocus`
excepts the windows concerned, `SwitcherFollowsFocus` holds until there is one.
`CaskScreen.qml:294` activates a `currentWindow` that is defined nowhere, which
does nothing.

### Session and Login

`job[p]` is the `StartServiceJob` of a program, `starting` the job whose
`start()` runs next in the same turn, `queue` holds the registrations the
watchers of *all* jobs hear of and the deferred deletes of finished jobs. As a
watcher ends its job whoever registers the name, a job may finish before its
turn and start its successor early; `KJob::emitResult` counts once only. The
process list goes over to `SessionTrack` when the last job is finished;
`closing` is the copy that `~SessionTrack` walks while finished processes leave
the original. `Login` adds `startcask`: `LogoutRequested` and `SigTerm` reach it
at any moment, `SessionFinished` and `LoopReturns` leave the loop, `Poll` waits
for drkonqi. The two share `session`, the life of the QProcess, and the bus.
A program that died, a session that crashed and an abandoned startup are final
states: CHECK_DEADLOCK FALSE.

### Environment

`own` and `systemd` are the environments of the process and of systemd's user
manager, `calls` the D-Bus calls under way, `sent` what the
`UpdateLaunchEnvJob` was given, `old` what was read before login for the
restoration. Values that systemd refuses (`Odd`) fail a whole call; other
programs write to the manager at any time (`foreign` remembers what);
`callFailed` remembers that a call failed. SIGTERM may end the wait for the
replies early, so that the import runs before they are delivered; a blocking read
is answered after the calls that went to systemd before it.

### Mpris2Player, Players

`Mpris2Player` holds the player (`player`), the requests on their way to it, the
replies and signals on their way back in one order (`incoming`), and the copy
with its counter `pending`. Values are numbered as the player takes them, which
is what lets `Replica` say that a copy never goes back. `Players` has the bus
(`nameOwner`), the announcements on their way, the rows, and `missed`, the names
that changed between the list and the watch.

### The rest

`PolkitAgent` keeps `m_dialog`, the dialogs that exist (one marked for deletion
may be answered until it is deleted), for each dialog the sessions connected to
its `finished()` in order, and the state of each helper; `fell` names the
handler that found no dialog or a session that was deleted, and is `"late"` where
the dialog answered had been marked for deletion before. `CursorGrabber` keeps
the grabber, the flag, the one grab under way (`flying`) and the `success()` that
the render thread has queued (`posted`), which no `disconnect` takes back; a grab
goes on when its surface is destroyed, because the grabber is a child of the item.
No QML file of this commit uses the type. `ShellProcess` has a process per crash:
where it is, the handlers it has left and the environment it inherits. `kill()`
makes the crashed process `dying`, it is gone later, and the child executes cask
without waiting for that, without `--respawn`, and with the `QT_QPA_PLATFORM` that
`startup()` sets "not for cask but for child processes". `RecentApps` has the database file
with its tables, the counts, and the rows of each of several shells; opening the
file, creating the table, reading it, inserting and counting up may each fail, as
the code goes on after each. `unread` holds the rows a shell failed to read at
its start and those others stored since. `PowerManager` has the five calls under
way and the one binding of the dialog that reads it, `enabled` of the Shutdown
button, which may be made before, between or after the answers; Restart is
offered whatever the service says. `Autostart` reads every file once (`wanted`,
`loaded`) and then runs one `AutoStartAppsJob` of any phase on its copy of the
list. That is the classes as they stand: no code of this commit makes the job
(`startup.cpp:87`, `:104` and `:146` are commented out and the `StartupPhase`
classes never constructed).

## 3. The runs

| run | instance | shows |
|---|---|---|
| `zpaces` | 3 windows, 3 workspaces, widths for phone, tablet and desktop; 567 175 states | `Placement` (lists and handlers agree), `OrdersAgree`, `LimitsFollowMode`, `NullZpaceNeedsTouch`, `NewWindowShown`, and that the module implements `WindowHomes` |
| `zpaces_live` | 2 windows; 34 321 states | under fairness the view returns to a workspace of the list and a closed window leaves every model |
| `zpaces_api` | 2 windows, 3 workspaces, 2 calls; 2.9 million states | `NeverLost`, `NeverOverfilled` whatever the API calls interleave with |
| `tasks` | 2 windows, 3 tasks, 3 ids; 966 852 states | `OneTaskPerWindow`, `NoDeletedWindow`, and under fairness `ClosedWindowsLetGo` |
| `login` | 2 servers and cask, 1 foreign registration, 1 connection whose only name is the prefix (the only kind `waitForKonqi` sees), 2 polls; 803 676 states | `StartedOnce`, `EndsCleanly`, and under fairness `StartupFinishes` and `LogoutEndsStarter` |
| `parts` | the ten parts of `Parts`, each on its instance; 928 798 states | `SessionVarsFresh`, `ImportKeepsOwn`, `SystemdRestored` (Environment); `StartsEachOnce`, `StartsAfter` (Autostart); `CopyFollowsPlayer`, `CopyAgrees`, `PlayingCanBeStopped` (Mpris2Player); `RowsFollowBus` (Players); `SafeInTurn` (PolkitAgent); `ActivatedHasFocus`, `SwitcherFollowsFocus` (Focus); `OnlyOwnImages`, `OneGrab` (CursorGrabber); `RespawnsOnce` (ShellProcess); `RecentAreStored` (RecentApps); `ShutdownFollowsAnswer` (PowerManager) |
| `zpaces_touch` (violation) | as `zpaces` | with a touch screen `addWindow` can be given -1 and dereferences `zpace(-1)` |
| `move_window` (violation) | as `zpaces_api` | moving the only window of a workspace to the same workspace returns -1 and leaves it off the list |
| `tasks_unpin` (violation) | as `tasks` | an unpinned task without window may stay on the bar, against the comment in `unPinTask` |
| `login_hang` (violation) | as `login` | a `cask_session` that cannot be started leaves `startcask` in its loop for ever |
| `login_konqi` (violation) | as `login` with a drkonqi whose connection has its unique name | `waitForKonqi` does not see it and cleans up at once |
| `polkit` (violation) | as `parts`, the polkit part, two identities | the session the dialog was made for completes, and the other one finds none: `Q_ASSERT(m_dialog)` fails |

The six violations are disagreements between the code and what it says of
itself; `PROJECT.json` quotes the lines under "findings".

**Parts.** The parts of that run share no state, so that interleaving them would
only multiply their state spaces. The variable `part` names the one that moves;
it is chosen in the initial state and the others stay where they are. The run is
thus ten runs, one for each part and each with all its initial states, and an
invariant of a part is checked against the whole of that part's behaviour.

**Bounds.** Three workspaces are enough for a removal before, at and behind the
current one, with one left; three windows fill a tablet workspace and overflow
it, or fill three phone workspaces. The limit 20 of the desktop is never
reached with three windows: the code treats it as it does the limits 1 and 2,
which are, and the proofs cover any number of windows. Two windows and three
tasks give a launcher, the task of a closing window and that of its successor;
three ids give a pair that shares a program and one without desktop file.
`MaxCalls` bounds the API calls: one to take a window out of its place and one
that acts upon what is left. Three programs are the sequence of the code;
`OtherMoves` registers a service out of its turn, and `KonqiTimeout` polls twice
so that the wait can go on and time out. `ForeignWrites`, `PlayerChanges`,
`PositionReads`, `MaxOwnerMoves`, `Authentications`, `MaxEvents`, `Launches`,
`Edits` bound what the outside does: a change while another is under way, an
owner that is taken over and leaves, an authentication after another, a focus
that moves twice before an acknowledgement, launches of two shells and a
restart. `Processes` and the two signals allow a crash of the respawned process,
of the child in the handler and of a second thread. Two windows in `Focus`: the
one that gains the focus and the one that loses it. Five events are what the
second exception of `ActivatedHasFocus` needs to show in full: two windows
created, the first clicked, a change of the form factor before the second has
acknowledged that it is to step back, and the end of one of them. For the safety
properties the theorems of section 4 hold for all values of these bounds.

**Fairness.** `Zpaces` assumes that a posted deferred delete is delivered and
that a ListView with pending changes is polished; `Tasks` that the oldest posted
event is taken. `LoginFairSpec` assumes that `startcask` and `cask_session`,
two event loops in two processes, each go on as long as they have something to
do, and that a program that announces a service does so if it lives. That is
what the Qt event loop and the scheduler do. No fairness is assumed of clients,
of the user, of the output, of programs that ought to react to SIGTERM or of
drkonqi. `StartupFinishes` names the case the code has no answer for: a program
that dies before it registers, for which no job waits with a timeout; that start
is then never finished, and the property excepts it (`DiedEarly`).

Every property of a passing run has a mutant in `PROJECT.json`: a plausible
mistake in a modelled function that makes TLC find it violated.

## 4. The proofs

All theorems are proved from the named assumptions of the modules alone (sets
that are not empty or are finite, bounds that are naturals, names that differ),
for every value of the constants.

| module | theorems | inductive invariant |
|---|---|---|
| `ZpacesProofs` | `TypeCorrect`, `PlacementHolds`, `OrdersAlwaysAgree`, `LimitsAlwaysFollowMode`, `NullZpaceOnlyWithTouch`, `NewWindowAlwaysShown`, `WorkspacesImplementHomes` | `TypeOK /\ Placement /\ Linked` |
| `ZpacesApiProofs` | `ApiNeverLoses`, `ApiNeverOverfills` | `ApiTypes /\ Kept /\ Once /\ Held` |
| `TasksProofs` | `TasksTypeCorrect`, `AlwaysOneTaskPerWindow`, `NeverADeletedWindow` | `TypeOK /\ HasId /\ QueueInv /\ TaskInv` |
| `LoginProofs` | `LoginTypeCorrect`, `AlwaysStartedOnce`, `AlwaysEndsCleanly` | `LoginTypeOK /\ SInv /\ PollsLeft /\ Begun` |
| `StartupProofs` | `EnvTypeCorrect`, `SessionVarsAlwaysFresh`, `ImportAlwaysKeepsOwn`, `SystemdAlwaysRestored` | `EnvTypeOK /\ CallsInTime /\ LeftoversGo /\ SentIsSet /\ NothingElse` and the two properties |
| | `AutostartTypeCorrect`, `AlwaysStartsEachOnce`, `AlwaysStartsAfter` | `FilesWhole /\ LoadedOnce /\ Launching /\ WaitedFor /\ StartsAfter` |
| | `ShellTypeCorrect`, `AlwaysRespawnsOnce` | `ShellInductive` |
| `MediaProofs` | `PlayingCanAlwaysBeStopped`, `PlayerIsReplicated` | `ValuesTyped /\ IncomingTyped /\ IncomingBetween /\ IncomingInOrder /\ PlayingCanBeStopped` |
| | `PlayerTypeCorrect`, `CopyAlwaysAgrees` | the same, with `FetchesCounted /\ CopySettles` |
| | `PlayersTypeCorrect`, `RowsAlwaysFollowBus` | `PlayersTypeOK`, a history for each name |
| `PartsProofs` | `FocusTypeCorrect`, `ActivatedAlwaysHasFocus`, `SwitcherAlwaysFollowsFocus` | `FocusInductive` |
| | `PolkitTypeCorrect`, `AlwaysSafeInTurn` | types, `~overlapped => InTurn` |
| | `RecentTypeCorrect`, `RecentAlwaysStored`; `CursorTypeCorrect`, `AlwaysOnlyOwnImages`, `AlwaysOneGrab`; `PowerTypeCorrect`, `ShutdownAlwaysFollowsAnswer` | one per part |
| | `PartsAreTheirOwn`, `PartsTypeCorrect`, `PartsKeepTheirPromises` | those of the parts |

*Workspaces.* `Placement` alone is not inductive: `DeleteWindow` takes a window
out of the models it is *linked* to, so a model that held it without a link
would keep it. `Linked` says that a model is linked to exactly the windows it
holds, which `Zpaces` preserves because only `popWindow`, reached from
`ZpacesApi` alone, cuts links. `OrdersAgree` is stated by positions; the
invariant `Ordered` compares two lists by what they hold. `NewWindowShown` and
the refinement are proved from the invariant step by step; the home of a window
is well defined because `Placement` says it has just one.

*The interface.* With `popWindow` none of that invariant survives:
`m_allSurfaces` may keep a deleted window, and a workspace off the list may hold
windows. What is left, and is enough, is that a Zpace is linked at least to what
it holds (`Kept`), that no two hold a window (`Once`) and that some Zpace holds
each (`Held`).

*Task bar.* A task of the bar follows an open window, or a closing one whose
`closed()` is on its way to it (`FollowsOrTold`) and stands in the queue before
the delete (`ClosedIsTrue`); the order of the queue is all that keeps the bar
from a deleted window. `OneFollower` and `NamedIsFollowed` give the one task.

*Session.* `StartedOnce` needs that, as long as a job waits, the program of its
successor was never started and it is not its turn (`TurnsToCome`), and that the
program whose turn it is was never started (`FirstTurn`). `EndsCleanly` needs
`ListedOnce`, that no process stands in the vector twice, and `Tracked`: a
program that runs is in the vector as long as `cask_session` runs, in what is
left of the copy while `~SessionTrack` waits, or is `late`.

*Environment.* What was sent twice is handled before anything else is asked of
systemd (`CallsInTime`), one of the two calls is enough (`SentIsSet`), leftovers
are listed, then unset (`LeftoversGo`), and what is not listed before the last
call was written since (`NothingElse`).

*Autostart.* What was launched is what is off the list of the job (`Launching`),
and only items of its phase are off it. The
order rests on `WaitedFor`: `startService` forgets an entry of `m_started` only
when nothing on the list waits for it. If then an item whose chain begins in the
phase were picked while nothing leads and no root is left, the first item of its
chain that is off the list would still be remembered (`ChainIsFollowed`): so the
fallback only upsets items without such a chain. `FilesWhole` says that what was
turned off has a file of the user's that is hidden.

*Player.* The refinement of `Replica` maps the copy and the player by property;
every value on its way lies between what is shown and what the player has, and
the values come in the order they were taken. For `CopyAgrees` that is not
enough, as a value that never comes would do no harm. `FetchesCounted` says that
the counter is the number of fetches asked for, on their way back, or still to be
made for an invalidation that is; `CopySettles` that for each property one of
four things holds: the copy is up to date, a fetch for it is under way, an
invalidation of it is, or the last message about it carries the value the player
has. A step that makes one of them false makes another true.

*Rows.* For a name that did not change unheard there is a history of its owners,
one longer than the announcements on their way, from what the rows show to what
the bus has; each announcement is a step of it.

*Active window.* At rest nothing is on its way, so the invariant has to speak of
what is: a window that shows itself as active has the focus, was put aside, or
is told last of all that it is not active (`EndsInactive`). A handler is a chain
of operations on a scene; each of them keeps the acknowledged states and tells a
window that loses the focus to step back (`StepsBack`, which is transitive), so
that one lemma (`HandlerKeeps`) serves every handler. An acknowledgement drops
the head of a queue but not its end (`RestEnds`). The same with `activeWindow`
for `focus` holds until a window is put aside.

*Polkit agent.* While no authentication overlaps, a session was asked for by its
own authentication, one that runs has the dialog, one that ended has not, and each
dialog has at most one session connected (`InTurn`). A late answer, the one
exception of `SafeInTurn`, is then one to a dialog that is not `m_dialog`. The answer of a dialog is `FoldLeft` over its
sessions. Its function of the sets of positions exists by a least counterexample
(`TurnsExist`), and so does what it keeps (`TurnsKeep`): this is induction for one
fixed operator, which the provers can do, unlike the library's theorems over any
operator.

*History, cursor, processes, power.* Short invariants: the rows are the table
but for what could not be read or others added; the grab that is connected is one
of `m_grabber` or of the seat the item has; a process that has handlers, or is in
one, was never executed again; the pending counter is the number of calls
unanswered.

*All parts.* A behaviour of `Parts` is a behaviour of each part
(`PartsAreTheirOwn`), so that the theorems of the parts give `PartsTypeOK` and
every other property of the run `parts`, for every value of the constants.

`SequenceLemmas` (what removing or moving an entry leaves, that a list stays free
of duplicates, the range of an appended list, how many elements are of a kind,
the least of some indices) carries the arithmetic. Every action has a step or
lemma of its own.

Every safety invariant, action property and refinement that a passing run checks
is proved. Model-checked only: the liveness properties (`ViewCatchesUp`,
`ClosedWindowsLeave`, `ClosedWindowsLetGo`, `StartupFinishes`,
`LogoutEndsStarter`), which are out of the prover's reach, as is `ENABLED`; and
the runs that end in a violation, which are counterexamples.

## 5. What the models assume of their surroundings

Qt: posted events are delivered in the order they were posted; a deferred delete
is one of them; an item view applies removals at its next layout and
assignments at once; `KJob::emitResult` emits once; a QProcess that fails to
start emits no `finished()`, and one that is destroyed kills its process.
D-Bus: messages of one sender to one receiver stay in order, a service watcher
hears of changes after its match rule is in place. Polkit: `Session::cancel`
completes in the same turn. systemd: a refused value fails the whole call, a
blocking call is answered after those the same process sent before. Steps of the environment (a foreign
registration, the death of a program, an owner change, an event of the user)
have no source line and are not in the map; definitions for library code are
marked external there.

## 6. Plan

1. `Zpaces`, `WindowHomes`, `ZpacesApi` and their proofs: done.
2. `Tasks` and its proofs: done.
3. `PolkitAgent`, `Mpris2Player`, `Players`: done and proved.
4. `Session`, `Login`, `Environment`: done and proved.
5. `Focus`: done and proved. Composing it with the workspaces, so that
   windows with a focus leave and come between workspaces, is what it lacks.
6. `CursorGrabber`, `ShellProcess`, `RecentApps`, `PowerManager`, `Autostart`:
   done and proved.

What is left of the plan: maximizing and full screen over acknowledgements, and
the two attempts of the session dialog.

## 7. Not modelled

* Maximize, full screen, move and resize of windows: geometry; the states sent
  and acknowledged follow the rules that `Focus` has for Activated.
* `clearAllSurfaces` and the attempts of `SessionItem.qml`: the first asks every
  client to close, which is a request to it and changes nothing in the shell, the
  second is a counter in one handler, and nothing in the repository says what a
  second attempt is to do.
* A client that destroys its xdg_toplevel before the surface: which handlers of
  QtWayland run in between is not in this repository.
* Recent files and applications: listing of directories and menus.
* Server bridges: forwarding to the interfaces of CaskServer and MauiMan, which
  are other repositories.
* Panels, controls, status bar items: layout, gestures and bindings; the
  countdown of the screenshot is one handler.
* Of modelled components: drawing and animation, argument parsing, log files,
  SQL text, remote calls to players, the blocking calls to login1, the
  registration of the polkit agent, the startup sound.
