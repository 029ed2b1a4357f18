# A verification of Agent-For-Slay-The-Spire-2

The repository is an agent that plays Slay the Spire 2 unattended. A mod inside the
game (C#, `src/mod/src`) serves the state of the game over HTTP and executes actions;
a Python process (`src/engine`) polls it, decides, posts decisions, learns from what
came of them and shows everything on a dashboard. This directory holds TLA+ models
of the parts where something can go wrong that a unit test would hardly reach, TLC
configurations that check them on small instances, and TLAPS proofs about all of
them: the gate, the agent's main loop, the telemetry archive, the dashboard stream, a
turn of a fight, and the menus with the visit to a room that is made of both.

    tlc -workers 2 -config gate_responsive.cfg MCDecisionGate
    tlapm DecisionGate_proofs.tla

## 1. Inventory

| Part | State | Operations | Hard because |
|---|---|---|---|
| **HTTP server of the mod** `HttpServer.cs` | one thread per request | `GET /state`, `GET /status`, `POST /decision` | requests run concurrently; answers can come too late for the client |
| **Dispatcher** `MainThreadDispatcher.cs` | callbacks posted to Godot's main thread | `Execute`, which gives up after 5 s | giving up does not withdraw the callback |
| **Snapshot cache** `StateSnapshotCache.cs` | JSON, fingerprint, revision | `Refresh` on the main thread | request threads enter the gate between its steps |
| **Decision gate** `DecisionGate`, `DecisionGatePolicy.cs` | action in flight, ready flag, last observation, deadlines | `TryBegin`, `Cancel`, `Observe` | three callers, two threads, two clocks |
| **Executor** `DecisionExecutor.cs` | - | plays a card, ends the turn, clicks an option | looks options up by an index that may be out of date |
| **UI probes, state reader** `UiAutomation.cs`, `StateReader.cs` | registry of clickable options | one reading of the game; a click | precedence of screens, exceptions half-way, screens that change while they are read |
| **Main loop** `main.py` | last screen, last decision, retry clock, pending transition, options that did nothing, run id | `_run_iteration` | retries after lost answers, a game that moves and restarts, disk errors |
| **Handlers, local policy, team coordinator** `decisions/`, `policy/`, `strategy/team_coordinator.py` | the turn that is being waited for | choice of a decision; `should_wait` | must not go round in circles, must not wait for ever |
| **Combat planner, policies, guardrail** `strategy/combat_planner.py`, `policy/`, `strategy/guardrails.py` | - | functions of one reading, asked again after each card | three parts that judge the same cards, with different criteria |
| **Menus: generic handler, policy, route planner, deck evaluator** `decisions/generic_choice.py`, `policy/`, `strategy/` | options that had no effect | automatic choices, a priority by words, a score | a long sequence of screens, each harmless, that leads nowhere |
| **Experience store** `learning/experience_store.py` | SQLite | `add_transition`, `finalize_run` | may raise into the main loop |
| **Telemetry** `telemetry/`, `history/run_store.py`, `learning/training_data_writer.py` | event ring and snapshot; two queues and writer threads; files | `publish`, `enqueue`, `flush`, `close` | full queues, failing writes, kill, shutdown order |
| **Dashboard** `dashboard/server.py`, `static/app.js` | one SSE thread per client; the page | snapshot, event stream | replays, breaks, a ring that forgets |
| Rewards, LLM back ends, prompts, teacher, skills, training, TUI, card data, start-up | | text, numbers, I/O | not modelled, see section 7 |

**How they interact.** The agent's only way into the game is HTTP: it polls
`/state`, compares what it sees with what it last acted on, and posts one decision. A
POST refreshes the snapshot on the main thread, asks the gate, and posts the action
to the main thread. The gate opens again when a later refresh sees that the action had
its effect, or after 10 s. The agent publishes each step on the event bus, which hands
the event to two sinks and to the dashboard's threads.

**What makes each part correct.** Gate: at most one action at a time, accepted only
when the game is ready, never lost in the queue, and the gate opens again. Snapshot:
all of it from one reading; revisions identify readings. Main loop: it never repeats
an action blindly, blames the right option, records the effect of every accepted
action, keeps playing, tries every option and reports when there is none. Combat turn: what
planner, policy and guardrail agree on is something the mod carries out, the guardrail's
demands hold over the turn and not only for the next card, and the turn ends. Menus: wherever
something can be clicked there is an option, the agent does not choose to die where it could choose not to, and
it gets out of every room and through every menu. Telemetry:
files that agree with each other after a kill at any moment, samples that pair a
decision with its own reward, publishing that does not block. Dashboard: no old event listed behind
newer ones, and a page that catches up.

`PROJECT.json` lists the hazards behind these properties, each at its line.

## 2. Modules

| Module | Models | |
|---|---|---|
| `GatePolicy` | what a reading of the game holds, when the gate accepts and when an action has settled | shared by the next |
| `DecisionGate` | HTTP threads, dispatcher, main thread, snapshot cache, gate, client | composes the mod's side with `ModClient` |
| `SingleAction` | abstract: one action at a time, claimed, attempted, released | implemented by `DecisionGate` |
| `AgentLoop` | the main loop, its handlers, policy and team coordinator, with the mod, the game, the network and the disk as environment | |
| `TelemetryArchive` | bus, two sinks, their writer threads, shutdown | |
| `DashboardStream` | bus, one SSE thread, the page | |
| `DecisionMode` | what decides: the local or the learned policy, or a language model that answers (`llm`), fails (`silent`) or is played by a script (`dry_run`) | shared by `CombatTurn` and `MenuChoice` |
| `Selection` | some of the elements of a sequence, defined without recursion | used by `ScreenReader`, `RoutePlanner` |
| `TurnPlan` | planner, policy and guardrail as operators on one reading of a combat | used by the next |
| `CombatTurn` | one turn of the player: reading, decision, execution, again | |
| `ScreenReader` | the mod's probes: from what the game shows to a screen type and a list of options | used by the next |
| `RoutePlanner`, `DeckEvaluator` | what a way through the map, and a card to a deck, is worth | used by the next |
| `MenuChoice` | which option of a reading the agent takes | used by the next |
| `MenuWalk` | screen after screen: reading, choice, click, the game's answer | |
| `RoomVisit` | a room with its fight and its screens, or the main menu | composes `CombatTurn` and `MenuWalk` |
| `MCDecisionGate`, `MCAgentLoop`, `MCCombatTurn`, `MCMenu`, `MCRoomVisit` | small instances; the scenes of `MCMenu` are rooms, rewards, events, shops, maps | |
| `DecisionGate_proofs`, `AgentLoop_proofs`, `TelemetryArchive_proofs`, `DashboardStream_proofs`, `CombatTurn_proofs`, `RoomVisit_proofs` | theorems | TLAPS |
| `FiniteChoice_proofs`, `MenuChoice_proofs` | lemmas about choices, sums and recursive functions; about readings, options and what is chosen | used by the last two |

### DecisionGate

Each element of `Requests` is a slot for an HTTP request. `pc` says where its handler
is: `refreshing` (posted a refresh, waits), `begin` (about to call `TryBegin`), `post`,
`executing`, `cancel`, `respond`. `queue` is the FIFO of posted callbacks; `main` the
callback the main thread is in. `Refresh` takes three steps (`RefreshReads`: state and
revision; `RefreshObserves`: `DecisionGate.Observe`; `RefreshPublishes`), because
request threads call `TryBegin` and `Cancel` in between. `flight` is the gate's action:
`_inFlight`, the type, the baseline, and the two clocks as flags (150 ms elapsed,
deadline passed); `fate` records, for the abstract specification only, whether the
action was claimed, attempted or failed. `RefreshTimesOut` and `ExecuteTimesOut` are the
5 s of the dispatcher: the thread goes on, its callback stays in `queue`. With
`Stall = FALSE` they never happen.

The state of the game is data: in combat or not, play phase or not, turn, busy,
a board, a menu of options. `Evolves` lets it change freely, except that the turn does
not fall while a combat lasts and that what is outside combat has no phase or turn. A reader may throw
half-way (`Throws`): `HalfReadings` are what is left of the reading then, with the options of the screen, a part of
them that has no enabled one (`Bare`), or none. The JSON that is served carries, besides the reading, the two flags of the gate as they
were when `Observe` had run; request threads may move the gate between that copy and the publication.

### AgentLoop

One action `Poll` is one `_run_iteration` up to the POST; then `PostExecuted`, `PostRefused`
or the loss of the answer. The mod is its gate in one step per call, because
`DecisionGate` shows what the steps in between do. `Tick` advances all clocks that run:
the gate's deadline, the stall time, the back-off, the team wait, the stuck time. A tick
stands for some seconds; only the order of the durations is kept, so that
`StallAfter > GateDeadline` stands for 12 s against 10 s. The policy's priorities are
an unknown but fixed order, so `PolicyChoice` takes any option among those that are neither tried nor stalled, and among all when none is left. `Signature`, by which the loop knows a screen
without options, counts all options that are shown, enabled or not. The mod's revision and the
screen's content give `ScreenId` as in the code: the revision for a combat, the content
for everything else.

### TurnPlan and CombatTurn

A combat state is a record `[hp, maxHp, block, energy, hand, foes, potions]`, with two more fields that the agent does not see: the `pile`, the
cards that effects may still bring to the hand in this turn, and `leads`, whether the agent's player is the first of the combat's. Indices count
from 1, and 0 stands for the code's -1. `Candidates` enumerates the sequences of up to five
cards that the energy pays for, scores each (in tenths, which is what rounding to two
places keeps) and takes the best eight; `Choosable` is the policy, the best candidate for the local
one and any of them for the learned one, whose scores are not modelled;
`Guarded` applies the combat rules of the guardrail. The planner stops at 1200 sequences, which is
`SequenceLimit`: `LookedAt` are the first so many of the affordable ones in the order of their generation. Six cards that the energy pays for have 1236;
the runs set the limit to 20, so that a hand of four is cut, and the theorems hold for any.

With a language model, `Commands` are the commands that an answer can be read as, `Valid` what the handler
lets pass (an index of a playable card or of a usable potion, a target that can be hit where one is needed) and `Fallback`
the card that is played instead of an answer that is refused or never came. The guardrail is not asked then, as in the code.

`CombatTurn` repeats this after every card. `AutoEnd` is the turn that `CombatHandler` ends without
asking a policy; `Refuses` the mod's error when a target is gone or a card cannot be played any more, which
happens because `MateKills` may come between the reading and the execution. What a card or a potion
does belongs to the game and is external: a card costs, hits and blocks, and may draw from the pile, exhaust cards of the hand, and
alter (`Alterations`) the cost, damage and block of other cards, the energy and what the foes are up to. `Played` is the set of the states
that may follow, since the game or chance decides which cards are exhausted and whether all are drawn. None of it is
known to the planner, whose sums are over cost, damage and block alone.

The state is read for `LocalContext.GetMe`, but the mod acts for `Players.FirstOrDefault()` (`GetPlayer`). For a player who does not lead, the
decision is therefore refused, or carried out with another player's card, potion or turn (`ActsForAnother`), and nothing is promised.

`owed` is a history variable: a block that `minimum_defense` has called for, and that some candidate has, is due until a card with block is
played, an attacker dies, or a card is played that exhausts or alters others (`KeepsDue`).

### ScreenReader, MenuChoice, MenuWalk

A scene is what the game shows: a modal, a menu, a map, a stack of overlays, a room, a fight, a
victory screen. Each is a layer `[type, controls]`; a control has its node class, the words in its
texts, its traits (visible, enabled, locked, lethal, ...) and the card it stands for. The
words are those that some part of the code looks for, so that `Says` stands for the code's substring
tests. `Read` runs the probes in their order, as `UiStateReader.Apply` does: a probe that finds its
screen ends the reading, and one that throws half-way (a control that is `broken`)
leaves the options it has registered and lets the next ones go on. An event's probe that meets such a control leaves the options it
has added so far. `halfRead` names the part of `ReadFullState` that throws: the `map`, the `player`, the `deck` or the `combat`. What
follows that part is then missing from the reading, the part itself may be there to some extent, and the fallback applies the probes to what there is. So a
reading is the screen (`Read`) with one of the `Glimpses`: the points of the map that were read before the throw (`MapParts`), a player without health, or without gold as well, the
first cards of the deck.

`MenuChoice` is the generic handler with its automatic choices, then the local policy: the priority by
words, the route planner on a map, the deck evaluator on a card reward, and only the untried options
as long as there is one. The learned policy may take any of them; for a language model, an answer that names no enabled
option is replaced by `MenuFallback`, and `FirstAvailable` is the script of a dry run. `MenuChoices` puts them
together. In `MenuWalk`, `screen` is the reading the agent decided on and `choice` the index of its option. The scene may change before the
decision arrives: `Settles` is the moment in which what could not be read becomes readable, and with `Vanishes` a screen on top that was
closed goes late. The mod reads the screen anew and clicks what has the index by then (`Hit`), be it the chosen option, another, or a disabled one,
unless its gate is closed (`Accepts`). `Answers` is what the game makes of the click and external. `ClickIsRefused` is an index without an option, a closed gate, or
a control that the mod does not click because it looks like an error report; `ClickIsLost` a click that the game swallows. `Vanishes` and
`ClickIsLost` happen at most `MaxLost` times together. When the agent still sees the screen it decided on after its answer, it marks the option as one without effect
(`Remembers`), and after a refusal at once.

`Route` scores count hundredths, and so do the values of cards; a path keeps the 256 first ways on
from each node, as in the code. `BestFrom` is the definition without paths that
`TravelsBest` compares the planner with: for maps on which no way leads back, and for other points all of whose
paths the planner knows and which no word of their text puts behind.

### RoomVisit

The same agent plays the fight and the screens by the same reading, one decision at a time: while a decision about
the fight is on its way, none about a screen is taken, and the other way round. A card may open a selection in the
middle of a fight (`Askers`), which is answered before the fight goes on; a fight that is won leads to
the victory screen and the rewards, also while a choice about a screen that vanished is on its way; a turn that is not won ends the visit, because the turn of the foes is
the game's.

### TelemetryArchive and DashboardStream

`TelemetryArchive` gives every write of `_write` its own step, a queue of `QueueSize`, a
writer that dies of an exception, and `start()`'s `finally` clause as a third thread
that closes the sinks one after the other. `Stop` is the signal that leads there, and it may strike in the middle of a `publish`.
`DashboardStream` knows a snapshot by the
last event and, for each key, the event that patched it last; what the page shows is such a
snapshot too. The page's list of events keeps the last `Window` (200) of them and looks for duplicates there, while the ring keeps
`RingSize` (500). `LoadFails` is a fetch of the snapshot that fails: the page shows an error and never connects, until it is reloaded.

## 3. Runs

| Run | Specification and bounds | Shows |
|---|---|---|
| `gate_stalls` | 2 slots, a fight in the player's phase, one move of the game, one type of decision, timeouts on, fairness of the request threads alone (386,010 states) | types, the gate never ready while in flight, the flags in the JSON come from a gate that had seen its reading, each request is answered whatever the main thread does |
| `gate_responsive` | 1 slot, a menu and one without an enabled option, 2 turns, one move of the game or one reading in part, timeouts off, fairness (368,008 states) | one action at a time (refinement of `SingleAction`), accepted on a ready game only, none abandoned, snapshot from one reading, revisions identify readings, the gate reopens |
| `gate_overlap` | timeouts on | *violated*: two actions at once |
| `gate_wrong_option` | two menus, timeouts off | *violated*: an index clicks the option of another menu |
| `agent_loop` | a fight with teammates, a screen with two options, one without any; 2 moves, a restart, lost answers, disk faults, fairness | right option blamed, no blind repeat, no transition lost; keeps playing, tries every option, reports a dead end |
| `agent_closes` | two screens | *violated*: a terminal state closes the run once |
| `agent_disk` | disk faults, fairness | *violated*: plays on with a read-only disk |
| `room_visit` | 13 hands, 8 groups of foes, a pile of two cards, a limit of 20 sequences, players who lead and who do not, two arenas, the scenes of `MCMenu`, all five modes of deciding, one lost or late click, fairness (168,854 states) | types; in a fight, no decision the mod refuses unless the game changed, a demanded block is played, every step brings the turn nearer to its end, the turn ends; on screens, no death by choice where there is another, no dead end, the best route, no burden taken where another card could be, what had no effect is repeated last, every room is left |
| `menu_rewards` | the same | *violated*: the rewards are taken before the agent goes on |
| `combat_lethal` | the turns alone | *violated*: a turn is given up only when no block would do |
| `telemetry_archive` | 4 events, queues of 1, failing writes, kill | consistent files, matching samples, clean exit keeps all, publish returns, shutdown ends |
| `dashboard_stream` | 5 events, ring of 4, list of 3, 2 breaks or reloads, fetches that fail (96,764 states) | types, listed in order, a page with the newest event shows the snapshot, the page catches up |

**Why the bounds are enough.** Two slots are what a client that gives up and retries can
have open; the third request of a longer series finds the state the first one left. Without timeouts, a client that waits for its answer has one request
open, so that one slot is enough; what `gate_responsive` says of one action at a time is then about consecutive requests, whose actions overlap in
the game although their POSTs do not. Two
turns distinguish "the turn advanced" from "it did not". A queue of one is full with one
item and empty with none, which are the cases the code tells apart; four events make a
run, a decision, its transition and the completion. A ring of four with five events is
outrun by a client that breaks off, and a list of three forgets sooner than the ring, as 200 do against 500. Hands of two to six cards against one to three
foes, with 12, 20 or 40 health and 2 or 3 energy, cover each combination of the guardrail's conditions
(lethal or not, above and below 40 %, with and without potion, with and without a block to play); the hand of
six is there so that the eight best candidates do not hold the sequence with the most block, and that of `Feints`
so that a call of `minimum_defense` is followed by a plan that it lets pass for a kill (below). Cards like Pommel Strike, Shrug It Off, True Grit, Fiend Fire,
Corruption and Uppercut stand for one kind of effect each.
The screens of `agent_loop` are a combat in which teammates may never end their turn, a choice, and a screen
without options (258,762 states).

The scenes of `room_visit` are the smallest in which each probe of the mod has something to
register and something to leave out: every kind of room and overlay, each with a control that is
locked, hidden, unaffordable, already selected, half-read or without effect where the code treats such a control
in a way of its own; `Selections`, `GameOvers`, `CardRewards` and `Maps` are what a click there may open. Two maps, one of which names a child that is missing,
are seen with little and with enough health and gold, which is what the scores ask. `MaxLost = 1` is the
first lost or late click at any place; after it, liveness is no longer promised (below).

**What is checked with a premise.**

- `RoomIsLeft` holds for the local policy, and for a language model that is silent or a dry run, in every room whose fight, if it had one, was won, until the first click is lost
  or answered late. The marks of options without effect are never cleared: a lost click on the proceed button of a rewards
  screen whose card reward is skipped makes the agent open and skip it for ever. Nothing in the
  repository promises more, so that this is an observation and no finding. A learned policy, or a model that answers, may go round in
  circles by preference.
- `DefendsWhenWarned` is about calls of `minimum_defense` that find a sequence with block among the candidates: with five
  strong attacks and one expensive block, all the candidates are attacks, and the override plays one of them. It leaves out the calls
  after which the rule lets a sequence without block pass, because its damage would kill an attacker: the planner's `_killed` looks at the attackers
  only, while the target is the weakest foe of all, so that the first card of that sequence may hit another foe than the one it would
  kill, and the block can no longer be paid for. The hand `Feints` (with the local policy, three foes) does just that; without the premise the
  property is violated there. It also leaves out what follows a card that exhausts or alters others: with 3 energy, 40 hit points, an attack of 20 and the hand
  Fiend Fire, Bludgeon, Defend, the override plays Fiend Fire because Defend comes after it in the sequence, and Fiend Fire exhausts Defend. A call that is repeated later in the turn needs a block of its own. And a
  turn that ends with no foe left that can be hit is left out: a card that attacks and blocks has then lost its target.
- `AcceptedUnlessChanged`, `TurnShrinks` and `TurnEnds` are about a player who leads (`game.leads`): the agent's player is the first of the combat's, as alone or as the
  host of a team. For any other, the mod acts with another player's hand, so that the index of a card is refused or means another card
  although nothing changed. `TurnShrinks` and `TurnEnds` also rest on a finite pile: cards that come back for ever would keep a turn going for ever.
- `RepeatsLast` is about the local policy and the fallback for a model that is silent. The script of a dry run takes option 1 when all that is
  untried is selected already, and the automatic choice among the cards of a selection does not look at the marks.
- `TakesNoBurden` is about a card that is taken as a card, judged by the deck as it was read, of which a part may be missing, and about a status or curse that fills at most one need of the deck (each is worth 200, being a burden
  costs 500). It leaves out what a word of `_automation_priority` moves, because the list is looked for anywhere in an option's
  text, its description included, and the ways through a map that was half-read below the cards.
- `TravelsBest` is about a map and a traveller that were read whole (`screen.route = scene.route`): when `ReadMap` or `ReadPlayer` threw, the planner knows a part of the
  paths, or none, and the lowest index is clicked. It also leaves out maps on which a way leads back, where the planner's paths and the best way are different things, and other points
  with 256 paths or more, of which the planner forgets some.
- `DiesOnlyWhenItMust` has the premise that the index names, when the decision arrives, the control that was chosen (`Chosen.control \in Hit`). Then it holds for any policy, whatever was
  half-read, which clicks were lost and what changed meanwhile. Without the premise it cannot hold: the mod clicks whatever has the index,
  disabled and lethal options included, which is the disagreement that `gate_wrong_option` shows.
- `OneActionAtATime` and the other properties of `gate_responsive` are about consecutive requests; two POSTs at once only occur with timeouts, where `gate_overlap`
  shows what comes of them.
- `ListedInOrder` leaves out the first entry of the list: a page lists the snapshot's last event before anything is replayed, and after more events than
  the list keeps, the same event arrives once more.
- `PageCatchesUp` is about a page whose snapshot was fetched: otherwise it never connects.
- `CleanExitKeepsAll` is about events that were queued: a full queue drops what is published, and no property forbids it.
- `LosesNoTransition` excludes a game that was started anew, whose revisions begin at 1 again.

**Violations.** The six violated runs each check one sentence of the repository's
documents or comments; `PROJECT.json` quotes them under `findings`. They are consequences
of single lines: a timeout that does not withdraw its callback (`gate_overlap`), a refresh that renumbers
options under a decision (`gate_wrong_option`), a flag that is cleared in the iteration that set it
(`agent_closes`), a write that may raise before its bookkeeping is done (`agent_disk`), a rule that ends the turn
under lethal damage without asking whether the chosen sequence prevents it (`combat_lethal`), and a rule
against leaving rewards that is never looked up, because the screen's type is reported as `CHOICE` (`menu_rewards`).

**Observations without a property.** Modelling met these as well; no document of the repository says
otherwise, or no state of the models can tell, so that no run checks them:

- A lost click on Continue in the main menu makes the agent try the next option, which begins a new run
  over the saved one.
- The planner keeps 256 ways on from a node, where `architecture/README.md:153` says all paths.
- An event choice whose label looks like an error report is offered as an option and refused when clicked.
- The guardrail's generic rule against disabled options sees only enabled candidates; the fallback
  `skip_reward` of one of its rules is an action the mod does not execute.
- Experience is stored under the text of a decision (`main.py:734`) and looked up under the key of a
  candidate (`experience_service.py:15`), so that no sample is ever found for a choice.
- `StateReader` reads the local player, `DecisionExecutor.GetPlayer` acts for the first of the combat's players: for anybody but the host of a team they differ.
- While the map is half-read, the agent travels by the lowest index.
- A dashboard page whose first `/api/snapshot` fails never connects to the stream (`LoadFails`); `recover_interrupted_runs` is
  never called; `_pending_decisions` of the training data writer is never emptied; `current_run_id` is set once per process.
- A planned kill counts as avoided damage of an attacker, but the first card of the plan goes to the weakest of all foes, so that another
  foe may be hit.
- A turn without a playable card is ended before the guardrail is asked, so that a potion that would save the
  player stays in its slot.

## 4. Fairness

- Request threads (`FairThreads`): the thread pool runs them, timeouts expire. Nothing is
  assumed of the main thread in `gate_stalls`, where `EveryCallAnswered` is checked.
- `FairSpec` of the gate adds the main thread, the clocks and the agent's polling, which
  `_main_loop` does for ever. `GateReopens` needs it: the gate is only ever opened by a
  refresh.
- `FairSpec` of `AgentLoop`: the loop runs, time passes, the mod answers; the game is not
  assumed to move. That each choice of an undetermined policy is taken is never assumed.
- `RoomVisit` (`VisitSpec`): the agent decides, in a fight (`Fights /\ AgentStep`) and on a screen (`Choosing`),
  because `_main_loop` polls for ever; the mod answers (`ModAnswer`, `Answering`), because its main thread runs as long
  as the game does; a screen that was changing settles (`Settles`), and a won fight gives way to what comes after it
  (`FightIsOver`). The teammates are not assumed to do anything, nor that the game swallows a click or that a screen goes late. `AgentStep`, `ModAnswer`,
  `Choosing` and `Answering` state the fairness of agent and mod by the one variable that their steps change, without what is decided and answered,
  which TLC would otherwise recompute for every state; the comments there say why it is the same.
  A decision is taken about a fight while no option is chosen (`choice = 0`), and about a screen while none about the fight is on
  its way (`decision = NoDecision`), because the agent takes one decision at a time.
- `TelemetryArchive`: the main thread goes on and timeouts expire; of the writers and the
  disk nothing is assumed.
- `DashboardStream`: the SSE thread and the browser run, and a fetch ends, well or badly; that the agent publishes is not
  assumed. Deadlock checking is off in the runs of `TelemetryArchive` and `DashboardStream`, where the process exits or
  everything has been shown; a room that was left, and a turn that was lost or ended, stutter.

## 5. Proofs

Six modules hold theorems, each about its specification as TLC checks it, for every value of the constants, and two the
lemmas that the last of them share. They assume the named assumptions of the constants (sentinels outside their sets, durations and bounds
natural, queues and ring with room for one item, scenes and starts of the types that the mod reports, maps that are finite) and nothing
else. `PROJECT.json` lists the theorems.

**The gate** (`DecisionGate_proofs`), for any number of slots, boards, menus and turns:

- `TypeCorrect`, `SnapshotIsCoherent`, `RevisionsIdentifyViews`, `GateIsClosedWhileInFlight`, `ServedAsReady`, with timeouts;
- under `~Stall`: `OneActionWhenResponsive`, `NoActionIsAbandoned`,
  `ActionsMeetReadyGame`, and `GateKeepsPromise`, the safety half of the refinement of `SingleAction`.

The inductive invariant has three layers. `TypeInv` adds to `TypeOK` that a thread about to
enter the gate has a decision. `CacheInv` says what holds in the middle of a `Refresh`
(`RefreshInv`) and that a published revision never exceeds the counter and names the
current fingerprint when equal (`RevisionInv`); without these `SnapshotCoherent` is not
inductive. `FlagsInv` says that from `Observe` to its end a refresh carries flags that are right for its reading, whatever the
request threads do to the gate meanwhile, which gives `ServedAsReady`. `ResponsiveInv` is about a responsive main thread: one request is open at a time
because the client waits for its answer (`SerialInv`), a thread past `TryBegin` owns the
flight (`FlightInv`), and the ready flag a `TryBegin` relies on comes from the refresh before
it (`ReadyInv`): it is why `Cancel`, which sets the flag without looking at the game, does no
harm to a client that goes on only after its answer. `gate_overlap` shows that `~Stall` is needed.

**The archive** (`TelemetryArchive_proofs`), for any number of events, any capacity of the queues, and a disk that may
fail at any write: `TypeCorrect`, `ArchiveIsConsistent`, `RewardsAreTheDecisions`, `CleanExitLosesNothing`. None of the
last three is inductive. `OrderInv` says what makes them hold: for each sink, what it has processed comes before what is
queued, and that before what is being published, although the queues drop events; and of two transitions the
later one is about a later decision. From it, `SamplesInv` says that samples come in the order of their decisions, hence
no decision has two. `ArchiveInv` follows the writer through one event: the manifest knows the last event, or the one
before it while the last one is being written or its writer has died. `CloseInv` follows the shutdown: nothing is published any more
(`QuietInv`), what was accepted is archived or queued (`TakenInv`), no end marker is queued before the flush is over
(`FlushingInv`), and once a store was flushed without a warning nothing of a run is left in its queue (`SettledInv`).

**The main loop** (`AgentLoop_proofs`), for any set of screens, any durations and any faults: `Typed`, `BlamesOnlyTheTried`,
`NeverRepeatsBlindly`, `TransitionsAreKept`, the last three about steps. The invariant behind them: the screen the loop remembers is that of its last
decision (`LastInv`), the screen of the acknowledged action is remembered until it has stalled, and whoever acts on it
again has waited (`AckedInv`, `ActingInv`), and unless the game was started anew an open transition has the revision
that the posted action was decided on (`PendingInv`). For the types, that the back-off is a power of two is said as the number of
subsets of a finite set, which doubles with one more element.

**The dashboard's stream** (`DashboardStream_proofs`), for any keys, any size of the ring and of the page's list, any number of events and breaks: `Typed`,
`EventsListedInOrder`, `PageIsTrue`. The ring is a run of events without a gap up to the newest, and the snapshot is what they patch (`RingInv`);
what the thread is about to send joins what the page has, unless the ring had forgotten an event in between, which is noted (`BatchInv`);
and as far as the page has come, it knows each key by the bus's event (`ViewInv`), also when a replay takes it back to an older one.
Behind its first entry, the list holds only what the stream has brought, in order and up to the last event id (`ListInv`), and a thread
that reconnects starts behind that id: so what the list has forgotten cannot come in again.
`PageIsTrue` is `ViewInv` for a page that stands at the newest event.

**A turn of a fight** (`CombatTurn_proofs`), for any hands, piles, foes and potions, any effects of cards as above, any limit of sequences, whatever teammates do and whichever mode decides: `Typed` and
`NeverRefusedUnchanged`, `DefendedWhenWarned` and `TurnIsShort`. Alone, the first two are not inductive; `IInv` says that the decision on its way is about the hand, the potions and the foes of the
reading it was made from and that the mod would accept it there if the player leads. The work is in the operators: that a candidate exists whenever
a card can be played, that its first card is playable and has a target that counts as the mod counts (`WeakestTarget` is the place of
the foe among those that can be hit), that the guardrail's override and the potion it prefers can be used, and that an answer the
handler lets pass, or the fallback for it, can be carried out.

- For `DefendedWhenWarned`, `OwedInv` says more than that the turn has not ended with a block due: as long as one is due and a foe can be hit, the threat
  is high but not lethal, so that the guardrail's first rule stays silent, and the hand holds a card with block that can be paid for, also after the card that is on
  its way. The first follows because cards without block that alter nothing (`KeepsDue`), teammates' kills of others and refusals change neither attackers
  nor block nor hit points (`SameThreat`; a potion is only drunk under the first rule); the second because what is on its way begins a sequence
  with block, whose cost is at least that of any two of its cards (`BlockOfSequence`), and because a sequence without block would make the rule
  call again.
- `TurnIsShort` is the part of `TurnEnds` that needs no fairness. `StepsLeft` counts three for each card of hand and pile, each potion and each living foe, and falls with every step of a turn whose player leads:
  what is played, drunk or killed is used up, what is drawn leaves the pile, and a decision that is refused was made before a teammate's kill, by the invariant of
  `NeverRefusedUnchanged`. Such a turn has at most 3 * (cards of hand and pile + potions + foes) + 2 steps.

**The menus and the room** (`MenuChoice_proofs`, `RoomVisit_proofs`), for any scenes, controls, cards, decks and maps, any number of lost and late clicks and
each mode: `VisitTyped`, `VisitNeverRefusedUnchanged`, `VisitDefendsWhenWarned`, `VisitTurnIsShort`, `VisitDiesOnlyWhenItMust`, `VisitHasNoDeadEnd`,
`VisitRepeatsLast`, `VisitTakesNoBurden`, `VisitTravelsBest`.

- What the mod reads: every builder of every screen registers options that click controls of the scene, also with the options that a probe
  left behind when it threw; an event's lethal choice is enabled only where all the open ones are lethal; and where a
  screen is unknown to the probes but has something to click, there is an enabled option in the end.
- What the agent takes: the automatic choice, the local policy, the learned one and the answer or fallback of a language model
  all name an enabled option. The local policy's is the foremost (`Foremost`): nothing untried has a higher priority, or the same and a higher score.
  That a best one exists needs scores that are numbers, hence the planner's paths and sums to be
  defined; their recursion is on the set of nodes that a path may still visit.
- `VisitIInv`: from the decision to the click, the choice is an enabled option of the reading it was made from, and no decision about the fight is on its way;
  what a click leads to is again a scene, because each answer keeps the controls, or changes traits only. The absence of dead ends follows from the reading of
  the scene alone. Death by choice does not, since the scene may have changed since the reading: `DeathInv` says that as long as a lethal
  choice is on its way, all open choices of the event in the scene are lethal (`Doomed`) or no control of the room is lethal (`Harmless`), and no change of the scene undoes
  that; what an index hits is a control of the scene (`HitIsShown`).
- `VisitRepeatsLast` needs that the priority of a tried option, -4000, is below every other one, and that the fallback takes from the untried
  (`UntriedComeFirst`); from the decision to its mark, nothing else is marked.
- `ChoiceInv`, for `VisitTakesNoBurden` and `VisitTravelsBest`: what the local policy chose is still the foremost when it is clicked and as long as the click is remembered,
  since options are only ever added to the tried ones. On a card reward, an option that clicks a card of it has the words and the value of the
  card, whatever the probes below have left; a needless burden is worth at most -300 and any other card at least -230.
- `VisitTravelsBest`, for every map on which no way leads back, however large: such a map has ranks (`RanksExist`), and by these
  the planner's table of paths and the table of `BestFrom` are compared (`Solved`): where no node on the way had to cut its list at 256, the best path
  has the best worth, and where one had to, the best path that is left has never more. So `RouteIsBest` asks that all paths are known of the other point
  only, not of the one that is clicked. On the map, an option that clicks a point of it has no words but the point's (`PointOfMap`).

Choices (`CHOOSE`, `Min`, `Max`), sums and recursive functions are reasoned about by a minimal counterexample in `FiniteChoice_proofs`, because
the induction theorems of the library take operators as parameters. `RoutePlanner`, `DeckEvaluator`, `TurnPlan` and
`ScreenReader` declare no recursive operator, and select from sequences by `Selection`, for the same reason.

**Only model-checked** is liveness (`GateReopens`, `EveryCallAnswered`, the liveness half of `SingleAction`, `KeepsPlaying`, `TriesEveryOption`,
`StuckIsReported`, `PublishReturns`, `ShutdownEnds`, `PageCatchesUp`, `TurnEnds`, `RoomIsLeft`): it needs fairness and `ENABLED`, which
the prover does not treat. Every invariant and action property of the passing runs is a theorem.

## 6. Order of the work

1. Gate, its abstract promise and its proofs.
2. `AgentLoop`, then its proofs.
3. `TelemetryArchive` and `DashboardStream`, then their proofs.
4. Combat: `TurnPlan` and `CombatTurn`, then its proofs.
5. Screens and menus: `ScreenReader`, `RoutePlanner`, `DeckEvaluator`, `MenuChoice`, `MenuWalk`, and with the combat `RoomVisit`, then the
   proofs about readings, choices and the visit.

What would come next: several turns of a fight with the foes' turn between them, the history pages of the dashboard, and `AgentLoop` over
`DecisionGate` instead of its one-step mod.

## 7. Not modelled, and why

- Of the LLM back ends, the models have what comes back: an answer, read as a command, or a failure, the check, the fallback and the
  script of a dry run. The prompts, the text of an answer and the network are left out, and so are teacher and skills, which produce text; the default
  mode, `local_policy`, uses none of them.
- The scores of the neural policy are numerical and its training runs offline; with `policy = "learned"` the models
  let it prefer any candidate, so that what is checked for it holds for every network.
- Rewards are arithmetic on one pair of states; the number goes into samples and decides nothing in the loop.
- The guardrail's rules for other screens than the combat: `GenericChoiceHandler` takes every screen that has options and
  reports it as `CHOICE`, so that none of them is looked up; `menu_rewards` shows what comes of it. For the same reason the
  handlers of card rewards, events and rests only get states without options.
- The effects of the adjustments by experience: no sample is ever found for a choice (see the observations).
- `recover_interrupted_runs`, the restart flow and the CARD_SELECT guard are never reached by the program; the notes of their components say why.
- The foes' turn, what a card does and what a screen answers are the game's, and external definitions here. Of cards, the models have cost, damage and
  block, the drawing and exhausting of cards, and changes of cost, damage, block, energy and threat; powers are not kept as a state of their own, cards do not
  come back from the discard or exhaust pile, none are created beyond the pile, and no effect of a card adds foes, turns or a loss of hit points. Of screens, they have the answers to each kind of
  control that the probes register; a screen of a kind that no probe knows is seen as its controls only.
- `HandleGetStatus`, which reads four values without a lock, is one more caller of `Refresh` in `DecisionGate`: nothing depends on
  its answer.
- The TUI and the history pages of the dashboard render; card data, logging and start-up are static or run once.
