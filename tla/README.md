# GigahrushMUD in TLA+

A verification project for GigahrushMUD, a text game played over
TCP: players log in with a nickname, walk a generated house, pick up, craft and
use items, fight enemies, repair the exits that lead to other floors, and hide
from the *samosbor*, an event that kills everybody outside a shelter. The
modules are written from the code in `src/Server` and `src/Client`.

## The system

| Part | State | Operations | What is hard about it |
|---|---|---|---|
| Game world (`Game.cpp`, `GameStructures.*`) | players, rooms, enemies, items, exits of `gamedata` | one method per command, chosen by `CommandHandler.cpp` | the same fact kept twice (player → enemy and enemy → player; item and its text; equipped flag, ID and inventory); commands of several players interleave with the samosbor |
| Samosbor (`Server.cpp`) | `samosborGoing`, three timers, a one-second tick | wait, start, kill, stop and respawn | handlers that ignore the error code; chains of timers that abort each other; players that are disconnected at the wrong moment |
| Sessions (`Session.cpp`) | `sessionPlayer`, `isInSession`, the socket | login, commands, destruction | one player, several sessions; reset under a live session; throwing writes; no framing |
| Lifecycle (`Server/main.cpp`) | `serverRunning`, `serverActive`, `isExit`, the `io_context` | terminal commands; the loop of the server thread | two threads; `stop()` without `restart()`; commands that test one flag and change another |
| Autosave, save and load (`Server.cpp`, `Game.cpp`) | `autosaveGoing`, a timer, the save file | autosave start/stop, save, load | a timer armed twice; files that are missing; a save that takes no lock beside the handlers; what a round trip forgets |
| World generation (`Game.cpp`) | the mask of a floor | recursive carving of rooms | bounds; draws that never take the last element |
| Configuration (`JsonParser.*`, `Configurator`) | `config` | loading JSON | none: it is copied, and enters here as CONSTANTS |
| Client (`src/Client`) | connection state, two logs | interface thread, receiver thread, `main` | unlocked logs, a receiver that never ends, messages without framing |

How they interact. `StartServer` runs on a thread of its own and calls
`io_context.poll()` while the server runs; every session handler and every
timer handler runs inside of that call, so two handlers never overlap. The
terminal's thread calls the game directly (`gen`, `reset`, `save`, `load`) and,
at the end of `gen` and `load`, `Server::stopSamosbor`. The samosbor's handlers
walk `allSessions` and change the players of those that live. `CommandHandler`
is the only way from a session's line to a method of `Game`.

## Modules

| Module | What it is | Code |
|---|---|---|
| `GameWorld` | the generated world: one action per command handler, per login and disconnection, per step of the samosbor | `Game.cpp`, `GameStructures.*`, `CommandHandler.cpp`, `Session.cpp`, `Server.cpp` |
| `Duels` | what a battle promises: one-to-one fights that begin, go on in blows and end with a death; `GameWorld` implements it | |
| `MCBattles`, `MCExits` | two small worlds for TLC: one for fights, armor, healing and levels, one for floors, crafting, repair and weapons | |
| `GameWorldProofs`, `BattleProofs`, `ItemProofs` | theorems about `GameWorld`: its types, deaths and floors; battles and the refinement of `Duels`; where its objects are | |
| `FloorGeneration` | one floor: its mask carved by a random walk, its rooms, the material for its exit | `Game.cpp` (`GenerateFloors` and what it calls) |
| `MCFloor` | a small floor for TLC | |
| `FloorProofs` | theorems about `FloorGeneration` | |
| `ServerLife` | the terminal, the server thread and the timers | `Server/main.cpp`, `Server.cpp`, `GenerateGame`, `LoadGame`, `SaveGame`, `ResetGame` |
| `SamosborCycle` | what players are told of the samosbor: calm, announced, going | the SERVER messages of `Server.cpp` |
| `ServerLifeProofs` | theorems about `ServerLife` | |
| `Sessions` | login and commands of many connections, statement by statement, beside the terminal's `gen` and `reset` | `Session.cpp`, the acceptor and `sendChatMessage` of `Server.cpp`, `Server/main.cpp`, `SpawnPlayer`, `GenerateGame`, `ResetGame` |
| `SessionsProofs` | theorems about `Sessions` | |
| `SaveLoad` | `GameWorld` with a save file: saved, overtaken, lost, loaded | `SaveGame`, `LoadGame` and what they call in `Game.cpp`, `GameStructures.*` |
| `MCSave` | a small house for TLC | |
| `SaveProofs` | theorems about `SaveLoad` | |
| `ClientApp` | one client: interface, receiver, `main` | `Client/main.cpp`, `Client.cpp`, the logs of `Parser.h` |
| `ClientProofs` | theorems about `ClientApp` | |

A definition called `Mut_...` is no part of the model: it is the definition
below it with one plausible bug (a guard dropped, an off-by-one, a clear
forgotten). Put in its place it makes TLC refute the property it is listed with
in `PROJECT.json`, which shows that the property is able to fail.

### GameWorld

*State.* A player is a nickname; `players` are those that have a `Player`
object, `inSession` those whose `isInSession` is set. `location`, `stats`,
`inventory`, `equipped` (`wepEq` and `weaponEqID` in one), `dead` and the two
halves of `battleStatus`, `fighting` (the status) and `opponent` (the pointer),
are functions or sets of players. They are apart because the code sets them
apart: a won battle clears the status and leaves the pointer. Rooms hold
`items` and `enemies`, and the texts that `Look` shows, counted per kind, in
`itemDescription` and `enemyDescription`; `battleWith` is the enemy's pointer to
its player. `broken` are the exits still to be repaired.

*Actions.* An action is a whole handler, up to and including the death check it
ends with, since handlers do not overlap. `Die` is
`CheckPlayerDeath`; a handler in which the enemy strikes goes through
`EnemyTurn`, which either keeps the new stats or calls it. Random draws are
`\E` over what the code can draw: `rand() % (n - 1)` never takes the last of a
vector (`SpawnRooms`, `LootKinds`). `CheckPlayersSamosbor` kills all the players
it finds in one step, as its loop does.

*Abstractions.* Names, texts and JSON are left out; an item's kind stands for
its ID and name. The level number is only printed.

*Bounds.* Items are objects, and new ones (loot, crafts) are taken from a finite
stock, `Spare`: when it is used up, crafting and the win of a loot wait for an
item to be consumed. In the small worlds experience is bounded by the enemies
that can be beaten, as it is in the game.

### FloorGeneration

*State.* `mask` is the set of cells that `floorMask` marks. The recursion of
`GenerateFloorMask` is the call that begins (`call`) and the stack of the loops
that wait for the calls they made (`loops`); a call that goes straight on waits
for nothing, its caller ends with it. `rooms` maps the cells that have a `Room`
to its kind and items, and `repairs` counts the recipe's items laid out.

*Actions.* `Return`, `Straight`, `Fork` and `Try` are the ways through
`GenerateFloorMask`; `GenerateRoom` makes the next room of the two loops over
the mask; `AddRepairItem` is one turn of `AddRepairItemsToFloor`. Every `rand()`
is a choice. `changeDir` gives the cells where it may leave a walker that stands
on a given cell: it stays on a free cell inside of the bounds and otherwise goes
where it drew, if that passes its test. The test compares X with the rows and Y
with the columns (`Tested`); on a map that is not square it therefore reads
outside of the mask, and `ReadsFree` lets such a read yield anything.

*Abstractions.* `GenerateBranchMask` does not appear: its only caller from
outside has just marked the cell it is called for, and it returns at once from a
marked cell. Weights, texts and enemies are left out: every kind of room that
may be drawn is drawn.

*Configuration.* A room draws enemies by `rand() % (MaxRoomItems / 2)`, which
divides by zero when one item is the most a room may hold:
`FurnitureAssumption` asks for two.

*Bounds.* A loop makes `Tries` tries, four in the code. Since a try may come to
nothing, fewer tries give some of the behaviours of four; the proofs are for all
numbers from 1 to 4.

*Maps that are not square.* `Connected` holds on every square map (it is
proved). On a map of 4 by 3 or 3 by 4 cells TLC refutes it within seconds (set
`SizeX` in `Floor.cfg`): the walk leaves the rooms and opens one apart from all
others. A player that `SpawnPlayer` puts there cannot leave it, and material for
the exit may lie there. The example of
`src/README.md` is 10 by 10; nothing says that maps have to be square.

### ServerLife

*State.* The atomics of `main.cpp`, the flags of `Game` and of the `Server`, the
world and the save file as the commands tell them apart (a map or nothing; the
file may be missing), where the two threads are, and asio: the timers with a
pending wait, the queue of completed waits, and whether the context is stopped.

*Actions.* `Terminal` has an action per command; `gen` and `load` end with
`ArmSamosbor`, a step of its own, because the other thread runs in between,
and `reset` sets its flags before it clears the world. `Server` has one
per turn of `StartServer`'s loops. `Expire` completes a wait and `Run` runs the
handler at the head of the queue. `Arm` is `expires_after` and `async_wait`:
the pending wait of that timer, if there is one, is completed with an error,
which only the handlers of the two ticks look at.

*Time.* A timer has no duration, but handlers are quicker than the shortest
one: a wait that was armed (`fresh`) is not over before the completed waits
that were queued by then have run.

*Bounds.* `MaxGames` bounds `gen` and successful `load`s and with them the
chains of timers; `MaxAutosaves` bounds `autosave start`. The model starts when
`StartServer` has published its `Server`; the `reset` before that moment is
listed under the hazards. A command is typed at any time, or never.

With four chains, TLC finds that `poll()` need never return: there are always
two waits that abort each other. Two chains cannot do this. Two `autosave start`s
can: the handler of the autosave's timer ignores the error code and arms the
timer again, so the two waits abort each other, each time inside of `poll()`.
`exit` (`Stopping server...`) then waits for a thread that never leaves it.
`ExitEnds` is therefore stated for, and checked with, one `autosave start` at
most; with `MaxAutosaves = 2` in `OneGame.cfg` TLC refutes it within seconds. With
two games and one autosave it holds too, but the run is long.

### Sessions

*State.* A connection has another end (`peer`) and something that has arrived
(`sent`). A session is in one of the two reads it alternates between (`phase`)
and holds its player by `sessionPlayer`, a weak pointer. Player objects are
numbers: `players` are those the game owns; an object that only its enemy owns
(`fighting`, outside of `players`) is still there, one that nobody owns is gone
(`Vanish`), and every weak pointer to it is `NoObject`. `handler`, `current` and
`nickname` are the program counter and the locals of the one handler that runs.

*Actions.* `firstTime` is cut where it looks at the players (`Search`), looks
again (`Bind`) or spawns (`Spawn`), marks the player (`Mark`) and writes the
first view (`Look`); `read` where it tests the weak pointer (`Read`), tests that
the game has any players (`Check`), runs the command (`Parse`) and writes the
answer (`Answer`). The terminal's `gen` and `reset` are cut at
`gamedata = GameData()`, and `reset` lets go of the sessions one after the other;
these steps and those of a handler interleave as they like, since `gameMutex`
and `game_mutex` exclude nobody. A handler's step that reads what is being
replaced at that moment may crash (`Torn`); so may one that follows a null
pointer, and one whose write throws (`Thrown`). `End` is the destructor.

*Why the properties are not obvious.* `GhostsAreRefused`: a player in battle
survives `reset`, its session goes on with it, and `read` only asks whether the
game has any players. That this suffices needs the whole protocol: `reset`
stops the server before it replaces the game, and `gen` replaces a game only to
refuse, after which a login ends the server. `NobodyLockedOut` says of every moment
between two handlers what `isInSession` is for.

*What is not promised.* A player that disconnects in battle stays in battle: its
enemy is busy for everyone, and the samosbor, which walks live sessions, does
not free it, until the player comes back. A crash of the server is an outcome of
the model, not a property: `ClosingIsHarmless` is refuted without any command of
the operator.

The terminal's `stop`, `start` and `load` are left to `ServerLife`.

*Bounds.* Two connections ever, two nicknames, three objects at a time: two
connections ask for one nickname or play beside each other, each may log in
again, and three objects are a player that outlived its game and one of each
nickname. The operator types `gen` and `reset` at any time.

### SaveLoad

*State.* The variables of `GameWorld`, which this module extends; `file`, the
save as far as it is written, a record per room and per player; and `overtaken`,
how many handlers ever ran while a `save` was writing.

*Actions.* `Autosave` writes all in one handler. The terminal's `save` takes no
lock: it writes the rooms in the order of `Before`, floor by floor and row by
row (`SaveRoom`), and then the players
(`SavePlayer`), and handlers run between two records (`Play`) or amid one
(`SaveRoomAmid`, `SavePlayerAmid`). Amid a handler every list and every number of
the record is written as it was before or as it is afterwards, a list also when
only some of its objects have been moved; health may be the 0 between a blow and
`CheckPlayerDeath`, and a battle may be written when its status is set and its
enemy still the one of the battle before. `Load` is `LoadGame`, with `LoadItems`,
`LoadEnemies`, `LoadPlayers` and `LoadBattles` for its parts: objects come back
as clones of what is configured under their IDs, in any identity (`\E`), enemies
in full health, players alive and in no session. In between lies the end of the
program, or `reset`: what happened after the save is gone, so a complete file is
loaded at once (`Playing`).

*A file without a moment.* A file that no handler has overtaken (`overtaken = 0`)
shows one moment of the game, and the load gives it back: `SavedPairing`,
`SavedNobodyAtZero`, `SavedFloorsBelowRepaired` and `RoundTrip` speak of these.
Of others TLC finds all four false, and nothing in the repository promises
them: a player is written in battle with an enemy, is killed, the next player
takes the enemy and is written with it too, and after the load the second of them
is in battle with a null pointer (two handlers); a player is written between blow
and death check and comes back alive at zero health (one handler). What does hold
of every file is `BusyAreFought`: only a fighter can be left without an enemy, no
enemy is ever left busy with somebody who does not fight it.

*Twins.* `SetPlayerBattleEnemy` gives a player every free enemy of the saved ID
in its room, and a second player of that ID none. With two such enemies in one
room (`below = {ghoulA, ghoulB}` in `SaveLoad.cfg`) TLC refutes `SavedPairing`
and `BusyAreFought` at once: an enemy is busy with a player who fights another
one and can be fought by nobody. The run has one enemy of an ID in a room, and the theorems about loaded
worlds ask for it (`NoTwins`), but for `LoadedFloorsAreOpened`, which does not
depend on battles.

*What a load forgets.* `isDead` and the health of enemies are not written: the
dead rise where they lie, with the health they would come back with, and a
wounded enemy is whole again. `RoundTrip` lists what is kept.

*Left out.* A file that is cut off, since `LoadGame` then reads uninitialized
values; two saves of one file at a time; and what the unlocked `save` does beside
a handler other than write an older or a newer value: it may count a vector and
find another number of elements in it, or follow an object or an enemy's pointer
that is just being taken away (`Battle::save` when the status is set before the
enemy), which garbles the file or crashes. A number with more than one
intermediate value in a handler (experience before a level is taken off) is
written before or after.

*Bounds.* Two handlers while a save is written: as many as it takes to write two
players with one enemy. A blow of an enemy kills, and every room of the run is a
shelter: who dies there dies in a battle, and the deaths by the samosbor, which
end a battle in the same way, are in the run `Battles`. While one record is being written one handler runs.
Nobody logs in for the first time while players are written, whose number is
written before them. A game that was loaded from a file that handlers have
overtaken is not followed any further, it is only looked at. There are objects
for everything a file that was not overtaken can hold; an overtaken one may hold
an item twice, and where the model has no object for it, it stops, which is why
the deadlock check is off.

### ClientApp

*State.* `process`, `state` (login form or game), where the interface thread and
the receiver are (`ui`, `bg`), the `socket`, what the server has sent (`inbox`),
and the two logs as the numbers of their lines.

*Actions.* `Connect` is taken apart into `ClientConnect`, `ShowGame`,
`RaiseFlag`, `Spawn` and `SendNick`, because the receiver it makes runs beside
the last of them and, after a failure, beside the next `Connect`. A read takes
any number of messages or a part of one (`Takes`) and is parsed as one. `Handle`
appends to a log; while the interface thread echoes or draws, the same vectors
are in two threads (`Overlap`), and lines may be lost or the program crash
(`Tear`). `raced` remembers that, and `NewestStay` promises nothing afterwards.

*The end.* Nothing clears `bgRunning`: once a client has connected, `main` joins
its receiver for ever when the window is closed, while the socket stays open and
the server takes the nickname for taken. No property speaks of it: that `main`
does not end before its receiver is the guard of `Join`, and that it ends at all is
false. A lost connection is never noticed: the window goes on showing the game,
the receiver reads the error again and again, `SendServ` drops what is typed, and
`Connect` returns at its first test.

*Bounds.* Three messages, one command, logs cut to 3 and 1 lines: a log is cut
with lines of both threads in it, and messages coalesce.

## Runs

Passing runs:

| Run | Shows | Bounds |
|---|---|---|
| `Battles` | player and enemy are in battle with each other or not at all; the dead lie still; nobody stays at zero health; nobody leaves a battle alive; only the opponent wounds; a kill pays once; `GameWorld` implements `Duels` | 2 players, 2 rooms, 2 enemies, healing, armor, one level: enough for one player in battle while the other tries to join, to loot, and is killed by the samosbor |
| `Exits` | an item is in one place and has its text, the inventory keeps its limit though crafting does not test it, nobody loots under an enemy, nobody is above a broken exit; who is dead and connected comes back; who attacks whenever it has an effect is not in battle for ever, also with a weapon that a repair has used up | 2 players, 2 floors, 2 wires, 1 blade, 1 enemy, one place in the inventory: both players want both exits and only one item fits |
| `Floor` | on a map of 3 by 3 cells: the walk writes inside of the mask, the rooms are connected, and the exit's material is in them | 2 tries per loop; an exit that may hold a fuse of its own and needs two: floors of one room and of several, and one kind of item laid out twice |
| `OneGame` | a samosbor starts when its announced time is over; one chain of timers implements `SamosborCycle`; `exit` ends both threads whenever it is typed; all ten commands | 1 game, `autosave start` once: with two `ExitEnds` is false (see ServerLife) |
| `TwoGames` | with two chains of timers: a samosbor that goes on will end, chains do not multiply, samosbors keep coming while a server runs | 2 games: two chains are what aborts a wait; no autosave |
| `Sessions` | no player is played twice, nobody is locked out, no player of a lost game gets a command through, a closed connection ends its session | 2 connections, 2 nicknames, 3 player objects |
| `SaveLoad` | of every file that shows one moment: battles come back as pairs, exits in step with who passed them, nobody rises at zero health, a round trip keeps what it is meant to keep; of every file, also one that handlers have overtaken: no enemy of the loaded game is busy with somebody who does not fight it | 2 players, 2 floors, 2 enemies, 1 item, two handlers while a `save` is written, any number of loads |
| `ClientApp` | who sees the game is listened for, the client aborts only after a lost nickname, logs keep their newest lines, what is sent is read | 3 messages, 1 command |

Runs that TLC refutes, each a line of the repository that the code contradicts:

| Run | What happens |
|---|---|
| `EarlySamosbor` | `gen`, `reset`, `gen`, `start`: the second chain aborts the wait of the first, whose handler ignores the error, and the announced samosbor starts at once |
| `Restart` | `stop`, `start`: the `io_context` stays stopped and nobody is served |
| `EmptyStart` | `load` of a missing file after a good one, or of a save made without a game, lets `start` run an empty world. A `gen` that is refused empties a world the same way |
| `ClosedClient` | a client is closed while the server answers it: the write throws, nothing catches it, and the server ends with all its players |

Other behaviour a reader of the code may not expect, which the models contain
and no property forbids: `stopSamosbor` revives the players of live sessions
only, so who disconnects while dead and returns after the samosbor is still dead
until the next one ends; `RepairExit` and `Craft` use up an equipped weapon and
leave it equipped, and `Attack` then strikes nothing, not even with bare hands.

`ServerLife`, `Sessions` and `ClientApp` have no deadlock check: an operator may
type nothing, and a server or client that has ended is meant to stop. `Floor` has none, since generation ends.

## Fairness

`GameWorld`'s `FairSpec` has weak fairness of the start and of the end of the
samosbor: each arms the timer of the next, no player can hold one back, and
`SamosborsKeepComing` of `ServerLife` shows it for the timers themselves. No
fairness is asked of players: `Revival` holds of those who stay connected, and
`BattlesEnd` has weak
fairness of the player's own attacks as its premise: attacks that have an effect
are made, and the player is not able to attack for ever.

`ServerLife`'s `FairSpec` has weak fairness of the server thread and of the
handlers (the system schedules it, and `poll()` runs what is ready) and of the
terminal's commands once begun. Strong fairness is asked of `Expire`: a wait is
over one day, but is only collected inside of `poll()`, which the thread keeps
leaving and entering; and of `PollReturns`: its queue has to be empty at the
moment it looks. A queue that is empty again and again lets it return, since
timers that are armed now are not over before milliseconds have passed. Nothing
makes the operator type.

`Sessions`' `FairSpec`: a handler that has begun goes on, with each of its
statements (weak fairness), and `poll()` gets round to every session that has
something to read or whose connection is gone, however busy the others are
(strong fairness per session, since between two of its handlers others run).
Nobody has to connect, to type or to go away. `ClientApp`'s `FairSpec`: the
threads go on with what they have begun; nobody has to press a key, and the
server need not send.

## Proofs

All proofs are checked by TLAPS for every value of the constants, under the
assumptions that the modules name: `SentinelAssumption`, `MapAssumption` (rooms
lie on floors, one exit per floor, the vector of the first floor is not empty),
`ConfigAssumption` (configured numbers are natural, loot lists are not empty:
an empty one divides by zero in `Attack`), `GeneratedAssumption` (finitely many
items and enemies, each in one room) and `BoundAssumption`.

`GameWorldProofs`: `TypeCorrect`, `BattlesArePairs`, `TheDeadLieStill`.
`TypeOK` is not inductive alone: that the enemy's answer is a blow of an enemy
at all needs the player's pointer to name one, which is `Pairing`; that the
samosbor's end, which carries the dead away, leaves no battle over two rooms
needs the dead to be in none, which is `DeadLieStill`; and that again needs the
types. The invariant `IInv` is the conjunction of the three. `DieInv` is the
lemma about `CheckPlayerDeath`, stated for values that a handler has reached in
mid-course, so that every handler that ends with it cites it.
`FloorsAreOpened` proves `FloorsBelowRepaired`: its lemma `FloorStep` says that a
player's floor changes only through a usable exit, or to floor 1. It needs no
more than that players are in rooms (`Placed`), and nothing of battles, so that
`SaveProofs` can cite it for worlds whose battles were loaded badly.

`BattleProofs`: `NobodyStaysAtZero`, `BlowsAreOpponents`, `KillsArePaidOnce` and
the refinement `BattlesAreDuels`. The invariant `BInv` adds to `IInv` that
nobody is at zero health and that no enemy stands in two rooms: without the
second, an enemy that is beaten in one room would be left with zero health in
the other. The lemmas give every handler one of a few shapes (`Step`): battles
and health untouched, a battle begun, a blow, some deaths. Each shape is a step
of `Duels` or a stutter, and only a blow changes an enemy's health or pays.

`ItemProofs`: `ObjectsAreInOnePlace`, `RoomsAreDescribed`, `NobodyIsOverloaded`,
`LootIsGuarded`, `NobodyEscapes`. `ObjectStep` gives the shapes a step has for
the objects: taken, dropped, made from material, used up, spilled by the dead,
won as loot. The invariant `OInv` adds to `IInv` the three properties and
`Newcomers`: who has not played holds nothing, or else a player that
`SpawnPlayer` makes anew, with the smallest inventory, might hold too much.
`Described` needs `ItemInOnePlace`, since the texts of what the dead leave are
appended to those of the room: if one object were in both, its two texts would
describe one object. That crafting keeps the limit it does not test is
arithmetic: its material is used up, and of a recipe that asks for nothing
`Craft` makes nothing. The lemmas on bags (`CountUnion`, `CountAdd`,
`CountRemove`) say what one more or one less object, or a heap of them, does to
the counts of its kinds.

`SessionsProofs`: `TypeCorrect`, `NobodyIsBoundTwice`, `NobodyIsLockedOut`,
`NoGhostIsServed`, for any number of connections, nicknames and objects. The
invariant of the first two (`IInv`) says of the handler's place what is known
there: between `Search` and `Bind` the player found is still unbound, since no
other handler runs and the terminal can only take it away. That of the last two
(`JInv`) adds, for as long as the server has not been told to stop: a game is
generated, whoever is marked as playing is held by a session, and a session that
holds a player of an earlier game implies that the present one has no floors. A
game without floors has players only inside of the handler that has just spawned
one, whose first `Look` ends the server; so no `Check` ever meets a ghost beside
players of another game, which is why testing for any player is enough.

`SaveProofs`: `LoadedFloorsAreOpened`, `LoadedBattlesArePairs`, `NoEnemyIsLost`,
`LoadGivesBack` and `LoadedGameIsSound`, for any number of handlers that overtake
a save. The first has no hypothesis: as long as no handler has overtaken a save,
the records that are written show the game as it is (`Fresh`), so that a load
puts players and exits back where they were (`Climbed`). The others assume
`NoTwins`, that no room was generated with two enemies of one ID; without it
`SavedPairing` and `BusyAreFought` are false. Enemies only leave, so no room ever
has twins (`Alone`). `Pairing` makes the battles in a file that shows one moment
a matching of players and enemies (`Matched`), from which `SetPlayerBattleEnemy`
finds them again; and of the players it was written alive and with no more than
they can carry (`FileSound`). The objects they get are others than those they
had; that as many of every kind are as many altogether is `CountSize`, which
glues the bijections of the kinds into one injection. The invariant `SInv` says
that the game is `Sound` (`Alone`, `BInv` of `BattleProofs` and `OInv` of
`ItemProofs`) unless it was loaded from a file that handlers have overtaken, and
of every file that a room shows at most one enemy of an ID and that a player is in a
room. That is enough for `NoEnemyIsLost` (`BusyLoaded`), and for the two parts of
`LoadedGameIsSound` that hold of every file: objects are in one place and rooms
as they are described (`ObjectsLoaded`, `TextsLoaded`).

`ClientProofs`: `ConnectedIsListening`, `AbortNeedsLostNick`,
`ClientTypeCorrect` and `NewestLinesStay`. The invariant of the first two says
for each place inside of `Connect` what `state` and `bgRunning` are, and
that a receiver beside a login form is what a lost nickname has left. The types
need besides (`TInv`) that no more messages wait than were sent.
`NewestLinesStay` holds for logs of any limit: `PrunedLines` says what cutting
leaves, and `AppendKeepsNewest` that a line appended and a cut never cost one of
the newest lines.

`ServerLifeProofs`: `LifeTypeCorrect`, `EverySamosborWillEnd` and
`ChainsComeFromGames`, for any number of games and autosaves. The lemmas about
the queue say that appending an
aborted wait loses nothing and that taking the head loses only the head;
`ArmKeeps` says that arming a timer, though it aborts that timer's wait, leaves
every timer that had a wait with one. `ChainInv` counts the waits of the
samosbor, pending and completed: a handler spends one and arms one, and only the
end of `gen` or `load` arms one for nothing.
`OneChainStartsOnTime` and `OneChainCycles`, the refinement of `SamosborCycle`,
assume `MaxGames <= 1`: with two games `StartsAsAnnounced` is false, which is what
the run `EarlySamosbor` shows. With one chain no wait of the samosbor is ever
aborted (`OneInv`), so the phase that the players were told last can be read off
the one wait that is outstanding.

`FloorProofs`: `FloorTypeCorrect` and `FloorsAreOpenable`, for every size of map,
and `SquareFloorsConnected`, for every square one. A room is opened where the
call stands, so the invariant of the last has to say that a call stands on or
next to a room:
`Anchored`, which says it of the call and puts the waiting loops on rooms.
That it survives five calls of `changeDir` is `ChangeDirNear`: a walker stands
on a room, next to one on the grid, or just off the grid. From a room it goes
to a neighbour; on a free cell of the grid it stays; and off the grid only one
of its neighbours is on it, the room it came from (`BackOnGrid`). The middle
case is where the map must be square. `CarveConnected` adds a room next to one
of the others to a connected floor. `FloorsAreOpenable` is about the other half
of the generation: `StockInv` counts, while `AddRepairItem` goes on, the pieces
of each kind that have been laid out and those that lie in rooms.

Every safety invariant and every action property that a run checks is the
property of a theorem. What their hypotheses leave out is false: `Connected` on
maps that are not square, `StartsAsAnnounced` and `SamosborCycle` with two chains
of timers, battles after a load with twins, and what `SavedPairing` and its like
say, of a file that handlers have overtaken. Only model-checked is liveness
(`Revival`, `BattlesEnd`, `ExitEnds`, `SamosborsKeepComing`, `Returns`,
`Drains`): it needs fairness, which is beyond the prover.

## Not modelled, and why

* Commands that only report (`Look`, `Me`, `Map`, `Inventory`, ...): no state.
* Configuration loading and message texts: data that is copied and laid out.
* Torn reads in detail: what a handler sees of a game that is being replaced
  under it is a crash or nothing in `Sessions`, not every garbled value.
* Files that are cut off or garbled, and two saves of one file (see SaveLoad).
* The weights of the draws, and enemies of a new room, which are drawn like
  items.
* The moments before `StartServer` has published its `Server`: a `reset` then
  unlocks a mutex that was never locked.
* The layout of the client's window and of its messages (`Parser.h`), and the
  focus of its fields.
* The libraries (asio, nlohmann json, FTXUI, audiere). They are vendored and make
  up some 260 000 of the repository's 262 530 lines; asio's timers, sockets and
  `poll()` are modelled from how the program uses them. The program itself is
  about 6 500 lines, most of them commands that build JSON and the client's
  layout of it.

## What could come next

1. An abstract specification of a session (a nickname that is free, taken or in
   battle without a player behind it) that `Sessions` implements, and its proof.
2. An abstract persistent game that `SaveLoad` implements where no handler
   overtakes a save.
3. The safety half of the liveness properties: bounds that decrease with every
   step (blows until a battle is over, messages until a log is read).
4. The weighted draws, as functions checked against a reference definition.
