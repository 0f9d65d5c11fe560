-------------------------- MODULE FloorGeneration ---------------------------
(***************************************************************************)
(* The generation of one floor (Game::GenerateFloors): a mask of rooms is  *)
(* carved out of a grid by a recursive random walk, the rooms are made row *)
(* by row, and the material that repairs the exit is laid out in them.     *)
(*                                                                         *)
(* The recursion is a pending call and the stack of the loops it was       *)
(* called from; every rand() is a choice.  GenerateBranchMask does not     *)
(* appear: GenerateFloorMask calls it for the cell it has just marked, and *)
(* it returns at once from a marked cell.  Enemies are drawn like items    *)
(* and left out.                                                           *)
(***************************************************************************)
EXTENDS Integers, Sequences, FiniteSets

CONSTANTS
  SizeX, SizeY,   \* mapSize
  RoomKinds,      \* configured rooms of type 1 that the draw may yield
  ExitKinds,      \* and of type 2
  ItemKinds,
  UniqueItems,    \* [RoomKinds \cup ExitKinds -> SUBSET ItemKinds], those with a chance
  RepairRecipe,   \* [ExitKinds -> Seq(ItemKinds)]
  MaxRoomItems,
  Tries,          \* Bound: the tries of a loop; 4 in the code, where each may come to nothing
  NoCall

ASSUME SizeAssumption == SizeX \in Nat \ {0} /\ SizeY \in Nat \ {0} /\ Tries \in 1..4

ASSUME FurnitureAssumption ==
  /\ RoomKinds # {} /\ ExitKinds # {} /\ RoomKinds \cap ExitKinds = {}
  /\ UniqueItems \in [RoomKinds \cup ExitKinds -> SUBSET ItemKinds]
  /\ RepairRecipe \in [ExitKinds -> Seq(ItemKinds)]
  /\ MaxRoomItems \in Nat \ {0, 1}   \* the enemies of a room divide by MaxRoomItems / 2

Grid == (0..(SizeX - 1)) \X (0..(SizeY - 1))
Start == <<SizeX \div 2, SizeY \div 2>>
Dirs == 1..4
Calls == [cell : Int \X Int, steps : Int, dir : Dirs]

ASSUME NoCallAssumption == NoCall \notin Calls

VARIABLES
  mask,    \* cells of floorMask that are 1
  call,    \* the call of GenerateFloorMask that begins now, or NoCall
  loops,   \* the loops that wait for their calls, innermost first: [cell, steps, tries]
  rooms,   \* rooms made so far: cell -> [kind, items]
  repairs  \* how much of the exit's recipe has been laid out

vars == <<mask, call, loops, rooms, repairs>>

-----------------------------------------------------------------------------
(* The random walk *)

Neighbours(c) == {<<c[1], c[2] + 1>>, <<c[1], c[2] - 1>>, <<c[1] - 1, c[2]>>, <<c[1] + 1, c[2]>>}

\* The switch on the direction
Ahead(c, dir) ==
  CASE dir = 1 -> <<c[1], c[2] + 1>>
    [] dir = 2 -> <<c[1], c[2] - 1>>
    [] dir = 3 -> <<c[1] - 1, c[2]>>
    [] dir = 4 -> <<c[1] + 1, c[2]>>

\* The bounds changeDir tests: X against the rows of the mask, Y against its columns
Tested == (0..(SizeY - 1)) \X (0..(SizeX - 1))

\* What mask[Y][X] == 0 may be: outside of the mask it reads foreign memory
ReadsFree(c) == IF c \in Grid THEN {c \notin mask} ELSE BOOLEAN

\* The switch in changeDir, where 1 and 2 are the other way round
Aside(c, dir) ==
  CASE dir = 1 -> <<c[1], c[2] - 1>>
    [] dir = 2 -> <<c[1], c[2] + 1>>
    [] dir = 3 -> <<c[1] - 1, c[2]>>
    [] dir = 4 -> <<c[1] + 1, c[2]>>

\* Where changeDir may leave a walker that stands on c when it draws dir: on a
\* free cell it stays, else it goes that way if the cell there passes the test
Mut_NoBoundsTest(c, dir) == IF c \in Grid \ mask THEN {c} ELSE {Aside(c, dir)}
changeDir(c, dir) ==
  LET free == IF c \in Tested THEN ReadsFree(c) ELSE {FALSE}
      next == IF Aside(c, dir) \in Tested THEN Aside(c, dir) ELSE c
  IN  {d \in {c} : TRUE \in free} \cup {d \in {next} : FALSE \in free}

changeDirs(C) == UNION {changeDir(c, dir) : c \in C, dir \in Dirs}

\* for (int z = 0; z < 5; z++) changeDir(...), which draws dir the last time
Wander(c, dir) ==
  UNION {changeDir(d, dir) : d \in changeDirs(changeDirs(changeDirs(changeDirs({c}))))}

-----------------------------------------------------------------------------
(* GenerateFloorMask *)

\* The call returns at once; calls out of the map are made or not, to no effect
Mut_OneColumnMore(r) ==
  r.steps <= 0 \/ r.cell \notin (0..SizeX) \X (0..(SizeY - 1)) \/ r.cell \in mask
Refused(r) == r.steps <= 0 \/ r.cell \notin Grid \/ r.cell \in mask

Return ==
  /\ call # NoCall /\ Refused(call)
  /\ call' = NoCall
  /\ UNCHANGED <<mask, loops, rooms, repairs>>

\* The cell becomes a room, and the walk goes straight on ...
Straight ==
  /\ call # NoCall /\ ~Refused(call)
  /\ mask' = mask \cup {call.cell}
  /\ call' = [cell |-> Ahead(call.cell, call.dir), steps |-> call.steps - 1, dir |-> call.dir]
  /\ UNCHANGED <<loops, rooms, repairs>>

\* ... or makes some tries in random directions
Fork ==
  /\ call # NoCall /\ ~Refused(call)
  /\ mask' = mask \cup {call.cell}
  /\ call' = NoCall
  /\ loops' = <<[cell |-> call.cell, steps |-> call.steps, tries |-> Tries]>> \o loops
  /\ UNCHANGED <<rooms, repairs>>

Try ==
  LET loop == Head(loops) IN
  /\ call = NoCall /\ loops # <<>>
  /\ loops' = IF loop.tries = 1 THEN Tail(loops)
              ELSE <<[loop EXCEPT !.tries = @ - 1]>> \o Tail(loops)
  /\ \/ UNCHANGED call
     \/ \E first, dir \in Dirs : \E c \in Wander(Ahead(loop.cell, first), dir) :
          call' = [cell |-> c, steps |-> loop.steps - 1, dir |-> dir]
  /\ UNCHANGED <<mask, rooms, repairs>>

carved == call = NoCall /\ loops = <<>>

-----------------------------------------------------------------------------
(* The rooms *)

\* The order of flr->rooms: row by row
Before(c, d) == c[2] < d[2] \/ (c[2] = d[2] /\ c[1] < d[1])

\* rooms[rand() % (size - 1)], or rooms[0]: never the last one of several
DrawnRooms ==
  IF Cardinality(mask) = 1 THEN mask ELSE {c \in mask : \E d \in mask : Before(c, d)}

Bag(s) == [i \in ItemKinds |-> Cardinality({n \in DOMAIN s : s[n] = i})]

\* GenerateItemsAndEnemies: up to MaxRoomItems of the kinds the room may have
Stocks(kind) == {Bag(s) : s \in UNION {[1..n -> UniqueItems[kind]] : n \in 0..MaxRoomItems}}

\* The exit is at exitCoordinates, the start of the walk
KindsAt(c) == IF c = Start THEN ExitKinds ELSE RoomKinds

GenerateRoom ==
  /\ carved
  /\ \E c \in mask \ DOMAIN rooms :
       /\ \A d \in mask \ DOMAIN rooms : ~Before(d, c)
       /\ \E kind \in KindsAt(c) : \E stock \in Stocks(kind) :
            rooms' = [d \in DOMAIN rooms \cup {c} |->
                        IF d = c THEN [kind |-> kind, items |-> stock] ELSE rooms[d]]
  /\ UNCHANGED <<mask, call, loops, repairs>>

furnished == carved /\ DOMAIN rooms = mask

Material == RepairRecipe[rooms[Start].kind]

Mut_LaysOutOneOfAKind ==
  /\ furnished /\ repairs < Len(Material)
  /\ \E c \in DrawnRooms : rooms' = [rooms EXCEPT ![c].items[Material[repairs + 1]] = 1]
  /\ repairs' = repairs + 1
  /\ UNCHANGED <<mask, call, loops>>
AddRepairItem ==
  /\ furnished /\ repairs < Len(Material)
  /\ \E c \in DrawnRooms : rooms' = [rooms EXCEPT ![c].items[Material[repairs + 1]] = @ + 1]
  /\ repairs' = repairs + 1
  /\ UNCHANGED <<mask, call, loops>>

generated == furnished /\ repairs = Len(Material)

-----------------------------------------------------------------------------

Init ==
  /\ mask = {}
  /\ \E dir \in Dirs : call = [cell |-> Start, steps |-> SizeX, dir |-> dir]
  /\ loops = <<>>
  /\ rooms = <<>> /\ repairs = 0

Next == Return \/ Straight \/ Fork \/ Try \/ GenerateRoom \/ AddRepairItem

Spec == Init /\ [][Next]_vars

-----------------------------------------------------------------------------
(* What is always true *)

TypeOK ==
  /\ mask \subseteq Grid
  /\ call \in Calls \cup {NoCall}
  /\ loops \in Seq([cell : Grid, steps : Int, tries : 1..Tries])
  /\ DOMAIN rooms \subseteq mask
  /\ repairs \in Nat

\* Every set of rooms that holds the exit and all neighbours of its rooms is the
\* whole floor: players walk from every room to every other (Game::Move), and so
\* to the exit and to all of its material. Whether it holds rests on changeDir,
\* which may walk several cells before a room is opened where it stands.
Connected ==
  \A part \in SUBSET mask :
    Start \in part /\ (\A c \in part : Neighbours(c) \cap mask \subseteq part) => part = mask

\* A generated floor has its exit, in the cell where every floor has it, and the
\* rooms hold all that its repair takes, however often an item is asked for.
Openable ==
  generated =>
    /\ Start \in mask
    /\ \A c \in mask : rooms[c].kind \in ExitKinds <=> c = Start
    /\ \A i \in ItemKinds :
         Bag(Material)[i] <= Cardinality({cn \in mask \X (1..(MaxRoomItems + Len(Material))) :
                                            cn[2] <= rooms[cn[1]].items[i]})
=============================================================================
