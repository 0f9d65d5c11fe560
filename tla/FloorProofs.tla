---------------------------- MODULE FloorProofs ----------------------------
(***************************************************************************)
(* Proofs about FloorGeneration: the mask stays on the grid for every size *)
(* of map, and on every square map all rooms of a floor are connected.     *)
(* The second does not hold on other maps, where changeDir tests the       *)
(* coordinates against each other's bounds.                                *)
(***************************************************************************)
EXTENDS FloorGeneration, TLAPS, SequenceTheorems, FiniteSetTheorems

Cells == Int \X Int
LoopsIn(M) == [cell : M, steps : Int, tries : 1..Tries]

\* A cell that is a room or next to one
Near(c) == \E m \in mask : c = m \/ c \in Neighbours(m)

-----------------------------------------------------------------------------
(* Cells *)

LEMMA GridCells == Grid \subseteq Cells /\ Tested \subseteq Cells /\ Start \in Cells
BY SizeAssumption DEF Grid, Tested, Cells, Start

LEMMA NeighbourCells == \A c \in Cells : Neighbours(c) \subseteq Cells
BY DEF Neighbours, Cells

\* Going ahead leads to a neighbour.
LEMMA AheadNeighbour ==
  ASSUME NEW c \in Cells, NEW dir \in Dirs
  PROVE  Ahead(c, dir) \in Neighbours(c)
<1>1. CASE dir = 1
  BY <1>1 DEF Ahead, Neighbours
<1>2. CASE dir = 2
  BY <1>2 DEF Ahead, Neighbours
<1>3. CASE dir = 3
  BY <1>3 DEF Ahead, Neighbours
<1>4. CASE dir = 4
  BY <1>4 DEF Ahead, Neighbours
<1> QED BY <1>1, <1>2, <1>3, <1>4 DEF Dirs

\* And so does going aside.
LEMMA AsideNeighbour ==
  ASSUME NEW c \in Cells, NEW dir \in Dirs
  PROVE  Aside(c, dir) \in Neighbours(c)
<1>1. CASE dir = 1
  BY <1>1 DEF Aside, Neighbours
<1>2. CASE dir = 2
  BY <1>2 DEF Aside, Neighbours
<1>3. CASE dir = 3
  BY <1>3 DEF Aside, Neighbours
<1>4. CASE dir = 4
  BY <1>4 DEF Aside, Neighbours
<1> QED BY <1>1, <1>2, <1>3, <1>4 DEF Dirs

\* The walk stays among the cells.
LEMMA ChangeDirCells ==
  ASSUME NEW c \in Cells, NEW dir \in Dirs
  PROVE  changeDir(c, dir) \subseteq Cells
BY AsideNeighbour, NeighbourCells DEF changeDir

LEMMA WanderCells ==
  ASSUME NEW c \in Cells, NEW dir \in Dirs
  PROVE  Wander(c, dir) \subseteq Cells
<1>1. ASSUME NEW C \in SUBSET Cells PROVE changeDirs(C) \in SUBSET Cells
  BY <1>1, ChangeDirCells DEF changeDirs
<1>2. {c} \in SUBSET Cells
  OBVIOUS
<1>3. changeDirs(changeDirs(changeDirs(changeDirs({c})))) \in SUBSET Cells
  BY <1>1, <1>2
<1> HIDE DEF Cells
<1> QED BY <1>3, ChangeDirCells DEF Wander

\* One step off the grid, the only way back is where one came from.
LEMMA BackOnGrid ==
  ASSUME NEW m \in Grid, NEW c \in Cells \ Grid, NEW d \in Grid,
         c \in Neighbours(m), d \in Neighbours(c)
  PROVE  d = m
<1>1. PICK mx \in 0..(SizeX - 1), my \in 0..(SizeY - 1) : m = <<mx, my>>
  BY DEF Grid
<1>2. PICK cx \in Int, cy \in Int : c = <<cx, cy>>
  BY DEF Cells
<1>3. PICK dx \in 0..(SizeX - 1), dy \in 0..(SizeY - 1) : d = <<dx, dy>>
  BY DEF Grid
<1>4. ~(cx \in 0..(SizeX - 1) /\ cy \in 0..(SizeY - 1))
  BY <1>2 DEF Grid
<1>5. \/ cx = mx /\ (cy = my + 1 \/ cy = my - 1)
      \/ cy = my /\ (cx = mx + 1 \/ cx = mx - 1)
  BY <1>1, <1>2 DEF Neighbours
<1>6. \/ dx = cx /\ (dy = cy + 1 \/ dy = cy - 1)
      \/ dy = cy /\ (dx = cx + 1 \/ dx = cx - 1)
  BY <1>2, <1>3 DEF Neighbours
<1>7. dx = mx /\ dy = my
  BY <1>4, <1>5, <1>6, SizeAssumption
<1> QED BY <1>1, <1>3, <1>7

\* On a square map the walk never strays from the rooms.
LEMMA ChangeDirNear ==
  ASSUME SizeX = SizeY, mask \subseteq Grid, NEW c \in Cells, Near(c), NEW dir \in Dirs
  PROVE  \A d \in changeDir(c, dir) : Near(d)
<1> SUFFICES ASSUME NEW d \in changeDir(c, dir), d # c PROVE Near(d)
  OBVIOUS
<1>1. Tested = Grid
  BY DEF Tested, Grid
<1>2. d \in Neighbours(c) /\ d \in Grid
  BY <1>1, AsideNeighbour DEF changeDir
<1>3. CASE c \in Grid
  <2>1. c \in mask
    BY <1>1, <1>3 DEF changeDir, ReadsFree
  <2> QED BY <2>1, <1>2 DEF Near
<1>4. CASE c \notin Grid
  <2>1. PICK m \in mask : c \in Neighbours(m)
    BY <1>4 DEF Near
  <2>2. d = m
    BY <2>1, <1>2, <1>4, BackOnGrid
  <2> QED BY <2>1, <2>2 DEF Near
<1> QED BY <1>3, <1>4

LEMMA WanderNear ==
  ASSUME SizeX = SizeY, mask \subseteq Grid, NEW c \in Cells, Near(c), NEW dir \in Dirs
  PROVE  \A d \in Wander(c, dir) : Near(d)
<1> DEFINE Kept == {d \in Cells : Near(d)}
<1>1. ASSUME NEW C \in SUBSET Kept PROVE changeDirs(C) \in SUBSET Kept
  BY <1>1, ChangeDirCells, ChangeDirNear DEF changeDirs
<1>2. {c} \in SUBSET Kept
  OBVIOUS
<1>3. \A d \in Kept : \A e \in changeDir(d, dir) : Near(e)
  BY ChangeDirNear
<1> HIDE DEF Kept
<1>4. changeDirs(changeDirs(changeDirs(changeDirs({c})))) \in SUBSET Kept
  BY <1>1, <1>2
<1> QED BY <1>3, <1>4 DEF Wander

-----------------------------------------------------------------------------
(* Loops *)

LEMMA SeqGrows ==
  ASSUME NEW S, NEW T, S \subseteq T, NEW s \in Seq(S)
  PROVE  s \in Seq(T)
<1>1. s \in [1..Len(s) -> S] /\ Len(s) \in Nat
  OBVIOUS
<1>2. s \in [1..Len(s) -> T]
  BY <1>1
<1> QED BY <1>1, <1>2

\* A loop begins
LEMMA PushLoop ==
  ASSUME NEW L, NEW s \in Seq(L), NEW l \in L
  PROVE  <<l>> \o s \in Seq(L)
OBVIOUS

\* A try is over
LEMMA NextTry ==
  ASSUME NEW M, loops \in Seq(LoopsIn(M)), Try
  PROVE  /\ Head(loops) \in LoopsIn(M)
         /\ loops' \in Seq(LoopsIn(M))
<1>1. Head(loops) \in LoopsIn(M) /\ Tail(loops) \in Seq(LoopsIn(M))
  BY HeadTailProperties DEF Try
<1>2. CASE Head(loops).tries = 1
  BY <1>1, <1>2 DEF Try
<1>3. CASE Head(loops).tries # 1
  <2> DEFINE rest == [Head(loops) EXCEPT !.tries = Head(loops).tries - 1]
  <2>1. Head(loops).tries - 1 \in 1..Tries
    BY <1>1, <1>3, SizeAssumption DEF LoopsIn
  <2>2. rest \in LoopsIn(M)
    BY <1>1, <2>1 DEF LoopsIn
  <2>3. loops' = <<rest>> \o Tail(loops)
    BY <1>3 DEF Try
  <2> HIDE DEF rest
  <2> QED BY <1>1, <2>2, <2>3, PushLoop
<1> QED BY <1>1, <1>2, <1>3

-----------------------------------------------------------------------------
(* The mask stays on the grid *)

LEMMA InitType == Init => TypeOK
BY SizeAssumption, GridCells DEF Init, TypeOK, Calls, Cells, Start

LEMMA NextType == TypeOK /\ [Next]_vars => TypeOK'
<1> SUFFICES ASSUME TypeOK, [Next]_vars PROVE TypeOK'
  OBVIOUS
<1> USE DEF TypeOK
<1>1. CASE Return
  BY <1>1 DEF Return
<1>2. CASE Straight
  <2>1. call \in Calls /\ call.cell \in Grid
    BY <1>2 DEF Straight, Refused
  <2>2. Ahead(call.cell, call.dir) \in Cells
    BY <2>1, GridCells, NeighbourCells, AheadNeighbour DEF Calls
  <2>3. call' \in Calls
    BY <1>2, <2>1, <2>2 DEF Straight, Calls, Cells
  <2> QED BY <1>2, <2>1, <2>3 DEF Straight
<1>3. CASE Fork
  <2> DEFINE loop == [cell |-> call.cell, steps |-> call.steps, tries |-> Tries]
  <2>1. call \in Calls /\ call.cell \in Grid
    BY <1>3 DEF Fork, Refused
  <2>2. loop \in LoopsIn(Grid)
    BY <2>1, SizeAssumption DEF LoopsIn, Calls
  <2>3. loops' = <<loop>> \o loops
    BY <1>3 DEF Fork
  <2> HIDE DEF loop
  <2>4. loops' \in Seq(LoopsIn(Grid))
    BY <2>2, <2>3, PushLoop DEF LoopsIn
  <2> QED BY <1>3, <2>1, <2>4 DEF Fork, LoopsIn
<1>4. CASE Try
  <2>1. Head(loops) \in LoopsIn(Grid) /\ loops' \in Seq(LoopsIn(Grid))
    BY <1>4, NextTry DEF LoopsIn
  <2>2. call' \in Calls \cup {NoCall}
    <3>1. CASE UNCHANGED call
      BY <3>1
    <3>2. ASSUME NEW first \in Dirs, NEW dir \in Dirs,
                 NEW c \in Wander(Ahead(Head(loops).cell, first), dir),
                 call' = [cell |-> c, steps |-> Head(loops).steps - 1, dir |-> dir]
          PROVE  call' \in Calls
      <4>1. Head(loops).cell \in Cells /\ Head(loops).steps \in Int
        BY <2>1, GridCells DEF LoopsIn
      <4>2. c \in Cells
        BY <4>1, AheadNeighbour, NeighbourCells, WanderCells
      <4> QED BY <3>2, <4>1, <4>2 DEF Calls, Cells
    <3> QED BY <1>4, <3>1, <3>2 DEF Try
  <2> QED BY <1>4, <2>1, <2>2 DEF Try, LoopsIn
<1>5. CASE GenerateRoom
  BY <1>5 DEF GenerateRoom
<1>6. CASE AddRepairItem
  BY <1>6 DEF AddRepairItem
<1>7. CASE UNCHANGED vars
  BY <1>7 DEF vars
<1> QED BY <1>1, <1>2, <1>3, <1>4, <1>5, <1>6, <1>7 DEF Next

\* Whatever the size of the map, the walk writes only to cells of the mask
\* (Game::GenerateFloorMask), and rooms are made only of marked cells.
THEOREM FloorTypeCorrect == Spec => []TypeOK
BY InitType, NextType, PTL DEF Spec

-----------------------------------------------------------------------------
(* Square maps *)

\* The pending call begins the walk or continues it next to a room, and the
\* loops that wait stand on rooms.
Anchored ==
  /\ mask # {} => Start \in mask
  /\ loops \in Seq(LoopsIn(mask))
  /\ call # NoCall => Near(call.cell) \/ (mask = {} /\ call.cell = Start)

\* A floor stays connected by a room next to one of its rooms.
LEMMA CarveConnected ==
  ASSUME Connected, Anchored, call # NoCall, mask' = mask \cup {call.cell}
  PROVE  Connected' /\ Start \in mask'
<1>1. CASE mask = {}
  <2>1. mask' = {Start}
    BY <1>1 DEF Anchored, Near
  <2> QED BY <2>1 DEF Connected
<1>2. CASE mask # {}
  <2>1. Start \in mask
    BY <1>2 DEF Anchored
  <2>2. PICK m \in mask : call.cell = m \/ call.cell \in Neighbours(m)
    BY <1>2 DEF Anchored, Near
  <2>3. ASSUME NEW part \in SUBSET mask', Start \in part,
               \A c \in part : Neighbours(c) \cap mask' \subseteq part
        PROVE  part = mask'
    <3> DEFINE old == part \cap mask
    <3>1. old \in SUBSET mask /\ Start \in old
      BY <2>1, <2>3
    <3>2. \A c \in old : Neighbours(c) \cap mask \subseteq old
      BY <2>3
    <3>3. old = mask
      BY <3>1, <3>2 DEF Connected
    <3>4. call.cell \in part
      BY <3>3, <2>2, <2>3
    <3> QED BY <3>3, <3>4
  <2> QED BY <2>1, <2>3 DEF Connected
<1> QED BY <1>1, <1>2

IInv == TypeOK /\ Anchored /\ Connected

LEMMA InitIInv == Init => IInv
<1> SUFFICES ASSUME Init PROVE IInv
  OBVIOUS
<1>1. TypeOK
  BY InitType
<1>2. Anchored
  BY DEF Init, Anchored
<1>3. Connected
  BY DEF Init, Connected
<1> QED BY <1>1, <1>2, <1>3 DEF IInv

LEMMA NextIInv == SizeX = SizeY /\ IInv /\ [Next]_vars => IInv'
<1> SUFFICES ASSUME SizeX = SizeY, IInv, [Next]_vars PROVE IInv'
  OBVIOUS
<1>1. TypeOK /\ TypeOK' /\ Anchored /\ Connected /\ mask \subseteq Grid
  BY NextType DEF IInv, TypeOK
<1>2. CASE Return
  BY <1>1, <1>2 DEF Return, IInv, Anchored, Connected
<1>3. CASE Straight
  <2>1. call # NoCall /\ mask' = mask \cup {call.cell}
    BY <1>3 DEF Straight
  <2>2. Connected' /\ Start \in mask'
    BY <1>1, <2>1, CarveConnected
  <2>3. loops' \in Seq(LoopsIn(mask'))
    <3>1. LoopsIn(mask) \subseteq LoopsIn(mask')
      BY <2>1 DEF LoopsIn
    <3>2. loops' = loops /\ loops \in Seq(LoopsIn(mask))
      BY <1>1, <1>3 DEF Straight, Anchored
    <3> QED BY <3>1, <3>2, SeqGrows
  <2>4. \E m \in mask' : call'.cell = m \/ call'.cell \in Neighbours(m)
    <3>1. call \in Calls /\ call.cell \in Cells
      BY <1>1, <2>1 DEF TypeOK, Calls, Cells
    <3>2. call'.cell \in Neighbours(call.cell)
      BY <1>3, <3>1, AheadNeighbour DEF Straight, Calls
    <3> QED BY <2>1, <3>2 DEF Near
  <2> QED BY <1>1, <2>2, <2>3, <2>4 DEF IInv, Anchored, Near
<1>4. CASE Fork
  <2> DEFINE loop == [cell |-> call.cell, steps |-> call.steps, tries |-> Tries]
  <2>1. call # NoCall /\ mask' = mask \cup {call.cell} /\ call' = NoCall
    BY <1>4 DEF Fork
  <2>2. Connected' /\ Start \in mask'
    BY <1>1, <2>1, CarveConnected
  <2>3. loops' \in Seq(LoopsIn(mask'))
    <3>1. LoopsIn(mask) \subseteq LoopsIn(mask')
      BY <2>1 DEF LoopsIn
    <3>2. loops \in Seq(LoopsIn(mask'))
      BY <1>1, <3>1, SeqGrows DEF Anchored
    <3>3. loop \in LoopsIn(mask')
      BY <1>1, <2>1, SizeAssumption DEF LoopsIn, TypeOK, Calls
    <3>4. loops' = <<loop>> \o loops
      BY <1>4 DEF Fork
    <3> HIDE DEF loop
    <3> QED BY <3>2, <3>3, <3>4, PushLoop
  <2> QED BY <1>1, <2>1, <2>2, <2>3 DEF IInv, Anchored
<1>5. CASE Try
  <2>1. mask' = mask /\ Head(loops) \in LoopsIn(mask) /\ loops' \in Seq(LoopsIn(mask))
    BY <1>1, <1>5, NextTry DEF Anchored, Try
  <2>2. Head(loops).cell \in mask /\ Head(loops).cell \in Cells
    BY <1>1, <2>1, GridCells DEF LoopsIn
  <2>3. call' # NoCall => Near(call'.cell)
    <3>1. CASE UNCHANGED call
      BY <1>5, <3>1 DEF Try
    <3>2. ASSUME NEW first \in Dirs, NEW dir \in Dirs,
                 NEW c \in Wander(Ahead(Head(loops).cell, first), dir),
                 call' = [cell |-> c, steps |-> Head(loops).steps - 1, dir |-> dir]
          PROVE  Near(call'.cell)
      <4>1. Ahead(Head(loops).cell, first) \in Neighbours(Head(loops).cell)
        BY <2>2, AheadNeighbour
      <4>2. Ahead(Head(loops).cell, first) \in Cells /\ Near(Ahead(Head(loops).cell, first))
        BY <4>1, <2>2, NeighbourCells DEF Near
      <4>3. Near(c)
        BY <4>2, <1>1, WanderNear
      <4> QED BY <3>2, <4>3
    <3> QED BY <1>5, <3>1, <3>2 DEF Try
  <2> QED BY <1>1, <2>1, <2>3 DEF IInv, Anchored, Connected, Near
<1>6. CASE GenerateRoom \/ AddRepairItem \/ UNCHANGED vars
  <2>1. UNCHANGED <<mask, call, loops>>
    BY <1>6 DEF GenerateRoom, AddRepairItem, vars
  <2> QED BY <1>1, <2>1 DEF IInv, Anchored, Connected, Near
<1> QED BY <1>2, <1>3, <1>4, <1>5, <1>6 DEF Next

\* On every square map, whatever rand() draws, all rooms of a floor are
\* connected: five calls of changeDir in a row never carry the walk away from
\* the rooms (src/Server/Game/Game.cpp:360-394).
THEOREM SquareFloorsConnected == SizeX = SizeY => (Spec => []Connected)
<1> SUFFICES ASSUME SizeX = SizeY PROVE Spec => []Connected
  OBVIOUS
<1>1. IInv /\ [Next]_vars => IInv'
  BY NextIInv
<1>2. IInv => Connected
  BY DEF IInv
<1> QED BY InitIInv, <1>1, <1>2, PTL DEF Spec

-----------------------------------------------------------------------------
(* What the exit needs is on its floor *)

\* The walk begins at the exit's cell, and something is carved before it ends.
Begun ==
  /\ mask = {} => call # NoCall /\ call.cell = Start /\ call.steps > 0
  /\ mask # {} => Start \in mask

\* No room holds more than it was made with and what has been laid out since.
Held == 0..(MaxRoomItems + repairs)
RoomRecords == [kind : RoomKinds \cup ExitKinds, items : [ItemKinds -> Held]]

RoomsOK ==
  /\ rooms \in [DOMAIN rooms -> RoomRecords]
  /\ \A c \in DOMAIN rooms : rooms[c].kind \in KindsAt(c)

\* Of each kind, the rooms hold at least what has been laid out.
Wanted(i) == {n \in 1..repairs : Material[n] = i}
Lying(i) ==
  {cn \in mask \X (1..(MaxRoomItems + repairs)) : cn[2] <= rooms[cn[1]].items[i]}

LaidOut == \A i \in ItemKinds : Cardinality(Wanted(i)) <= Cardinality(Lying(i))

StockInv ==
  /\ TypeOK /\ Begun /\ RoomsOK
  /\ repairs > 0 => furnished
  /\ furnished => LaidOut

LEMMA StartOnGrid == Start \in Grid
<1>1. SizeX \div 2 \in 0..(SizeX - 1) /\ SizeY \div 2 \in 0..(SizeY - 1)
  BY SizeAssumption
<1> QED BY <1>1 DEF Start, Grid

LEMMA GridFinite == IsFiniteSet(Grid)
<1>1. IsFiniteSet(0..(SizeX - 1)) /\ IsFiniteSet(0..(SizeY - 1))
  BY FS_Interval, SizeAssumption
<1> QED BY <1>1, FS_Product DEF Grid

LEMMA SetsFinite ==
  mask \subseteq Grid /\ repairs \in Nat =>
    \A i : /\ IsFiniteSet(Wanted(i)) /\ Cardinality(Wanted(i)) \in Nat
           /\ IsFiniteSet(Lying(i)) /\ Cardinality(Lying(i)) \in Nat
<1> SUFFICES ASSUME mask \subseteq Grid, repairs \in Nat, NEW i
             PROVE  /\ IsFiniteSet(Wanted(i)) /\ Cardinality(Wanted(i)) \in Nat
                    /\ IsFiniteSet(Lying(i)) /\ Cardinality(Lying(i)) \in Nat
  OBVIOUS
<1>1. IsFiniteSet(1..repairs) /\ IsFiniteSet(1..(MaxRoomItems + repairs))
  BY FS_Interval, FurnitureAssumption
<1>2. IsFiniteSet(mask)
  BY GridFinite, FS_Subset
<1>3. IsFiniteSet(mask \X (1..(MaxRoomItems + repairs)))
  BY <1>1, <1>2, FS_Product
<1>4. Wanted(i) \subseteq 1..repairs
  BY DEF Wanted
<1>5. Lying(i) \subseteq mask \X (1..(MaxRoomItems + repairs))
  BY DEF Lying
<1>6. IsFiniteSet(Wanted(i)) /\ IsFiniteSet(Lying(i))
  BY <1>1, <1>3, <1>4, <1>5, FS_Subset
<1> QED BY <1>6, FS_CardinalityType

\* The same in the next state.
LEMMA SetsFiniteNext ==
  (mask \subseteq Grid /\ repairs \in Nat =>
    \A i : /\ IsFiniteSet(Wanted(i)) /\ Cardinality(Wanted(i)) \in Nat
           /\ IsFiniteSet(Lying(i)) /\ Cardinality(Lying(i)) \in Nat)'
BY SetsFinite, PTL

\* A room is made with at most MaxRoomItems of a kind.
LEMMA StockBounds ==
  ASSUME NEW kind \in RoomKinds \cup ExitKinds, NEW stock \in Stocks(kind)
  PROVE  stock \in [ItemKinds -> 0..MaxRoomItems]
<1>1. PICK n \in 0..MaxRoomItems : \E s \in [1..n -> UniqueItems[kind]] : stock = Bag(s)
  BY DEF Stocks
<1>2. PICK s \in [1..n -> UniqueItems[kind]] : stock = Bag(s)
  BY <1>1
<1>3. n \in Nat /\ n <= MaxRoomItems
  BY <1>1, FurnitureAssumption
<1>4. ASSUME NEW i \in ItemKinds
      PROVE  Cardinality({k \in DOMAIN s : s[k] = i}) \in 0..MaxRoomItems
  <2>1. IsFiniteSet(1..n) /\ Cardinality(1..n) = n
    BY <1>3, FS_Interval
  <2>2. {k \in DOMAIN s : s[k] = i} \in SUBSET (1..n)
    BY <1>2
  <2>3. /\ IsFiniteSet({k \in DOMAIN s : s[k] = i})
        /\ Cardinality({k \in DOMAIN s : s[k] = i}) <= n
    BY <2>1, <2>2, FS_Subset
  <2>4. Cardinality({k \in DOMAIN s : s[k] = i}) \in Nat
    BY <2>3, FS_CardinalityType
  <2> QED BY <2>3, <2>4, <1>3, FurnitureAssumption
<1>5. stock = [i \in ItemKinds |-> Cardinality({k \in DOMAIN s : s[k] = i})]
  BY <1>2 DEF Bag
<1> QED BY <1>4, <1>5

\* The recipe of the exit, once the floor is furnished.
LEMMA MaterialKinds ==
  ASSUME Begun, RoomsOK, furnished, mask # {}
  PROVE  Material \in Seq(ItemKinds)
<1>1. Start \in DOMAIN rooms
  BY DEF Begun, furnished
<1>2. rooms[Start].kind \in ExitKinds
  BY <1>1 DEF RoomsOK, KindsAt
<1> QED BY <1>2, FurnitureAssumption DEF Material

\* Nothing is wanted before the first piece of the recipe is laid out.
LEMMA NothingWanted == repairs = 0 /\ mask \subseteq Grid => LaidOut
<1> SUFFICES ASSUME repairs = 0, mask \subseteq Grid, NEW i \in ItemKinds
             PROVE  Cardinality(Wanted(i)) <= Cardinality(Lying(i))
  BY DEF LaidOut
<1>1. Wanted(i) = {}
  BY DEF Wanted
<1>2. Cardinality(Wanted(i)) = 0
  BY <1>1, FS_EmptySet
<1> QED BY <1>2, SetsFinite

LEMMA NothingWantedNext == (repairs = 0 /\ mask \subseteq Grid => LaidOut)'
BY NothingWanted, PTL

LEMMA InitStock == Init => StockInv
<1> SUFFICES ASSUME Init PROVE StockInv
  OBVIOUS
<1>1. TypeOK /\ mask = {} /\ repairs = 0 /\ rooms = << >>
  BY InitType DEF Init
<1>2. Begun
  <2>1. PICK dir \in Dirs : call = [cell |-> Start, steps |-> SizeX, dir |-> dir]
    BY DEF Init
  <2>2. call \in Calls
    BY <2>1, SizeAssumption, GridCells DEF Calls, Cells
  <2>3. call # NoCall
    BY <2>2, NoCallAssumption
  <2> QED BY <1>1, <2>1, <2>3, SizeAssumption DEF Begun
<1>3. RoomsOK
  <2>1. DOMAIN rooms = {}
    BY <1>1
  <2>2. rooms \in [{} -> RoomRecords]
    BY <1>1
  <2> QED BY <2>1, <2>2 DEF RoomsOK
<1>4. LaidOut
  BY <1>1, NothingWanted
<1> QED BY <1>1, <1>2, <1>3, <1>4 DEF StockInv

\* Carving leaves the rooms alone, and is over before they are furnished.
LEMMA CarvingKeepsStock ==
  ASSUME StockInv, Return \/ Straight \/ Fork \/ Try
  PROVE  StockInv'
<1>1. TypeOK /\ TypeOK' /\ Begun /\ RoomsOK
  BY NextType DEF StockInv, Next
<1>2. UNCHANGED <<rooms, repairs>>
  BY DEF Return, Straight, Fork, Try
<1>3. ~furnished /\ repairs = 0
  <2>1. ~carved
    BY DEF Return, Straight, Fork, Try, carved
  <2> QED BY <2>1 DEF StockInv, TypeOK, furnished
<1>4. Begun'
  <2>1. CASE Return
    <3>1. mask # {}
      BY <2>1, StartOnGrid DEF Return, Refused, StockInv, Begun, TypeOK, Calls
    <3> QED BY <2>1, <3>1, <1>1 DEF Return, Begun
  <2>2. CASE Straight \/ Fork
    <3>1. mask' = mask \cup {call.cell}
      BY <2>2 DEF Straight, Fork
    <3> QED BY <3>1, <1>1 DEF Begun
  <2>3. CASE Try
    BY <2>3, <1>1 DEF Try, Begun
  <2> QED BY <2>1, <2>2, <2>3
<1>5. RoomsOK'
  BY <1>1, <1>2 DEF RoomsOK, RoomRecords, Held, KindsAt
<1>6. LaidOut'
  <2>1. repairs' = 0 /\ mask' \subseteq Grid
    BY <1>1, <1>2, <1>3 DEF TypeOK
  <2> QED BY <2>1, NothingWantedNext
<1> QED BY <1>1, <1>2, <1>3, <1>4, <1>5, <1>6 DEF StockInv

\* A room is made: it has its kind, and nothing has been laid out yet.
LEMMA MakingKeepsStock ==
  ASSUME StockInv, GenerateRoom
  PROVE  StockInv'
<1>1. TypeOK /\ TypeOK' /\ Begun /\ RoomsOK
  BY NextType DEF StockInv, Next
<1>2. UNCHANGED <<mask, call, loops, repairs>>
  BY DEF GenerateRoom
<1>3. repairs = 0
  <2>1. DOMAIN rooms # mask
    BY DEF GenerateRoom
  <2> QED BY <2>1 DEF StockInv, TypeOK, furnished
<1>4. RoomsOK'
  <2>1. PICK c \in mask \ DOMAIN rooms : \E kind \in KindsAt(c) : \E stock \in Stocks(kind) :
            rooms' = [d \in DOMAIN rooms \cup {c} |->
                        IF d = c THEN [kind |-> kind, items |-> stock] ELSE rooms[d]]
    BY DEF GenerateRoom
  <2>2. PICK kind \in KindsAt(c) : \E stock \in Stocks(kind) :
            rooms' = [d \in DOMAIN rooms \cup {c} |->
                        IF d = c THEN [kind |-> kind, items |-> stock] ELSE rooms[d]]
    BY <2>1
  <2>3. PICK stock \in Stocks(kind) :
            rooms' = [d \in DOMAIN rooms \cup {c} |->
                        IF d = c THEN [kind |-> kind, items |-> stock] ELSE rooms[d]]
    BY <2>2
  <2> DEFINE new == [kind |-> kind, items |-> stock]
  <2>4. kind \in RoomKinds \cup ExitKinds
    BY DEF KindsAt
  <2>5. stock \in [ItemKinds -> Held]
    BY <1>3, <2>4, StockBounds, FurnitureAssumption DEF Held
  <2>6. new \in RoomRecords /\ new.kind = kind
    BY <2>4, <2>5 DEF RoomRecords
  <2>7. rooms' = [d \in DOMAIN rooms \cup {c} |-> IF d = c THEN new ELSE rooms[d]]
    BY <2>3
  <2> HIDE DEF new
  <2>8. rooms' \in [DOMAIN rooms' -> RoomRecords]
    BY <1>1, <2>6, <2>7 DEF RoomsOK
  <2>9. \A d \in DOMAIN rooms' : rooms'[d].kind \in KindsAt(d)
    BY <1>1, <2>6, <2>7 DEF RoomsOK
  <2> QED BY <1>2, <2>8, <2>9 DEF RoomsOK, RoomRecords, Held, KindsAt
<1>5. LaidOut'
  <2>1. repairs' = 0 /\ mask' \subseteq Grid
    BY <1>1, <1>2, <1>3 DEF TypeOK
  <2> QED BY <2>1, NothingWantedNext
<1> QED BY <1>1, <1>2, <1>3, <1>4, <1>5 DEF StockInv, Begun

\* A piece of the recipe is laid out: one more of it is wanted, and one more
\* lies in a room, wherever it is put.
LEMMA LayingKeepsStock ==
  ASSUME StockInv, AddRepairItem
  PROVE  StockInv'
<1>1. TypeOK /\ TypeOK' /\ Begun /\ RoomsOK /\ furnished /\ LaidOut
  BY NextType DEF StockInv, Next, AddRepairItem
<1>2. UNCHANGED <<mask, call, loops>> /\ repairs' = repairs + 1 /\ repairs \in Nat
  BY <1>1 DEF AddRepairItem, TypeOK
<1> DEFINE piece == Material[repairs + 1]
<1>3. PICK c \in DrawnRooms : rooms' = [rooms EXCEPT ![c].items[piece] = @ + 1]
  BY DEF AddRepairItem
<1>4. c \in mask /\ c \in DOMAIN rooms /\ mask # {}
  BY <1>1, <1>3 DEF DrawnRooms, furnished
<1>5. piece \in ItemKinds
  <2>1. Material \in Seq(ItemKinds)
    BY <1>1, <1>4, MaterialKinds
  <2>2. repairs + 1 \in 1..Len(Material)
    BY <1>2, <2>1 DEF AddRepairItem
  <2> QED BY <2>1, <2>2
<1> HIDE DEF piece
<1>6. \A d \in DOMAIN rooms : rooms[d] \in RoomRecords
  BY <1>1 DEF RoomsOK
<1> DEFINE stock == [rooms[c].items EXCEPT ![piece] = @ + 1]
<1>7. rooms' = [rooms EXCEPT ![c] = [rooms[c] EXCEPT !.items = stock]]
  BY <1>3
<1>8. rooms[c].items \in [ItemKinds -> Held]
  BY <1>4, <1>6 DEF RoomRecords
<1>9. /\ stock \in [ItemKinds -> Held']
      /\ stock[piece] = rooms[c].items[piece] + 1
      /\ \A i \in ItemKinds : i # piece => stock[i] = rooms[c].items[i]
  BY <1>2, <1>5, <1>8, FurnitureAssumption DEF Held
<1> HIDE DEF stock
<1>10. /\ DOMAIN rooms' = DOMAIN rooms
       /\ rooms'[c].items = stock /\ rooms'[c].kind = rooms[c].kind
       /\ \A d \in DOMAIN rooms : d # c => rooms'[d] = rooms[d]
  BY <1>4, <1>6, <1>7 DEF RoomRecords
<1>11. RoomsOK'
  <2>1. \A d \in DOMAIN rooms : rooms'[d] \in RoomRecords'
    <3> SUFFICES ASSUME NEW d \in DOMAIN rooms PROVE rooms'[d] \in RoomRecords'
      OBVIOUS
    <3>1. CASE d = c
      <4>1. rooms'[c] = [rooms[c] EXCEPT !.items = stock]
        BY <1>4, <1>7, <1>1 DEF RoomsOK
      <4> QED BY <3>1, <4>1, <1>4, <1>6, <1>9 DEF RoomRecords
    <3>2. CASE d # c
      <4>1. Held \subseteq Held'
        BY <1>2, FurnitureAssumption DEF Held
      <4> QED BY <3>2, <4>1, <1>6, <1>10 DEF RoomRecords
    <3> QED BY <3>1, <3>2
  <2>2. \A d \in DOMAIN rooms' : rooms'[d].kind \in KindsAt(d)
    BY <1>1, <1>10 DEF RoomsOK
  <2>3. rooms' \in [DOMAIN rooms' -> RoomRecords']
    BY <2>1, <1>10, <1>7, <1>1 DEF RoomsOK
  <2> QED BY <2>2, <2>3 DEF RoomsOK, KindsAt
<1>12. furnished'
  BY <1>1, <1>2, <1>10 DEF furnished, carved
<1>13. Material' = Material
  <2>1. Start \in DOMAIN rooms
    BY <1>1, <1>4 DEF Begun, furnished
  <2>2. rooms'[Start].kind = rooms[Start].kind
    BY <2>1, <1>10
  <2> QED BY <2>2 DEF Material
<1>14. LaidOut'
  <2> SUFFICES ASSUME NEW i \in ItemKinds
               PROVE  Cardinality(Wanted(i)') <= Cardinality(Lying(i)')
    BY DEF LaidOut
  <2>1. mask \subseteq Grid /\ mask' \subseteq Grid /\ repairs' \in Nat
    BY <1>1, <1>2 DEF TypeOK
  <2>2. /\ IsFiniteSet(Wanted(i)) /\ Cardinality(Wanted(i)) \in Nat
        /\ IsFiniteSet(Lying(i)) /\ Cardinality(Lying(i)) \in Nat
    BY <1>2, <2>1, SetsFinite
  <2>3. /\ IsFiniteSet(Lying(i)') /\ Cardinality(Lying(i)') \in Nat
    BY <2>1, SetsFiniteNext
  <2>4. Cardinality(Wanted(i)) <= Cardinality(Lying(i))
    BY <1>1 DEF LaidOut
  <2>5. \A d \in mask : /\ rooms[d].items[i] \in Held
                        /\ rooms'[d].items[i] >= rooms[d].items[i]
    <3> SUFFICES ASSUME NEW d \in mask
                 PROVE  /\ rooms[d].items[i] \in Held
                        /\ rooms'[d].items[i] >= rooms[d].items[i]
      OBVIOUS
    <3>1. d \in DOMAIN rooms
      BY <1>1 DEF furnished
    <3>2. rooms[d].items[i] \in Held
      BY <3>1, <1>6 DEF RoomRecords
    <3>3. CASE d = c
      BY <3>2, <3>3, <1>9, <1>10, <1>2, FurnitureAssumption DEF Held
    <3>4. CASE d # c
      BY <3>1, <3>2, <3>4, <1>10, <1>2, FurnitureAssumption DEF Held
    <3> QED BY <3>2, <3>3, <3>4
  <2>6. Lying(i) \subseteq Lying(i)'
    <3> SUFFICES ASSUME NEW d \in mask, NEW n \in 1..(MaxRoomItems + repairs),
                        n <= rooms[d].items[i]
                 PROVE  <<d, n>> \in Lying(i)'
      BY DEF Lying
    <3>1. n \in 1..(MaxRoomItems + repairs') /\ d \in mask'
      BY <1>2, FurnitureAssumption
    <3>2. n <= rooms'[d].items[i]
      <4>1. rooms[d].items[i] \in Int /\ rooms'[d].items[i] >= rooms[d].items[i]
        BY <2>5, <1>2, FurnitureAssumption DEF Held
      <4>2. rooms'[d].items[i] \in Int
        BY <1>11, <1>12, <3>1 DEF furnished, RoomsOK, RoomRecords, Held
      <4> QED BY <4>1, <4>2, <1>2, FurnitureAssumption
    <3> QED BY <3>1, <3>2 DEF Lying
  <2>7. CASE i # piece
    <3>1. Wanted(i)' = Wanted(i)
      BY <2>7, <1>2, <1>13 DEF Wanted, piece
    <3>2. Cardinality(Lying(i)) <= Cardinality(Lying(i)')
      BY <2>3, <2>6, FS_Subset
    <3> HIDE DEF Wanted, Lying
    <3> QED BY <3>1, <3>2, <2>2, <2>3, <2>4
  <2>8. CASE i = piece
    <3> DEFINE at == <<c, rooms[c].items[piece] + 1>>
    <3>1. Wanted(i)' = Wanted(i) \cup {repairs + 1}
      BY <2>8, <1>2, <1>13 DEF Wanted, piece
    <3>2. Cardinality(Wanted(i) \cup {repairs + 1}) \in
            {Cardinality(Wanted(i)), Cardinality(Wanted(i)) + 1}
      BY <2>2, FS_AddElement
    <3>3. Cardinality(Wanted(i)') <= Cardinality(Wanted(i)) + 1
      <4> HIDE DEF Wanted
      <4> QED BY <3>1, <3>2, <2>2
    <3>4. rooms[c].items[piece] \in Held
      BY <1>5, <1>8
    <3>5. at \notin Lying(i)
      BY <2>8, <3>4, <1>2, FurnitureAssumption DEF Lying, Held
    <3>6. at \in Lying(i)'
      <4>1. rooms[c].items[piece] + 1 \in 1..(MaxRoomItems + repairs')
        BY <3>4, <1>2, FurnitureAssumption DEF Held
      <4>2. rooms'[c].items[i] = rooms[c].items[piece] + 1
        BY <2>8, <1>9, <1>10
      <4>3. c \in mask'
        BY <1>2, <1>4
      <4>4. rooms[c].items[piece] + 1 <= rooms'[c].items[i]
        BY <4>1, <4>2
      <4> QED BY <4>1, <4>3, <4>4 DEF Lying
    <3>7. /\ IsFiniteSet(Lying(i) \cup {at})
          /\ Cardinality(Lying(i) \cup {at}) = Cardinality(Lying(i)) + 1
      BY <3>5, <2>2, FS_AddElement
    <3>8. Lying(i) \cup {at} \subseteq Lying(i)'
      BY <2>6, <3>6
    <3>9. Cardinality(Lying(i) \cup {at}) <= Cardinality(Lying(i)')
      BY <3>8, <2>3, FS_Subset
    <3>10. Cardinality(Wanted(i)') \in Nat
      BY <2>1, SetsFiniteNext
    <3> HIDE DEF Wanted, Lying, at
    <3> QED BY <3>3, <3>7, <3>9, <3>10, <2>2, <2>3, <2>4
  <2> QED BY <2>7, <2>8
<1> QED BY <1>1, <1>2, <1>11, <1>12, <1>14 DEF StockInv, Begun

LEMMA NextStock == StockInv /\ [Next]_vars => StockInv'
<1> SUFFICES ASSUME StockInv, [Next]_vars PROVE StockInv'
  OBVIOUS
<1>1. CASE UNCHANGED vars
  BY <1>1 DEF vars, StockInv, TypeOK, Begun, RoomsOK, RoomRecords, Held, KindsAt,
              LaidOut, Wanted, Lying, Material, furnished, carved
<1> QED BY <1>1, CarvingKeepsStock, MakingKeepsStock, LayingKeepsStock DEF Next

\* On every map, whatever the draws: a floor that is generated has its exit, and
\* its rooms hold what the exit's repair takes (Game.cpp:436-529, 640-722).
THEOREM FloorsAreOpenable == Spec => []Openable
<1>1. StockInv => Openable
  <2> SUFFICES ASSUME StockInv, generated PROVE Openable
    BY DEF Openable
  <2>1. TypeOK /\ Begun /\ RoomsOK /\ furnished /\ LaidOut /\ repairs = Len(Material)
    BY DEF StockInv, generated
  <2>2. mask # {} /\ Start \in mask
    BY <2>1 DEF Begun, furnished, carved
  <2>3. \A c \in mask : rooms[c].kind \in ExitKinds <=> c = Start
    BY <2>1, FurnitureAssumption DEF RoomsOK, KindsAt, furnished
  <2>4. Material \in Seq(ItemKinds)
    BY <2>1, <2>2, MaterialKinds
  <2>5. \A i \in ItemKinds : {n \in DOMAIN Material : Material[n] = i} = Wanted(i)
    BY <2>1, <2>4 DEF Wanted
  <2>6. \A i \in ItemKinds : Bag(Material)[i] = Cardinality(Wanted(i))
    BY <2>5 DEF Bag
  <2> QED BY <2>1, <2>2, <2>3, <2>6 DEF Openable, LaidOut, Lying
<1> QED BY InitStock, NextStock, <1>1, PTL DEF Spec
=============================================================================
