---------------------------- MODULE BattleProofs ----------------------------
(***************************************************************************)
(* What a step of the game may do to a battle.  Step tells the shapes that *)
(* every handler has, seen from the two sides of a battle; from it and the *)
(* invariant of GameWorldProofs follow that nobody stays at zero health,   *)
(* the action properties about blows and rewards, and that battles are     *)
(* Duels.                                                                  *)
(***************************************************************************)
EXTENDS GameWorldProofs

\* Nobody of Q gains experience or skill
NoGain(Q) == \A q \in Q : /\ stats'[q].currentExp <= stats[q].currentExp
                          /\ stats'[q].weaponSkill <= stats[q].weaponSkill

\* The players of S leave their battles, the others go on
Kept(S) == fighting' = fighting \ S /\ \A q \in fighting' : opponent'[q] = opponent[q]

Begun(p, e) ==
  /\ p \notin fighting /\ e \in enemies[location[p]] /\ IsFree(e) /\ p \in Players /\ location[p] \in Rooms
  /\ fighting' = fighting \cup {p} /\ opponent'[p] = e
  /\ \A q \in fighting : opponent'[q] = opponent[q]

\* p strikes the enemy it fights, and may be struck dead in return
Struck(p, left) ==
  /\ p \in inSession \ dead
  /\ left <= enemyHealth[opponent[p]]
  /\ enemyHealth' = [enemyHealth EXCEPT ![opponent[p]] = left]
  /\ NoGain(Players \ {p})
  /\ \/ left = 0 /\ Kept({p}) /\ opponent[p] \notin enemies'[location[p]]
     \/ left > 0 /\ NoGain({p}) /\ (Kept({}) \/ Kept({p}))

Thinned == \A r \in Rooms : enemies'[r] \subseteq enemies[r]
StayAlive == \A q \in Players : stats[q].health > 0 => stats'[q].health > 0

Quiet == /\ UNCHANGED enemyHealth /\ NoGain(Players)
         /\ \/ \E S \in SUBSET Players : Kept(S)
            \/ \E p \in Players, e \in Enemies : Begun(p, e)

Step == Thinned /\ StayAlive /\ (Quiet \/ \E p \in fighting, left \in Nat : Struck(p, left))

-----------------------------------------------------------------------------
(* What the helpers do to stats *)

LEMMA StatsAreNumbers ==
  ASSUME NEW s \in Stats
  PROVE  /\ s.health \in 0..100 /\ s.armor \in 0..100 /\ s.health \in Int
         /\ s.currentExp \in Nat /\ s.weaponSkill \in Nat /\ s.weaponSkill \div 2 <= s.weaponSkill
<1>1. \A n \in Nat : n \div 2 <= n
  OBVIOUS
<1> QED BY <1>1 DEF Stats

\* A blow teaches nothing.
LEMMA HitKeeps ==
  ASSUME NEW s \in Stats, NEW e \in Enemies
  PROVE  Hit(s, e).currentExp = s.currentExp /\ Hit(s, e).weaponSkill = s.weaponSkill
BY DEF Hit, Stats

\* Nor does the use of an item, which never costs health.
LEMMA UsesKeep ==
  ASSUME IInv, NEW p \in Players, NEW use \in Uses(p)
  PROVE  /\ use.stats.currentExp = stats[p].currentExp
         /\ use.stats.weaponSkill = stats[p].weaponSkill
         /\ stats[p].health > 0 => use.stats.health > 0
<1>1. stats[p] \in Stats
  BY DEF IInv, TypeOK
<1>2. CASE use = [stats |-> stats[p], consumed |-> {}]
  BY <1>2
<1>3. ASSUME NEW i \in inventory[p], use = Using(stats[p], i)
      PROVE  /\ use.stats.currentExp = stats[p].currentExp
             /\ use.stats.weaponSkill = stats[p].weaponSkill
             /\ stats[p].health > 0 => use.stats.health > 0
  <2> DEFINE s == stats[p]
             it == ItemConfig[kind[i]]
  <2>1. it.power \in Nat
    BY ConfigAssumption DEF IInv, TypeOK
  <2>2. s.health \in 0..100
    BY <1>1 DEF Stats
  <2>3. s.health > 0 => Clamp(s.health + it.power, 0, 100) > 0
    BY <2>1, <2>2 DEF Clamp
  <2>4. CASE it.type = "Armor" /\ s.armor < 100
    <3>1. use.stats = [s EXCEPT !.armor = Clamp(s.armor + it.power, 0, 100)]
      BY <1>3, <2>4 DEF Using
    <3> QED BY <3>1, <1>1 DEF Stats
  <2>5. CASE it.type = "HealingItem" /\ s.health < 100
    <3>1. use.stats = [s EXCEPT !.health = Clamp(s.health + it.power, 0, 100)]
      BY <1>3, <2>5 DEF Using
    <3> QED BY <3>1, <1>1, <2>3 DEF Stats
  <2>6. CASE ~(it.type = "Armor" /\ s.armor < 100) /\ ~(it.type = "HealingItem" /\ s.health < 100)
    BY <1>3, <2>6 DEF Using
  <2> QED BY <2>4, <2>5, <2>6
<1> QED BY <1>2, <1>3 DEF Uses

\* What the death of the players of D leaves of stats and battles.
LEMMA DieKeeps ==
  ASSUME NEW D \in SUBSET Players,
         NEW stat \in [Players -> Stats], NEW inv, NEW fgt \in SUBSET Players,
         NEW opp \in [Players -> Enemies \cup {NoEnemy}], NEW bw,
         Die(D, stat, inv, fgt, opp, bw)
  PROVE  /\ fighting' = fgt \ D /\ \A q \in fighting' : opponent'[q] = opp[q]
         /\ \A q \in Players \ D : stats'[q] = stat[q]
         /\ \A q \in D : /\ stats'[q].health = 100
                         /\ stats'[q].currentExp <= stat[q].currentExp
                         /\ stats'[q].weaponSkill <= stat[q].weaponSkill
<1>1. fighting' = fgt \ D /\ \A q \in fighting' : opponent'[q] = opp[q]
  BY DEF Die
<1>2. \A q \in Players \ D : stats'[q] = stat[q]
  BY DEF Die
<1>3. ASSUME NEW q \in D
      PROVE  /\ stats'[q].health = 100
             /\ stats'[q].currentExp <= stat[q].currentExp
             /\ stats'[q].weaponSkill <= stat[q].weaponSkill
  <2>1. q \in Players /\ stat[q] \in Stats
    OBVIOUS
  <2>2. stats'[q] = [stat[q] EXCEPT !.health = 100, !.armor = 0, !.currentExp = 0,
                                    !.weaponSkill = stat[q].weaponSkill \div 2]
    BY <2>1 DEF Die
  <2>3. /\ stats'[q].health = 100 /\ stats'[q].currentExp = 0
        /\ stats'[q].weaponSkill = stat[q].weaponSkill \div 2
    BY <2>1, <2>2 DEF Stats
  <2> QED BY <2>1, <2>3, StatsAreNumbers
<1> QED BY <1>1, <1>2, <1>3

\* The death check ends with a living player, still in battle or not.
Survives(p, s, fgt, opp) ==
  /\ \A q \in Players \ {p} : stats'[q] = stats[q]
  /\ stats'[p].health > 0
  /\ stats'[p].currentExp <= s.currentExp /\ stats'[p].weaponSkill <= s.weaponSkill
  /\ fighting' = fgt \/ fighting' = fgt \ {p}
  /\ \A q \in fighting' : opponent'[q] = opp[q]

LEMMA DeathCheck ==
  ASSUME stats \in [Players -> Stats], NEW p \in Players, NEW s \in Stats, NEW bag,
         NEW fgt \in SUBSET Players, NEW opp \in [Players -> Enemies \cup {NoEnemy}], NEW bw,
         CheckPlayerDeath(p, s, bag, fgt, opp, bw)
  PROVE  Survives(p, s, fgt, opp)
<1> USE DEF Survives
<1> DEFINE stat == [stats EXCEPT ![p] = s]
           inv == [inventory EXCEPT ![p] = bag]
<1>0. stat \in [Players -> Stats] /\ stat[p] = s /\ \A q \in Players \ {p} : stat[q] = stats[q]
  OBVIOUS
<1>1. CASE IsKilled(s)
  <2>1. Die({p}, stat, inv, fgt, opp, bw)
    BY <1>1 DEF CheckPlayerDeath
  <2> HIDE DEF stat, inv
  <2>2. {p} \in SUBSET Players
    OBVIOUS
  <2>3. /\ fighting' = fgt \ {p} /\ \A q \in fighting' : opponent'[q] = opp[q]
        /\ \A q \in Players \ {p} : stats'[q] = stat[q]
        /\ \A q \in {p} : /\ stats'[q].health = 100
                          /\ stats'[q].currentExp <= stat[q].currentExp
                          /\ stats'[q].weaponSkill <= stat[q].weaponSkill
    BY <1>0, <2>1, <2>2, DieKeeps
  <2>4. stats'[p].health > 0
    BY <2>3
  <2> QED BY <1>0, <2>3, <2>4
<1>2. CASE ~IsKilled(s)
  <2>1. stats' = stat /\ fighting' = fgt /\ opponent' = opp
    BY <1>2 DEF CheckPlayerDeath
  <2>2. s.health > 0
    BY <1>2, StatsAreNumbers DEF IsKilled
  <2>3. s.currentExp <= s.currentExp /\ s.weaponSkill <= s.weaponSkill
    BY StatsAreNumbers
  <2> HIDE DEF stat
  <2> QED BY <1>0, <2>1, <2>2, <2>3
<1> QED BY <1>1, <1>2

-----------------------------------------------------------------------------
(* Every handler makes such a step *)

\* What the answer of the enemy does: its victim comes back to life, or lives.
LEMMA EnemyTurnStep ==
  ASSUME IInv, NEW p \in fighting, NEW s \in Stats, NEW bag,
         s.currentExp = stats[p].currentExp, s.weaponSkill = stats[p].weaponSkill,
         EnemyTurn(p, s, bag)
  PROVE  StayAlive /\ NoGain(Players) /\ (Kept({}) \/ Kept({p}))
<1>1. /\ p \in Players /\ opponent[p] \in Enemies /\ stats \in [Players -> Stats]
      /\ fighting \in SUBSET Players /\ opponent \in [Players -> Enemies \cup {NoEnemy}]
  BY DEF IInv, TypeOK, Pairing
<1> DEFINE t == Hit(s, opponent[p])
<1>2. t \in Stats /\ t.currentExp = stats[p].currentExp /\ t.weaponSkill = stats[p].weaponSkill
  BY <1>1, HitType, HitKeeps
<1>3. CheckPlayerDeath(p, t, bag, fighting, opponent, battleWith)
  BY DEF EnemyTurn
<1> HIDE DEF t
<1>4. /\ \A q \in Players \ {p} : stats'[q] = stats[q]
      /\ stats'[p].health > 0
      /\ stats'[p].currentExp <= t.currentExp /\ stats'[p].weaponSkill <= t.weaponSkill
      /\ fighting' = fighting \/ fighting' = fighting \ {p}
      /\ \A q \in fighting' : opponent'[q] = opponent[q]
  <2>1. Survives(p, t, fighting, opponent)
    BY <1>1, <1>2, <1>3, DeathCheck
  <2> QED BY <2>1 DEF Survives
<1>5. StayAlive
  BY <1>4 DEF StayAlive
<1>6. NoGain(Players)
  BY <1>1, <1>2, <1>4, StatsAreNumbers DEF NoGain
<1>7. Kept({}) \/ Kept({p})
  BY <1>4 DEF Kept
<1> QED BY <1>5, <1>6, <1>7

\* Handlers that touch neither stats nor battles
LEMMA IdleStep ==
  ASSUME IInv, UNCHANGED <<stats, battleVars, enemyVars>>
  PROVE  Step
<1>1. \A q \in Players : stats[q] \in Stats
  BY DEF IInv, TypeOK
<1>2. Thinned /\ StayAlive
  BY DEF Thinned, StayAlive, enemyVars
<1>3. NoGain(Players)
  BY <1>1, StatsAreNumbers DEF NoGain
<1>4. Kept({})
  BY DEF Kept, battleVars
<1>5. {} \in SUBSET Players /\ UNCHANGED enemyHealth
  BY DEF battleVars
<1> QED BY <1>2, <1>3, <1>4, <1>5 DEF Step, Quiet

LEMMA SessionMakesStep ==
  ASSUME IInv, NEW p \in Players, SessionStep(p)
  PROVE  Step
<1>1. CASE SpawnPlayer(p)
  <2>1. /\ stats' = [stats EXCEPT ![p] = FreshStats] /\ UNCHANGED <<battleVars, enemyVars>>
    BY <1>1 DEF SpawnPlayer
  <2>2. \A q \in Players : stats[q] \in Stats /\ (q # p => stats'[q] = stats[q])
    BY <2>1 DEF IInv, TypeOK
  <2>3. stats'[p].health = 100 /\ stats'[p].currentExp = 0 /\ stats'[p].weaponSkill = 0
    BY <2>1 DEF FreshStats, IInv, TypeOK
  <2>4. Thinned /\ StayAlive
    BY <2>1, <2>2, <2>3 DEF Thinned, StayAlive, enemyVars
  <2>5. NoGain(Players)
    BY <2>2, <2>3, StatsAreNumbers DEF NoGain
  <2>6. Kept({}) /\ {} \in SUBSET Players /\ UNCHANGED enemyHealth
    BY <2>1 DEF Kept, battleVars
  <2> QED BY <2>4, <2>5, <2>6 DEF Step, Quiet
<1>2. CASE Rejoin(p) \/ Disconnect(p)
  BY <1>2, IdleStep DEF Rejoin, Disconnect, bodyVars
<1> QED BY <1>1, <1>2 DEF SessionStep

LEMMA UseItemMakesStep ==
  ASSUME IInv, NEW p \in Players, UseItem(p)
  PROVE  Step
<1>1. PICK use \in Uses(p) :
        \/ InBattle(p) /\ EnemyTurn(p, use.stats, Without(p, use.consumed))
        \/ /\ ~InBattle(p)
           /\ stats' = [stats EXCEPT ![p] = use.stats]
           /\ UNCHANGED <<fighting, opponent>>
  BY DEF UseItem
<1> DEFINE s == use.stats
<1>2. /\ s \in Stats /\ s.currentExp = stats[p].currentExp /\ s.weaponSkill = stats[p].weaponSkill
      /\ stats[p].health > 0 => s.health > 0
  BY UsesType, UsesKeep
<1>3. Thinned /\ UNCHANGED enemyHealth /\ {} \in SUBSET Players /\ {p} \in SUBSET Players
  BY DEF UseItem, Thinned, enemyVars
<1> HIDE DEF s
<1>4. CASE InBattle(p) /\ EnemyTurn(p, s, Without(p, use.consumed))
  BY <1>2, <1>3, <1>4, EnemyTurnStep DEF InBattle, Step, Quiet
<1>5. CASE stats' = [stats EXCEPT ![p] = s] /\ UNCHANGED <<fighting, opponent>>
  <2>1. \A q \in Players : stats[q] \in Stats /\ stats'[q] = IF q = p THEN s ELSE stats[q]
    BY <1>5 DEF IInv, TypeOK
  <2>2. StayAlive
    BY <1>2, <2>1 DEF StayAlive
  <2>3. NoGain(Players)
    BY <1>2, <2>1, StatsAreNumbers DEF NoGain
  <2>4. Kept({})
    BY <1>5 DEF Kept
  <2> QED BY <1>3, <2>2, <2>3, <2>4 DEF Step, Quiet
<1> QED BY <1>1, <1>4, <1>5 DEF s

LEMMA BattleMakesStep ==
  ASSUME IInv, NEW p \in Players, NEW e \in Enemies, Battle(p, e)
  PROVE  Step
<1> DEFINE fgt == fighting \cup {p}
           opp == [opponent EXCEPT ![p] = e]
           bw  == [battleWith EXCEPT ![e] = p]
           s   == Hit(stats[p], e)
<1>1. /\ p \notin fighting /\ e \in enemies[location[p]] /\ IsFree(e) /\ location[p] \in Rooms
      /\ UNCHANGED enemyHealth /\ Thinned /\ {} \in SUBSET Players
  BY DEF Battle, MayCommandInPeace, MayCommand, Thinned, enemyVars, IInv, TypeOK
<1>2. /\ stats \in [Players -> Stats] /\ fgt \in SUBSET Players
      /\ opp \in [Players -> Enemies \cup {NoEnemy}]
      /\ opp[p] = e /\ \A q \in fighting : opp[q] = opponent[q]
  BY <1>1 DEF IInv, TypeOK
<1>3. s \in Stats /\ s.currentExp = stats[p].currentExp /\ s.weaponSkill = stats[p].weaponSkill
  BY <1>2, HitType, HitKeeps
<1>4. ASSUME fighting' = fgt, \A q \in fighting' : opponent'[q] = opp[q]
      PROVE  Begun(p, e)
  BY <1>1, <1>2, <1>4 DEF Begun
<1>5. ASSUME fighting' = fgt \ {p}, \A q \in fighting' : opponent'[q] = opp[q]
      PROVE  Kept({})
  BY <1>1, <1>2, <1>5 DEF Kept
<1>6. CASE CheckPlayerDeath(p, s, inventory[p], fgt, opp, bw)
  <2> HIDE DEF fgt, opp, bw, s
  <2>0. Survives(p, s, fgt, opp)
    BY <1>2, <1>3, <1>6, DeathCheck
  <2>1. /\ \A q \in Players \ {p} : stats'[q] = stats[q]
        /\ stats'[p].health > 0
        /\ stats'[p].currentExp <= s.currentExp /\ stats'[p].weaponSkill <= s.weaponSkill
        /\ fighting' = fgt \/ fighting' = fgt \ {p}
        /\ \A q \in fighting' : opponent'[q] = opp[q]
    BY <2>0 DEF Survives
  <2>2. StayAlive
    BY <2>1 DEF StayAlive
  <2>3. NoGain(Players)
    BY <1>2, <1>3, <2>1, StatsAreNumbers DEF NoGain
  <2> QED BY <1>1, <1>4, <1>5, <2>1, <2>2, <2>3 DEF Step, Quiet
<1>7. CASE fighting' = fgt /\ opponent' = opp /\ UNCHANGED bodyVars
  <2>1. StayAlive /\ NoGain(Players)
    BY <1>2, <1>7, StatsAreNumbers DEF StayAlive, NoGain, bodyVars
  <2>2. Begun(p, e)
    BY <1>4, <1>7
  <2> QED BY <1>1, <2>1, <2>2 DEF Step, Quiet
<1> QED BY <1>6, <1>7 DEF Battle

LEMMA SkipMakesStep ==
  ASSUME IInv, NEW p \in Players, Skip(p)
  PROVE  Step
<1>1. /\ p \in fighting /\ EnemyTurn(p, stats[p], inventory[p]) /\ UNCHANGED enemyHealth /\ Thinned
      /\ {} \in SUBSET Players /\ {p} \in SUBSET Players
  BY DEF Skip, InBattle, Thinned, enemyVars
<1>2. stats[p] \in Stats
  BY DEF IInv, TypeOK
<1> QED BY <1>1, <1>2, EnemyTurnStep DEF Step, Quiet

LEMMA SamosborMakesStep ==
  ASSUME IInv, Samosbor
  PROVE  Step
<1>1. CASE StartSamosbor \/ StopSamosbor
  BY <1>1, IdleStep DEF StartSamosbor, StopSamosbor, bodyVars
<1>2. CASE CheckPlayersSamosbor
  <2> DEFINE caught == {p \in inSession \ dead : location[p] \notin LiveRooms}
  <2>1. /\ Die(caught, stats, inventory, fighting, opponent, battleWith)
        /\ UNCHANGED enemyHealth /\ Thinned
    BY <1>2 DEF CheckPlayersSamosbor, Thinned, enemyVars
  <2>2. /\ caught \in SUBSET Players /\ stats \in [Players -> Stats]
        /\ fighting \in SUBSET Players /\ opponent \in [Players -> Enemies \cup {NoEnemy}]
    BY DEF IInv, TypeOK
  <2> HIDE DEF caught
  <2>3. /\ fighting' = fighting \ caught /\ \A q \in fighting' : opponent'[q] = opponent[q]
        /\ \A q \in Players \ caught : stats'[q] = stats[q]
        /\ \A q \in caught : /\ stats'[q].health = 100
                             /\ stats'[q].currentExp <= stats[q].currentExp
                             /\ stats'[q].weaponSkill <= stats[q].weaponSkill
    BY <2>1, <2>2, DieKeeps
  <2>4. StayAlive
    BY <2>3 DEF StayAlive
  <2>5. NoGain(Players)
    BY <2>2, <2>3, StatsAreNumbers DEF NoGain
  <2>6. Kept(caught)
    BY <2>3 DEF Kept
  <2> QED BY <2>1, <2>2, <2>4, <2>5, <2>6 DEF Step, Quiet
<1> QED BY <1>1, <1>2 DEF Samosbor

\* A level gained costs no health.
LEMMA LevelKeeps ==
  ASSUME NEW s \in Stats
  PROVE  CheckLevelUp(s).health = s.health
BY DEF CheckLevelUp, Stats

LEMMA AttackMakesStep ==
  ASSUME IInv, NEW p \in Players, Attack(p)
  PROVE  Step
<1> DEFINE e == opponent[p]
<1>1. /\ p \in fighting /\ p \in inSession \ dead /\ e \in Enemies /\ location[p] \in Rooms
      /\ {} \in SUBSET Players /\ {p} \in SUBSET Players
      /\ stats \in [Players -> Stats] /\ stats[p] \in Stats
  BY DEF Attack, MayCommand, InBattle, IInv, TypeOK, Pairing
<1>2. CASE EnemyTurn(p, stats[p], inventory[p]) /\ UNCHANGED <<enemyHealth, enemyVars>>
  <2>1. Thinned
    BY <1>2 DEF Thinned, enemyVars
  <2> QED BY <1>1, <1>2, <2>1, EnemyTurnStep DEF Step, Quiet
<1>3. ASSUME NEW blow \in Blows(p), NEW left,
             left = Clamp(enemyHealth[e] - blow, 0, 1000),
             enemyHealth' = [enemyHealth EXCEPT ![e] = left],
             \/ left = 0 /\ Win(p, e)
             \/ left > 0 /\ EnemyTurn(p, stats[p], inventory[p]) /\ UNCHANGED enemyVars
      PROVE  Step
  <2>1. left \in Nat /\ left <= enemyHealth[e]
    <3>1. stats[p].weaponSkill \in Nat
      BY <1>1, StatsAreNumbers
    <3>2. equipped[p] # NoKind => ItemConfig[equipped[p]].power \in Nat
      BY ConfigAssumption DEF IInv, TypeOK
    <3>3. blow \in Nat
      BY <3>1, <3>2 DEF Blows
    <3>4. enemyHealth[e] \in Nat
      BY <1>1 DEF IInv, TypeOK
    <3> QED BY <1>3, <3>3, <3>4 DEF Clamp
  <2>2. CASE left = 0 /\ Win(p, e)
    <3> DEFINE t == [stats[p] EXCEPT !.currentExp = @ + EnemyConfig[enemyKind[e]].exp]
               s == CheckLevelUp(t)
    <3>1. /\ stats' = [stats EXCEPT ![p] = s]
          /\ enemies' = [enemies EXCEPT ![location[p]] = {x \in @ : battleWith[x] # p}]
          /\ fighting' = fighting \ {p} /\ UNCHANGED opponent
      BY <2>2 DEF Win
    <3>2. t \in Stats /\ t.health = stats[p].health
      <4>1. EnemyConfig[enemyKind[e]].exp \in Nat
        BY <1>1, ConfigAssumption
      <4> QED BY <1>1, <4>1 DEF Stats
    <3>3. s.health = stats[p].health
      BY <3>2, LevelKeeps
    <3> HIDE DEF s
    <3>4. \A q \in Players : stats'[q] = IF q = p THEN s ELSE stats[q]
      BY <1>1, <3>1
    <3>5. StayAlive
      BY <3>3, <3>4 DEF StayAlive
    <3>6. NoGain(Players \ {p})
      BY <1>1, <3>4, StatsAreNumbers DEF NoGain
    <3>7. Thinned /\ e \notin enemies'[location[p]]
      BY <1>1, <3>1 DEF Thinned, IInv, TypeOK, Pairing
    <3>8. Kept({p})
      BY <3>1 DEF Kept
    <3>9. Struck(p, left)
      BY <1>1, <1>3, <2>1, <2>2, <3>6, <3>7, <3>8 DEF Struck
    <3> QED BY <1>1, <2>1, <3>5, <3>7, <3>9 DEF Step
  <2>3. CASE left > 0 /\ EnemyTurn(p, stats[p], inventory[p]) /\ UNCHANGED enemyVars
    <3>1. StayAlive /\ NoGain(Players) /\ (Kept({}) \/ Kept({p}))
      BY <1>1, <2>3, EnemyTurnStep
    <3>2. Thinned
      BY <2>3 DEF Thinned, enemyVars
    <3>3. Struck(p, left)
      <4>1. NoGain(Players \ {p}) /\ NoGain({p})
        BY <1>1, <3>1 DEF NoGain
      <4> QED BY <1>1, <1>3, <2>1, <2>3, <3>1, <4>1 DEF Struck
    <3> QED BY <1>1, <2>1, <3>1, <3>2, <3>3 DEF Step
  <2> QED BY <1>3, <2>2, <2>3
<1> QED BY <1>2, <1>3 DEF Attack

\* Every step of the game is a Step.
LEMMA NextMakesStep == IInv /\ [Next]_vars => Step
<1> SUFFICES ASSUME IInv, [Next]_vars PROVE Step
  OBVIOUS
<1>1. ASSUME NEW p \in Players, SessionStep(p) PROVE Step
  BY <1>1, SessionMakesStep
<1>2. ASSUME NEW p \in Players, Command(p) PROVE Step
  <2>1. ASSUME NEW r \in Rooms, Move(p, r) PROVE Step
    BY <2>1, IdleStep DEF Move
  <2>2. ASSUME NEW dir \in {1, -1}, ChangeFloor(p, dir) PROVE Step
    BY <2>2, IdleStep DEF ChangeFloor
  <2>3. ASSUME NEW i \in Items, PickupItem(p, i) \/ DropItem(p, i) \/ Craft(p, i) \/ Equip(p, i)
        PROVE  Step
    BY <2>3, IdleStep DEF PickupItem, DropItem, Craft, Equip
  <2>4. CASE RepairExit(p)
    BY <2>4, IdleStep DEF RepairExit
  <2>5. CASE UseItem(p)
    BY <2>5, UseItemMakesStep
  <2>6. ASSUME NEW e \in Enemies, Battle(p, e) PROVE Step
    BY <2>6, BattleMakesStep
  <2>7. CASE Attack(p) \/ Skip(p)
    BY <2>7, AttackMakesStep, SkipMakesStep
  <2> QED BY <1>2, <2>1, <2>2, <2>3, <2>4, <2>5, <2>6, <2>7 DEF Command
<1>3. CASE Samosbor
  BY <1>3, SamosborMakesStep
<1>4. CASE UNCHANGED vars
  BY <1>4, IdleStep DEF vars, bodyVars
<1> QED BY <1>1, <1>2, <1>3, <1>4 DEF Next

-----------------------------------------------------------------------------
(* The theorems *)

\* No enemy stands in two rooms
EnemiesApart == \A r, s \in Rooms : r # s => enemies[r] \cap enemies[s] = {}

\* NobodyAtZero needs EnemiesApart: a beaten enemy leaves the room of its killer,
\* and must not be left behind, with zero health, in another.
BInv == IInv /\ NobodyAtZero /\ EnemiesApart

LEMMA InitBInv == Init => BInv
<1> SUFFICES ASSUME Init PROVE BInv
  OBVIOUS
<1>1. IInv
  BY InitInv
<1>2. \A p \in Players : stats[p].health = 100
  BY DEF Init, FreshStats
<1>3. \A r \in Rooms : \A e \in enemies[r] : enemyHealth[e] > 0
  <2>1. \A e \in Enemies : EnemyConfig[enemyKind[e]].health > 0
    BY ConfigAssumption
  <2> QED BY <1>1, <2>1 DEF IInv, TypeOK, Init
<1>4. EnemiesApart
  BY GeneratedAssumption DEF Init, EnemiesApart
<1> QED BY <1>1, <1>2, <1>3, <1>4 DEF BInv, NobodyAtZero

LEMMA NextBInv == BInv /\ [Next]_vars => BInv'
<1> SUFFICES ASSUME BInv, [Next]_vars PROVE BInv'
  OBVIOUS
<1>1. IInv /\ IInv' /\ Step
  BY NextInv, NextMakesStep DEF BInv
<1>2. EnemiesApart'
  BY <1>1 DEF BInv, EnemiesApart, Step, Thinned
<1>3. ASSUME NEW p \in Players PROVE stats'[p].health > 0
  BY <1>1 DEF BInv, NobodyAtZero, Step, StayAlive
<1>4. ASSUME NEW r \in Rooms, NEW e \in enemies'[r] PROVE enemyHealth'[e] > 0
  <2>1. e \in enemies[r] /\ e \in Enemies /\ enemyHealth[e] > 0
    BY <1>1, <1>4 DEF BInv, NobodyAtZero, Step, Thinned, IInv, TypeOK
  <2>2. CASE Quiet
    BY <2>1, <2>2 DEF Quiet
  <2>3. ASSUME NEW p \in fighting, NEW left \in Nat, Struck(p, left)
        PROVE  enemyHealth'[e] > 0
    <3>1. enemyHealth' = [enemyHealth EXCEPT ![opponent[p]] = left]
          /\ (left = 0 => opponent[p] \notin enemies'[location[p]])
      BY <2>3 DEF Struck
    <3>2. enemyHealth'[e] = IF e = opponent[p] THEN left ELSE enemyHealth[e]
      BY <1>1, <2>1, <3>1 DEF IInv, TypeOK
    <3>3. ASSUME e = opponent[p], left = 0 PROVE FALSE
      <4>1. opponent[p] \in enemies[location[p]] /\ location[p] \in Rooms
        BY <1>1 DEF IInv, TypeOK, Pairing
      <4>2. location[p] = r
        BY <2>1, <3>3, <4>1 DEF BInv, EnemiesApart
      <4> QED BY <1>4, <3>1, <3>3, <4>2
    <3> QED BY <2>1, <3>2, <3>3
  <2> QED BY <1>1, <2>2, <2>3 DEF Step
<1> QED BY <1>1, <1>2, <1>3, <1>4 DEF BInv, NobodyAtZero

\* Between two handlers no player and no enemy of any room is at zero health.
THEOREM NobodyStaysAtZero == Spec => []NobodyAtZero
<1>1. BInv => NobodyAtZero
  BY DEF BInv
<1> QED BY InitBInv, NextBInv, <1>1, PTL DEF Spec

\* Whatever the others do, the health of an enemy sinks under the blows of the
\* player it fights and never rises.
THEOREM BlowsAreOpponents == Spec => WoundedByOpponent
<1> DEFINE Wounded == \A e \in Enemies : enemyHealth'[e] # enemyHealth[e] =>
                        /\ enemyHealth'[e] < enemyHealth[e]
                        /\ battleWith[e] \in (inSession \cap fighting) \ dead
                        /\ opponent[battleWith[e]] = e
<1>1. BInv /\ [Next]_vars => Wounded
  <2> SUFFICES ASSUME BInv, [Next]_vars, NEW e \in Enemies, enemyHealth'[e] # enemyHealth[e]
               PROVE  /\ enemyHealth'[e] < enemyHealth[e]
                      /\ battleWith[e] \in (inSession \cap fighting) \ dead
                      /\ opponent[battleWith[e]] = e
    OBVIOUS
  <2>1. IInv /\ Step
    BY NextMakesStep DEF BInv
  <2>2. PICK p \in fighting, left \in Nat : Struck(p, left)
    BY <2>1 DEF Step, Quiet
  <2>3. e = opponent[p] /\ enemyHealth'[e] = left
    BY <2>1, <2>2 DEF Struck, IInv, TypeOK
  <2>4. enemyHealth[e] \in Nat /\ left <= enemyHealth[e] /\ p \in inSession \ dead
    BY <2>1, <2>2, <2>3 DEF Struck, IInv, TypeOK
  <2>5. battleWith[e] = p
    BY <2>1, <2>2, <2>3 DEF IInv, Pairing
  <2> QED BY <2>2, <2>3, <2>4, <2>5
<1>2. BInv /\ [Next]_vars => [Wounded]_vars
  BY <1>1
<1> QED BY InitBInv, NextBInv, <1>2, PTL DEF Spec, WoundedByOpponent

\* Whatever the others do, experience and skill are paid for the death of an
\* enemy that was alive, once.
THEOREM KillsArePaidOnce == Spec => KillsPayOnce
<1> DEFINE Paid == \A p \in Players :
       \/ stats'[p].currentExp > stats[p].currentExp
       \/ stats'[p].weaponSkill > stats[p].weaponSkill
       => \E e \in Enemies : enemyHealth[e] > 0 /\ enemyHealth'[e] = 0 /\ battleWith[e] = p
<1>1. BInv /\ [Next]_vars => Paid
  <2> SUFFICES ASSUME BInv, [Next]_vars, NEW p \in Players,
                      \/ stats'[p].currentExp > stats[p].currentExp
                      \/ stats'[p].weaponSkill > stats[p].weaponSkill
               PROVE  \E e \in Enemies : enemyHealth[e] > 0 /\ enemyHealth'[e] = 0 /\ battleWith[e] = p
    OBVIOUS
  <2>0. ~NoGain({p})
    <3>1. stats[p] \in Stats /\ stats'[p] \in Stats
      BY NextInv DEF BInv, IInv, TypeOK
    <3> QED BY <3>1, StatsAreNumbers DEF NoGain
  <2>1. IInv /\ Step
    BY NextMakesStep DEF BInv
  <2>2. PICK q \in fighting, left \in Nat : Struck(q, left)
    BY <2>0, <2>1 DEF Step, Quiet, NoGain
  <2>3. q = p /\ left = 0
    BY <2>0, <2>2 DEF Struck, NoGain
  <2>4. /\ opponent[p] \in enemies[location[p]] /\ battleWith[opponent[p]] = p
        /\ opponent[p] \in Enemies /\ location[p] \in Rooms
    BY <2>1, <2>3 DEF IInv, TypeOK, Pairing
  <2>5. enemyHealth'[opponent[p]] = 0
    BY <2>1, <2>2, <2>3, <2>4 DEF Struck, IInv, TypeOK
  <2>6. enemyHealth[opponent[p]] > 0
    BY <2>4 DEF BInv, NobodyAtZero
  <2> QED BY <2>4, <2>5, <2>6
<1>2. BInv /\ [Next]_vars => [Paid]_vars
  BY <1>1
<1> QED BY InitBInv, NextBInv, <1>2, PTL DEF Spec, KillsPayOnce

-----------------------------------------------------------------------------
(* Battles are duels *)

Pairs == {<<p, opponent[p]>> : p \in fighting}

LEMMA PairsMembers ==
  /\ \A p, e : <<p, e>> \in Pairs <=> p \in fighting /\ opponent[p] = e
  /\ \A d \in Pairs : d = <<d[1], opponent[d[1]]>> /\ d[1] \in fighting
BY DEF Pairs

LEMMA PairsMembersPrime ==
  /\ \A p, e : <<p, e>> \in Pairs' <=> p \in fighting' /\ opponent'[p] = e
  /\ \A d \in Pairs' : d = <<d[1], opponent'[d[1]]>> /\ d[1] \in fighting'
BY DEF Pairs

\* Leaving battles is leaving duels.
LEMMA KeptPairs ==
  ASSUME NEW S, Kept(S)
  PROVE  Pairs' = {d \in Pairs : d[1] \notin S}
<1>1. ASSUME NEW d \in Pairs' PROVE d \in Pairs /\ d[1] \notin S
  BY <1>1, PairsMembers, PairsMembersPrime DEF Kept
<1>2. ASSUME NEW d \in Pairs, d[1] \notin S PROVE d \in Pairs'
  BY <1>2, PairsMembers, PairsMembersPrime DEF Kept
<1> QED BY <1>1, <1>2

\* What the players of the game see of their battles is a run of Duels.
THEOREM BattlesAreDuels == Spec => DuelSpec
<1>1. Init => Duel!Init
  BY DEF Init, Duel!Init
<1>2. BInv /\ [Next]_vars => [Duel!Next]_<<Pairs, enemyHealth>>
  <2> SUFFICES ASSUME BInv, [Next]_vars PROVE [Duel!Next]_<<Pairs, enemyHealth>>
    OBVIOUS
  <2>1. IInv /\ Step
    BY NextMakesStep DEF BInv
  <2>2. ASSUME NEW S \in SUBSET Players, Kept(S), UNCHANGED enemyHealth
        PROVE  Duel!Next
    <3>1. Duel!Die(S)
      BY <2>2, KeptPairs DEF Duel!Die, Pairs
    <3> QED BY <3>1 DEF Duel!Next
  <2>3. ASSUME NEW p \in Players, NEW e \in Enemies, Begun(p, e), UNCHANGED enemyHealth
        PROVE  Duel!Next
    <3>1. Pairs' = Pairs \cup {<<p, e>>}
      <4>1. ASSUME NEW d \in Pairs' PROVE d \in Pairs \cup {<<p, e>>}
        BY <2>3, <4>1, PairsMembers, PairsMembersPrime DEF Begun
      <4>2. ASSUME NEW d \in Pairs PROVE d \in Pairs'
        BY <2>3, <4>2, PairsMembers, PairsMembersPrime DEF Begun
      <4>3. <<p, e>> \in Pairs'
        BY <2>3, PairsMembersPrime DEF Begun
      <4> QED BY <4>1, <4>2, <4>3
    <3>2. \A x \in Enemies : <<p, x>> \notin Pairs
      BY <2>3, PairsMembers DEF Begun
    <3>3. \A q \in Players : <<q, e>> \notin Pairs
      <4>1. battleWith[e] = NoPlayer
        BY <2>3 DEF Begun, IsFree
      <4> QED BY <2>1, <4>1, PairsMembers, SentinelAssumption DEF IInv, Pairing
    <3>4. enemyHealth[e] > 0
      <4>1. location[p] \in Rooms /\ e \in enemies[location[p]]
        BY <2>3 DEF Begun
      <4> QED BY <4>1 DEF BInv, NobodyAtZero
    <3>5. Duel!Begin(p, e)
      BY <2>3, <3>1, <3>2, <3>3, <3>4 DEF Duel!Begin, Duel!Fights, Duel!Fought, Pairs
    <3> QED BY <3>5 DEF Duel!Next
  <2>4. ASSUME NEW p \in fighting, NEW left \in Nat, Struck(p, left)
        PROVE  Duel!Next
    <3>0. PICK e \in Enemies : e = opponent[p]
      BY <2>1 DEF IInv, TypeOK, Pairing
    <3>1. /\ p \in Players /\ enemyHealth[e] \in Nat /\ enemyHealth[e] > 0
          /\ {} \in SUBSET Players /\ {p} \in SUBSET Players
      BY <2>1, <3>0 DEF IInv, TypeOK, Pairing, BInv, NobodyAtZero
    <3>2. /\ enemyHealth' = [enemyHealth EXCEPT ![e] = left] /\ left <= enemyHealth[e]
          /\ Kept({}) \/ Kept({p})
          /\ left = 0 => Kept({p})
      BY <2>4, <3>0 DEF Struck
    <3>3. CASE left = enemyHealth[e]
      <4>1. UNCHANGED enemyHealth
        BY <2>1, <3>1, <3>2, <3>3 DEF IInv, TypeOK
      <4> QED BY <2>2, <3>1, <3>2, <4>1
    <3>4. CASE left # enemyHealth[e]
      <4>1. left \in 0..(enemyHealth[e] - 1)
        BY <3>1, <3>2, <3>4
      <4>2. Kept({}) => Pairs' = Pairs
        <5> SUFFICES ASSUME Kept({}) PROVE Pairs' = Pairs
          OBVIOUS
        <5>1. Pairs' = {d \in Pairs : d[1] \notin {}}
          BY KeptPairs
        <5> QED BY <5>1
      <4>3. Kept({p}) => Pairs' = Pairs \ {<<p, e>>}
        <5> SUFFICES ASSUME Kept({p}) PROVE Pairs' = Pairs \ {<<p, e>>}
          OBVIOUS
        <5>1. Pairs' = {d \in Pairs : d[1] \notin {p}}
          BY KeptPairs
        <5>2. \A d \in Pairs : d[1] \notin {p} <=> d # <<p, e>>
          BY <3>0, PairsMembers
        <5> QED BY <5>1, <5>2
      <4>4. <<p, e>> \in Pairs
        BY <3>0, PairsMembers
      <4>5. \/ Pairs' = Pairs \ {<<p, e>>}
            \/ left > 0 /\ Pairs' = Pairs
        BY <3>2, <4>2, <4>3
      <4>6. Duel!Blow(p, e)
        BY <3>2, <4>1, <4>4, <4>5 DEF Duel!Blow, Pairs
      <4> QED BY <3>1, <4>6 DEF Duel!Next
    <3> QED BY <3>3, <3>4
  <2> QED BY <2>1, <2>2, <2>3, <2>4 DEF Step, Quiet
<1> QED BY InitBInv, NextBInv, <1>1, <1>2, PTL DEF Spec, DuelSpec, Duel!Spec, Pairs
=============================================================================
