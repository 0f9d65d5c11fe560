--------------------------- MODULE SessionsProofs ---------------------------
(***************************************************************************)
(* Theorems about Sessions for any number of sessions, nicknames and       *)
(* objects, with the terminal thread stepping between any two steps of a   *)
(* handler.                                                                *)
(*                                                                         *)
(* Exclusive is not inductive: that firstTime may bind a player no other   *)
(* session points to rests on the mark isInSession, which every player     *)
(* pointed to carries (Marked), and on the answer of the search, which no  *)
(* step of the terminal makes wrong (Found).                               *)
(***************************************************************************)
EXTENDS Sessions, TLAPS

\* No two sessions point to one player
Distinct == \A s, t \in Sessions : s # t /\ sessionPlayer[s] # NoObject => sessionPlayer[s] # sessionPlayer[t]

\* Who is pointed to has an owner, and an object has a nickname
Owned == /\ \A s \in Sessions : sessionPlayer[s] # NoObject => sessionPlayer[s] \in players \cup fighting
         /\ \A o \in players \cup fighting : username[o] # NoNick

\* Who is pointed to is marked as playing, but for the moment after the spawn
Marked == \A s \in Sessions : sessionPlayer[s] # NoObject =>
            sessionPlayer[s] \in inSession \/ (handler = "mark" /\ current = s)

Unique == \A o, q \in players : username[o] = username[q] => o = q

\* What the search has found stays true
Found == /\ handler \in {"search", "bind", "spawn"} => nickname \in Nicks
         /\ handler = "bind" => Named(nickname) \cap inSession = {}
         /\ handler = "spawn" => Named(nickname) = {}

IInv == TypeOK /\ Distinct /\ Owned /\ Marked /\ Unique /\ Found

\* The handlers of firstTime belong to a session that waits there, and a session
\* that waits there has no player but the one it is about to get
Waiting ==
  /\ handler \in {"search", "bind", "spawn", "mark", "look"} => phase[current] = "firstTime"
  /\ \A s \in Sessions : sessionPlayer[s] # NoObject =>
       phase[s] = "read" \/ (current = s /\ handler \in {"mark", "look"})
  /\ handler = "lost" => sessionPlayer[current] = NoObject \/ players = {}

\* Until the server is told to stop, a game is generated and only its players are
\* marked that a session points to
Held ==
  /\ terminal \in {"reset", "ungenerate", "sessions"} => ~serverRunning
  /\ serverRunning => isGenerated /\ terminal # "generate"
  /\ serverRunning => \A o \in players \cap inSession : \E s \in Sessions : sessionPlayer[s] = o

\* Until then a player that is no longer of the game implies that the game has no
\* floors, and a new player of such a game does not see its first look
Ghosts ==
  serverRunning =>
    /\ floors => \A s \in Sessions : sessionPlayer[s] # NoObject => sessionPlayer[s] \in players
    /\ ~floors /\ players # {} => handler \in {"mark", "look"} /\ sessionPlayer[current] \in nowhere \cap players
    /\ handler = "check" /\ players # {} => sessionPlayer[current] # NoObject

JInv == IInv /\ Waiting /\ Held /\ Ghosts

-----------------------------------------------------------------------------
(* Types *)

LEMMA VanishType ==
  ASSUME TypeOK, NEW S \in SUBSET Objects, Vanish(S)
  PROVE  /\ username' \in [Objects -> Nicks \cup {NoNick}]
         /\ sessionPlayer' \in [Sessions -> Objects \cup {NoObject}]
         /\ inSession' \subseteq Objects /\ nowhere' \subseteq Objects
BY DEF Vanish, TypeOK

LEMMA LetGoType ==
  ASSUME TypeOK, NEW s \in Sessions, LetGo(s)
  PROVE  /\ username' \in [Objects -> Nicks \cup {NoNick}]
         /\ sessionPlayer' \in [Sessions -> Objects \cup {NoObject}]
         /\ fighting' \subseteq Objects
BY DEF LetGo, TypeOK

LEMMA EndBattleType ==
  ASSUME TypeOK, NEW o \in Objects, EndBattle(o)
  PROVE  /\ username' \in [Objects -> Nicks \cup {NoNick}]
         /\ sessionPlayer' \in [Sessions -> Objects \cup {NoObject}]
         /\ inSession' \subseteq Objects /\ nowhere' \subseteq Objects
         /\ fighting' \subseteq Objects
<1>1. {o} \ players \in SUBSET Objects
  OBVIOUS
<1> QED BY <1>1, VanishType DEF EndBattle, TypeOK

LEMMA InitType == Init => TypeOK
BY SentinelAssumption DEF Init, TypeOK, Steps

\* The steps of a session and of its handler
LEMMA SessionType ==
  ASSUME TypeOK, NEW s \in Sessions, Peer(s) \/ HandlerBegins(s) \/ SamosborKills(s)
  PROVE  TypeOK'
<1> USE SentinelAssumption DEF Steps
<1>0. NoSession \notin Sessions
  BY DEF Sessions
<1>1. CASE Peer(s)
  BY <1>1 DEF Peer, Send, Close, netIdle, gameVars, handlerVars, terminalVars, TypeOK
<1>2. CASE Accept(s)
  BY <1>2 DEF Accept, netIdle, gameVars, handlerVars, terminalVars, TypeOK
<1>3. ASSUME NEW n \in Nicks, FirstTime(s, n) PROVE TypeOK'
  BY <1>0, <1>3 DEF FirstTime, Begin, gameVars, terminalVars, TypeOK
<1>4. CASE Read(s)
  BY <1>0, <1>4 DEF Read, Begin, gameVars, terminalVars, TypeOK
<1>5. CASE End(s)
  <2>1. UNCHANGED <<connVars, players, nowhere, floors, isGenerated, server, handlerVars, terminalVars>>
    BY <1>5 DEF End
  <2>2. phase' \in [Sessions -> {"new", "firstTime", "read", "ended"}] /\ inSession' \subseteq Objects
    BY <1>5 DEF End, Destroyed, Released, TypeOK
  <2>3. /\ username' \in [Objects -> Nicks \cup {NoNick}]
        /\ sessionPlayer' \in [Sessions -> Objects \cup {NoObject}] /\ fighting' \subseteq Objects
    BY <1>5, LetGoType DEF End
  <2> QED BY <2>1, <2>2, <2>3 DEF TypeOK, connVars, handlerVars, terminalVars
<1>6. CASE SamosborKills(s)
  <2>1. sessionPlayer[s] \in Objects /\ EndBattle(sessionPlayer[s])
    BY <1>6 DEF SamosborKills, TypeOK
  <2>2. UNCHANGED <<connVars, phase, players, floors, isGenerated, server, handlerVars, terminalVars>>
    BY <1>6 DEF SamosborKills
  <2> QED BY <2>1, <2>2, EndBattleType DEF TypeOK, connVars, handlerVars, terminalVars
<1> QED BY <1>1, <1>2, <1>3, <1>4, <1>5, <1>6 DEF HandlerBegins

LEMMA HandlerType ==
  ASSUME TypeOK, HandlerGoesOn
  PROVE  TypeOK'
<1> USE SentinelAssumption DEF Steps
<1>0. handler # "none" => current \in Sessions
  BY DEF TypeOK
<1>1. CASE Search
  BY <1>1 DEF Search, Running, Goto, connVars, gameVars, terminalVars, TypeOK
<1>2. CASE Bind
  BY <1>0, <1>2 DEF Bind, Running, Goto, Named, connVars, terminalVars, TypeOK
<1>3. CASE Spawn
  BY <1>0, <1>3 DEF Spawn, Running, Goto, connVars, terminalVars, TypeOK
<1>4. CASE Mark
  BY <1>0, <1>4 DEF Mark, Running, Goto, Expired, Crash, connVars, gameVars, handlerVars, terminalVars, TypeOK
<1>5. CASE Look
  BY <1>0, <1>5 DEF Look, Running, Finish, Crash, connVars, gameVars, handlerVars, terminalVars, TypeOK
<1>6. CASE Refuse \/ Check \/ Answer
  BY <1>6 DEF Refuse, Check, Answer, Running, Goto, Finish, connVars, gameVars, terminalVars, TypeOK
<1>7. CASE Lost
  <2>1. current \in Sessions /\ LetGo(current) /\ Finish
        /\ phase' = [phase EXCEPT ![current] = "firstTime"]
        /\ UNCHANGED <<connVars, players, inSession, nowhere, floors, isGenerated, terminalVars>>
    BY <1>0, <1>7 DEF Lost, Running
  <2> QED BY <2>1, LetGoType DEF Finish, connVars, terminalVars, TypeOK
<1>8. CASE Parse
  <2> DEFINE o == sessionPlayer[current]
  <2>1. CASE Expired(current)
    BY <1>8, <2>1 DEF Parse, Crash, connVars, gameVars, handlerVars, terminalVars, TypeOK
  <2>2. CASE ~Expired(current)
    <3>1. o \in Objects
      BY <1>0, <1>8, <2>2 DEF Parse, Running, Expired, TypeOK
    <3>2. /\ handler' = "answer" /\ handler # "none"
          /\ UNCHANGED <<current, nickname, server, connVars, phase, players, floors, isGenerated, terminalVars>>
          /\ \/ UNCHANGED <<fighting, username, sessionPlayer, inSession, nowhere>>
             \/ fighting' = fighting \cup {o} /\ UNCHANGED <<username, sessionPlayer, inSession, nowhere>>
             \/ EndBattle(o)
      BY <1>8, <2>2 DEF Parse, Goto, Running
    <3>3. /\ username' \in [Objects -> Nicks \cup {NoNick}]
          /\ sessionPlayer' \in [Sessions -> Objects \cup {NoObject}]
          /\ inSession' \subseteq Objects /\ nowhere' \subseteq Objects /\ fighting' \subseteq Objects
      <4>1. CASE EndBattle(o)
        BY <3>1, <4>1, EndBattleType
      <4>2. CASE ~EndBattle(o)
        BY <3>1, <3>2, <4>2 DEF TypeOK
      <4> QED BY <4>1, <4>2
    <3> HIDE DEF o
    <3> QED BY <3>2, <3>3 DEF connVars, terminalVars, TypeOK
  <2> QED BY <2>1, <2>2
<1>9. CASE Thrown \/ Torn
  BY <1>9 DEF Thrown, Torn, Crash, connVars, gameVars, handlerVars, terminalVars, TypeOK
<1> QED BY <1>1, <1>2, <1>3, <1>4, <1>5, <1>6, <1>7, <1>8, <1>9 DEF HandlerGoesOn

LEMMA TerminalType ==
  ASSUME TypeOK, PollReturns \/ Terminal
  PROVE  TypeOK'
<1>1. CASE PollReturns
  BY <1>1 DEF PollReturns, connVars, gameVars, handlerVars, terminalVars, TypeOK
<1>2. CASE Gen \/ Reset \/ Generate \/ Ungenerate \/ Unlock
  BY <1>2 DEF Gen, Reset, Generate, Ungenerate, Unlock, Types, terminalIdle, objectVars, connVars, handlerVars, TypeOK
<1>3. CASE Replaced
  <2> DEFINE held == {o \in fighting : \E s \in Sessions : sessionPlayer[s] = o}
  <2>1. players \ held \in SUBSET Objects /\ Vanish(players \ held)
    BY <1>3 DEF Replaced, TypeOK
  <2>2. /\ players' = {} /\ floors' = FALSE /\ fighting' \subseteq fighting
        /\ terminal' \in {"ungenerate", "prompt", "generate"}
        /\ UNCHANGED <<connVars, phase, server, handlerVars, isGenerated, serverRunning, toReset>>
    BY <1>3 DEF Replaced
  <2> QED BY <2>1, <2>2, VanishType DEF connVars, handlerVars, TypeOK
<1>4. ASSUME NEW s \in Sessions, ResetSession(s) PROVE TypeOK'
  <2>1. /\ LetGo(s) /\ toReset' \subseteq toReset
        /\ UNCHANGED <<connVars, phase, server, handlerVars, inSession, nowhere, players, floors, isGenerated,
                       serverRunning, terminal>>
    BY <1>4 DEF ResetSession
  <2> QED BY <2>1, LetGoType DEF connVars, handlerVars, TypeOK
<1> QED BY <1>1, <1>2, <1>3, <1>4 DEF Terminal

LEMMA NextType == TypeOK /\ [Next]_vars => TypeOK'
<1> SUFFICES ASSUME TypeOK, [Next]_vars PROVE TypeOK'
  OBVIOUS
<1>1. CASE UNCHANGED vars
  BY <1>1 DEF vars, connVars, gameVars, handlerVars, terminalVars, TypeOK
<1> QED BY <1>1, SessionType, HandlerType, TerminalType DEF Next

-----------------------------------------------------------------------------
(* Nobody is bound twice *)

\* The handler has not moved, or not to where something has to be known
Quiet == \/ UNCHANGED handlerVars
         \/ handler # "mark" /\ handler' \notin {"search", "bind", "spawn", "mark"}

\* Pointers, marks and objects may go, and are never given to another
Shrinks ==
  /\ \A s \in Sessions : sessionPlayer'[s] # NoObject =>
       /\ sessionPlayer'[s] = sessionPlayer[s]
       /\ sessionPlayer[s] \in players' \cup fighting'
       /\ sessionPlayer[s] \in inSession => sessionPlayer[s] \in inSession'
  /\ players' \subseteq players /\ fighting' \subseteq fighting \cup players
  /\ \A o \in Objects : username'[o] \in {username[o], NoNick}
  /\ \A o \in players' \cup fighting' : username'[o] = username[o]
  /\ inSession' \subseteq inSession

LEMMA ShrinkInv ==
  ASSUME IInv, TypeOK', Shrinks, Quiet
  PROVE  IInv'
<1> USE DEF IInv, Shrinks
<1>1. Distinct'
  BY DEF Distinct
<1>2. Owned'
  BY DEF Owned
<1>3. Marked'
  BY DEF Marked, Quiet, handlerVars
<1>4. Unique'
  BY DEF Unique
<1>5. Found'
  <2>1. CASE UNCHANGED handlerVars
    <3>1. Named(nickname)' \subseteq Named(nickname) \/ nickname \notin Nicks
      BY <2>1, SentinelAssumption DEF Named, TypeOK, handlerVars
    <3> QED BY <2>1, <3>1 DEF Found, handlerVars
  <2>2. CASE handler' \notin {"search", "bind", "spawn"}
    BY <2>2 DEF Found
  <2> QED BY <2>1, <2>2 DEF Quiet
<1> QED BY <1>1, <1>2, <1>3, <1>4, <1>5

\* Nothing changes but what a session or the terminal is about
LEMMA IdleShrinks ==
  ASSUME IInv, UNCHANGED <<sessionPlayer, players, fighting, username, inSession>>
  PROVE  Shrinks
BY DEF Shrinks, IInv, Owned

LEMMA LetGoShrinks ==
  ASSUME IInv, NEW s \in Sessions, LetGo(s), UNCHANGED players,
         inSession' \in {inSession, inSession \ {sessionPlayer[s]}}
  PROVE  Shrinks
<1> DEFINE leaked == {sessionPlayer[s]} \cap (fighting \ players)
<1>1. /\ sessionPlayer' = [sessionPlayer EXCEPT ![s] = NoObject]
      /\ fighting' = fighting \ leaked
      /\ username' = [o \in Objects |-> IF o \in leaked THEN NoNick ELSE username[o]]
  BY DEF LetGo
<1>2. ASSUME NEW t \in Sessions, sessionPlayer'[t] # NoObject
      PROVE  /\ sessionPlayer'[t] = sessionPlayer[t]
             /\ sessionPlayer[t] \in players' \cup fighting'
             /\ sessionPlayer[t] \in inSession => sessionPlayer[t] \in inSession'
  <2>1. t # s /\ sessionPlayer'[t] = sessionPlayer[t] /\ sessionPlayer[t] # NoObject
    BY <1>1, <1>2 DEF IInv, TypeOK
  <2>2. sessionPlayer[t] # sessionPlayer[s]
    BY <2>1 DEF IInv, Distinct
  <2> QED BY <1>1, <2>1, <2>2 DEF IInv, Owned
<1>3. \A o \in players' \cup fighting' : o \in Objects /\ username'[o] = username[o]
  BY <1>1 DEF IInv, TypeOK
<1> QED BY <1>1, <1>2, <1>3 DEF Shrinks, IInv, TypeOK

LEMMA EndBattleShrinks ==
  ASSUME IInv, NEW o \in Objects, EndBattle(o), UNCHANGED players
  PROVE  Shrinks
<1> DEFINE S == {o} \ players
<1>1. /\ fighting' = fighting \ {o}
      /\ username' = [q \in Objects |-> IF q \in S THEN NoNick ELSE username[q]]
      /\ sessionPlayer' = [s \in Sessions |-> IF sessionPlayer[s] \in S THEN NoObject ELSE sessionPlayer[s]]
      /\ inSession' = inSession \ S
  BY DEF EndBattle, Vanish
<1>2. \A q \in players' \cup fighting' : q \in Objects /\ q \notin S
  BY <1>1 DEF IInv, TypeOK
<1>3. ASSUME NEW s \in Sessions, sessionPlayer'[s] # NoObject
      PROVE  /\ sessionPlayer'[s] = sessionPlayer[s] /\ sessionPlayer[s] \notin S
             /\ sessionPlayer[s] \in players' \cup fighting'
  BY <1>1, <1>3 DEF IInv, Owned
<1> HIDE DEF S
<1> QED BY <1>1, <1>2, <1>3 DEF Shrinks, IInv, TypeOK

\* What outlives a game is what fights and is pointed to.
LEMMA ReplacedShrinks ==
  ASSUME IInv, Replaced
  PROVE  Shrinks
<1> DEFINE held == {o \in fighting : \E s \in Sessions : sessionPlayer[s] = o}
           S == players \ held
<1>1. /\ players' = {} /\ fighting' = fighting \cap held
      /\ username' = [q \in Objects |-> IF q \in S THEN NoNick ELSE username[q]]
      /\ sessionPlayer' = [s \in Sessions |-> IF sessionPlayer[s] \in S THEN NoObject ELSE sessionPlayer[s]]
      /\ inSession' = inSession \ S
  BY DEF Replaced, Vanish
<1>2. \A q \in players' \cup fighting' : q \in Objects /\ q \notin S
  BY <1>1 DEF IInv, TypeOK
<1>3. ASSUME NEW s \in Sessions, sessionPlayer'[s] # NoObject
      PROVE  /\ sessionPlayer'[s] = sessionPlayer[s] /\ sessionPlayer[s] \notin S
             /\ sessionPlayer[s] \in players' \cup fighting'
  BY <1>1, <1>3 DEF IInv, Owned
<1> HIDE DEF S
<1> QED BY <1>1, <1>2, <1>3 DEF Shrinks, IInv, TypeOK

LEMMA CrashInv ==
  ASSUME IInv, TypeOK', Crash
  PROVE  IInv'
BY ShrinkInv, IdleShrinks DEF Crash, gameVars, Quiet

LEMMA SessionInv ==
  ASSUME IInv, TypeOK', NEW s \in Sessions, Peer(s) \/ HandlerBegins(s) \/ SamosborKills(s)
  PROVE  IInv'
<1>1. CASE Peer(s) \/ Accept(s)
  BY <1>1, ShrinkInv, IdleShrinks DEF Peer, Send, Close, Accept, netIdle, gameVars, Quiet
<1>2. ASSUME NEW n \in Nicks, FirstTime(s, n) PROVE IInv'
  <2>1. CASE handler' = "refuse"
    BY <1>2, <2>1, ShrinkInv, IdleShrinks DEF FirstTime, Running, Begin, gameVars, Quiet
  <2>2. CASE handler' = "search"
    <3>1. handler # "mark" /\ nickname' = n /\ UNCHANGED <<sessionPlayer, gameVars>>
      BY <1>2 DEF FirstTime, Running, Begin
    <3>2. Distinct' /\ Owned' /\ Unique'
      BY <3>1 DEF IInv, Distinct, Owned, Unique, gameVars
    <3>3. Marked' /\ Found'
      BY <2>2, <3>1 DEF IInv, Marked, Found, gameVars
    <3> QED BY <3>2, <3>3 DEF IInv
  <2> QED BY <1>2, <2>1, <2>2 DEF FirstTime, Begin
<1>3. CASE Read(s)
  BY <1>3, ShrinkInv, IdleShrinks DEF Read, Running, Begin, gameVars, Quiet
<1>4. CASE End(s)
  <2>1. LetGo(s) /\ UNCHANGED players /\ inSession' = inSession \ {sessionPlayer[s]} /\ Quiet
    BY <1>4 DEF End, Released, Quiet
  <2> QED BY <2>1, LetGoShrinks, ShrinkInv
<1>5. CASE SamosborKills(s)
  <2>1. sessionPlayer[s] \in Objects /\ EndBattle(sessionPlayer[s]) /\ UNCHANGED players /\ Quiet
    BY <1>5 DEF SamosborKills, Quiet, IInv, TypeOK
  <2> QED BY <2>1, EndBattleShrinks, ShrinkInv
<1> QED BY <1>1, <1>2, <1>3, <1>4, <1>5 DEF HandlerBegins

\* The search settles what the next step relies on.
LEMMA SearchInv ==
  ASSUME IInv, TypeOK', Search
  PROVE  IInv'
<1>1. /\ handler = "search" /\ nickname \in Nicks
      /\ handler' = IF Named(nickname) = {} THEN "spawn" ELSE IF Taken(nickname) THEN "refuse" ELSE "bind"
      /\ UNCHANGED <<current, nickname, sessionPlayer, gameVars>>
  BY DEF Search, Running, Goto, IInv, Found
<1>2. Distinct' /\ Owned' /\ Unique'
  BY <1>1 DEF IInv, Distinct, Owned, Unique, gameVars
<1>3. Marked'
  BY <1>1 DEF IInv, Marked, gameVars
<1>4. Named(nickname)' = Named(nickname) /\ inSession' = inSession
  BY <1>1 DEF Named, gameVars
<1>5. Found'
  BY <1>1, <1>4 DEF Found, Taken
<1> QED BY <1>2, <1>3, <1>5 DEF IInv

\* The player bound is in no session: every player pointed to is.
LEMMA BindInv ==
  ASSUME IInv, TypeOK', Bind
  PROVE  IInv'
<1>1. /\ handler = "bind" /\ handler' = "look" /\ current \in Sessions
      /\ UNCHANGED <<current, players, username, fighting>>
  BY DEF Bind, Running, Goto, IInv, TypeOK
<1>2. CASE UNCHANGED <<sessionPlayer, inSession>>
  BY <1>1, <1>2, ShrinkInv, IdleShrinks DEF Quiet
<1>3. ASSUME NEW o \in Named(nickname),
             sessionPlayer' = [sessionPlayer EXCEPT ![current] = o], inSession' = inSession \cup {o}
      PROVE  IInv'
  <2>1. o \in players /\ o \notin inSession
    BY <1>1 DEF IInv, Found, Named
  <2>2. \A s \in Sessions : sessionPlayer[s] # o
    <3>1. NoObject \notin Objects
      BY SentinelAssumption DEF Objects
    <3> QED BY <1>1, <2>1, <3>1 DEF IInv, Marked, TypeOK
  <2>3. \A s \in Sessions : sessionPlayer'[s] = IF s = current THEN o ELSE sessionPlayer[s]
    BY <1>1, <1>3 DEF IInv, TypeOK
  <2>4. Distinct'
    BY <2>2, <2>3 DEF IInv, Distinct
  <2>5. Owned'
    BY <1>1, <2>1, <2>3 DEF IInv, Owned
  <2>6. Marked'
    BY <1>1, <1>3, <2>3 DEF IInv, Marked
  <2>7. Unique' /\ Found'
    BY <1>1 DEF IInv, Unique, Found
  <2> QED BY <2>4, <2>5, <2>6, <2>7 DEF IInv
<1> QED BY <1>2, <1>3 DEF Bind

\* The player spawned is a new object, and the first of its nickname.
LEMMA SpawnInv ==
  ASSUME IInv, TypeOK', Spawn
  PROVE  IInv'
<1>1. /\ handler = "spawn" /\ handler' = "mark" /\ current \in Sessions
      /\ nickname \in Nicks /\ Named(nickname) = {}
      /\ UNCHANGED <<current, nickname, fighting>>
  BY DEF Spawn, Running, Goto, IInv, TypeOK, Found
<1>2. PICK o \in Objects :
        /\ username[o] = NoNick
        /\ username' = [username EXCEPT ![o] = nickname]
        /\ players' = players \cup {o}
        /\ inSession' = inSession \ {o}
        /\ sessionPlayer' = [sessionPlayer EXCEPT ![current] = o]
  BY DEF Spawn
<1>3. o \notin players \cup fighting /\ \A s \in Sessions : sessionPlayer[s] # o
  <2>1. NoObject \notin Objects
    BY SentinelAssumption DEF Objects
  <2> QED BY <1>2, <2>1 DEF IInv, Owned
<1>4. \A s \in Sessions : sessionPlayer'[s] = IF s = current THEN o ELSE sessionPlayer[s]
  BY <1>1, <1>2 DEF IInv, TypeOK
<1>5. \A q \in Objects : username'[q] = IF q = o THEN nickname ELSE username[q]
  BY <1>2 DEF IInv, TypeOK
<1>6. Distinct'
  BY <1>3, <1>4 DEF IInv, Distinct
<1>7. Owned'
  BY <1>1, <1>2, <1>3, <1>4, <1>5, SentinelAssumption DEF IInv, Owned, TypeOK
<1>8. Marked'
  BY <1>1, <1>2, <1>3, <1>4 DEF IInv, Marked
<1>9. Unique'
  <2>1. \A q \in players : username[q] # nickname
    BY <1>1 DEF Named
  <2> QED BY <1>2, <1>3, <1>5, <2>1 DEF IInv, Unique, TypeOK
<1>10. Found'
  BY <1>1 DEF Found
<1> QED BY <1>6, <1>7, <1>8, <1>9, <1>10 DEF IInv

LEMMA MarkInv ==
  ASSUME IInv, TypeOK', Mark
  PROVE  IInv'
<1>1. CASE Expired(current)
  BY <1>1, CrashInv DEF Mark
<1>2. CASE ~Expired(current)
  <2>1. /\ handler = "mark" /\ handler' = "look"
        /\ inSession' = inSession \cup {sessionPlayer[current]}
        /\ UNCHANGED <<current, sessionPlayer, players, username, fighting>>
    BY <1>2 DEF Mark, Running, Goto
  <2>2. Distinct' /\ Owned' /\ Unique'
    BY <2>1 DEF IInv, Distinct, Owned, Unique
  <2>3. Marked' /\ Found'
    BY <2>1 DEF IInv, Marked, Found
  <2> QED BY <2>2, <2>3 DEF IInv
<1> QED BY <1>1, <1>2

LEMMA HandlerInv ==
  ASSUME IInv, TypeOK', HandlerGoesOn
  PROVE  IInv'
<1>1. CASE Search \/ Bind \/ Spawn \/ Mark
  BY <1>1, SearchInv, BindInv, SpawnInv, MarkInv
<1>2. CASE Look
  <2>1. CASE Crash
    BY <2>1, CrashInv
  <2>2. CASE ~Crash
    <3>1. handler = "look" /\ Finish /\ UNCHANGED <<sessionPlayer, gameVars>>
      BY <1>2, <2>2 DEF Look, Running
    <3> QED BY <3>1, ShrinkInv, IdleShrinks DEF Finish, gameVars, Quiet
  <2> QED BY <2>1, <2>2
<1>3. CASE Refuse \/ Check \/ Answer
  BY <1>3, ShrinkInv, IdleShrinks DEF Refuse, Check, Answer, Running, Goto, Finish, gameVars, Quiet
<1>4. CASE Lost
  <2>1. current \in Sessions /\ LetGo(current) /\ UNCHANGED <<players, inSession>> /\ Quiet
    BY <1>4 DEF Lost, Running, Finish, Quiet, IInv, TypeOK
  <2> QED BY <2>1, LetGoShrinks, ShrinkInv
<1>5. CASE Parse
  <2>1. CASE Expired(current)
    BY <1>5, <2>1, CrashInv DEF Parse
  <2>2. CASE ~Expired(current)
    <3> DEFINE o == sessionPlayer[current]
    <3>1. /\ handler = "parse" /\ handler' = "answer" /\ UNCHANGED players /\ o \in Objects
          /\ \/ UNCHANGED <<fighting, username, sessionPlayer, inSession>>
             \/ /\ o \in players /\ fighting' = fighting \cup {o}
                /\ UNCHANGED <<username, sessionPlayer, inSession>>
             \/ EndBattle(o)
      BY <1>5, <2>2 DEF Parse, Goto, Running, Expired, IInv, TypeOK
    <3>2. Quiet
      BY <3>1 DEF Quiet
    <3>3. CASE EndBattle(o)
      BY <3>1, <3>2, <3>3, EndBattleShrinks, ShrinkInv
    <3>4. CASE ~EndBattle(o)
      <4>1. Shrinks
        BY <3>1, <3>4 DEF Shrinks, IInv, Owned
      <4> QED BY <3>2, <4>1, ShrinkInv
    <3> QED BY <3>3, <3>4
  <2> QED BY <2>1, <2>2
<1>6. CASE Thrown \/ Torn
  BY <1>6, CrashInv DEF Thrown, Torn
<1> QED BY <1>1, <1>2, <1>3, <1>4, <1>5, <1>6 DEF HandlerGoesOn

LEMMA TerminalInv ==
  ASSUME IInv, TypeOK', PollReturns \/ Terminal
  PROVE  IInv'
<1>1. Quiet
  BY DEF PollReturns, Terminal, Gen, Reset, Replaced, Generate, Ungenerate, Unlock, ResetSession,
         terminalIdle, Quiet
<1>2. CASE PollReturns \/ Gen \/ Reset \/ Generate \/ Ungenerate \/ Unlock
  BY <1>1, <1>2, ShrinkInv, IdleShrinks
  DEF PollReturns, Gen, Reset, Generate, Ungenerate, Unlock, terminalIdle, objectVars, gameVars
<1>3. CASE Replaced
  BY <1>1, <1>3, ReplacedShrinks, ShrinkInv
<1>4. ASSUME NEW s \in Sessions, ResetSession(s) PROVE IInv'
  BY <1>1, <1>4, LetGoShrinks, ShrinkInv DEF ResetSession
<1> QED BY <1>2, <1>3, <1>4 DEF Terminal

LEMMA InitInv == Init => IInv
<1> SUFFICES ASSUME Init PROVE IInv
  OBVIOUS
<1>1. TypeOK
  BY InitType
<1> QED BY <1>1 DEF Init, IInv, Distinct, Owned, Marked, Unique, Found

LEMMA NextInv == IInv /\ [Next]_vars => IInv'
<1> SUFFICES ASSUME IInv, [Next]_vars PROVE IInv'
  OBVIOUS
<1>1. TypeOK'
  BY NextType DEF IInv
<1>2. CASE UNCHANGED vars
  BY <1>1, <1>2, ShrinkInv, IdleShrinks DEF vars, gameVars, Quiet
<1> QED BY <1>1, <1>2, SessionInv, HandlerInv, TerminalInv DEF Next

\* Sessions, players and handlers are well-formed, with any number of them.
THEOREM TypeCorrect == Spec => []TypeOK
<1>1. IInv => TypeOK
  BY DEF IInv
<1> QED BY InitInv, NextInv, <1>1, PTL DEF Spec

\* However many people ask for one nickname at once, and whatever the terminal
\* does between two steps of a handler, one session at most gets the player.
THEOREM NobodyIsBoundTwice == Spec => []Exclusive
<1>1. IInv => Exclusive
  BY DEF IInv, Exclusive, Distinct, Unique, Expired
<1> QED BY InitInv, NextInv, <1>1, PTL DEF Spec

-----------------------------------------------------------------------------
(* Nobody is locked out, and no ghost is served *)

LEMMA NoObjectApart == NoObject \notin Objects /\ NoSession \notin Sessions
BY SentinelAssumption DEF Objects, Sessions

\* What the ends of battles and of games leave of pointers, marks and places
Withdrawn ==
  /\ \A s \in Sessions : \/ sessionPlayer'[s] = sessionPlayer[s]
                         \/ sessionPlayer'[s] = NoObject /\ sessionPlayer[s] \notin players'
  /\ players' \in {players, {}} /\ inSession' \subseteq inSession
  /\ nowhere \cap players' \subseteq nowhere'

LEMMA EndBattleWithdraws ==
  ASSUME TypeOK, NEW o \in Objects, EndBattle(o), UNCHANGED players
  PROVE  Withdrawn
BY DEF EndBattle, Vanish, Withdrawn, TypeOK

LEMMA ReplacedWithdraws ==
  ASSUME TypeOK, Replaced
  PROVE  Withdrawn
BY DEF Replaced, Vanish, Withdrawn, TypeOK

LEMMA LetGoPointers ==
  ASSUME TypeOK, NEW s \in Sessions, LetGo(s)
  PROVE  \A t \in Sessions : sessionPlayer'[t] = IF t = s THEN NoObject ELSE sessionPlayer[t]
BY DEF LetGo, TypeOK

Extras == Waiting /\ Held /\ Ghosts

\* The sessions and their handler stand still
LEMMA StandingExtras ==
  ASSUME JInv, UNCHANGED <<phase, players, handlerVars, terminal, serverRunning, isGenerated, floors>>, Withdrawn
  PROVE  Extras'
<1>1. Waiting'
  <2>1. handler # "none" => current \in Sessions
    BY DEF JInv, IInv, TypeOK
  <2> QED BY <2>1 DEF JInv, Waiting, Withdrawn, handlerVars
<1>2. Held'
  BY NoObjectApart DEF JInv, Held, Withdrawn
<1>3. Ghosts'
  <2>1. handler # "none" => current \in Sessions
    BY DEF JInv, IInv, TypeOK
  <2> SUFFICES ASSUME serverRunning
               PROVE  /\ floors => \A s \in Sessions : sessionPlayer'[s] # NoObject => sessionPlayer'[s] \in players'
                      /\ ~floors /\ players' # {} => handler \in {"mark", "look"} /\ sessionPlayer'[current] \in nowhere' \cap players'
                      /\ handler = "check" /\ players' # {} => sessionPlayer'[current] # NoObject
    BY DEF Ghosts, handlerVars
  <2>2. ASSUME floors, NEW s \in Sessions, sessionPlayer'[s] # NoObject
        PROVE  sessionPlayer'[s] \in players'
    BY <2>2 DEF JInv, Ghosts, Withdrawn
  <2>3. ASSUME ~floors, players' # {}
        PROVE  handler \in {"mark", "look"} /\ sessionPlayer'[current] \in nowhere' \cap players'
    <3>1. handler \in {"mark", "look"} /\ sessionPlayer[current] \in nowhere \cap players'
      BY <2>3 DEF JInv, Ghosts, Withdrawn
    <3> QED BY <2>1, <3>1 DEF Withdrawn
  <2>4. ASSUME handler = "check", players' # {}
        PROVE  sessionPlayer'[current] # NoObject
    <3>1. players' = players /\ sessionPlayer[current] # NoObject /\ current \in Sessions
      BY <2>1, <2>4 DEF JInv, Ghosts, Withdrawn
    <3>2. sessionPlayer[current] \in players
      BY <2>4, <3>1 DEF JInv, Ghosts
    <3> QED BY <3>1, <3>2 DEF Withdrawn
  <2> QED BY <2>2, <2>3, <2>4
<1> QED BY <1>1, <1>2, <1>3 DEF Extras

LEMMA CrashExtras ==
  ASSUME JInv, Crash
  PROVE  Extras'
BY StandingExtras DEF Crash, gameVars, terminalVars, Withdrawn

LEMMA SessionExtras ==
  ASSUME JInv, NEW s \in Sessions, Peer(s) \/ HandlerBegins(s) \/ SamosborKills(s)
  PROVE  Extras'
<1> USE DEF JInv
<1>1. CASE Peer(s)
  BY <1>1, StandingExtras DEF Peer, Send, Close, netIdle, gameVars, terminalVars, Withdrawn
<1>2. CASE SamosborKills(s)
  <2>1. sessionPlayer[s] \in Objects /\ EndBattle(sessionPlayer[s])
        /\ UNCHANGED <<phase, players, floors, isGenerated, handlerVars, terminalVars>>
    BY <1>2 DEF SamosborKills, IInv, TypeOK
  <2> QED BY <2>1, EndBattleWithdraws, StandingExtras DEF IInv, terminalVars
<1>3. CASE Accept(s)
  <2>1. /\ handler = "none" /\ handler' = "none" /\ phase[s] = "new"
        /\ phase' = [phase EXCEPT ![s] = "firstTime"]
        /\ UNCHANGED <<current, sessionPlayer, gameVars, terminalVars>>
    BY <1>3 DEF Accept, Running, netIdle, handlerVars
  <2>2. Waiting'
    BY <2>1 DEF Waiting, IInv, TypeOK, gameVars
  <2>3. Held' /\ Ghosts'
    BY <2>1 DEF Held, Ghosts, gameVars, terminalVars
  <2> QED BY <2>2, <2>3 DEF Extras
<1>4. ASSUME NEW n \in Nicks, FirstTime(s, n) PROVE Extras'
  <2>1. /\ handler = "none" /\ handler' \in {"search", "refuse"} /\ phase[s] = "firstTime"
        /\ current' = s /\ UNCHANGED <<phase, sessionPlayer, gameVars, terminalVars>>
    BY <1>4 DEF FirstTime, Running, Begin
  <2>2. Waiting'
    BY <2>1 DEF Waiting, gameVars
  <2>3. Held' /\ Ghosts'
    BY <2>1 DEF Held, Ghosts, gameVars, terminalVars
  <2> QED BY <2>2, <2>3 DEF Extras
<1>5. CASE Read(s)
  <2>1. /\ handler = "none" /\ handler' = IF sessionPlayer[s] = NoObject THEN "lost" ELSE "check"
        /\ current' = s /\ UNCHANGED <<phase, sessionPlayer, gameVars, terminalVars>>
    BY <1>5 DEF Read, Running, Begin, Expired
  <2>2. Waiting'
    BY <2>1 DEF Waiting, gameVars
  <2>3. Held' /\ Ghosts'
    BY <2>1 DEF Held, Ghosts, gameVars, terminalVars
  <2> QED BY <2>2, <2>3 DEF Extras
<1>6. CASE End(s)
  <2>1. /\ handler = "none" /\ phase' = [phase EXCEPT ![s] = "ended"]
        /\ inSession' = inSession \ {sessionPlayer[s]} /\ LetGo(s)
        /\ UNCHANGED <<players, nowhere, floors, isGenerated, handlerVars, terminalVars>>
    BY <1>6 DEF End, Running, Destroyed, Released
  <2>2. \A t \in Sessions : sessionPlayer'[t] = IF t = s THEN NoObject ELSE sessionPlayer[t]
    BY <2>1, LetGoPointers DEF IInv
  <2>3. Waiting'
    BY <2>1, <2>2 DEF Waiting, IInv, TypeOK, handlerVars
  <2>4. Held'
    BY <2>1, <2>2 DEF Held, terminalVars
  <2>5. Ghosts'
    BY <2>1, <2>2 DEF Ghosts, handlerVars, terminalVars
  <2> QED BY <2>3, <2>4, <2>5 DEF Extras
<1> QED BY <1>1, <1>2, <1>3, <1>4, <1>5, <1>6 DEF HandlerBegins

\* The handlers of firstTime
LEMMA FirstTimeExtras ==
  ASSUME JInv, Search \/ Bind \/ Spawn \/ Mark \/ Look \/ Refuse
  PROVE  Extras'
<1> USE DEF JInv
<1>0. handler # "none" => current \in Sessions
  BY DEF IInv, TypeOK
<1>1. CASE Search
  <2>1. /\ handler = "search" /\ handler' \in {"spawn", "refuse", "bind"} /\ UNCHANGED current
        /\ UNCHANGED <<phase, sessionPlayer, gameVars, terminalVars>>
    BY <1>1 DEF Search, Running, Goto
  <2> QED BY <2>1 DEF Waiting, Held, Ghosts, Extras, gameVars, terminalVars
<1>2. CASE Bind
  <2>1. /\ handler = "bind" /\ handler' = "look" /\ current \in Sessions
        /\ UNCHANGED <<current, phase, players, nowhere, floors, isGenerated, terminalVars>>
        /\ \/ UNCHANGED <<sessionPlayer, inSession>>
           \/ \E o \in Named(nickname) : /\ sessionPlayer' = [sessionPlayer EXCEPT ![current] = o]
                                         /\ inSession' = inSession \cup {o}
    BY <1>0, <1>2 DEF Bind, Running, Goto
  <2>2. sessionPlayer[current] = NoObject
    BY <2>1 DEF Waiting
  <2>3. CASE UNCHANGED <<sessionPlayer, inSession>>
    BY <2>1, <2>3 DEF Waiting, Held, Ghosts, Extras, terminalVars
  <2>4. ASSUME NEW o \in Named(nickname), sessionPlayer' = [sessionPlayer EXCEPT ![current] = o],
               inSession' = inSession \cup {o}
        PROVE  Extras'
    <3>1. o \in players
      BY DEF Named
    <3>2. \A s \in Sessions : sessionPlayer'[s] = IF s = current THEN o ELSE sessionPlayer[s]
      BY <2>1, <2>4 DEF IInv, TypeOK
    <3>3. Waiting'
      BY <2>1, <3>2 DEF Waiting
    <3>4. Held'
      <4> SUFFICES ASSUME serverRunning, NEW q \in players, q \in inSession'
                   PROVE  \E s \in Sessions : sessionPlayer'[s] = q
        BY <2>1 DEF Held, terminalVars
      <4>1. CASE q = o
        BY <2>1, <3>2, <4>1
      <4>2. CASE q # o
        <5>1. PICK s \in Sessions : sessionPlayer[s] = q
          BY <2>4, <4>2 DEF Held
        <5>2. s # current
          BY <2>2, <5>1, NoObjectApart DEF IInv, TypeOK
        <5> QED BY <3>2, <5>1, <5>2
      <4> QED BY <4>1, <4>2
    <3>5. Ghosts'
      BY <2>1, <3>1, <3>2 DEF Ghosts, terminalVars
    <3> QED BY <3>3, <3>4, <3>5 DEF Extras
  <2> QED BY <2>1, <2>3, <2>4
<1>3. CASE Spawn
  <2>1. /\ handler = "spawn" /\ handler' = "mark" /\ current \in Sessions
        /\ UNCHANGED <<current, phase, floors, isGenerated, terminalVars>>
    BY <1>0, <1>3 DEF Spawn, Running, Goto
  <2>2. PICK o \in Objects :
          /\ username[o] = NoNick
          /\ players' = players \cup {o} /\ inSession' = inSession \ {o}
          /\ nowhere' = IF floors THEN nowhere \ {o} ELSE nowhere \cup {o}
          /\ sessionPlayer' = [sessionPlayer EXCEPT ![current] = o]
    BY <1>3 DEF Spawn
  <2>3. sessionPlayer[current] = NoObject
    BY <2>1 DEF Waiting
  <2>4. \A s \in Sessions : sessionPlayer'[s] = IF s = current THEN o ELSE sessionPlayer[s]
    BY <2>1, <2>2 DEF IInv, TypeOK
  <2>5. Waiting'
    BY <2>1, <2>4 DEF Waiting
  <2>6. Held'
    <3> SUFFICES ASSUME serverRunning, NEW q \in players' \cap inSession'
                 PROVE  \E s \in Sessions : sessionPlayer'[s] = q
      BY <2>1 DEF Held, terminalVars
    <3>1. q \in players \cap inSession
      BY <2>2
    <3>2. PICK s \in Sessions : sessionPlayer[s] = q
      BY <3>1 DEF Held
    <3>3. s # current
      BY <2>3, <3>1, <3>2, NoObjectApart DEF IInv, TypeOK
    <3> QED BY <2>4, <3>2, <3>3
  <2>7. Ghosts'
    BY <2>1, <2>2, <2>4 DEF Ghosts, terminalVars
  <2> QED BY <2>5, <2>6, <2>7 DEF Extras
<1>4. CASE Mark
  <2>1. CASE Expired(current)
    BY <1>4, <2>1, CrashExtras DEF Mark
  <2>2. CASE ~Expired(current)
    <3>1. /\ handler = "mark" /\ handler' = "look" /\ current \in Sessions
          /\ inSession' = inSession \cup {sessionPlayer[current]}
          /\ UNCHANGED <<current, phase, sessionPlayer, players, nowhere, floors, isGenerated, terminalVars>>
      BY <1>0, <1>4, <2>2 DEF Mark, Running, Goto
    <3>2. Waiting' /\ Ghosts'
      BY <3>1 DEF Waiting, Ghosts, terminalVars
    <3>3. Held'
      BY <3>1 DEF Held, terminalVars
    <3> QED BY <3>2, <3>3 DEF Extras
  <2> QED BY <2>1, <2>2
<1>5. CASE Look
  <2>1. CASE ~Expired(current) /\ sessionPlayer[current] \in nowhere
    BY <1>5, <2>1, CrashExtras DEF Look
  <2>2. CASE ~(~Expired(current) /\ sessionPlayer[current] \in nowhere)
    <3>1. /\ handler = "look" /\ handler' = "none" /\ current \in Sessions
          /\ phase' = [phase EXCEPT ![current] = IF sessionPlayer[current] = NoObject THEN "ended" ELSE "read"]
          /\ UNCHANGED <<sessionPlayer, gameVars, terminalVars>>
      BY <1>0, <1>5, <2>2 DEF Look, Running, Finish, Expired
    <3>2. Waiting'
      BY <3>1 DEF Waiting, IInv, TypeOK
    <3>3. Held'
      BY <3>1 DEF Held, gameVars, terminalVars
    <3>4. Ghosts'
      BY <2>2, <3>1, NoObjectApart DEF Ghosts, Expired, IInv, TypeOK, gameVars, terminalVars
    <3> QED BY <3>2, <3>3, <3>4 DEF Extras
  <2> QED BY <2>1, <2>2
<1>6. CASE Refuse
  <2>1. handler = "refuse" /\ handler' = "none" /\ UNCHANGED <<phase, sessionPlayer, gameVars, terminalVars>>
    BY <1>6 DEF Refuse, Running, Finish
  <2> QED BY <2>1 DEF Waiting, Held, Ghosts, Extras, gameVars, terminalVars
<1> QED BY <1>1, <1>2, <1>3, <1>4, <1>5, <1>6

\* The handlers of read
LEMMA ReadExtras ==
  ASSUME JInv, Check \/ Lost \/ Parse \/ Answer
  PROVE  Extras'
<1> USE DEF JInv
<1>0. handler # "none" => current \in Sessions
  BY DEF IInv, TypeOK
<1>1. CASE Check
  <2>1. /\ handler = "check" /\ handler' = IF players # {} THEN "parse" ELSE "lost"
        /\ UNCHANGED <<current, phase, sessionPlayer, gameVars, terminalVars>>
    BY <1>1 DEF Check, Running, Goto, AnyPlayers
  <2> QED BY <2>1 DEF Waiting, Held, Ghosts, Extras, gameVars, terminalVars
<1>2. CASE Lost
  <2>1. /\ handler = "lost" /\ handler' = "none" /\ current \in Sessions /\ LetGo(current)
        /\ phase' = [phase EXCEPT ![current] = "firstTime"]
        /\ UNCHANGED <<players, inSession, nowhere, floors, isGenerated, terminalVars>>
    BY <1>0, <1>2 DEF Lost, Running, Finish
  <2>2. \A t \in Sessions : sessionPlayer'[t] = IF t = current THEN NoObject ELSE sessionPlayer[t]
    BY <2>1, LetGoPointers DEF IInv
  <2>3. Waiting'
    BY <2>1, <2>2 DEF Waiting, IInv, TypeOK
  <2>4. sessionPlayer[current] = NoObject \/ players = {}
    BY <2>1 DEF Waiting
  <2>5. Held'
    BY <2>1, <2>2, <2>4, NoObjectApart DEF Held, IInv, TypeOK, terminalVars
  <2>6. Ghosts'
    BY <2>1, <2>2 DEF Ghosts, terminalVars
  <2> QED BY <2>3, <2>5, <2>6 DEF Extras
<1>3. CASE Parse
  <2>1. CASE Expired(current)
    BY <1>3, <2>1, CrashExtras DEF Parse
  <2>2. CASE ~Expired(current)
    <3> DEFINE o == sessionPlayer[current]
    <3>1. /\ handler = "parse" /\ handler' = "answer" /\ o \in Objects
          /\ UNCHANGED <<current, phase, players, floors, isGenerated, terminalVars>>
          /\ UNCHANGED <<sessionPlayer, inSession, nowhere>> \/ EndBattle(o)
      BY <1>0, <1>3, <2>2 DEF Parse, Goto, Running, Expired, IInv, TypeOK
    <3>2. Withdrawn
      <4>1. CASE EndBattle(o)
        BY <3>1, <4>1, EndBattleWithdraws DEF IInv
      <4>2. CASE UNCHANGED <<sessionPlayer, inSession, nowhere>>
        BY <3>1, <4>2 DEF Withdrawn
      <4> QED BY <3>1, <4>1, <4>2
    <3> HIDE DEF o
    <3>3. Waiting'
      BY <3>1, <3>2 DEF Waiting, Withdrawn
    <3>4. Held'
      BY <3>1, <3>2, NoObjectApart DEF Held, Withdrawn, terminalVars
    <3>5. Ghosts'
      BY <3>1, <3>2 DEF Ghosts, Withdrawn, terminalVars
    <3> QED BY <3>3, <3>4, <3>5 DEF Extras
  <2> QED BY <2>1, <2>2
<1>4. CASE Answer
  <2>1. handler = "answer" /\ handler' = "none" /\ UNCHANGED <<phase, sessionPlayer, gameVars, terminalVars>>
    BY <1>4 DEF Answer, Running, Finish
  <2> QED BY <2>1 DEF Waiting, Held, Ghosts, Extras, gameVars, terminalVars
<1> QED BY <1>1, <1>2, <1>3, <1>4

LEMMA TerminalExtras ==
  ASSUME JInv, PollReturns \/ Terminal
  PROVE  Extras'
<1> USE DEF JInv
<1>1. CASE PollReturns
  BY <1>1, StandingExtras DEF PollReturns, gameVars, terminalVars, Withdrawn
<1>2. CASE Gen \/ Reset \/ Ungenerate \/ Unlock
  <2>1. /\ UNCHANGED <<phase, handlerVars, sessionPlayer, players, inSession, nowhere, floors>>
        /\ \/ UNCHANGED <<serverRunning, isGenerated>> /\ terminal' \in {"gen", "prompt"}
           \/ serverRunning' = FALSE
           \/ terminal = "ungenerate" /\ UNCHANGED serverRunning /\ terminal' = "sessions"
    BY <1>2 DEF Gen, Reset, Ungenerate, Unlock, Types, Continues, terminalIdle, objectVars
  <2>2. Waiting'
    BY <2>1 DEF Waiting, handlerVars
  <2>3. Held'
    BY <2>1 DEF Held
  <2>4. Ghosts'
    BY <2>1 DEF Ghosts, Held, handlerVars
  <2> QED BY <2>2, <2>3, <2>4 DEF Extras
<1>3. CASE Generate
  <2>1. /\ UNCHANGED <<phase, handlerVars, sessionPlayer, players, inSession, nowhere, serverRunning>>
        /\ ~serverRunning /\ terminal' = "prompt"
    BY <1>3 DEF Generate, Continues, terminalIdle, objectVars, Held
  <2>2. Waiting'
    BY <2>1 DEF Waiting, handlerVars
  <2>3. Held' /\ Ghosts'
    BY <2>1 DEF Held, Ghosts
  <2> QED BY <2>2, <2>3 DEF Extras
<1>4. CASE Replaced
  <2>1. /\ terminal \in {"gen", "reset"} /\ players' = {} /\ floors' = FALSE
        /\ terminal' = IF terminal = "reset" THEN "ungenerate"
                       ELSE IF isGenerated THEN "prompt" ELSE "generate"
        /\ UNCHANGED <<phase, handlerVars, isGenerated, serverRunning>>
    BY <1>4 DEF Replaced, Continues
  <2>2. Withdrawn
    BY <1>4, ReplacedWithdraws DEF IInv
  <2>3. Waiting'
    BY <2>1, <2>2 DEF Waiting, Withdrawn, handlerVars
  <2>4. Held'
    BY <2>1 DEF Held
  <2>5. Ghosts'
    BY <2>1 DEF Ghosts
  <2> QED BY <2>3, <2>4, <2>5 DEF Extras
<1>5. ASSUME NEW s \in Sessions, ResetSession(s) PROVE Extras'
  <2>1. /\ LetGo(s) /\ ~serverRunning
        /\ UNCHANGED <<phase, handlerVars, players, serverRunning, terminal>>
    BY <1>5 DEF ResetSession, Continues, Held
  <2>2. \A t \in Sessions : sessionPlayer'[t] = IF t = s THEN NoObject ELSE sessionPlayer[t]
    BY <2>1, LetGoPointers DEF IInv
  <2>3. Waiting'
    <3>1. handler # "none" => current \in Sessions
      BY DEF IInv, TypeOK
    <3> QED BY <2>1, <2>2, <3>1 DEF Waiting, handlerVars
  <2>4. Held' /\ Ghosts'
    BY <2>1 DEF Held, Ghosts
  <2> QED BY <2>3, <2>4 DEF Extras
<1> QED BY <1>1, <1>2, <1>3, <1>4, <1>5 DEF Terminal

LEMMA InitJInv == Init => JInv
<1> SUFFICES ASSUME Init PROVE JInv
  OBVIOUS
<1>1. IInv
  BY InitInv
<1>2. Waiting /\ Held /\ Ghosts
  BY DEF Init, Waiting, Held, Ghosts
<1> QED BY <1>1, <1>2 DEF JInv

LEMMA NextJInv == JInv /\ [Next]_vars => JInv'
<1> SUFFICES ASSUME JInv, [Next]_vars PROVE JInv'
  OBVIOUS
<1>1. IInv'
  BY NextInv DEF JInv
<1>2. ASSUME UNCHANGED vars PROVE Extras'
  BY <1>2, StandingExtras DEF vars, gameVars, terminalVars, Withdrawn
<1>3. ASSUME HandlerGoesOn PROVE Extras'
  BY <1>3, FirstTimeExtras, ReadExtras, CrashExtras DEF HandlerGoesOn, Thrown, Torn
<1>4. Extras'
  BY <1>2, <1>3, SessionExtras, TerminalExtras DEF Next
<1> QED BY <1>1, <1>4 DEF JInv, Extras

\* While the server runs, a player is marked as playing exactly if a session
\* that has not ended plays it.
THEOREM NobodyIsLockedOut == Spec => []NobodyLockedOut
<1>1. JInv => NobodyLockedOut
  <2> SUFFICES ASSUME JInv, serverRunning, handler = "none", NEW o \in players
               PROVE  o \in inSession <=> \E s \in Sessions : Live(s) /\ sessionPlayer[s] = o
    BY DEF NobodyLockedOut, Serving
  <2>1. ASSUME o \in inSession PROVE \E s \in Sessions : Live(s) /\ sessionPlayer[s] = o
    <3>1. PICK s \in Sessions : sessionPlayer[s] = o
      BY <2>1 DEF JInv, Held
    <3>2. sessionPlayer[s] # NoObject
      BY <3>1, NoObjectApart DEF JInv, IInv, TypeOK
    <3>3. Live(s)
      BY <3>2 DEF JInv, Waiting, Live
    <3> QED BY <3>1, <3>3
  <2>2. ASSUME NEW s \in Sessions, sessionPlayer[s] = o PROVE o \in inSession
    BY <2>2, NoObjectApart DEF JInv, IInv, TypeOK, Marked
  <2> QED BY <2>1, <2>2
<1> QED BY InitJInv, NextJInv, <1>1, PTL DEF Spec

\* Until the server is told to stop, no command is served for a player that has
\* outlived its game in a battle.
THEOREM NoGhostIsServed == Spec => GhostsAreRefused
<1> DEFINE Refused == Serving /\ handler = "check" /\ handler' = "parse" => sessionPlayer[current] \in players
<1>1. JInv /\ [Next]_vars => [Refused]_vars
  <2> SUFFICES ASSUME JInv, [Next]_vars, serverRunning, handler = "check", handler' = "parse"
               PROVE  sessionPlayer[current] \in players
    BY DEF Serving
  <2>1. players # {}
    BY DEF Next, vars, handlerVars, Peer, HandlerBegins, HandlerGoesOn, Terminal, Send, Close, Accept, FirstTime,
           Read, End, SamosborKills, PollReturns, Search, Bind, Spawn, Mark, Look, Refuse, Check, AnyPlayers,
           Lost, Parse, Answer, Thrown, Torn, Crash, Running, Goto, Finish, Begin, netIdle, Gen, Reset, Replaced,
           Generate, Ungenerate, Unlock, ResetSession, terminalIdle
  <2>2. current \in Sessions
    BY DEF JInv, IInv, TypeOK
  <2> QED BY <2>1, <2>2 DEF JInv, Ghosts
<1> QED BY InitJInv, NextJInv, <1>1, PTL DEF Spec, GhostsAreRefused
=============================================================================
