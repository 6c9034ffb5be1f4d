----------------------------- MODULE GamesProofs ------------------------------
(***************************************************************************)
(* Theorems about the games, for every winning score, every window and     *)
(* every ball: the scores stay typed, and a game has one winner.           *)
(*                                                                         *)
(* What matters is how many points one frame can count.  In Pong a goal    *)
(* puts the ball between the walls, whatever the window's width has become;*)
(* in Blobby Volley a foul lifts the ball off the floor and takes the      *)
(* touches back, so that neither the floor nor the other side's blob can   *)
(* count a second one.                                                     *)
(***************************************************************************)
EXTENDS Games, TLAPS

Sides == {Left, Right}
Game == [state : 0..2, score : [Sides -> 0..WinScore], x : Int, v : -14..14,
         touches : 0..3, last : {Nobody, Left, Right}]

(* What an engine holds between the steps of a frame: nobody has won yet,  *)
(* or one side has, and it is the only one.                                *)
Typed(g) == g \in Game /\ (g.touches = 0 <=> g.last = Nobody)
Playing(g) == Typed(g) /\ \A s \in Sides : g.score[s] < WinScore
Decided(g) == Typed(g) /\ \A s, t \in Sides :
                g.score[s] = WinScore /\ g.score[t] = WinScore => s = t

(* The inductive invariant.                                                *)
Sound(g) ==
  /\ Decided(g)
  /\ g.state = 1 => Playing(g)
  /\ g.state = 2 => ~Playing(g)
GamesInv ==
  /\ Sound(game)
  /\ cabinet \in [kernel : Kernels, game : {"pong", "blobby"}]
  /\ view \in [place : {"hidden", "behind", "front"}, width : Widths]

-----------------------------------------------------------------------------
LEMMA GameFields ==
  ASSUME NEW g \in Game
  PROVE  /\ g.state \in 0..2 /\ g.score \in [Sides -> 0..WinScore] /\ g.x \in Int
         /\ g.v \in -14..14 /\ g.touches \in 0..3
         /\ g.last \in {Nobody, Left, Right}
BY DEF Game

LEMMA CountSet ==
  ASSUME NEW g \in Game, NEW side \in {Nobody, Left, Right}, NEW n \in 0..3
  PROVE  /\ [g EXCEPT !.last = side, !.touches = n] \in Game
         /\ [g EXCEPT !.touches = n, !.last = side] \in Game
BY DEF Game

LEMMA PlayingIsDecided == ASSUME NEW g, Playing(g) PROVE Decided(g)
<1>1. \A s \in Sides : g.score[s] \in 0..WinScore /\ g.score[s] < WinScore
  BY DEF Playing, Typed, Game
<1> QED BY <1>1, GamesConstants DEF Playing, Decided

(* A point in an undecided game decides it for one side at most.           *)
LEMMA PointDecides ==
  ASSUME NEW g, Playing(g), NEW side \in Sides
  PROVE  /\ Decided(Point(g, side))
         /\ Point(g, side).touches = g.touches /\ Point(g, side).last = g.last
         /\ Point(g, side).x = g.x
<1> DEFINE p == Point(g, side)
<1>1. g \in Game /\ (g.touches = 0 <=> g.last = Nobody)
  BY DEF Playing, Typed
<1>2. \A s \in Sides : g.score[s] \in 0..WinScore /\ g.score[s] < WinScore
  BY <1>1 DEF Playing, Game
<1>3. [g.score EXCEPT ![side] = @ + 1] \in [Sides -> 0..WinScore]
  BY <1>1, <1>2, GamesConstants DEF Game
<1>4. p = [g EXCEPT !.score = [g.score EXCEPT ![side] = @ + 1]]
  BY <1>1 DEF Point, Game
<1>5. p \in Game /\ p.touches = g.touches /\ p.last = g.last /\ p.x = g.x
  BY <1>1, <1>3, <1>4 DEF Game
<1>6. \A s \in Sides : s # side => p.score[s] < WinScore
  BY <1>1, <1>2, <1>4 DEF Game
<1>7. \A s \in Sides : p.score[s] = WinScore => s = side
  BY <1>2, <1>5, <1>6, GamesConstants DEF Game
<1> QED BY <1>1, <1>5, <1>7 DEF Decided, Typed

LEMMA TouchesGone ==
  ASSUME NEW g, Decided(g)
  PROVE  Decided(NoTouches(g)) /\ NoTouches(g).last = Nobody
<1>1. g \in Game
  BY DEF Decided, Typed
<1>2. NoTouches(g) \in Game
  <2>1. 0 \in 0..3 /\ Nobody \in {Nobody, Left, Right}
    OBVIOUS
  <2> QED BY <1>1, <2>1, CountSet, Zenon DEF NoTouches
<1>3. /\ NoTouches(g).touches = 0 /\ NoTouches(g).last = Nobody
      /\ NoTouches(g).score = g.score
  BY <1>1 DEF NoTouches, Game
<1> QED BY <1>2, <1>3 DEF Decided, Typed

(* The end of a frame.                                                     *)
LEMMA OverIsSound ==
  ASSUME NEW g, Decided(g), NEW esc \in BOOLEAN
  PROVE  Sound(Over(g, esc))
<1> DEFINE o == Over(g, esc)
<1>1. g \in Game
  BY DEF Decided, Typed
<1>2. /\ o \in Game /\ o.score = g.score /\ o.touches = g.touches
      /\ o.last = g.last
  BY <1>1 DEF Over, Game
<1>3. Decided(o)
  BY <1>2 DEF Decided, Typed
<1>4. Won(g) <=> ~Playing(o)
  BY <1>1, <1>2, <1>3, GamesConstants
     DEF Won, Playing, Decided, Typed, Game, Sides
<1>5. (o.state = 1 => ~Won(g)) /\ (o.state = 2 => Won(g))
  BY <1>1 DEF Over, Game
<1> QED BY <1>3, <1>4, <1>5 DEF Sound

-----------------------------------------------------------------------------
(* Pong.                                                                   *)
LEMMA FasterTyped == ASSUME NEW v \in -14..14 PROVE Faster(v) \in -14..14
BY DEF Faster

LEMMA BallMoved ==
  ASSUME NEW g, Playing(g), NEW x \in Int, NEW v \in -14..14
  PROVE  Playing([g EXCEPT !.x = x]) /\ Playing([g EXCEPT !.x = x, !.v = v])
BY DEF Playing, Typed, Game

LEMMA WidthFacts ==
  ASSUME GamesInv
  PROVE  /\ view.width \in Int /\ view.width > 0 /\ view.width - 40 \in Int
         /\ view.width \div 2 \in Int /\ ~(view.width \div 2 > view.width)
<1>1. view.width \in Widths
  BY DEF GamesInv
<1>2. \A w \in Widths : w \in Int /\ 101 <= w /\ w <= 2000
  <2>1. Widths \subseteq 101..2000
    BY GamesConstants
  <2> QED BY <2>1
<1>3. \A w \in Int : 101 <= w => /\ w > 0 /\ w - 40 \in Int /\ w \div 2 \in Int
                                 /\ ~(w \div 2 > w)
  OBVIOUS
<1> QED BY <1>1, <1>2, <1>3

LEMMA ShotsPlay ==
  ASSUME GamesInv, NEW g, Playing(g), NEW there \in BOOLEAN
  PROVE  Playing(HitLeft(g, there)) /\ Playing(HitRight(g, there))
<1>1. view.width - 40 \in Int
  BY WidthFacts
<1>2. g.v \in -14..14 /\ -g.v \in -14..14
  BY DEF Playing, Typed, Game
<1>3. Faster(-g.v) \in -14..14
  BY <1>2, FasterTyped
<1>4. Playing([g EXCEPT !.x = 30, !.v = Faster(-g.v)])
  <2>1. 30 \in Int
    OBVIOUS
  <2> QED BY <2>1, <1>3, BallMoved, Zenon
<1>5. Playing([g EXCEPT !.x = view.width - 40, !.v = Faster(-g.v)])
  BY <1>1, <1>3, BallMoved, Zenon
<1> QED BY <1>4, <1>5 DEF HitLeft, HitRight

(* Between the walls nobody has a point, so that a frame counts one.       *)
LEMMA GoalsDecide ==
  ASSUME GamesInv, NEW g, Playing(g)
  PROVE  Decided(GoalRight(GoalLeft(g)))
<1> DEFINE w == view.width
           mid == w \div 2
<1>1. mid \in Int /\ ~(mid > w)
  BY WidthFacts
<1>2. \A p : Decided(p) => Decided([p EXCEPT !.x = mid])
                           /\ [p EXCEPT !.x = mid].x = mid
  BY <1>1 DEF Decided, Typed, Game
<1>3. CASE g.x < 0 \/ g.x > 2000
  <2>1. GoalLeft(g) = [Point(g, Right) EXCEPT !.x = mid]
    BY <1>3 DEF GoalLeft
  <2>2. Decided(GoalLeft(g)) /\ GoalLeft(g).x = mid
    BY <2>1, <1>2, PointDecides DEF Sides
  <2> QED BY <2>2, <1>1 DEF GoalRight
<1>4. CASE ~(g.x < 0 \/ g.x > 2000)
  <2>1. GoalLeft(g) = g
    BY <1>4 DEF GoalLeft
  <2>2. Decided([Point(g, Left) EXCEPT !.x = mid])
    BY <1>2, PointDecides DEF Sides
  <2> QED BY <2>1, <2>2, PlayingIsDecided DEF GoalRight
<1> QED BY <1>3, <1>4

LEMMA PongKept == ASSUME GamesInv, run_pong_engine PROVE Sound(game')
<1>1. PICK atLeft \in BOOLEAN, atRight \in BOOLEAN, esc \in Escapes :
        game' = Over(GoalRight(GoalLeft(HitRight(HitLeft(
                  [game EXCEPT !.x = @ + game.v], atLeft), atRight))), esc)
  BY DEF run_pong_engine
<1>2. esc \in BOOLEAN
  BY DEF Escapes
<1>3. Playing(game) /\ game.x + game.v \in Int
  BY DEF run_pong_engine, GamesInv, Sound, Playing, Typed, Game
<1>4. Playing([game EXCEPT !.x = game.x + game.v])
  <2>1. game.x + game.v \in Int /\ game.v \in -14..14
    BY <1>3, GameFields DEF Playing, Typed
  <2> QED BY <1>3, <2>1, BallMoved, Zenon
<1>5. [game EXCEPT !.x = @ + game.v] = [game EXCEPT !.x = game.x + game.v]
  OBVIOUS
<1> QED BY <1>1, <1>2, <1>4, <1>5, ShotsPlay, GoalsDecide, OverIsSound

-----------------------------------------------------------------------------
(* Blobby Volley.                                                          *)

(* A blob at the ball in an undecided game: nobody has a point, or the ball*)
(* is off the floor and the touches begin anew.                            *)
Undecided(h, b, ball) == Playing(h) /\ b = ball
Fouled(h, b) == Decided(h) /\ ~b.low /\ h.last = Nobody

LEMMA TouchedTyped ==
  ASSUME NEW g, Typed(g), NEW side \in Sides
  PROVE  /\ Touched(g, side).touches \in 1..4 /\ Touched(g, side).last = side
         /\ Touched(g, side).score = g.score
         /\ Touched(g, side)
              = [g EXCEPT !.last = side, !.touches = Touched(g, side).touches]
         /\ g.last = Nobody => Touched(g, side).touches = 1
<1>1. g.touches \in 0..3 /\ g.touches + 1 \in 1..4 /\ side # Nobody
  BY DEF Typed, Game, Sides, Nobody, Left, Right
<1> QED BY <1>1 DEF Touched, Typed, Game

LEMMA FewTouches ==
  ASSUME NEW g, Typed(g), NEW side \in Sides, ~(Touched(g, side).touches > 3)
  PROVE  /\ Playing(g) => Playing(Touched(g, side))
         /\ Decided(g) => Decided(Touched(g, side))
<1>1. side \in {Nobody, Left, Right} /\ side # Nobody
  BY DEF Sides, Nobody, Left, Right
<1>0. /\ Touched(g, side).touches \in 1..4 /\ Touched(g, side).last = side
      /\ Touched(g, side).score = g.score
  BY TouchedTyped, Zenon
<1>2. Touched(g, side).touches \in 1..3
  BY <1>0
<1>3. Touched(g, side) \in Game
  <2>1. g \in Game /\ Touched(g, side).touches \in 0..3
    BY <1>2 DEF Typed
  <2>2. [g EXCEPT !.last = side, !.touches = Touched(g, side).touches] \in Game
    BY <1>1, <2>1, CountSet
  <2> QED BY <2>2, TouchedTyped
<1>4. Typed(Touched(g, side))
  BY <1>0, <1>1, <1>2, <1>3 DEF Typed
<1> QED BY <1>0, <1>4 DEF Playing, Decided

LEMMA FirstTouch ==
  ASSUME NEW g, Playing(g), NEW ball \in Ball, NEW side \in Sides,
         NEW there \in BOOLEAN
  PROVE  \E h, b : /\ Touch([g |-> g, ball |-> ball], side, there)
                        = [g |-> h, ball |-> b]
                   /\ Undecided(h, b, ball) \/ Fouled(h, b)
<1> DEFINE h == Touched(g, side)
           t == Touch([g |-> g, ball |-> ball], side, there)
<1>0. Typed(g)
  BY DEF Playing
<1>1. CASE ~there
  <2>1. t = [g |-> g, ball |-> ball]
    BY <1>1 DEF Touch
  <2> QED BY <2>1 DEF Undecided
<1>2. CASE there /\ ~(h.touches > 3)
  <2>1. Playing(h)
    BY <1>0, <1>2, FewTouches
  <2>2. t = [g |-> h, ball |-> ball]
    BY <1>2 DEF Touch
  <2> QED BY <2>1, <2>2 DEF Undecided
<1>3. CASE there /\ h.touches > 3
  <2> DEFINE p == NoTouches(Point(h, Other(side)))
             q == Point(g, Other(side))
  <2>1. Other(side) \in Sides
    BY DEF Other, Sides, Left, Right
  <2>2. Decided(q)
    BY <2>1, PointDecides
  <2>3. p = NoTouches(q)
    <3>1. h = [g EXCEPT !.last = side, !.touches = h.touches]
      BY <1>0, TouchedTyped
    <3> HIDE DEF h
    <3> QED BY <3>1, <1>0 DEF Point, NoTouches, Typed, Game
  <2>4. Decided(p) /\ p.last = Nobody
    BY <2>2, <2>3, TouchesGone
  <2>5. t = [g |-> p, ball |-> Served(ball, Other(side))]
    BY <1>3 DEF Touch
  <2>6. Fouled(p, Served(ball, Other(side)))
    BY <2>4 DEF Fouled, Served
  <2> QED BY <2>5, <2>6
<1> QED BY <1>1, <1>2, <1>3

(* Behind a foul the other blob's touch is the first of its side.          *)
LEMMA TouchBehindFoul ==
  ASSUME NEW g, NEW ball, Fouled(g, ball), NEW side \in Sides,
         NEW there \in BOOLEAN
  PROVE  \E h : /\ Touch([g |-> g, ball |-> ball], side, there)
                      = [g |-> h, ball |-> ball]
                /\ Decided(h)
<1> DEFINE h == Touched(g, side)
<1>1. Decided(g) /\ Typed(g) /\ g.last = Nobody
  BY DEF Fouled, Decided
<1>2. h.touches = 1
  BY <1>1, TouchedTyped
<1>3. Decided(h)
  BY <1>1, <1>2, FewTouches
<1>4. \/ Touch([g |-> g, ball |-> ball], side, there) = [g |-> g, ball |-> ball]
      \/ Touch([g |-> g, ball |-> ball], side, there) = [g |-> h, ball |-> ball]
  BY <1>2 DEF Touch
<1> QED BY <1>1, <1>3, <1>4

LEMMA FloorDecides ==
  ASSUME NEW g, NEW ball, Decided(g),
         ball.low => Playing(g) /\ ball.side \in Sides
  PROVE  Decided(Floor([g |-> g, ball |-> ball]))
<1>1. CASE ~ball.low
  BY <1>1 DEF Floor
<1>2. CASE ball.low
  <2> DEFINE q == Point(g, Other(ball.side))
  <2>1. Other(ball.side) \in Sides
    BY <1>2 DEF Other, Sides, Left, Right
  <2>2. Decided(q)
    BY <1>2, <2>1, PointDecides
  <2>3. Decided(NoTouches(q))
    BY <2>2, TouchesGone
  <2> QED BY <1>2, <2>3 DEF Floor
<1> QED BY <1>1, <1>2

LEMMA BlobbyKept == ASSUME GamesInv, run_blobby_engine PROVE Sound(game')
<1>1. PICK ball \in Ball, falls \in BOOLEAN, atLeft \in BOOLEAN,
           atRight \in BOOLEAN, esc \in Escapes :
        game' = Over(Floor(Touch(Touch([g |-> game, ball |-> ball], Left,
                  falls /\ atLeft), Right, falls /\ atRight)), esc)
  BY DEF run_blobby_engine
<1>2. Playing(game) /\ esc \in BOOLEAN
  BY DEF run_blobby_engine, GamesInv, Sound, Escapes
<1>3. (falls /\ atLeft) \in BOOLEAN /\ (falls /\ atRight) \in BOOLEAN
      /\ Left \in Sides /\ Right \in Sides
  BY DEF Sides
<1>4. PICK g1, b1 :
        /\ Touch([g |-> game, ball |-> ball], Left, falls /\ atLeft)
             = [g |-> g1, ball |-> b1]
        /\ Undecided(g1, b1, ball) \/ Fouled(g1, b1)
  BY <1>2, <1>3, FirstTouch
<1>5. \E g2, b2 :
        /\ Touch([g |-> g1, ball |-> b1], Right, falls /\ atRight)
             = [g |-> g2, ball |-> b2]
        /\ Decided(g2) /\ (b2.low => Playing(g2) /\ b2.side \in Sides)
  <2>1. CASE Undecided(g1, b1, ball)
    <3>1. PICK h, b : /\ Touch([g |-> g1, ball |-> b1], Right, falls /\ atRight)
                           = [g |-> h, ball |-> b]
                      /\ Undecided(h, b, ball) \/ Fouled(h, b)
      BY <2>1, <1>3, FirstTouch DEF Undecided
    <3>2. ball.side \in Sides
      BY DEF Ball, Sides
    <3> QED BY <3>1, <3>2, PlayingIsDecided DEF Undecided, Fouled
  <2>2. CASE Fouled(g1, b1)
    <3>1. PICK h : /\ Touch([g |-> g1, ball |-> b1], Right, falls /\ atRight)
                        = [g |-> h, ball |-> b1]
                   /\ Decided(h)
      BY <2>2, <1>3, TouchBehindFoul
    <3>2. ~b1.low
      BY <2>2 DEF Fouled
    <3> QED BY <3>1, <3>2
  <2> QED BY <1>4, <2>1, <2>2
<1> QED BY <1>1, <1>2, <1>4, <1>5, FloorDecides, OverIsSound

-----------------------------------------------------------------------------
(* The theorems.                                                           *)
LEMMA GamesStart == GamesInit => GamesInv
<1> SUFFICES ASSUME GamesInit PROVE GamesInv
  OBVIOUS
<1>1. game.score \in [Sides -> 0..WinScore] /\ \A s \in Sides : game.score[s] = 0
  BY GamesConstants DEF GamesInit, Sides
<1>2. game.state = 0 /\ game \in Game /\ game.touches = 0 /\ game.last = Nobody
  BY <1>1 DEF GamesInit, Game, Sides
<1>3. Sound(game)
  BY <1>1, <1>2, GamesConstants DEF Sound, Decided, Typed
<1> QED BY <1>3 DEF GamesInit, GamesInv

(* A menu sets the state, and nothing else of what is sound.               *)
LEMMA StateSet ==
  ASSUME Sound(game), NEW g, g = [game EXCEPT !.state = 0]
  PROVE  Sound(g)
BY DEF Sound, Decided, Typed, Game

LEMMA StartKept == ASSUME GamesInv, StartGame PROVE Sound(game')
<1>1. /\ game'.state = 1 /\ game'.touches = 0 /\ game'.last = Nobody
      /\ game'.score = [s \in Sides |-> 0]
      /\ game'.x \in Int /\ game'.v \in -14..14
      /\ game' \in Game
  <2>1. view.width \div 2 \in Int /\ 5 \in -14..14 /\ game \in Game
    BY WidthFacts DEF GamesInv, Sound, Decided, Typed
  <2>2. [s \in Sides |-> 0] \in [Sides -> 0..WinScore]
    BY GamesConstants
  <2>3. game' = [state |-> 1, score |-> [s \in Sides |-> 0],
                 x |-> game'.x, v |-> game'.v, touches |-> 0, last |-> Nobody]
    BY <2>1 DEF StartGame, NoTouches, Game, Sides
  <2>4. game'.x \in Int /\ game'.v \in -14..14
    BY <2>1 DEF StartGame, NoTouches, Game
  <2>5. game' \in Game
    <3> DEFINE x == game'.x
               v == game'.v
    <3>1. x \in Int /\ v \in -14..14
      BY <2>4
    <3>2. game' = [state |-> 1, score |-> [s \in Sides |-> 0],
                   x |-> x, v |-> v, touches |-> 0, last |-> Nobody]
      BY <2>3
    <3> HIDE DEF x, v
    <3> QED BY <2>2, <3>1, <3>2 DEF Game
  <2> QED BY <2>3, <2>4, <2>5
<1> QED BY <1>1, GamesConstants DEF Sound, Decided, Playing, Typed

LEMMA GamesKept == GamesInv /\ [GamesNext]_gamesVars => GamesInv'
<1> SUFFICES ASSUME GamesInv, [GamesNext]_gamesVars PROVE GamesInv'
  OBVIOUS
<1>1. Sound(game')
  <2>1. CASE run_pong_engine
    BY <2>1, PongKept
  <2>2. CASE run_blobby_engine
    BY <2>2, BlobbyKept
  <2>3. CASE StartGame
    BY <2>3, StartKept
  <2>4. CASE EscapeBehind \/ BackToMenu \/ Launch
    BY <2>4, StateSet DEF EscapeBehind, BackToMenu, Launch, GamesInv
  <2>5. CASE QuitToOs \/ Focus \/ Resize \/ UNCHANGED gamesVars
    BY <2>5 DEF QuitToOs, Focus, Resize, gamesVars, GamesInv
  <2> QED BY <2>1, <2>2, <2>3, <2>4, <2>5 DEF GamesNext
<1>2. cabinet' = cabinet
  BY DEF GamesNext, gamesVars, run_pong_engine, run_blobby_engine, EscapeBehind,
         StartGame, BackToMenu, QuitToOs, Launch, Focus, Resize
<1>3. view' \in [place : {"hidden", "behind", "front"}, width : Widths]
  BY DEF GamesInv, GamesNext, gamesVars, run_pong_engine, run_blobby_engine,
         EscapeBehind, StartGame, BackToMenu, QuitToOs, Launch, Focus, Resize
<1> QED BY <1>1, <1>2, <1>3 DEF GamesInv

(* No score beyond the winning one, no ball faster than 14, no fourth touch*)
(* (kernel.cpp 3440-3690, arcade.cpp 250-526).                             *)
THEOREM GamesTyped == GamesSpec => []GamesTypeOK
<1>1. GamesInv => GamesTypeOK
  BY DEF GamesInv, Sound, Decided, Typed, Game, GamesTypeOK, Sides
<1> QED BY <1>1, GamesStart, GamesKept, PTL DEF GamesSpec

(* A game is decided once, by one side: the engines compare the scores     *)
(* only at the end of a frame, and no frame gives both sides their last    *)
(* point, nor goes on with one of them full.                               *)
THEOREM OneSideWins == GamesSpec => []OneWinner
<1>1. ASSUME GamesInv PROVE OneWinner
  <2> DEFINE full == {side \in {Left, Right} : game.score[side] = WinScore}
  <2>1. \A s \in Sides : game.score[s] \in 0..WinScore
    <3>1. game \in Game
      BY <1>1 DEF GamesInv, Sound, Decided, Typed
    <3> QED BY <3>1, GameFields
  <2>2. ASSUME game.state = 1 PROVE full = {}
    <3>1. \A s \in Sides : game.score[s] < WinScore
      BY <1>1, <2>2 DEF GamesInv, Sound, Playing
    <3>2. \A s \in Sides : game.score[s] # WinScore
      BY <2>1, <3>1, GamesConstants
    <3> QED BY <3>2 DEF Sides
  <2>3. ASSUME game.state = 2 PROVE \E side \in {Left, Right} : full = {side}
    <3>1. PICK s \in Sides : ~(game.score[s] < WinScore)
      BY <1>1, <2>3 DEF GamesInv, Sound, Decided, Playing
    <3>2. game.score[s] = WinScore
      BY <2>1, <3>1, GamesConstants
    <3>3. \A t \in Sides : game.score[t] = WinScore => t = s
      BY <1>1, <3>2 DEF GamesInv, Sound, Decided
    <3> QED BY <3>2, <3>3 DEF Sides
  <2> QED BY <2>2, <2>3 DEF OneWinner
<1> QED BY <1>1, GamesStart, GamesKept, PTL DEF GamesSpec
=============================================================================
