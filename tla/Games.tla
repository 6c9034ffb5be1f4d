------------------------------- MODULE Games --------------------------------
(***************************************************************************)
(* The two games: Pong and Blobby Volley, built into OS1 (kernel.cpp) and, *)
(* as a copy, into OS2 (arcade.cpp).  A frame of the desktop runs the      *)
(* engine of an open window; the ball moves only while the window is in    *)
(* front, and the window may be resized under the ball.                    *)
(*                                                                         *)
(* Along a line the ball of Pong is followed exactly; whether a paddle is  *)
(* at the right height, and where the ball of Blobby Volley is, is open,   *)
(* so that players, modes and strengths of the computer are all there.     *)
(* The cooldown of the buttons only delays a click that may come at any    *)
(* frame anyway.  In OS2 no key reaches the engines: key_new is the        *)
(* variable of the other kernel, which nobody sets there.                  *)
(***************************************************************************)
EXTENDS Integers

CONSTANTS WinScore,      \* 10 in the source
          Widths         \* widths of the window: resizing keeps them above
                         \* 100, and the full screen has 800

ASSUME GamesConstants == /\ WinScore \in Nat \ {0}
                         /\ Widths \subseteq 101..2000 /\ Widths # {}

VARIABLES cabinet,    \* the kernel and the game
          view,       \* the window: its place, and its width
          game        \* pong_state or bv_state, scores, and the ball

gamesVars == <<cabinet, view, game>>

Kernels == {"OS1", "OS2"}
Nobody == 0
Left == 1
Right == 2
Other(side) == 3 - side

(* x and v are Pong's; touches and last are Blobby Volley's.               *)
GamesInit ==
  /\ cabinet \in [kernel : Kernels, game : {"pong", "blobby"}]
  /\ view \in [place : {"hidden"}, width : Widths]
  /\ game = [state |-> 0, score |-> [s \in {Left, Right} |-> 0],
             x |-> 0, v |-> 5, touches |-> 0, last |-> Nobody]

Point(g, side) == [g EXCEPT !.score[side] = @ + 1]
Won(g) == \E side \in {Left, Right} : g.score[side] >= WinScore

(* The frame ends: a game that is won is over, also if ESC came in it.     *)
Over(g, esc) == [g EXCEPT !.state = IF Won(g) THEN 2 ELSE IF esc THEN 0 ELSE 1]
Escapes == IF cabinet.kernel = "OS1" THEN BOOLEAN ELSE {FALSE}

-----------------------------------------------------------------------------
(* Pong                                                                    *)

(* Faster by one up to 14, in the direction of v.                          *)
Faster(v) == IF v > 0 THEN (IF v < 14 THEN v + 1 ELSE v)
             ELSE (IF v > -14 THEN v - 1 ELSE v)

HitLeft(g, there) ==
  IF there /\ g.x <= 30 /\ g.v < 0
  THEN [g EXCEPT !.x = 30, !.v = Faster(-g.v)] ELSE g
HitRight(g, there) ==
  IF there /\ g.x >= view.width - 40 /\ g.v > 0
  THEN [g EXCEPT !.x = view.width - 40, !.v = Faster(-g.v)] ELSE g

GoalLeft(g) ==
  IF g.x < 0 \/ g.x > 2000
  THEN [Point(g, Right) EXCEPT !.x = view.width \div 2] ELSE g
GoalRight(g) ==
  IF g.x > view.width
  THEN [Point(g, Left) EXCEPT !.x = view.width \div 2] ELSE g

run_pong_engine ==
  /\ cabinet.game = "pong" /\ game.state = 1 /\ view.place = "front"
  /\ \E atLeft, atRight \in BOOLEAN, esc \in Escapes :
       LET moved == [game EXCEPT !.x = @ + game.v]
           played == HitRight(HitLeft(moved, atLeft), atRight)
       IN  game' = Over(GoalRight(GoalLeft(played)), esc)
  /\ UNCHANGED <<cabinet, view>>

-----------------------------------------------------------------------------
(* Blobby Volley                                                           *)

Ball == [low : BOOLEAN, side : {Left, Right}]     \* below the floor, and where

(* Mutant: the ball is not lifted for the serve.                           *)
NotLifted(ball, side) == [ball EXCEPT !.side = side]

(* The ball of a serve is at the top, on one side.                         *)
Served(ball, side) == [low |-> FALSE, side |-> side]

NoTouches(g) == [g EXCEPT !.touches = 0, !.last = Nobody]

(* A blob touches the ball: after the third time in a row it is a point    *)
(* for the other side, which serves.                                       *)
Touched(g, side) ==
  [g EXCEPT !.last = side, !.touches = IF g.last = side THEN @ + 1 ELSE 1]
Touch(pair, side, there) ==
  LET g == Touched(pair.g, side)
  IN  IF ~there THEN pair
      ELSE IF g.touches > 3
           THEN [g |-> NoTouches(Point(g, Other(side))),
                 ball |-> Served(pair.ball, Other(side))]
           ELSE [pair EXCEPT !.g = g]

Floor(pair) ==
  IF pair.ball.low THEN NoTouches(Point(pair.g, Other(pair.ball.side))) ELSE pair.g

(* The blobs are looked at only while the ball falls.                      *)
run_blobby_engine ==
  /\ cabinet.game = "blobby" /\ game.state = 1 /\ view.place = "front"
  /\ \E ball \in Ball, falls, atLeft, atRight \in BOOLEAN, esc \in Escapes :
       LET first == Touch([g |-> game, ball |-> ball], Left, falls /\ atLeft)
           both == Touch(first, Right, falls /\ atRight)
       IN  game' = Over(Floor(both), esc)
  /\ UNCHANGED <<cabinet, view>>

-----------------------------------------------------------------------------
(* The menu, the window and its neighbours                                 *)

(* ESC reaches the engine also when the user types into another window.    *)
EscapeBehind ==
  /\ game.state = 1 /\ view.place = "behind" /\ TRUE \in Escapes
  /\ game' = [game EXCEPT !.state = 0]
  /\ UNCHANGED <<cabinet, view>>

(* START: the scores begin anew, and each game's own ball.                 *)
StartGame ==
  /\ game.state = 0 /\ view.place # "hidden"
  /\ game' = [NoTouches(game) EXCEPT
                !.state = 1, !.score = [s \in {Left, Right} |-> 0],
                !.x = IF cabinet.game = "pong" THEN view.width \div 2 ELSE @,
                !.v = IF cabinet.game = "pong" THEN 5 ELSE @]
  /\ UNCHANGED <<cabinet, view>>

BackToMenu ==
  /\ game.state = 2 /\ view.place # "hidden"
  /\ game' = [game EXCEPT !.state = 0]
  /\ UNCHANGED <<cabinet, view>>

(* QUIT TO OS is in OS1's Pong only.                                       *)
QuitToOs ==
  /\ cabinet = [kernel |-> "OS1", game |-> "pong"]
  /\ game.state = 0 /\ view.place # "hidden"
  /\ view' = [view EXCEPT !.place = "hidden"]
  /\ UNCHANGED <<cabinet, game>>

(* PLAY PONG or PLAY BLOBBY: a game that is going on is gone.              *)
Launch ==
  /\ view.place # "front"
  /\ view' = [view EXCEPT !.place = "front"]
  /\ game' = [game EXCEPT !.state = 0]
  /\ UNCHANGED cabinet

(* A click brings a window to the front, or minimizes or closes it; from   *)
(* there only the launcher brings it back.                                 *)
Focus ==
  /\ view.place # "hidden"
  /\ \E place \in {"hidden", "behind", "front"} :
       view' = [view EXCEPT !.place = place]
  /\ UNCHANGED <<cabinet, game>>

Resize ==
  /\ view.place = "front"
  /\ \E w \in Widths : view' = [view EXCEPT !.width = w]
  /\ UNCHANGED <<cabinet, game>>

GamesNext == \/ run_pong_engine \/ run_blobby_engine \/ EscapeBehind
             \/ StartGame \/ BackToMenu \/ QuitToOs \/ Launch \/ Focus \/ Resize

GamesSpec == GamesInit /\ [][GamesNext]_gamesVars

-----------------------------------------------------------------------------
(* The types of what the engines keep: no score above the winning one, the *)
(* speed capped at 14, no side four times at the ball.                     *)
GamesTypeOK ==
  /\ game.state \in 0..2
  /\ game.score \in [{Left, Right} -> 0..WinScore]
  /\ game.v \in -14..14
  /\ game.touches \in 0..3 /\ game.last \in {Nobody, Left, Right}
  /\ game.touches = 0 <=> game.last = Nobody

(* A game is decided once: while it is played nobody has the winning       *)
(* score, and when it is won exactly one side has it; so no frame counts   *)
(* two points, though a foul and a ball on the floor may meet in one.      *)
OneWinner ==
  LET full == {side \in {Left, Right}: game.score[side] = WinScore}
  IN  /\ game.state = 1 => full = {}
      /\ game.state = 2 => \E side \in {Left, Right} : full = {side}
=============================================================================
