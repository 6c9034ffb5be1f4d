------------------------------- MODULE Input --------------------------------
(***************************************************************************)
(* Mouse, keyboard and windows of both desktops.  The keyboard controller  *)
(* gives the bytes of mouse and keyboard one at a time, mixed.  Each frame *)
(* of the screen reads them (handle_input), passes a key on (OS2 only),    *)
(* moves windows, and lets the windows' own buttons act.                   *)
(*                                                                         *)
(* The devices work at any time.  Where the mouse points is left open: a   *)
(* click may hit any window in sight, or none.                             *)
(***************************************************************************)
EXTENDS Naturals, Sequences, FiniteSets

CONSTANTS Apps,          \* the windows but the dialog
          FirstOrder,    \* all windows as they lie at the start
          HotApps,       \* those of them with a function key
          Notepad,       \* the one with the button SAVE AS
          PollLimit,     \* bytes that OS2 reads in a frame, 32 in the code
          Cooldown,      \* frames without hotkeys and buttons, 10 or 25 in the code
          QueueSize,     \* bytes waiting in the devices
          Users          \* what users do: packets of the mouse (or moving it
                         \* without end), keys, and the byte of a packet
                         \* that the kernel sees first

Dialog == "dialog"       \* window 2, SAVE AS
NoWindow == "no window"
Windows == Apps \cup {Dialog}
Depth == Cardinality(Windows)

(* What the keyboard sends besides the function keys.                      *)
OtherCodes == {"E0", "shift", "unshift", "arrow", "unarrow", "release"}

ASSUME InputConstants ==
  /\ IsFiniteSet(Apps) /\ Dialog \notin Apps /\ NoWindow \notin Windows
  /\ FirstOrder \in [1..Depth -> Windows]
  /\ \A i, j \in 1..Depth: FirstOrder[i] = FirstOrder[j] => i = j
  /\ HotApps \subseteq Apps \ OtherCodes /\ Notepad \in Apps
  /\ PollLimit \in Nat \ {0} /\ Cooldown \in Nat /\ QueueSize \in Nat
  /\ Users \subseteq [packets: Nat, keys: Nat, first: 1..3, plain: BOOLEAN,
                      endless: BOOLEAN]

VARIABLES desk,                             \* "OS1" or "OS2"
          queue,                            \* bytes not read yet
          devices,                          \* the mouse and the keyboard
          pc, polled,                       \* the loop of the desktop
          m_packet,                         \* bytes so far, m_ptr is its length
          mouse_down, mouse_just_pressed,
          is_ext, key_shift,                \* OS1
          key_ready, key_scancode,          \* OS2
          input_cooldown,
          open, minimized,                  \* sets of windows
          win_z,                            \* from the back to the front
          drag_win,                         \* dragged or resized
          presses, taken                   \* ghosts: clicks made, and taken up

polling == <<m_packet, mouse_down, mouse_just_pressed, is_ext, key_shift, key_ready,
             key_scancode>>
windows == <<open, minimized, win_z, drag_win>>
inputVars == <<desk, queue, devices, pc, polled, polling, input_cooldown, windows,
               presses, taken>>

InputInit ==
  /\ desk \in {"OS1", "OS2"}
  /\ \E user \in Users:
       devices = [packets |-> user.packets, keys |-> user.keys,
                  byte |-> user.first, plain |-> user.plain, in_step |-> user.first = 1,
                  endless |-> user.endless,
                  left |-> FALSE, shift |-> FALSE, sends |-> <<>>]
  /\ queue = <<>> /\ pc = "poll" /\ polled = 0
  /\ m_packet = <<>> /\ mouse_down = FALSE /\ mouse_just_pressed = FALSE
  /\ is_ext = FALSE /\ key_shift = FALSE /\ key_ready = FALSE /\ key_scancode = "none"
  /\ input_cooldown = 0 /\ open = {} /\ minimized = {} /\ drag_win = NoWindow
  /\ win_z = FirstOrder
  /\ presses = 0 /\ taken = 0

-----------------------------------------------------------------------------
(* The devices.                                                            *)

(* The next byte of the mouse.  The first of a packet has the sync bit and *)
(* the buttons; in the other two these bits are part of the movement.      *)
MouseSends ==
  /\ Len(queue) < QueueSize /\ devices.packets > 0
  /\ \E bit \in BOOLEAN:
       /\ devices.byte # 1 /\ devices.plain => ~bit
       /\ devices.byte = 1 /\ devices.endless => ~bit
       /\ queue' = Append(queue, [aux |-> TRUE, n |-> devices.byte,
                                  sync |-> bit \/ devices.byte = 1, left |-> bit])
       /\ devices' = [devices EXCEPT
            !.byte = (@ % 3) + 1,
            !.packets = IF devices.byte = 3 /\ ~devices.endless THEN @ - 1 ELSE @,
            !.left = IF devices.byte = 1 THEN bit ELSE @]
       /\ presses' = IF devices.byte = 1 /\ bit /\ ~devices.left THEN presses + 1
                     ELSE presses
  /\ UNCHANGED <<desk, pc, polled, polling, input_cooldown, windows, taken>>

(* What the keyboard sends for a key.  With shift held the arrow keys come *)
(* between a pretended release of shift and a pretended press.             *)
ArrowBytes ==
  IF devices.shift
  THEN <<"E0", "unshift", "E0", "arrow", "E0", "unarrow", "E0", "shift">>
  ELSE <<"E0", "arrow", "E0", "unarrow">>

UserPressesKey ==
  /\ devices.keys > 0 /\ devices.sends = <<>>
  /\ \/ \E w \in HotApps:
          devices' = [devices EXCEPT !.keys = @ - 1, !.sends = <<w, "release">>]
     \/ devices' = [devices EXCEPT !.keys = @ - 1, !.sends = ArrowBytes]
     \/ devices' = [devices EXCEPT !.keys = @ - 1, !.shift = ~@,
                      !.sends = <<IF devices.shift THEN "unshift" ELSE "shift">>]
  /\ UNCHANGED <<desk, queue, pc, polled, polling, input_cooldown, windows,
                 presses, taken>>

KeyboardSends ==
  /\ Len(queue) < QueueSize /\ devices.sends # <<>>
  /\ queue' = Append(queue, [aux |-> FALSE, code |-> Head(devices.sends)])
  /\ devices' = [devices EXCEPT !.sends = Tail(@)]
  /\ UNCHANGED <<desk, pc, polled, polling, input_cooldown, windows, presses, taken>>

-----------------------------------------------------------------------------
(* Windows.                                                                *)

(* focus_window: those in front of it move back, and it comes to the front.*)
focus_window(id) ==
  LET found_at == CHOOSE i \in 1..Depth: win_z[i] = id
  IN  [i \in 1..Depth |-> IF i < found_at THEN win_z[i]
                          ELSE IF i < Depth THEN win_z[i + 1] ELSE id]

InSight(w) == w \in open /\ w \notin minimized
is_modal_blocked == InSight(Dialog)

Opened(id) == /\ open' = open \cup {id} /\ minimized' = minimized \ {id}
              /\ win_z' = focus_window(id)

(* A function key.  OS1 opens or closes; OS2 (toggle_app) opens, or        *)
(* minimizes the window in front.                                          *)
HotkeyOs1(id) ==
  /\ IF id \in open
     THEN open' = open \ {id} /\ UNCHANGED <<minimized, win_z>>
     ELSE Opened(id)
  /\ UNCHANGED drag_win

toggle_app(id) ==
  /\ IF InSight(id) /\ win_z[Depth] = id
     THEN minimized' = minimized \cup {id} /\ UNCHANGED <<open, win_z>>
     ELSE Opened(id)
  /\ UNCHANGED drag_win

-----------------------------------------------------------------------------
(* handle_input.                                                           *)

(* Mutant: a button held counts as pressed with every packet.              *)
ButtonHeld(left) == mouse_down' = left /\ mouse_just_pressed' = left

(* The left button as a whole packet tells it.                             *)
ButtonOs1(left) ==
  /\ mouse_down' = left
  /\ mouse_just_pressed' = (left /\ (mouse_just_pressed \/ ~mouse_down))
ButtonOs2(left) ==
  /\ mouse_down' = left
  /\ mouse_just_pressed' = (left /\ ~mouse_down)

(* OS1 looks at the sync bit when three bytes are there; without it the    *)
(* packet is dropped and the frame reads no more.                          *)
MouseByteOs1(byte) ==
  LET packet == Append(m_packet, byte)
  IN  IF Len(packet) < 3
      THEN m_packet' = packet /\ UNCHANGED <<mouse_down, mouse_just_pressed, pc>>
      ELSE /\ m_packet' = <<>>
           /\ IF packet[1].sync THEN ButtonOs1(packet[1].left) /\ UNCHANGED pc
              ELSE pc' = "mouse" /\ UNCHANGED <<mouse_down, mouse_just_pressed>>

(* Mutant: it does not.                                                    *)
MouseByteTaken(byte) ==
  /\ IF Len(m_packet) < 2
     THEN /\ m_packet' = Append(m_packet, byte)
          /\ UNCHANGED <<mouse_down, mouse_just_pressed>>
     ELSE m_packet' = <<>> /\ ButtonOs2(m_packet[1].left)
  /\ UNCHANGED pc

(* OS2 drops a first byte without it.                                      *)
MouseByteOs2(byte) ==
  /\ IF m_packet = <<>> /\ ~byte.sync
     THEN UNCHANGED <<m_packet, mouse_down, mouse_just_pressed>>
     ELSE IF Len(m_packet) < 2
          THEN m_packet' = Append(m_packet, byte)
               /\ UNCHANGED <<mouse_down, mouse_just_pressed>>
          ELSE m_packet' = <<>> /\ ButtonOs2(m_packet[1].left)
  /\ UNCHANGED pc

(* Mutant: a pretended press or release of shift counts.                   *)
TrueShift(code) == FALSE

(* It comes behind E0, and is eaten.                                       *)
FakeShift(code) == is_ext /\ code \in {"shift", "unshift"}

KeyByteOs1(code) ==
  IF code = "E0" THEN is_ext' = TRUE /\ UNCHANGED <<key_shift, windows, input_cooldown>>
  ELSE /\ is_ext' = FALSE
       /\ IF FakeShift(code)
          THEN UNCHANGED <<key_shift, windows, input_cooldown>>
          ELSE /\ key_shift' = CASE code = "shift" -> TRUE
                                 [] code = "unshift" -> FALSE
                                 [] OTHER -> key_shift
               /\ IF code \in HotApps /\ input_cooldown = 0
                  THEN HotkeyOs1(code) /\ input_cooldown' = Cooldown
                  ELSE UNCHANGED <<windows, input_cooldown>>

ReadOs1 ==
  /\ desk = "OS1" /\ pc = "poll" /\ queue # <<>>
  /\ queue' = Tail(queue)
  /\ IF Head(queue).aux
     THEN MouseByteOs1(Head(queue))
          /\ UNCHANGED <<is_ext, key_shift, windows, input_cooldown>>
     ELSE KeyByteOs1(Head(queue).code)
          /\ UNCHANGED <<m_packet, mouse_down, mouse_just_pressed, pc>>
  /\ UNCHANGED <<desk, devices, polled, key_ready, key_scancode, presses, taken>>

(* Mutant: the bytes of a frame are not counted.                           *)
NotCounted == polled

PolledMore == polled + 1

(* A key waits in a mailbox for one.                                       *)
ReadOs2 ==
  /\ desk = "OS2" /\ pc = "poll" /\ queue # <<>> /\ polled < PollLimit
  /\ queue' = Tail(queue) /\ polled' = PolledMore
  /\ IF Head(queue).aux
     THEN MouseByteOs2(Head(queue)) /\ UNCHANGED <<key_ready, key_scancode>>
     ELSE /\ key_ready' = TRUE /\ key_scancode' = Head(queue).code
          /\ UNCHANGED <<m_packet, mouse_down, mouse_just_pressed, pc>>
  /\ UNCHANGED <<desk, devices, is_ext, key_shift, input_cooldown, windows, presses,
                 taken>>

PollEnds ==
  /\ pc = "poll"
  /\ queue = <<>> \/ (desk = "OS2" /\ polled = PollLimit)
  /\ pc' = IF desk = "OS1" THEN "mouse" ELSE "keys"
  /\ UNCHANGED <<desk, queue, devices, polled, polling, input_cooldown, windows,
                 presses, taken>>

(* OS2: the last key of the frame goes to the hotkeys (and to the window   *)
(* in front: its text is modelled with the disk manager).                  *)
Keys ==
  /\ pc = "keys" /\ pc' = "mouse"
  /\ key_ready' = FALSE
  /\ IF key_ready /\ key_scancode \in HotApps THEN toggle_app(key_scancode)
     ELSE UNCHANGED windows
  /\ UNCHANGED <<desk, queue, devices, polled, m_packet, mouse_down, mouse_just_pressed,
                 is_ext, key_shift, key_scancode, input_cooldown, presses, taken>>

-----------------------------------------------------------------------------
(* The frame after the input.                                              *)

(* A click on a window brings it to the front; in its title bar it may be  *)
(* minimized, closed or taken, and at its corner taken.  OS1 lets a click  *)
(* beside the dialog do nothing, OS2 only keeps buttons from acting.       *)
ClickWindow(w) ==
  /\ InSight(w)
  /\ IF desk = "OS1" /\ is_modal_blocked /\ w # Dialog THEN UNCHANGED <<open, minimized, win_z>>
        /\ drag_win' = NoWindow
     ELSE /\ win_z' = focus_window(w)
          /\ \/ UNCHANGED <<open, minimized>> /\ drag_win' \in {NoWindow, w}
             \/ open' = open \ {w} /\ UNCHANGED minimized /\ drag_win' = NoWindow
             \/ minimized' = minimized \cup {w} /\ UNCHANGED open /\ drag_win' = NoWindow

(* The planet of an app, beside all windows: one that is minimized comes   *)
(* back where it was, else the app is opened in front.                     *)
ClickPlanet(w) ==
  /\ w \in Apps /\ ~(desk = "OS1" /\ is_modal_blocked)
  /\ drag_win' = NoWindow
  /\ IF w \in minimized THEN minimized' = minimized \ {w} /\ UNCHANGED <<open, win_z>>
     ELSE open' = open \cup {w} /\ win_z' = focus_window(w) /\ UNCHANGED minimized

Mouse ==
  /\ pc = "mouse" /\ pc' = "apps"
  /\ input_cooldown' = IF input_cooldown > 0 THEN input_cooldown - 1 ELSE 0
  /\ taken' = IF mouse_just_pressed THEN taken + 1 ELSE taken
  /\ IF ~mouse_just_pressed \/ drag_win # NoWindow
     THEN /\ drag_win' = IF mouse_down THEN drag_win ELSE NoWindow
          /\ UNCHANGED <<open, minimized, win_z>>
     ELSE \/ \E w \in Windows: ClickWindow(w) \/ ClickPlanet(w)
          \/ drag_win' = NoWindow /\ UNCHANGED <<open, minimized, win_z>>
  /\ UNCHANGED <<desk, queue, devices, polled, polling, presses>>

(* The buttons in the windows look only whether they lie under the mouse   *)
(* and, with the dialog in sight, in the dialog: not whether another       *)
(* window covers them.  The first that acts starts the cooldown.           *)
AppButton ==
  /\ input_cooldown = 0 /\ input_cooldown' = Cooldown /\ UNCHANGED drag_win
  /\ \/ /\ InSight(Notepad)
        /\ IF desk = "OS1" THEN ~is_modal_blocked ELSE win_z[Depth] = Notepad
        /\ Opened(Dialog)
     \/ /\ is_modal_blocked
        /\ open' = open \ {Dialog} /\ UNCHANGED <<minimized, win_z>>
     \/ /\ ~is_modal_blocked
        /\ \E from, w \in Apps: from # w /\ InSight(from) /\ Opened(w)

AppsDraw ==
  /\ pc = "apps" /\ pc' = "poll"
  /\ polled' = 0 /\ mouse_just_pressed' = FALSE
  /\ (mouse_just_pressed /\ AppButton) \/ UNCHANGED <<windows, input_cooldown>>
  /\ UNCHANGED <<desk, queue, devices, m_packet, mouse_down, is_ext, key_shift, key_ready,
                 key_scancode, presses, taken>>

-----------------------------------------------------------------------------
Frame == ReadOs1 \/ ReadOs2 \/ PollEnds \/ Keys \/ Mouse \/ AppsDraw
InputNext == MouseSends \/ UserPressesKey \/ KeyboardSends \/ Frame

(* The loop of the desktop runs for ever; of the devices nothing is        *)
(* assumed.                                                                *)
InputSpec == InputInit /\ [][InputNext]_inputVars /\ WF_inputVars(Frame)
-----------------------------------------------------------------------------
(* win_z shows every window once, whatever is clicked and typed.           *)
WinZOK ==
  /\ win_z \in [1..Depth -> Windows]
  /\ \A i, j \in 1..Depth: win_z[i] = win_z[j] => i = j

InputTypeOK ==
  /\ WinZOK
  /\ open \subseteq Windows /\ minimized \subseteq Windows
  /\ drag_win \in Windows \cup {NoWindow}
  /\ Len(m_packet) < 3 /\ input_cooldown \in 0..Cooldown
  /\ polled \in 0..PollLimit

(* The driver began with a first byte, or it is that of OS2, whose test    *)
(* (kernel_main.cpp:826) finds the place again as long as movements are    *)
(* not taken for first bytes.                                              *)
InPhase == devices.in_step \/ (desk = "OS2" /\ devices.plain)

(* What the driver holds is the beginning of one packet, however mouse and *)
(* keyboard mix and frames end.                                            *)
WholePackets == InPhase => \A i \in 1..Len(m_packet): m_packet[i].n = i

(* No click is taken up that nobody made.                                  *)
NoPhantomClick == InPhase => taken <= presses

(* OS1 knows whether shift is held, from the moment it has read the byte   *)
(* that says so, through all that the arrow keys pretend.  (There is one   *)
(* shift key.)                                                             *)
Coming ==
  [k \in 1..Len(queue) + Len(devices.sends) |->
     IF k <= Len(queue) THEN queue[k]
     ELSE [aux |-> FALSE, code |-> devices.sends[k - Len(queue)]]]
IsKey(k) == ~Coming[k].aux
BehindE0(k) ==                  \* the key byte before it is E0
  \/ \E j \in 1..k - 1: /\ IsKey(j) /\ Coming[j].code = "E0"
                        /\ \A i \in j + 1..k - 1: ~IsKey(i)
  \/ is_ext /\ \A i \in 1..k - 1: ~IsKey(i)
ShiftTracks ==
  (desk = "OS1" /\ \A k \in DOMAIN Coming:
     IsKey(k) /\ Coming[k].code \in {"shift", "unshift"} => BehindE0(k))
    => key_shift = devices.shift

(* The screen of OS2 goes on however fast the devices send.                *)
FramesGoOn == (desk = "OS2" /\ pc = "poll") ~> (pc # "poll")
=============================================================================
