--------------------------- MODULE DesktopProofs ----------------------------
(***************************************************************************)
(* Theorems about the parts of Desktop: mouse, keyboard and windows        *)
(* (Input).                                                                *)
(***************************************************************************)
EXTENDS Desktop, NetProofs, Os2DiskProofs, GamesProofs

-----------------------------------------------------------------------------
(* Input: the invariant                                                    *)

Codes == HotApps \cup OtherCodes
MouseBytes == {b \in [aux: {TRUE}, n: 1 .. 3, sync: BOOLEAN, left: BOOLEAN] :
                 b.n = 1 => b.sync}
KeyBytes == [aux: {FALSE}, code: Codes]
Devices == [packets: Nat, keys: Nat, byte: 1 .. 3, plain: BOOLEAN, in_step: BOOLEAN,
            endless: BOOLEAN, left: BOOLEAN, shift: BOOLEAN, sends: Seq(Codes)]

WindowTypes ==
  /\ WinZOK
  /\ open \subseteq Windows /\ minimized \subseteq Windows
  /\ drag_win \in Windows \cup {NoWindow}

LoopTypes ==
  /\ desk \in {"OS1", "OS2"} /\ pc \in {"poll", "keys", "mouse", "apps"}
  /\ queue \in Seq(MouseBytes \cup KeyBytes) /\ devices \in Devices
  /\ m_packet \in Seq(MouseBytes) /\ Len(m_packet) < 3
  /\ mouse_down \in BOOLEAN /\ mouse_just_pressed \in BOOLEAN
  /\ is_ext \in BOOLEAN /\ key_shift \in BOOLEAN
  /\ input_cooldown \in 0 .. Cooldown /\ polled \in 0 .. PollLimit
  /\ presses \in Nat /\ taken \in Nat

(* The mouse as it was before it sent a byte that is still waiting: the    *)
(* byte that was next, the button, and the clicks made.                    *)
Past == [byte: 1 .. 3, left: BOOLEAN, presses: Nat]
AfterByte(s, pressed) ==
  [byte |-> (s.byte % 3) + 1, left |-> IF s.byte = 1 THEN pressed ELSE s.left,
   presses |-> IF s.byte = 1 /\ pressed /\ ~s.left THEN s.presses + 1 ELSE s.presses]
MouseHistory(h) ==
  /\ h \in [1 .. Len(queue) + 1 -> Past]
  /\ h[Len(queue) + 1] = [byte |-> devices.byte, left |-> devices.left,
                          presses |-> presses]
  /\ \A k \in 1 .. Len(queue) + 1 : h[k].presses <= presses
  /\ \A k \in 1 .. Len(queue) :
       IF queue[k].aux
       THEN /\ queue[k].n = h[k].byte
            /\ devices.plain /\ queue[k].n # 1 => ~queue[k].sync
            /\ h[k + 1] = AfterByte(h[k], queue[k].left)
       ELSE h[k + 1] = h[k]

(* What the driver holds, with the mouse as it was when the driver had     *)
(* read as much: the beginning of a packet, and no click too many.         *)
Count(b) == IF b THEN 1 ELSE 0
Untaken == Count(mouse_just_pressed /\ pc # "apps")
InHand(s) ==
  /\ \A i \in 1 .. Len(m_packet) : m_packet[i].n = i
  /\ devices.in_step \/ m_packet # <<>> => s.byte = Len(m_packet) + 1
  /\ IF m_packet = <<>> THEN s.left = mouse_down /\ taken + Untaken <= s.presses
     ELSE /\ s.left = m_packet[1].left
          /\ taken + Untaken + Count(m_packet[1].left /\ ~mouse_down) <= s.presses
MouseInv == InPhase => \E h : MouseHistory(h) /\ InHand(h[1])

(* The driver's mark E0 and its shift as they will be behind every byte    *)
(* that is under way: in the end shift is what the user does.              *)
KeyState == [ext: BOOLEAN, shift: BOOLEAN]
KeyStep(s, code) ==
  [ext |-> code = "E0",
   shift |-> IF code = "E0" \/ s.ext \/ code \notin {"shift", "unshift"} THEN s.shift
             ELSE code = "shift"]
ComingLen == Len(queue) + Len(devices.sends)
KeyHistory(g) ==
  /\ g \in [1 .. ComingLen + 1 -> KeyState]
  /\ g[1] = [ext |-> is_ext, shift |-> key_shift]
  /\ g[ComingLen + 1] = [ext |-> FALSE, shift |-> devices.shift]
  /\ \A k \in 1 .. ComingLen :
       g[k + 1] = IF IsKey(k) THEN KeyStep(g[k], Coming[k].code) ELSE g[k]
KeyInv == desk = "OS1" => \E g : KeyHistory(g)

InputInv == LoopTypes /\ WindowTypes /\ MouseInv /\ KeyInv

-----------------------------------------------------------------------------
(* Input: the windows                                                      *)

LEMMA DepthIs == IsFiniteSet(Windows) /\ Depth \in Nat
<1>1. IsFiniteSet(Apps)
  BY InputConstants
<1>. QED
  BY <1>1, FS_AddElement, FS_CardinalityType DEF Windows, Depth

(* Every window is somewhere in win_z, since none is there twice.          *)
LEMMA EveryWindowFound ==
  ASSUME WinZOK, NEW id \in Windows
  PROVE  \E i \in 1 .. Depth : win_z[i] = id
<1>1. IsFiniteSet(1 .. Depth) /\ Cardinality(1 .. Depth) = Depth
  BY DepthIs, FS_Interval
<1>2. win_z \in Injection(1 .. Depth, Windows)
  <2>1. win_z \in [1 .. Depth -> Windows] /\ DOMAIN win_z = 1 .. Depth
    BY DEF WinZOK
  <2>2. IsInjective(win_z)
    BY <2>1 DEF WinZOK, IsInjective
  <2>. QED
    BY <2>1, <2>2 DEF Injection
<1>3. win_z \in Surjection(1 .. Depth, Windows)
  BY <1>1, <1>2, DepthIs, FS_Injection DEF Depth
<1>. QED
  BY <1>3 DEF Surjection

(* focus_window leaves every window in win_z once.                         *)
LEMMA FocusKeeps ==
  ASSUME WinZOK, NEW id \in Windows
  PROVE  /\ focus_window(id) \in [1 .. Depth -> Windows]
         /\ \A i, j \in 1 .. Depth :
              focus_window(id)[i] = focus_window(id)[j] => i = j
<1>1. PICK f \in 1 .. Depth : f = (CHOOSE i \in 1 .. Depth : win_z[i] = id)
  BY EveryWindowFound
<1>2. win_z[f] = id
  BY <1>1, EveryWindowFound
<1>3. focus_window(id) =
        [i \in 1 .. Depth |-> IF i < f THEN win_z[i]
                              ELSE IF i < Depth THEN win_z[i + 1] ELSE id]
  BY <1>1 DEF focus_window
<1>4. Depth \in Nat /\ f \in Nat /\ 1 <= f /\ f <= Depth
  BY DepthIs
<1>5. \A i \in 1 .. Depth :
        \/ i < f /\ focus_window(id)[i] = win_z[i]
        \/ ~(i < f) /\ i < Depth /\ focus_window(id)[i] = win_z[i + 1]
        \/ i = Depth /\ focus_window(id)[i] = win_z[f]
  BY <1>2, <1>3, <1>4
<1>6. \A i \in 1 .. Depth : focus_window(id)[i] \in Windows
  BY <1>4, <1>5 DEF WinZOK
<1>7. \A i, j \in 1 .. Depth : focus_window(id)[i] = focus_window(id)[j] => i = j
  <2>1. \A i, j \in 1 .. Depth : win_z[i] = win_z[j] => i = j
    BY DEF WinZOK
  <2>. QED
    BY <2>1, <1>4, <1>5
<1>. QED
  BY <1>3, <1>6, <1>7

(* What the actions do to the windows.                                     *)
WindowEffect ==
  \/ UNCHANGED win_z
  \/ \E id \in Windows : win_z' = focus_window(id)

LEMMA WindowsKept ==
  ASSUME WinZOK, WindowEffect
  PROVE  WinZOK'
<1>1. CASE UNCHANGED win_z
  BY <1>1 DEF WinZOK
<1>2. ASSUME NEW id \in Windows, win_z' = focus_window(id) PROVE WinZOK'
  BY <1>2, FocusKeeps DEF WinZOK
<1>. QED
  BY <1>1, <1>2 DEF WindowEffect

LEMMA WindowNames ==
  /\ HotApps \subseteq Windows /\ Notepad \in Windows /\ Dialog \in Windows
  /\ Apps \subseteq Windows
BY InputConstants DEF Windows

LEMMA OpenedKeeps ==
  ASSUME WindowTypes, NEW id \in Windows, Opened(id)
  PROVE  WindowEffect /\ open' \subseteq Windows /\ minimized' \subseteq Windows
BY DEF WindowTypes, Opened, WindowEffect

LEMMA ClickKeeps ==
  ASSUME WindowTypes, NEW w \in Windows, ClickWindow(w) \/ ClickPlanet(w)
  PROVE  /\ WindowEffect /\ open' \subseteq Windows /\ minimized' \subseteq Windows
         /\ drag_win' \in Windows \cup {NoWindow}
BY DEF WindowTypes, ClickWindow, ClickPlanet, WindowEffect

LEMMA WindowTypesKept == WindowTypes /\ [InputNext]_inputVars => WindowTypes'
<1> SUFFICES ASSUME WindowTypes, [InputNext]_inputVars PROVE WindowTypes'
  OBVIOUS
<1> DEFINE Goal == /\ WindowEffect /\ open' \subseteq Windows
                   /\ minimized' \subseteq Windows
                   /\ drag_win' \in Windows \cup {NoWindow}
<1>0. WinZOK /\ open \subseteq Windows /\ minimized \subseteq Windows
      /\ drag_win \in Windows \cup {NoWindow}
  BY DEF WindowTypes
<1>. SUFFICES Goal
  BY <1>0, WindowsKept DEF WindowTypes
<1>1. CASE UNCHANGED windows
  BY <1>0, <1>1 DEF windows, WindowEffect
<1>2. ASSUME NEW id \in HotApps, HotkeyOs1(id) \/ toggle_app(id) PROVE Goal
  <2>1. id \in Windows
    BY WindowNames
  <2>2. CASE Opened(id) /\ UNCHANGED drag_win
    BY <2>1, <2>2, <1>0, OpenedKeeps
  <2>3. CASE HotkeyOs1(id) /\ ~Opened(id)
    BY <2>1, <2>3, <1>0 DEF HotkeyOs1, WindowEffect
  <2>4. CASE toggle_app(id) /\ ~Opened(id)
    BY <2>1, <2>4, <1>0 DEF toggle_app, WindowEffect
  <2>. QED
    BY <1>2, <2>2, <2>3, <2>4 DEF HotkeyOs1, toggle_app
<1>3. CASE ReadOs1
  <2>1. UNCHANGED windows \/ \E id \in HotApps : HotkeyOs1(id)
    BY <1>3 DEF ReadOs1, KeyByteOs1
  <2>. QED
    BY <2>1, <1>1, <1>2
<1>4. CASE Keys
  <2>1. UNCHANGED windows \/ \E id \in HotApps : toggle_app(id)
    BY <1>4 DEF Keys
  <2>. QED
    BY <2>1, <1>1, <1>2
<1>5. CASE Mouse
  <2>1. CASE \E w \in Windows : ClickWindow(w) \/ ClickPlanet(w)
    BY <2>1, ClickKeeps
  <2>2. CASE /\ UNCHANGED <<open, minimized, win_z>>
             /\ drag_win' \in {drag_win, NoWindow}
    BY <2>2, <1>0 DEF WindowEffect
  <2>. QED
    BY <1>5, <2>1, <2>2 DEF Mouse
<1>6. CASE AppsDraw
  <2>1. CASE AppButton
    <3>1. UNCHANGED drag_win
      BY <2>1 DEF AppButton
    <3>2. CASE \E w \in Windows : Opened(w)
      BY <3>1, <3>2, <1>0, OpenedKeeps
    <3>3. CASE open' = open \ {Dialog} /\ UNCHANGED <<minimized, win_z>>
      BY <3>1, <3>3, <1>0 DEF WindowEffect
    <3>. QED
      BY <2>1, <3>2, <3>3, WindowNames DEF AppButton
  <2>2. CASE UNCHANGED windows
    BY <2>2, <1>1
  <2>. QED
    BY <1>6, <2>1, <2>2 DEF AppsDraw
<1>7. CASE MouseSends \/ UserPressesKey \/ KeyboardSends \/ ReadOs2 \/ PollEnds
  <2>1. UNCHANGED windows
    BY <1>7 DEF MouseSends, UserPressesKey, KeyboardSends, ReadOs2, PollEnds
  <2>. QED
    BY <2>1, <1>1
<1>8. CASE UNCHANGED inputVars
  <2>1. UNCHANGED windows
    BY <1>8 DEF inputVars
  <2>. QED
    BY <2>1, <1>1
<1>. QED
  BY <1>3, <1>4, <1>5, <1>6, <1>7, <1>8 DEF InputNext, Frame

-----------------------------------------------------------------------------
(* Input: the types of loop and devices                                    *)

LEMMA DevicesAre ==
  ASSUME devices \in Devices
  PROVE  /\ devices.packets \in Nat /\ devices.keys \in Nat /\ devices.byte \in 1 .. 3
         /\ devices.plain \in BOOLEAN /\ devices.in_step \in BOOLEAN
         /\ devices.endless \in BOOLEAN /\ devices.left \in BOOLEAN
         /\ devices.shift \in BOOLEAN /\ devices.sends \in Seq(Codes)
         /\ Len(devices.sends) \in Nat
BY DEF Devices

LEMMA HeadIs ==
  ASSUME queue \in Seq(MouseBytes \cup KeyBytes), queue # <<>>
  PROVE  /\ Head(queue) = queue[1] /\ queue[1] \in MouseBytes \cup KeyBytes
         /\ Tail(queue) \in Seq(MouseBytes \cup KeyBytes)
         /\ Len(queue) \in Nat /\ Len(queue) >= 1 /\ Len(Tail(queue)) = Len(queue) - 1
         /\ \A k \in 1 .. Len(queue) - 1 : Tail(queue)[k] = queue[k + 1]
OBVIOUS

(* What a byte of the mouse does to the devices and the queue.             *)
Sent(bit) == [aux |-> TRUE, n |-> devices.byte, sync |-> bit \/ devices.byte = 1,
              left |-> bit]
LEMMA MouseSendsIs ==
  ASSUME LoopTypes, MouseSends
  PROVE  /\ \E bit \in BOOLEAN :
              /\ devices.byte # 1 /\ devices.plain => ~bit
              /\ Sent(bit) \in MouseBytes
              /\ queue' = Append(queue, Sent(bit))
              /\ devices'.byte = (devices.byte % 3) + 1
              /\ devices'.left = IF devices.byte = 1 THEN bit ELSE devices.left
              /\ presses' = IF devices.byte = 1 /\ bit /\ ~devices.left
                            THEN presses + 1 ELSE presses
         /\ devices' \in Devices
         /\ devices'.plain = devices.plain /\ devices'.in_step = devices.in_step
         /\ devices'.shift = devices.shift /\ devices'.sends = devices.sends
<1>1. devices \in Devices
  BY DEF LoopTypes
<1>2. PICK bit \in BOOLEAN :
        /\ devices.byte # 1 /\ devices.plain => ~bit
        /\ queue' = Append(queue, Sent(bit))
        /\ devices' = [devices EXCEPT
             !.byte = (@ % 3) + 1,
             !.packets = IF devices.byte = 3 /\ ~devices.endless THEN @ - 1 ELSE @,
             !.left = IF devices.byte = 1 THEN bit ELSE @]
        /\ presses' = IF devices.byte = 1 /\ bit /\ ~devices.left THEN presses + 1
                      ELSE presses
  BY DEF MouseSends, Sent
<1>3. devices.packets > 0
  BY DEF MouseSends
<1>4. Sent(bit) \in MouseBytes
  <2>1. (bit \/ devices.byte = 1) \in BOOLEAN
    OBVIOUS
  <2>2. devices.byte \in 1 .. 3
    BY <1>1, DevicesAre
  <2>3. Sent(bit) \in [aux: {TRUE}, n: 1 .. 3, sync: BOOLEAN, left: BOOLEAN]
    BY <2>1, <2>2 DEF Sent
  <2>4. Sent(bit).n = devices.byte /\ Sent(bit).sync = (bit \/ devices.byte = 1)
    BY DEF Sent
  <2>. QED
    BY <2>3, <2>4 DEF MouseBytes
<1>5. (devices.byte % 3) + 1 \in 1 .. 3 /\ devices.packets - 1 \in Nat
  BY <1>1, <1>3, DevicesAre
<1>6. devices'.byte = (devices.byte % 3) + 1
      /\ devices'.left = IF devices.byte = 1 THEN bit ELSE devices.left
  BY <1>1, <1>2 DEF Devices
<1>7. devices' \in Devices
  BY <1>1, <1>2, <1>5 DEF Devices
<1>8. /\ devices'.plain = devices.plain /\ devices'.in_step = devices.in_step
      /\ devices'.shift = devices.shift /\ devices'.sends = devices.sends
  BY <1>1, <1>2 DEF Devices
<1>. QED
  BY <1>2, <1>4, <1>6, <1>7, <1>8

LEMMA UserPressesKeyIs ==
  ASSUME LoopTypes, UserPressesKey
  PROVE  /\ devices' \in Devices /\ devices.sends = <<>>
         /\ devices'.plain = devices.plain /\ devices'.in_step = devices.in_step
         /\ devices'.byte = devices.byte /\ devices'.left = devices.left
         /\ \/ /\ devices'.shift = devices.shift
               /\ \/ \E w \in HotApps : devices'.sends = <<w, "release">>
                  \/ devices'.sends = ArrowBytes
            \/ /\ devices'.shift = ~devices.shift
               /\ devices'.sends = <<IF devices.shift THEN "unshift" ELSE "shift">>
<1>1. devices \in Devices
  BY DEF LoopTypes
<1>2. devices.keys - 1 \in Nat /\ devices.sends = <<>>
  <2>1. devices.keys > 0 /\ devices.sends = <<>>
    BY Zenon DEF UserPressesKey
  <2>. QED
    BY <1>1, <2>1, DevicesAre
<1>3. ASSUME NEW s \in Seq(Codes), NEW b \in BOOLEAN,
             devices' = [devices EXCEPT !.keys = @ - 1, !.shift = b, !.sends = s]
      PROVE  /\ devices' \in Devices
             /\ devices'.plain = devices.plain /\ devices'.in_step = devices.in_step
             /\ devices'.byte = devices.byte /\ devices'.left = devices.left
             /\ devices'.shift = b /\ devices'.sends = s
  BY <1>1, <1>2, <1>3 DEF Devices
<1>4. ASSUME NEW s,
             devices' = [devices EXCEPT !.keys = @ - 1, !.sends = s]
      PROVE  devices' = [devices EXCEPT !.keys = @ - 1, !.shift = devices.shift, !.sends = s]
  BY <1>1, <1>4 DEF Devices
<1>5. /\ \A w \in HotApps : <<w, "release">> \in Seq(Codes)
      /\ ArrowBytes \in Seq(Codes)
      /\ <<IF devices.shift THEN "unshift" ELSE "shift">> \in Seq(Codes)
  <2>1. {"E0", "shift", "unshift", "arrow", "unarrow", "release"} \subseteq Codes
        /\ HotApps \subseteq Codes
    BY DEF Codes, OtherCodes
  <2>2. \A w \in HotApps : <<w, "release">> \in Seq(Codes)
    BY <2>1
  <2>3. ArrowBytes \in Seq(Codes)
    BY <2>1 DEF ArrowBytes
  <2>4. <<IF devices.shift THEN "unshift" ELSE "shift">> \in Seq(Codes)
    BY <2>1
  <2>. QED
    BY <2>2, <2>3, <2>4
<1>6. devices.shift \in BOOLEAN /\ (~devices.shift) \in BOOLEAN
  BY <1>1, DevicesAre
<1>7. CASE \E w \in HotApps :
             devices' = [devices EXCEPT !.keys = @ - 1, !.sends = <<w, "release">>]
  <2>1. PICK w \in HotApps :
          devices' = [devices EXCEPT !.keys = @ - 1, !.sends = <<w, "release">>]
    BY <1>7
  <2>. QED
    BY <2>1, <1>2, <1>3, <1>4, <1>5, <1>6
<1>8. CASE devices' = [devices EXCEPT !.keys = @ - 1, !.sends = ArrowBytes]
  BY <1>8, <1>2, <1>3, <1>4, <1>5, <1>6
<1>9. CASE devices' = [devices EXCEPT !.keys = @ - 1, !.shift = ~@,
             !.sends = <<IF devices.shift THEN "unshift" ELSE "shift">>]
  <2>1. devices' = [devices EXCEPT !.keys = @ - 1, !.shift = ~devices.shift,
             !.sends = <<IF devices.shift THEN "unshift" ELSE "shift">>]
    BY <1>9, <1>1 DEF Devices
  <2>. QED
    BY <2>1, <1>2, <1>3, <1>5, <1>6
<1>. QED
  BY <1>7, <1>8, <1>9 DEF UserPressesKey

LEMMA KeyboardSendsIs ==
  ASSUME LoopTypes, KeyboardSends
  PROVE  /\ devices' \in Devices /\ devices.sends # <<>>
         /\ devices'.plain = devices.plain /\ devices'.in_step = devices.in_step
         /\ devices'.byte = devices.byte /\ devices'.left = devices.left
         /\ devices'.shift = devices.shift /\ devices'.sends = Tail(devices.sends)
         /\ [aux |-> FALSE, code |-> Head(devices.sends)] \in KeyBytes
         /\ queue' = Append(queue, [aux |-> FALSE, code |-> Head(devices.sends)])
<1>1. devices \in Devices
  BY DEF LoopTypes
<1>2. devices.sends \in Seq(Codes) /\ devices.sends # <<>>
  BY <1>1, DevicesAre DEF KeyboardSends
<1>3. Tail(devices.sends) \in Seq(Codes) /\ Head(devices.sends) \in Codes
  BY <1>2
<1>4. devices' = [devices EXCEPT !.sends = Tail(devices.sends)]
  BY <1>1 DEF KeyboardSends, Devices
<1>5. /\ devices' \in Devices
      /\ devices'.plain = devices.plain /\ devices'.in_step = devices.in_step
      /\ devices'.byte = devices.byte /\ devices'.left = devices.left
      /\ devices'.shift = devices.shift /\ devices'.sends = Tail(devices.sends)
  BY <1>1, <1>3, <1>4 DEF Devices
<1>. QED
  BY <1>2, <1>3, <1>5 DEF KeyboardSends, KeyBytes

(* The mouse's bytes in the driver of either kernel: what the packet is    *)
(* then, and when the button is looked at.                                 *)
LEMMA MouseByteIs ==
  ASSUME LoopTypes, NEW b \in MouseBytes, pc = "poll",
         \/ desk = "OS1" /\ MouseByteOs1(b)
         \/ desk = "OS2" /\ MouseByteOs2(b)
  PROVE  \/ /\ m_packet' = Append(m_packet, b) /\ Len(m_packet) < 2
            /\ UNCHANGED <<mouse_down, mouse_just_pressed, pc>>
         \/ /\ m_packet' = <<>> /\ Len(m_packet) = 2
            /\ mouse_down' = m_packet[1].left
            /\ mouse_just_pressed' \in BOOLEAN
            /\ mouse_just_pressed' =>
                 mouse_just_pressed \/ (m_packet[1].left /\ ~mouse_down)
            /\ UNCHANGED pc
         \/ /\ desk = "OS1" /\ ~m_packet[1].sync /\ Len(m_packet) = 2
            /\ m_packet' = <<>> /\ pc' = "mouse"
            /\ UNCHANGED <<mouse_down, mouse_just_pressed>>
         \/ /\ desk = "OS2" /\ m_packet = <<>> /\ ~b.sync
            /\ UNCHANGED <<m_packet, mouse_down, mouse_just_pressed, pc>>
<1>1. /\ m_packet \in Seq(MouseBytes) /\ Len(m_packet) \in Nat /\ Len(m_packet) < 3
      /\ mouse_down \in BOOLEAN /\ mouse_just_pressed \in BOOLEAN
  BY DEF LoopTypes
<1>2. /\ Len(Append(m_packet, b)) = Len(m_packet) + 1
      /\ Len(m_packet) >= 1 => /\ Append(m_packet, b)[1] = m_packet[1]
                               /\ m_packet[1] \in MouseBytes
                               /\ m_packet # <<>>
  BY <1>1
<1>3. Len(m_packet) = 2 => m_packet[1].left \in BOOLEAN /\ m_packet[1].sync \in BOOLEAN
  BY <1>1, <1>2 DEF MouseBytes
<1>4. CASE Len(m_packet) < 2 /\ desk = "OS1" /\ MouseByteOs1(b)
  BY <1>1, <1>2, <1>4 DEF MouseByteOs1
<1>5. CASE Len(m_packet) = 2 /\ desk = "OS1" /\ MouseByteOs1(b)
  BY <1>1, <1>2, <1>3, <1>5 DEF MouseByteOs1, ButtonOs1
<1>6. CASE Len(m_packet) < 2 /\ desk = "OS2" /\ MouseByteOs2(b)
  BY <1>1, <1>2, <1>6 DEF MouseByteOs2
<1>7. CASE Len(m_packet) = 2 /\ desk = "OS2" /\ MouseByteOs2(b)
  BY <1>1, <1>2, <1>3, <1>7 DEF MouseByteOs2, ButtonOs2
<1>8. Len(m_packet) < 2 \/ Len(m_packet) = 2
  <2>1. \A n \in Nat : n < 3 => n < 2 \/ n = 2
    OBVIOUS
  <2>. QED
    BY <1>1, <2>1, Zenon
<1>. QED
  BY <1>4, <1>5, <1>6, <1>7, <1>8, Zenon

(* What reading a byte does.                                               *)
Read == ReadOs1 \/ ReadOs2
LEMMA ReadIs ==
  ASSUME LoopTypes, Read
  PROVE  /\ pc = "poll" /\ queue # <<>> /\ queue' = Tail(queue)
         /\ UNCHANGED <<desk, devices, presses, taken>>
         /\ \/ /\ queue[1] \in MouseBytes /\ queue[1].aux
               /\ UNCHANGED <<is_ext, key_shift>>
               /\ \/ desk = "OS1" /\ MouseByteOs1(queue[1])
                  \/ desk = "OS2" /\ MouseByteOs2(queue[1])
            \/ /\ queue[1] \in KeyBytes /\ ~queue[1].aux
               /\ UNCHANGED <<m_packet, mouse_down, mouse_just_pressed, pc>>
               /\ \/ desk = "OS1" /\ KeyByteOs1(queue[1].code)
                  \/ desk = "OS2" /\ UNCHANGED <<is_ext, key_shift>>
<1>1. queue # <<>> /\ pc = "poll" /\ queue' = Tail(queue)
      /\ UNCHANGED <<desk, devices, presses, taken>>
  BY DEF Read, ReadOs1, ReadOs2
<1>2. Head(queue) = queue[1] /\ queue[1] \in MouseBytes \cup KeyBytes
  BY <1>1, HeadIs DEF LoopTypes
<1>3. CASE queue[1] \in MouseBytes
  <2>1. queue[1].aux
    BY <1>3 DEF MouseBytes
  <2>. QED
    BY <1>1, <1>2, <1>3, <2>1 DEF Read, ReadOs1, ReadOs2
<1>4. CASE queue[1] \in KeyBytes
  <2>1. ~queue[1].aux
    BY <1>4 DEF KeyBytes
  <2>. QED
    BY <1>1, <1>2, <1>4, <2>1 DEF Read, ReadOs1, ReadOs2
<1>. QED
  BY <1>2, <1>3, <1>4

LEMMA KeyByteIs ==
  ASSUME LoopTypes, NEW code, KeyByteOs1(code)
  PROVE  /\ [ext |-> is_ext', shift |-> key_shift'] =
              KeyStep([ext |-> is_ext, shift |-> key_shift], code)
         /\ is_ext' \in BOOLEAN /\ key_shift' \in BOOLEAN
         /\ input_cooldown' \in 0 .. Cooldown
<1>1. is_ext \in BOOLEAN /\ key_shift \in BOOLEAN /\ input_cooldown \in 0 .. Cooldown
      /\ Cooldown \in Nat
  BY InputConstants DEF LoopTypes
<1>2. is_ext' = (code = "E0") /\ is_ext' \in BOOLEAN
  BY DEF KeyByteOs1
<1>3. CASE code = "E0"
  BY <1>1, <1>2, <1>3 DEF KeyByteOs1, KeyStep
<1>4. CASE code # "E0"
  <2>1. input_cooldown' \in 0 .. Cooldown
    <3>1. input_cooldown' = input_cooldown \/ input_cooldown' = Cooldown
      BY <1>4, Zenon DEF KeyByteOs1
    <3>. QED
      BY <1>1, <3>1
  <2>2. key_shift' = IF is_ext /\ code \in {"shift", "unshift"} THEN key_shift
                     ELSE IF code = "shift" THEN TRUE
                     ELSE IF code = "unshift" THEN FALSE ELSE key_shift
    BY <1>4 DEF KeyByteOs1, FakeShift
  <2>. QED
    BY <1>1, <1>2, <1>4, <2>1, <2>2 DEF KeyStep
<1>. QED
  BY <1>3, <1>4

LEMMA ReadTypes ==
  ASSUME LoopTypes, Read
  PROVE  LoopTypes'
<1>1. /\ pc = "poll" /\ queue # <<>> /\ queue' = Tail(queue)
      /\ UNCHANGED <<desk, devices, presses, taken>>
  BY ReadIs
<1>2. queue' \in Seq(MouseBytes \cup KeyBytes)
  BY <1>1, HeadIs DEF LoopTypes
<1>3. polled' \in 0 .. PollLimit
  <2>1. polled \in 0 .. PollLimit /\ PollLimit \in Nat
    BY InputConstants DEF LoopTypes
  <2>2. polled' = polled \/ (polled' = polled + 1 /\ polled < PollLimit)
    BY DEF Read, ReadOs1, ReadOs2, PolledMore
  <2>. QED
    BY <2>1, <2>2
<1>4. CASE /\ queue[1] \in MouseBytes
           /\ \/ desk = "OS1" /\ MouseByteOs1(queue[1])
              \/ desk = "OS2" /\ MouseByteOs2(queue[1])
           /\ UNCHANGED <<is_ext, key_shift>>
           /\ queue[1].aux
  <2>1. UNCHANGED input_cooldown
    <3>1. Head(queue) = queue[1]
      BY <1>1, HeadIs DEF LoopTypes
    <3>. QED
      BY <1>4, <3>1 DEF Read, ReadOs1, ReadOs2
  <2>2. /\ m_packet \in Seq(MouseBytes) /\ Len(m_packet) \in Nat
        /\ Len(m_packet) = 2 => m_packet[1].left \in BOOLEAN
    <3>1. m_packet \in Seq(MouseBytes) /\ Len(m_packet) \in Nat
      BY DEF LoopTypes
    <3>2. Len(m_packet) = 2 => m_packet[1] \in MouseBytes
      BY <3>1
    <3>. QED
      BY <3>1, <3>2 DEF MouseBytes
  <2>3. Len(m_packet) < 2 => /\ Append(m_packet, queue[1]) \in Seq(MouseBytes)
                             /\ Len(Append(m_packet, queue[1])) < 3
    BY <1>4, <2>2
  <2>4. <<>> \in Seq(MouseBytes) /\ Len(<<>>) < 3
    OBVIOUS
  <2>5. /\ m_packet' \in Seq(MouseBytes) /\ Len(m_packet') < 3
        /\ mouse_down' \in BOOLEAN /\ mouse_just_pressed' \in BOOLEAN
        /\ pc' \in {"poll", "mouse"}
    BY <1>1, <1>4, <2>2, <2>3, <2>4, MouseByteIs DEF LoopTypes
  <2>. QED
    BY <1>1, <1>2, <1>3, <1>4, <2>1, <2>5 DEF LoopTypes
<1>5. CASE /\ queue[1] \in KeyBytes /\ ~queue[1].aux
           /\ UNCHANGED <<m_packet, mouse_down, mouse_just_pressed, pc>>
           /\ \/ desk = "OS1" /\ KeyByteOs1(queue[1].code)
              \/ desk = "OS2" /\ UNCHANGED <<is_ext, key_shift>>
  <2>1. /\ is_ext' \in BOOLEAN /\ key_shift' \in BOOLEAN
        /\ input_cooldown' \in 0 .. Cooldown
    <3>1. CASE desk = "OS1" /\ KeyByteOs1(queue[1].code)
      BY <3>1, KeyByteIs
    <3>2. CASE desk = "OS2" /\ UNCHANGED <<is_ext, key_shift>>
      <4>1. UNCHANGED input_cooldown
        BY <3>2 DEF Read, ReadOs1, ReadOs2
      <4>. QED
        BY <3>2, <4>1 DEF LoopTypes
    <3>. QED
      BY <1>5, <3>1, <3>2
  <2>. QED
    BY <1>1, <1>2, <1>3, <1>5, <2>1 DEF LoopTypes
<1>. QED
  BY <1>4, <1>5, ReadIs

LEMMA LoopTypesKept == LoopTypes /\ [InputNext]_inputVars => LoopTypes'
<1> SUFFICES ASSUME LoopTypes, [InputNext]_inputVars PROVE LoopTypes'
  OBVIOUS
<1>1. CASE MouseSends
  <2>1. devices' \in Devices /\ queue' \in Seq(MouseBytes \cup KeyBytes) /\ presses' \in Nat
    <3>1. PICK bit \in BOOLEAN :
            /\ Sent(bit) \in MouseBytes /\ queue' = Append(queue, Sent(bit))
            /\ presses' = IF devices.byte = 1 /\ bit /\ ~devices.left
                          THEN presses + 1 ELSE presses
      BY <1>1, MouseSendsIs
    <3>2. queue \in Seq(MouseBytes \cup KeyBytes) /\ presses \in Nat
      BY DEF LoopTypes
    <3>. QED
      BY <1>1, <3>1, <3>2, MouseSendsIs
  <2>2. UNCHANGED <<desk, pc, polled, polling, input_cooldown, taken>>
    BY <1>1 DEF MouseSends
  <2>. QED
    BY <2>1, <2>2 DEF LoopTypes, polling
<1>2. CASE UserPressesKey
  <2>1. devices' \in Devices
    BY <1>2, UserPressesKeyIs
  <2>2. UNCHANGED <<desk, queue, pc, polled, polling, input_cooldown, presses, taken>>
    BY <1>2 DEF UserPressesKey
  <2>. QED
    BY <2>1, <2>2 DEF LoopTypes, polling
<1>3. CASE KeyboardSends
  <2>1. devices' \in Devices /\ queue' \in Seq(MouseBytes \cup KeyBytes)
    <3>1. PICK b \in KeyBytes : queue' = Append(queue, b)
      BY <1>3, KeyboardSendsIs
    <3>2. queue \in Seq(MouseBytes \cup KeyBytes)
      BY DEF LoopTypes
    <3>. QED
      BY <1>3, <3>1, <3>2, KeyboardSendsIs
  <2>2. UNCHANGED <<desk, pc, polled, polling, input_cooldown, presses, taken>>
    BY <1>3 DEF KeyboardSends
  <2>. QED
    BY <2>1, <2>2 DEF LoopTypes, polling
<1>4. CASE Read
  BY <1>4, ReadTypes
<1>5. CASE PollEnds
  BY <1>5 DEF PollEnds, LoopTypes, polling
<1>6. CASE Keys
  BY <1>6 DEF Keys, LoopTypes
<1>7. CASE Mouse
  <2>1. input_cooldown' \in 0 .. Cooldown /\ taken' \in Nat
    <3>1. input_cooldown \in 0 .. Cooldown /\ Cooldown \in Nat /\ taken \in Nat
      BY InputConstants DEF LoopTypes
    <3>2. /\ input_cooldown' = IF input_cooldown > 0 THEN input_cooldown - 1 ELSE 0
          /\ taken' = IF mouse_just_pressed THEN taken + 1 ELSE taken
      BY <1>7 DEF Mouse
    <3>. QED
      BY <3>1, <3>2
  <2>2. pc' = "apps" /\ UNCHANGED <<desk, queue, devices, polled, polling, presses>>
    BY <1>7 DEF Mouse
  <2>. QED
    BY <2>1, <2>2 DEF LoopTypes, polling
<1>8. CASE AppsDraw
  <2>1. input_cooldown' \in 0 .. Cooldown
    <3>1. input_cooldown \in 0 .. Cooldown /\ Cooldown \in Nat
      BY InputConstants DEF LoopTypes
    <3>2. input_cooldown' = input_cooldown \/ input_cooldown' = Cooldown
      BY <1>8 DEF AppsDraw, AppButton
    <3>. QED
      BY <3>1, <3>2
  <2>2. polled' \in 0 .. PollLimit
    BY <1>8, InputConstants DEF AppsDraw
  <2>3. /\ pc' = "poll" /\ mouse_just_pressed' = FALSE
        /\ UNCHANGED <<desk, queue, devices, m_packet, mouse_down, is_ext, key_shift,
                       presses, taken>>
    BY <1>8 DEF AppsDraw
  <2>. QED
    BY <2>1, <2>2, <2>3 DEF LoopTypes
<1>9. CASE UNCHANGED inputVars
  BY <1>9 DEF LoopTypes, inputVars, polling
<1>. QED
  BY <1>1, <1>2, <1>3, <1>4, <1>5, <1>6, <1>7, <1>8, <1>9 DEF InputNext, Frame, Read

-----------------------------------------------------------------------------
(* Input: packets and clicks                                               *)

LEMMA CountIs == \A b \in BOOLEAN : Count(b) \in {0, 1} /\ (Count(b) = 1 <=> b)
BY DEF Count

LEMMA UntakenIs ==
  ASSUME LoopTypes
  PROVE  Untaken \in {0, 1} /\ (Untaken = 1 <=> mouse_just_pressed /\ pc # "apps")
<1>1. (mouse_just_pressed /\ pc # "apps") \in BOOLEAN
  BY DEF LoopTypes
<1>. QED
  BY <1>1 DEF Untaken, Count

(* The steps that read no byte of the mouse, and count no click twice.     *)
LEMMA InHandRests ==
  ASSUME LoopTypes, LoopTypes', NEW s \in Past, InHand(s),
         UNCHANGED <<m_packet, mouse_down>>, devices'.in_step = devices.in_step,
         taken' + Untaken' <= taken + Untaken
  PROVE  InHand(s)'
<1>1. /\ taken \in Nat /\ taken' \in Nat /\ Untaken \in Nat /\ Untaken' \in Nat
      /\ s.presses \in Nat
  BY DEF LoopTypes, Past, Untaken, Count
<1>2. \A a, b, c, p \in Nat : a <= b /\ b + c <= p => a + c <= p
  OBVIOUS
<1>5. taken + Untaken \in Nat /\ taken' + Untaken' \in Nat
  <2>1. \A a, b \in Nat : a + b \in Nat
    OBVIOUS
  <2>. QED
    BY <1>1, <2>1, Zenon
<1>3. taken + Untaken <= s.presses => taken' + Untaken' <= s.presses
  <2>1. \A a, b, p \in Nat : a <= b /\ b <= p => a <= p
    OBVIOUS
  <2>. QED
    BY <1>1, <1>5, <2>1, Zenon
<1>4. m_packet # <<>> => Count(m_packet[1].left /\ ~mouse_down) \in Nat
  BY DEF Count
<1>6. m_packet # <<>> =>
        LET c == Count(m_packet[1].left /\ ~mouse_down)
        IN  taken + Untaken + c <= s.presses => taken' + Untaken' + c <= s.presses
  BY <1>1, <1>2, <1>4, <1>5, Zenon
<1>. QED
  BY <1>3, <1>6 DEF InHand

(* A byte comes to the end of the queue, and the mouse goes on to s.       *)
LEMMA HistoryGrows ==
  ASSUME LoopTypes, LoopTypes', NEW h, MouseHistory(h),
         NEW b \in MouseBytes \cup KeyBytes, NEW s \in Past,
         queue' = Append(queue, b),
         devices'.plain = devices.plain, presses <= presses',
         s = [byte |-> devices'.byte, left |-> devices'.left, presses |-> presses'],
         IF b.aux THEN /\ b.n = devices.byte
                       /\ devices.plain /\ b.n # 1 => ~b.sync
                       /\ s = AfterByte(h[Len(queue) + 1], b.left)
         ELSE s = h[Len(queue) + 1]
  PROVE  \E g : MouseHistory(g)' /\ g[1] = h[1]
<1> DEFINE n == Len(queue)
<1>0. PICK g : g = [k \in 1 .. n + 2 |-> IF k <= n + 1 THEN h[k] ELSE s]
  OBVIOUS
<1>1. queue \in Seq(MouseBytes \cup KeyBytes) /\ n \in Nat /\ presses \in Nat
      /\ presses' \in Nat
  BY DEF LoopTypes
<1>2. /\ Len(queue') = n + 1 /\ queue'[n + 1] = b
      /\ \A k \in 1 .. n : queue'[k] = queue[k]
  BY <1>1
<1>3. /\ h \in [1 .. n + 1 -> Past]
      /\ h[n + 1] = [byte |-> devices.byte, left |-> devices.left, presses |-> presses]
      /\ \A k \in 1 .. n + 1 : h[k].presses <= presses
      /\ \A k \in 1 .. n :
           IF queue[k].aux
           THEN /\ queue[k].n = h[k].byte
                /\ devices.plain /\ queue[k].n # 1 => ~queue[k].sync
                /\ h[k + 1] = AfterByte(h[k], queue[k].left)
           ELSE h[k + 1] = h[k]
  BY DEF MouseHistory
<1>4. g \in [1 .. n + 2 -> Past] /\ g[n + 2] = s /\ \A k \in 1 .. n + 1 : g[k] = h[k]
  BY <1>0, <1>1, <1>3
<1>5. \A k \in 1 .. n + 2 : g[k].presses <= presses'
  <2>1. \A k \in 1 .. n + 1 : h[k].presses \in Nat
    BY <1>3 DEF Past
  <2>2. \A k \in 1 .. n + 1 : g[k].presses <= presses'
    BY <1>1, <1>3, <1>4, <2>1
  <2>3. g[n + 2].presses <= presses'
    BY <1>1, <1>4
  <2>4. \A k \in 1 .. n + 2 : k \in 1 .. n + 1 \/ k = n + 2
    BY <1>1
  <2>. QED
    BY <2>2, <2>3, <2>4, Zenon
<1> DEFINE Fits(q, k, f) ==
             IF q.aux
             THEN /\ q.n = f[k].byte
                  /\ devices.plain /\ q.n # 1 => ~q.sync
                  /\ f[k + 1] = AfterByte(f[k], q.left)
             ELSE f[k + 1] = f[k]
<1>6. \A k \in 1 .. n + 1 : Fits(queue'[k], k, g)
  <2>1. \A k \in 1 .. n : Fits(queue'[k], k, g)
    <3>1. \A k \in 1 .. n : k \in 1 .. n + 1 /\ k + 1 \in 1 .. n + 1
      BY <1>1
    <3>2. \A k \in 1 .. n : g[k] = h[k] /\ g[k + 1] = h[k + 1]
      BY <1>4, <3>1
    <3>. HIDE DEF n
    <3>. QED
      BY <1>2, <1>3, <3>2
  <2>2. Fits(b, n + 1, g)
    <3>1. n + 1 \in 1 .. n + 1 /\ (n + 1) + 1 = n + 2
      BY <1>1
    <3>2. g[n + 1] = h[n + 1] /\ g[n + 1 + 1] = s
      BY <1>4, <3>1
    <3>3. h[n + 1].byte = devices.byte
      BY <1>3
    <3>4. h[Len(queue) + 1] = h[n + 1]
      OBVIOUS
    <3>. HIDE DEF n
    <3>. QED
      BY <3>2, <3>3, <3>4
  <2>3. \A k \in 1 .. n + 1 : k \in 1 .. n \/ k = n + 1
    BY <1>1
  <2>. HIDE DEF n, Fits
  <2>. QED
    BY <1>2, <2>1, <2>2, <2>3, Zenon
<1>7. Len(queue') + 1 = n + 2
  BY <1>1, <1>2
<1>8. MouseHistory(g)'
  <2>. HIDE DEF n
  <2>. QED
    BY <1>2, <1>4, <1>5, <1>6, <1>7 DEF MouseHistory
<1>9. g[1] = h[1]
  BY <1>1, <1>4
<1>. QED
  BY <1>8, <1>9

(* A byte is read.                                                         *)
LEMMA HistoryMoves ==
  ASSUME LoopTypes, queue # <<>>, queue' = Tail(queue), UNCHANGED <<devices, presses>>,
         NEW h, MouseHistory(h)
  PROVE  \E g : MouseHistory(g)' /\ g[1] = h[2]
<1> DEFINE n == Len(queue)
<1>0. PICK g : g = [k \in 1 .. n |-> h[k + 1]]
  OBVIOUS
<1>1. /\ n \in Nat /\ n >= 1 /\ Len(queue') = n - 1
      /\ \A k \in 1 .. n - 1 : queue'[k] = queue[k + 1]
  BY HeadIs DEF LoopTypes
<1>3. /\ h \in [1 .. n + 1 -> Past]
      /\ h[n + 1] = [byte |-> devices.byte, left |-> devices.left, presses |-> presses]
      /\ \A k \in 1 .. n + 1 : h[k].presses <= presses
      /\ \A k \in 1 .. n :
           IF queue[k].aux
           THEN /\ queue[k].n = h[k].byte
                /\ devices.plain /\ queue[k].n # 1 => ~queue[k].sync
                /\ h[k + 1] = AfterByte(h[k], queue[k].left)
           ELSE h[k + 1] = h[k]
  BY DEF MouseHistory
<1>2. \A k \in 1 .. n : k + 1 \in 1 .. n + 1
  BY <1>1
<1>4. g \in [1 .. n -> Past] /\ \A k \in 1 .. n : g[k] = h[k + 1]
  BY <1>0, <1>2, <1>3
<1>5. /\ g[n] = [byte |-> devices.byte, left |-> devices.left, presses |-> presses]
      /\ \A k \in 1 .. n : g[k].presses <= presses
      /\ g[1] = h[2] /\ Len(queue') + 1 = n
  <2>1. n \in 1 .. n /\ 1 \in 1 .. n /\ 1 + 1 = 2
    BY <1>1
  <2>. QED
    BY <1>1, <1>2, <1>3, <1>4, <2>1
<1>6. \A k \in 1 .. n - 1 :
        IF queue'[k].aux
        THEN /\ queue'[k].n = g[k].byte
             /\ devices.plain /\ queue'[k].n # 1 => ~queue'[k].sync
             /\ g[k + 1] = AfterByte(g[k], queue'[k].left)
        ELSE g[k + 1] = g[k]
  <2>1. \A k \in 1 .. n - 1 : k \in 1 .. n /\ k + 1 \in 1 .. n
    BY <1>1
  <2>2. \A k \in 1 .. n - 1 : g[k] = h[k + 1] /\ g[k + 1] = h[k + 1 + 1]
    BY <1>4, <2>1
  <2>. HIDE DEF n
  <2>. QED
    BY <1>1, <1>3, <2>1, <2>2
<1>7. MouseHistory(g)'
  <2>1. devices' = devices /\ presses' = presses /\ Len(queue') = n - 1
    BY <1>1
  <2>. HIDE DEF n
  <2>. QED
    BY <1>4, <1>5, <1>6, <2>1 DEF MouseHistory
<1>. QED
  BY <1>5, <1>7

(* The driver takes a byte of the mouse.                                   *)
LEMMA InHandReads ==
  ASSUME LoopTypes, LoopTypes', Read, InPhase, NEW s \in Past, InHand(s),
         NEW b \in MouseBytes, b = queue[1], b.aux, b.n = s.byte,
         devices.plain /\ b.n # 1 => ~b.sync
  PROVE  InHand(AfterByte(s, b.left))'
<1> DEFINE t == AfterByte(s, b.left)
           l == Len(m_packet)
<1>1. /\ s.byte \in 1 .. 3 /\ s.left \in BOOLEAN /\ s.presses \in Nat
      /\ b.n \in 1 .. 3 /\ b.sync \in BOOLEAN /\ b.left \in BOOLEAN
      /\ b.n = 1 => b.sync
  BY DEF Past, MouseBytes
<1>2. /\ pc = "poll" /\ UNCHANGED <<desk, devices, presses, taken>>
      /\ \/ desk = "OS1" /\ MouseByteOs1(b)
         \/ desk = "OS2" /\ MouseByteOs2(b)
  <2>1. ~(b \in KeyBytes /\ ~b.aux)
    OBVIOUS
  <2>. QED
    BY ReadIs, <2>1
<1>3. /\ m_packet \in Seq(MouseBytes) /\ l \in Nat /\ l < 3
      /\ mouse_down \in BOOLEAN /\ mouse_just_pressed \in BOOLEAN /\ taken \in Nat
      /\ devices.in_step \in BOOLEAN
      /\ m_packet = <<>> <=> l = 0
      /\ l >= 1 => m_packet[1] \in MouseBytes
  BY DevicesAre DEF LoopTypes
<1>4. /\ \A i \in 1 .. l : m_packet[i].n = i
      /\ devices.in_step \/ m_packet # <<>> => s.byte = l + 1
      /\ m_packet = <<>> => s.left = mouse_down /\ taken + Untaken <= s.presses
      /\ m_packet # <<>> =>
           /\ s.left = m_packet[1].left
           /\ taken + Untaken + Count(m_packet[1].left /\ ~mouse_down) <= s.presses
  BY DEF InHand
<1>5. /\ t.byte = (s.byte % 3) + 1
      /\ t.left = IF s.byte = 1 THEN b.left ELSE s.left
      /\ t.presses = IF s.byte = 1 /\ b.left /\ ~s.left THEN s.presses + 1 ELSE s.presses
  BY DEF AfterByte
<1>6. CASE m_packet' = Append(m_packet, b) /\ l < 2
           /\ UNCHANGED <<mouse_down, mouse_just_pressed, pc>>
           /\ (l = 0 => b.sync)
  <2>1. b.n = l + 1
    <3>1. CASE l = 0
      <4>1. CASE devices.in_step
        BY <1>4, <3>1, <4>1
      <4>2. CASE ~devices.in_step
        BY <1>6, <3>1, <4>2, <1>1 DEF InPhase
      <4>. QED
        BY <4>1, <4>2
    <3>2. CASE l # 0
      BY <1>3, <1>4, <3>2
    <3>. QED
      BY <3>1, <3>2
  <2>2. /\ Len(m_packet') = l + 1 /\ m_packet'[l + 1] = b /\ m_packet' # <<>>
        /\ \A i \in 1 .. l : m_packet'[i] = m_packet[i]
    BY <1>3, <1>6
  <2>3. \A i \in 1 .. Len(m_packet') : m_packet'[i].n = i
    <3>1. \A i \in 1 .. l + 1 : i \in 1 .. l \/ i = l + 1
      BY <1>3
    <3>. HIDE DEF l
    <3>. QED
      BY <1>4, <2>1, <2>2, <3>1
  <2>4. t.byte = l + 2
    BY <1>3, <1>5, <1>6, <2>1
  <2>5. Untaken' = Untaken /\ taken' = taken
    BY <1>2, <1>6 DEF Untaken
  <2>6. /\ t.left = m_packet'[1].left
        /\ taken + Untaken + Count(m_packet'[1].left /\ ~mouse_down) <= t.presses
    <3>0. Untaken \in Nat
      BY DEF Untaken, Count
    <3>1. CASE l = 0
      <4>1. m_packet'[1] = b /\ s.byte = 1 /\ s.left = mouse_down
            /\ taken + Untaken <= s.presses
        BY <1>3, <1>4, <2>1, <2>2, <3>1
      <4>2. t.left = b.left
            /\ t.presses = IF b.left /\ ~mouse_down THEN s.presses + 1 ELSE s.presses
        BY <4>1, <1>5
      <4>. HIDE DEF t
      <4>. QED
        BY <4>1, <4>2, <3>0, <1>1, <1>3 DEF Count
    <3>2. CASE l # 0
      <4>1. 1 \in 1 .. l
        BY <1>3, <3>2
      <4>2. m_packet'[1] = m_packet[1] /\ s.byte # 1
        BY <1>3, <2>1, <2>2, <3>2, <4>1
      <4>3. t.left = s.left /\ t.presses = s.presses
        BY <1>5, <4>2
      <4>. HIDE DEF t
      <4>. QED
        BY <1>3, <1>4, <3>2, <4>2, <4>3
    <3>. QED
      BY <3>1, <3>2
  <2>7. Len(m_packet') + 1 = l + 2
    BY <1>3, <2>2
  <2>8. UNCHANGED mouse_down
    BY <1>6
  <2>. HIDE DEF t, l
  <2>9. /\ devices'.in_step \/ m_packet' # <<>> => t.byte = Len(m_packet') + 1
        /\ IF m_packet' = <<>> THEN t.left = mouse_down' /\ taken' + Untaken' <= t.presses
           ELSE /\ t.left = m_packet'[1].left
                /\ taken' + Untaken' + Count(m_packet'[1].left /\ ~mouse_down')
                     <= t.presses
    BY <2>2, <2>4, <2>5, <2>6, <2>7, <2>8
  <2>. QED
    BY <2>3, <2>9 DEF InHand, t
<1>7. CASE m_packet' = <<>> /\ l = 2
           /\ mouse_down' = m_packet[1].left /\ mouse_just_pressed' \in BOOLEAN
           /\ (mouse_just_pressed' =>
                 mouse_just_pressed \/ (m_packet[1].left /\ ~mouse_down))
           /\ UNCHANGED pc
  <2>1. s.byte = 3 /\ t.byte = 1 /\ t.left = m_packet[1].left /\ t.presses = s.presses
    BY <1>1, <1>3, <1>4, <1>5, <1>7
  <2>2. m_packet[1].left \in BOOLEAN
    BY <1>3, <1>7 DEF MouseBytes
  <2>3. taken' + Untaken' <= s.presses
    <3>1. Untaken = IF mouse_just_pressed THEN 1 ELSE 0
      BY <1>2, <1>3 DEF Untaken, Count
    <3>2. Untaken' = IF mouse_just_pressed' THEN 1 ELSE 0
      BY <1>2, <1>7 DEF Untaken, Count
    <3>3. taken + Untaken + (IF m_packet[1].left /\ ~mouse_down THEN 1 ELSE 0) <= s.presses
      BY <1>3, <1>4, <1>7 DEF Count
    <3>. HIDE DEF l
    <3>4. taken + (IF mouse_just_pressed' THEN 1 ELSE 0) <= s.presses
      BY <1>1, <1>3, <1>7, <2>2, <3>1, <3>3
    <3>. QED
      BY <1>2, <3>2, <3>4
  <2>4. Len(<<>>) = 0 /\ ~(<<>> # <<>>) /\ 1 .. 0 = {}
    OBVIOUS
  <2>. HIDE DEF t
  <2>5. /\ \A i \in 1 .. Len(m_packet') : m_packet'[i].n = i
        /\ devices'.in_step \/ m_packet' # <<>> => t.byte = Len(m_packet') + 1
        /\ m_packet' = <<>> /\ t.left = mouse_down' /\ taken' + Untaken' <= t.presses
    BY <1>7, <2>1, <2>3, <2>4
  <2>. QED
    BY <2>5 DEF InHand, t
<1>8. CASE desk = "OS1" /\ ~m_packet[1].sync /\ l = 2
  <2>1. 1 \in 1 .. l
    BY <1>8
  <2>2. m_packet[1].n = 1 /\ m_packet[1] \in MouseBytes
    BY <1>3, <1>4, <1>8, <2>1
  <2>. QED
    BY <1>8, <2>2 DEF MouseBytes
<1>9. CASE /\ desk = "OS2" /\ m_packet = <<>> /\ ~b.sync
           /\ UNCHANGED <<m_packet, mouse_down, mouse_just_pressed, pc>>
  <2>1. b.n # 1
    BY <1>1, <1>9
  <2>2. ~devices.in_step
    BY <1>3, <1>4, <1>9, <2>1
  <2>3. t.left = s.left /\ t.presses = s.presses
    BY <1>5, <2>1
  <2>4. Untaken' = Untaken /\ taken' = taken /\ devices' = devices
        /\ m_packet' = <<>> /\ mouse_down' = mouse_down
    BY <1>2, <1>9 DEF Untaken
  <2>5. Len(<<>>) = 0 /\ 1 .. 0 = {}
    OBVIOUS
  <2>. HIDE DEF t
  <2>6. /\ \A i \in 1 .. Len(m_packet') : m_packet'[i].n = i
        /\ devices'.in_step \/ m_packet' # <<>> => t.byte = Len(m_packet') + 1
        /\ m_packet' = <<>> /\ t.left = mouse_down' /\ taken' + Untaken' <= t.presses
    BY <1>4, <1>9, <2>2, <2>3, <2>4, <2>5
  <2>. QED
    BY <2>6 DEF InHand, t
<1>10. \/ m_packet' = Append(m_packet, b) /\ l < 2
          /\ UNCHANGED <<mouse_down, mouse_just_pressed, pc>> /\ (l = 0 => b.sync)
       \/ m_packet' = <<>> /\ l = 2
           /\ mouse_down' = m_packet[1].left /\ mouse_just_pressed' \in BOOLEAN
           /\ (mouse_just_pressed' =>
                 mouse_just_pressed \/ (m_packet[1].left /\ ~mouse_down))
           /\ UNCHANGED pc
       \/ desk = "OS1" /\ ~m_packet[1].sync /\ l = 2
       \/ /\ desk = "OS2" /\ m_packet = <<>> /\ ~b.sync
          /\ UNCHANGED <<m_packet, mouse_down, mouse_just_pressed, pc>>
  <2>1. CASE m_packet' = Append(m_packet, b) /\ l = 0 /\ ~b.sync
    <3>1. CASE desk = "OS1"
      BY <1>1, <1>3, <1>4, <2>1, <3>1 DEF InPhase
    <3>2. CASE desk = "OS2"
      <4>1. UNCHANGED m_packet
        BY <1>2, <1>3, <2>1, <3>2 DEF MouseByteOs2
      <4>2. Append(m_packet, b) # <<>>
        <5>1. Len(Append(m_packet, b)) = 1
          BY <1>3, <2>1
        <5>2. Len(<<>>) = 0 /\ 1 # 0
          OBVIOUS
        <5>. QED
          BY <5>1, <5>2, Zenon
      <4>. QED
        BY <1>3, <2>1, <4>1, <4>2
    <3>. QED
      BY <3>1, <3>2 DEF LoopTypes
  <2>. QED
    BY <1>2, <2>1, MouseByteIs
<1>. QED
  BY <1>6, <1>7, <1>8, <1>9, <1>10

LEMMA MouseRests ==
  ASSUME LoopTypes, LoopTypes', MouseInv,
         UNCHANGED <<desk, queue, presses, m_packet, mouse_down>>,
         devices'.plain = devices.plain, devices'.in_step = devices.in_step,
         devices'.byte = devices.byte, devices'.left = devices.left,
         taken' + Untaken' <= taken + Untaken
  PROVE  MouseInv'
<1>1. SUFFICES ASSUME InPhase PROVE \E h : (MouseHistory(h) /\ InHand(h[1]))'
  BY DEF MouseInv, InPhase
<1>2. PICK h : MouseHistory(h) /\ InHand(h[1])
  BY <1>1 DEF MouseInv
<1>3. MouseHistory(h)'
  BY <1>2 DEF MouseHistory
<1>4. h[1] \in Past
  <2>1. 1 \in 1 .. Len(queue) + 1
    BY DEF LoopTypes
  <2>. QED
    BY <1>2, <2>1 DEF MouseHistory
<1>5. InHand(h[1])'
  BY <1>2, <1>4, InHandRests
<1>. QED
  BY <1>3, <1>5

LEMMA MouseSendsKept ==
  ASSUME LoopTypes, LoopTypes', MouseInv, MouseSends \/ KeyboardSends
  PROVE  MouseInv'
<1>0. /\ UNCHANGED <<desk, pc, m_packet, mouse_down, mouse_just_pressed, taken>>
      /\ devices'.plain = devices.plain /\ devices'.in_step = devices.in_step
  <2>1. CASE MouseSends
    BY <2>1, MouseSendsIs DEF MouseSends, polling
  <2>2. CASE KeyboardSends
    BY <2>2, KeyboardSendsIs DEF KeyboardSends, polling
  <2>. QED
    BY <2>1, <2>2
<1>1. SUFFICES ASSUME InPhase PROVE \E h : (MouseHistory(h) /\ InHand(h[1]))'
  BY <1>0 DEF MouseInv, InPhase
<1>2. PICK h : MouseHistory(h) /\ InHand(h[1])
  BY <1>1 DEF MouseInv
<1>3. /\ Len(queue) \in Nat /\ devices \in Devices /\ devices' \in Devices
      /\ presses \in Nat /\ presses' \in Nat
  BY DEF LoopTypes
<1>4. h[1] \in Past /\ h[Len(queue) + 1] = [byte |-> devices.byte,
          left |-> devices.left, presses |-> presses]
  <2>1. 1 \in 1 .. Len(queue) + 1
    BY <1>3
  <2>. QED
    BY <1>2, <2>1 DEF MouseHistory
<1>5. InHand(h[1])'
  <2>1. taken' + Untaken' <= taken + Untaken
    <3>1. taken \in Nat /\ Untaken \in Nat
      BY DEF LoopTypes, Untaken, Count
    <3>2. taken' = taken /\ Untaken' = Untaken
      BY <1>0 DEF Untaken
    <3>. QED
      BY <3>1, <3>2
  <2>. QED
    BY <1>0, <1>2, <1>4, <2>1, InHandRests
<1>6. PICK s : s = [byte |-> devices'.byte, left |-> devices'.left,
                    presses |-> presses']
  OBVIOUS
<1>7. s \in Past
  BY <1>3, <1>6 DEF Past, Devices
<1>8. \E g : MouseHistory(g)' /\ g[1] = h[1]
  <2>1. CASE MouseSends
    <3>1. PICK bit \in BOOLEAN :
            /\ devices.byte # 1 /\ devices.plain => ~bit
            /\ Sent(bit) \in MouseBytes
            /\ queue' = Append(queue, Sent(bit))
            /\ devices'.byte = (devices.byte % 3) + 1
            /\ devices'.left = IF devices.byte = 1 THEN bit ELSE devices.left
            /\ presses' = IF devices.byte = 1 /\ bit /\ ~devices.left
                          THEN presses + 1 ELSE presses
      BY <2>1, MouseSendsIs
    <3>2. PICK b \in MouseBytes : b = Sent(bit)
      BY <3>1
    <3>3. /\ b.aux /\ b.n = devices.byte /\ b.left = bit
          /\ b.sync = (bit \/ devices.byte = 1)
      BY <3>2 DEF Sent
    <3>4. s = AfterByte(h[Len(queue) + 1], b.left)
      BY <1>4, <1>6, <3>1, <3>3 DEF AfterByte
    <3>5. devices.plain /\ b.n # 1 => ~b.sync
      BY <3>1, <3>3
    <3>6. presses <= presses'
      BY <1>3, <3>1
    <3>. QED
      BY <1>0, <1>2, <1>6, <1>7, <3>1, <3>2, <3>3, <3>4, <3>5, <3>6, HistoryGrows
  <2>2. CASE KeyboardSends
    <3>1. PICK b \in KeyBytes : queue' = Append(queue, b)
      BY <2>2, KeyboardSendsIs
    <3>2. ~b.aux
      BY DEF KeyBytes
    <3>3. presses' = presses
      BY <2>2 DEF KeyboardSends
    <3>4. s = h[Len(queue) + 1] /\ presses <= presses'
      BY <1>3, <1>4, <1>6, <2>2, <3>3, KeyboardSendsIs
    <3>. QED
      BY <1>0, <1>2, <1>6, <1>7, <3>1, <3>2, <3>4, HistoryGrows
  <2>. QED
    BY <2>1, <2>2
<1>. QED
  BY <1>5, <1>8

LEMMA MouseReadKept ==
  ASSUME LoopTypes, LoopTypes', MouseInv, Read
  PROVE  MouseInv'
<1>0. /\ queue # <<>> /\ queue' = Tail(queue) /\ pc = "poll"
      /\ UNCHANGED <<desk, devices, presses, taken>>
  BY ReadIs
<1>1. SUFFICES ASSUME InPhase PROVE \E h : (MouseHistory(h) /\ InHand(h[1]))'
  BY <1>0 DEF MouseInv, InPhase
<1>2. PICK h : MouseHistory(h) /\ InHand(h[1])
  BY <1>1 DEF MouseInv
<1>3. 1 \in 1 .. Len(queue) /\ 1 \in 1 .. Len(queue) + 1 /\ 1 + 1 = 2
  BY <1>0, HeadIs DEF LoopTypes
<1>4. h[1] \in Past
  BY <1>2, <1>3 DEF MouseHistory
<1>5. PICK g : MouseHistory(g)' /\ g[1] = h[2]
  BY <1>0, <1>2, HistoryMoves
<1>6. InHand(h[2])'
  <2>1. CASE queue[1] \in MouseBytes /\ queue[1].aux
    <3>1. PICK b \in MouseBytes : b = queue[1] /\ b.aux
      BY <2>1
    <3>2. b.n = h[1].byte /\ (devices.plain /\ b.n # 1 => ~b.sync)
          /\ h[2] = AfterByte(h[1], b.left)
      BY <1>2, <1>3, <3>1 DEF MouseHistory
    <3>. QED
      BY <1>1, <1>2, <1>4, <3>1, <3>2, InHandReads
  <2>2. CASE ~queue[1].aux /\ UNCHANGED <<m_packet, mouse_down, mouse_just_pressed, pc>>
    <3>1. h[2] = h[1]
      BY <1>2, <1>3, <2>2 DEF MouseHistory
    <3>2. taken' + Untaken' <= taken + Untaken
      <4>1. taken \in Nat /\ Untaken \in Nat
        BY DEF LoopTypes, Untaken, Count
      <4>2. taken' = taken /\ Untaken' = Untaken
        BY <1>0, <2>2 DEF Untaken
      <4>. QED
        BY <4>1, <4>2
    <3>. QED
      BY <1>0, <1>2, <1>4, <2>2, <3>1, <3>2, InHandRests
  <2>. QED
    BY <2>1, <2>2, ReadIs
<1>. QED
  BY <1>5, <1>6

LEMMA MouseKept ==
  LoopTypes /\ LoopTypes' /\ MouseInv /\ [InputNext]_inputVars => MouseInv'
<1> SUFFICES ASSUME LoopTypes, LoopTypes', MouseInv, [InputNext]_inputVars
             PROVE  MouseInv'
  OBVIOUS
<1>0. taken \in Nat /\ Untaken \in {0, 1}
      /\ (Untaken = 1 <=> mouse_just_pressed /\ pc # "apps")
  BY UntakenIs DEF LoopTypes
<1>1. CASE UserPressesKey
  <2>1. UNCHANGED <<desk, queue, pc, presses, m_packet, mouse_down, mouse_just_pressed,
                    taken>>
    BY <1>1 DEF UserPressesKey, polling
  <2>2. taken' = taken /\ Untaken' = Untaken
    BY <2>1 DEF Untaken
  <2>3. taken' + Untaken' <= taken + Untaken
    BY <1>0, <2>2
  <2>. QED
    BY <1>1, <2>1, <2>3, UserPressesKeyIs, MouseRests
<1>2. ASSUME UNCHANGED <<desk, queue, devices, presses, m_packet, mouse_down>>,
             taken' + Untaken' <= taken + Untaken
      PROVE  MouseInv'
  BY <1>2, MouseRests
<1>3. CASE PollEnds \/ Keys
  <2>1. /\ UNCHANGED <<desk, queue, devices, presses, m_packet, mouse_down, taken,
                       mouse_just_pressed>>
        /\ pc # "apps" /\ pc' # "apps"
    BY <1>3 DEF PollEnds, Keys, polling
  <2>2. Untaken' = Untaken
    BY <2>1 DEF Untaken
  <2>3. taken' + Untaken' <= taken + Untaken
    BY <1>0, <2>1, <2>2
  <2>. QED
    BY <1>2, <2>1, <2>3
<1>4. CASE Mouse
  <2>1. /\ UNCHANGED <<desk, queue, devices, presses, m_packet, mouse_down>>
        /\ pc = "mouse" /\ pc' = "apps"
        /\ taken' = IF mouse_just_pressed THEN taken + 1 ELSE taken
    BY <1>4 DEF Mouse, polling
  <2>2. Untaken' = 0
    BY <2>1 DEF Untaken, Count
  <2>3. Untaken = IF mouse_just_pressed THEN 1 ELSE 0
    BY <2>1, <1>0
  <2>4. taken' + Untaken' <= taken + Untaken
    BY <1>0, <2>1, <2>2, <2>3
  <2>. QED
    BY <1>2, <2>1, <2>4
<1>5. CASE AppsDraw
  <2>1. /\ UNCHANGED <<desk, queue, devices, presses, m_packet, mouse_down, taken>>
        /\ pc = "apps" /\ mouse_just_pressed' = FALSE
    BY <1>5 DEF AppsDraw
  <2>2. Untaken' = 0
    BY <2>1 DEF Untaken, Count
  <2>3. taken' + Untaken' <= taken + Untaken
    BY <1>0, <2>1, <2>2
  <2>. QED
    BY <1>2, <2>1, <2>3
<1>6. CASE UNCHANGED inputVars
  <2>1. UNCHANGED <<desk, queue, devices, presses, m_packet, mouse_down, taken, pc,
                    mouse_just_pressed>>
    BY <1>6 DEF inputVars, polling
  <2>2. Untaken' = Untaken
    BY <2>1 DEF Untaken
  <2>3. taken' + Untaken' <= taken + Untaken
    BY <1>0, <2>1, <2>2
  <2>. QED
    BY <1>2, <2>1, <2>3
<1>. QED
  BY <1>1, <1>3, <1>4, <1>5, <1>6, MouseSendsKept, MouseReadKept
     DEF InputNext, Frame, Read

-----------------------------------------------------------------------------
(* Input: shift                                                            *)

LEMMA ComingIs ==
  ASSUME LoopTypes
  PROVE  /\ Len(queue) \in Nat /\ Len(devices.sends) \in Nat /\ ComingLen \in Nat
         /\ ComingLen = Len(queue) + Len(devices.sends)
         /\ DOMAIN Coming = 1 .. ComingLen
         /\ \A k \in 1 .. Len(queue) : Coming[k] = queue[k]
         /\ \A j \in 1 .. Len(devices.sends) :
              Coming[Len(queue) + j] = [aux |-> FALSE, code |-> devices.sends[j]]
<1>1. Len(queue) \in Nat /\ Len(devices.sends) \in Nat
  BY DevicesAre DEF LoopTypes
<1>2. \A j \in 1 .. Len(devices.sends) :
        /\ Len(queue) + j \in 1 .. Len(queue) + Len(devices.sends)
        /\ ~(Len(queue) + j <= Len(queue)) /\ Len(queue) + j - Len(queue) = j
  BY <1>1
<1>3. \A k \in 1 .. Len(queue) :
        k \in 1 .. Len(queue) + Len(devices.sends) /\ k <= Len(queue)
  BY <1>1
<1>. QED
  BY <1>1, <1>2, <1>3 DEF Coming, ComingLen

(* The same codes under way, and the driver where it was.                  *)
LEMMA KeysRest ==
  ASSUME KeyInv, UNCHANGED <<desk, is_ext, key_shift>>, devices'.shift = devices.shift,
         ComingLen' = ComingLen, \A k \in 1 .. ComingLen : Coming'[k] = Coming[k]
  PROVE  KeyInv'
<1>. SUFFICES ASSUME desk = "OS1" PROVE \E g : KeyHistory(g)'
  BY DEF KeyInv
<1>1. PICK g : KeyHistory(g)
  BY DEF KeyInv
<1>2. \A k \in 1 .. ComingLen : IsKey(k)' = IsKey(k)
  BY DEF IsKey
<1>3. KeyHistory(g)'
  BY <1>1, <1>2 DEF KeyHistory
<1>. QED
  BY <1>3

(* A byte of the mouse comes between the codes that are in the queue and   *)
(* those that the keyboard has still to send.                              *)
LEMMA KeysMouseSends ==
  ASSUME LoopTypes, LoopTypes', KeyInv, MouseSends
  PROVE  KeyInv'
<1>0. /\ UNCHANGED <<desk, is_ext, key_shift>>
      /\ devices'.shift = devices.shift /\ devices'.sends = devices.sends
  BY MouseSendsIs DEF MouseSends, polling
<1>. SUFFICES ASSUME desk = "OS1" PROVE \E g : KeyHistory(g)'
  BY <1>0 DEF KeyInv
<1>1. PICK g : KeyHistory(g)
  BY DEF KeyInv
<1>2. PICK b \in MouseBytes : queue' = Append(queue, b) /\ b.aux
  BY MouseSendsIs DEF Sent
<1>17. PICK q \in Nat, m \in Nat, n \in Nat :
          q = Len(queue) /\ m = Len(devices.sends) /\ n = q + m /\ n = ComingLen
  BY ComingIs
<1>3. q \in Nat /\ n \in Nat /\ m \in Nat /\ q <= n /\ n = q + m
  BY <1>17
<1>4. /\ Len(queue') = q + 1 /\ queue'[q + 1] = b
      /\ \A k \in 1 .. q : queue'[k] = queue[k]
  BY <1>2, <1>17 DEF LoopTypes
<1>5. ComingLen' = n + 1
  <2>1. ComingLen' = Len(queue') + Len(devices'.sends)
    BY DEF ComingLen
  <2>2. ComingLen' = (q + 1) + m
    BY <1>0, <1>4, <1>17, <2>1
  <2>. QED
    BY <1>3, <2>2
<1>6. PICK c2 : c2 = Coming'
  OBVIOUS
<1>7. c2 = [k \in 1 .. (q + 1) + m |->
              IF k <= q + 1 THEN queue'[k]
              ELSE [aux |-> FALSE, code |-> devices.sends[k - (q + 1)]]]
  BY <1>0, <1>4, <1>6, <1>17 DEF Coming
<1>8. PICK c : c = Coming
  OBVIOUS
<1>9. c = [k \in 1 .. q + m |->
             IF k <= q THEN queue[k]
             ELSE [aux |-> FALSE, code |-> devices.sends[k - q]]]
  BY <1>8, <1>17 DEF Coming
<1>10. /\ \A k \in 1 .. q : c2[k] = c[k]
       /\ c2[q + 1] = b
       /\ \A k \in q + 2 .. n + 1 : c2[k] = c[k - 1]
  <2>1. ASSUME NEW k \in 1 .. q PROVE c2[k] = c[k]
    <3>1. k \in 1 .. (q + 1) + m /\ k <= q + 1 /\ k \in 1 .. q + m /\ k <= q
      BY <1>3
    <3>. QED
      BY <1>4, <1>7, <1>9, <3>1
  <2>2. c2[q + 1] = b
    <3>1. q + 1 \in 1 .. (q + 1) + m /\ q + 1 <= q + 1
      BY <1>3
    <3>. QED
      BY <1>4, <1>7, <3>1
  <2>3. ASSUME NEW k \in q + 2 .. n + 1 PROVE c2[k] = c[k - 1]
    <3>1. /\ k \in 1 .. (q + 1) + m /\ ~(k <= q + 1)
          /\ k - 1 \in 1 .. q + m /\ ~(k - 1 <= q)
          /\ k - (q + 1) = k - 1 - q
      BY <1>3
    <3>. QED
      BY <1>7, <1>9, <3>1
  <2>. QED
    BY <2>1, <2>2, <2>3
<1>11. PICK g2 : g2 = [k \in 1 .. n + 2 |-> IF k <= q + 1 THEN g[k] ELSE g[k - 1]]
  OBVIOUS
<1>12. /\ g \in [1 .. n + 1 -> KeyState]
       /\ g[1] = [ext |-> is_ext, shift |-> key_shift]
       /\ g[n + 1] = [ext |-> FALSE, shift |-> devices.shift]
       /\ \A k \in 1 .. n :
            g[k + 1] = IF ~c[k].aux THEN KeyStep(g[k], c[k].code) ELSE g[k]
  BY <1>1, <1>8, <1>17 DEF KeyHistory, IsKey
<1>13. /\ g2 \in [1 .. n + 2 -> KeyState]
       /\ \A k \in 1 .. q + 1 : g2[k] = g[k]
       /\ \A k \in q + 2 .. n + 2 : g2[k] = g[k - 1]
  <2>1. \A k \in 1 .. n + 2 : /\ k <= q + 1 => k \in 1 .. n + 1
                              /\ ~(k <= q + 1) => k - 1 \in 1 .. n + 1
    BY <1>3
  <2>2. /\ \A k \in 1 .. q + 1 : k \in 1 .. n + 2 /\ k <= q + 1
        /\ \A k \in q + 2 .. n + 2 : k \in 1 .. n + 2 /\ ~(k <= q + 1)
    BY <1>3
  <2>. QED
    BY <1>11, <1>12, <2>1, <2>2
<1>14. g2[1] = g[1] /\ g2[n + 2] = g[n + 1]
  <2>1. 1 \in 1 .. q + 1 /\ n + 2 \in q + 2 .. n + 2 /\ n + 2 - 1 = n + 1
    BY <1>3
  <2>. QED
    BY <1>13, <2>1
<1>15. \A k \in 1 .. n + 1 :
         g2[k + 1] = IF ~c2[k].aux THEN KeyStep(g2[k], c2[k].code) ELSE g2[k]
  <2>. SUFFICES ASSUME NEW k \in 1 .. n + 1
                PROVE  g2[k + 1] = IF ~c2[k].aux THEN KeyStep(g2[k], c2[k].code) ELSE g2[k]
    OBVIOUS
  <2>1. CASE k \in 1 .. q
    <3>1. k \in 1 .. n /\ k \in 1 .. q + 1 /\ k + 1 \in 1 .. q + 1
      BY <1>3, <2>1
    <3>2. g2[k] = g[k] /\ g2[k + 1] = g[k + 1] /\ c2[k] = c[k]
      BY <1>10, <1>13, <2>1, <3>1
    <3>. QED
      BY <1>12, <3>1, <3>2
  <2>2. CASE k = q + 1
    <3>1. k \in 1 .. q + 1 /\ k + 1 \in q + 2 .. n + 2 /\ k + 1 - 1 = k
      BY <1>3, <2>2
    <3>2. g2[k] = g[k] /\ g2[k + 1] = g[k] /\ c2[k] = b
      BY <1>10, <1>13, <2>2, <3>1
    <3>. QED
      BY <1>2, <3>2
  <2>3. CASE k \in q + 2 .. n + 1
    <3>1. /\ k - 1 \in 1 .. n /\ k \in q + 2 .. n + 2 /\ k + 1 \in q + 2 .. n + 2
          /\ k + 1 - 1 = k - 1 + 1
      BY <1>3, <2>3
    <3>2. g2[k] = g[k - 1] /\ g2[k + 1] = g[k - 1 + 1] /\ c2[k] = c[k - 1]
      BY <1>10, <1>13, <2>3, <3>1
    <3>. QED
      BY <1>12, <3>1, <3>2
  <2>4. k \in 1 .. q \/ k = q + 1 \/ k \in q + 2 .. n + 1
    BY <1>3
  <2>. QED
    BY <2>1, <2>2, <2>3, <2>4
<1>16. KeyHistory(g2)'
  <2>1. ComingLen' + 1 = n + 2
    BY <1>3, <1>5
  <2>. QED
    BY <1>0, <1>5, <1>6, <1>12, <1>13, <1>14, <1>15, <2>1 DEF KeyHistory, IsKey
<1>. QED
  BY <1>16

LEMMA KeysKeyboardSends ==
  ASSUME LoopTypes, LoopTypes', KeyInv, KeyboardSends
  PROVE  KeyInv'
<1>1. /\ UNCHANGED <<desk, is_ext, key_shift>> /\ devices.sends # <<>>
      /\ devices'.shift = devices.shift /\ devices'.sends = Tail(devices.sends)
      /\ queue' = Append(queue, [aux |-> FALSE, code |-> Head(devices.sends)])
  BY KeyboardSendsIs DEF KeyboardSends, polling
<1> DEFINE s == devices.sends
<1>9. PICK q \in Nat, m \in Nat : q = Len(queue) /\ m = Len(s)
  BY ComingIs
<1>2. /\ s \in Seq(Codes) /\ Len(s) \in Nat /\ Len(s) >= 1 /\ Head(s) = s[1]
      /\ Len(Tail(s)) = Len(s) - 1 /\ \A j \in 1 .. Len(s) - 1 : Tail(s)[j] = s[j + 1]
  BY <1>1, DevicesAre DEF LoopTypes
<1>3. /\ Len(queue') = q + 1
      /\ queue'[q + 1] = [aux |-> FALSE, code |-> s[1]]
      /\ \A k \in 1 .. q : queue'[k] = queue[k]
  BY <1>1, <1>2, <1>9 DEF LoopTypes
<1>10. q \in Nat /\ m \in Nat /\ m >= 1
  BY <1>2, <1>9
<1>4. ComingLen' = ComingLen /\ ComingLen = q + m
  <2>1. ComingLen' = Len(queue') + Len(devices'.sends) /\ ComingLen = q + m
    BY <1>9 DEF ComingLen
  <2>2. ComingLen' = (q + 1) + (m - 1)
    BY <1>1, <1>2, <1>3, <1>9, <2>1
  <2>. QED
    BY <1>10, <2>1, <2>2
<1>5. PICK c2 : c2 = Coming'
  OBVIOUS
<1>6. c2 = [k \in 1 .. (q + 1) + (m - 1) |->
              IF k <= q + 1 THEN queue'[k]
              ELSE [aux |-> FALSE, code |-> Tail(s)[k - (q + 1)]]]
  BY <1>1, <1>2, <1>3, <1>5, <1>9 DEF Coming
<1>7. Coming = [k \in 1 .. q + m |->
                  IF k <= q THEN queue[k] ELSE [aux |-> FALSE, code |-> s[k - q]]]
  BY <1>9 DEF Coming
<1>8. ASSUME NEW k \in 1 .. q + m PROVE c2[k] = Coming[k]
  <2>1. k \in 1 .. (q + 1) + (m - 1)
    BY <1>10
  <2>2. CASE k <= q
    <3>1. k \in 1 .. q /\ k <= q + 1
      BY <1>10, <2>2
    <3>. QED
      BY <1>3, <1>6, <1>7, <2>1, <2>2, <3>1
  <2>3. CASE k = q + 1
    <3>1. k <= q + 1 /\ ~(k <= q) /\ k - q = 1
      BY <1>10, <2>3
    <3>. QED
      BY <1>3, <1>6, <1>7, <2>1, <2>3, <3>1
  <2>4. CASE k > q + 1
    <3>1. /\ ~(k <= q + 1) /\ ~(k <= q) /\ k - (q + 1) \in 1 .. m - 1
          /\ k - (q + 1) + 1 = k - q
      BY <1>10, <2>4
    <3>. QED
      BY <1>2, <1>6, <1>7, <1>9, <2>1, <3>1
  <2>. QED
    BY <1>10, <2>2, <2>3, <2>4
<1>. QED
  BY <1>1, <1>4, <1>5, <1>8, KeysRest

LEMMA KeysRead ==
  ASSUME LoopTypes, LoopTypes', KeyInv, Read
  PROVE  KeyInv'
<1>1. /\ queue # <<>> /\ queue' = Tail(queue)
      /\ UNCHANGED <<desk, devices, presses, taken>>
  BY ReadIs
<1>. SUFFICES ASSUME desk = "OS1" PROVE \E g : KeyHistory(g)'
  BY <1>1 DEF KeyInv
<1>2. PICK g : KeyHistory(g)
  BY DEF KeyInv
<1>3. PICK q \in Nat, m \in Nat, n \in Nat :
         q = Len(queue) /\ m = Len(devices.sends) /\ n = q + m /\ n = ComingLen
  BY ComingIs
<1>4. /\ q >= 1 /\ Len(queue') = q - 1
      /\ \A k \in 1 .. q - 1 : queue'[k] = queue[k + 1]
      /\ queue[1] \in MouseBytes \cup KeyBytes
  BY <1>1, <1>3, HeadIs DEF LoopTypes
<1>5. q \in Nat /\ m \in Nat /\ n \in Nat /\ n = q + m
  BY <1>3
<1>6. ComingLen' = n - 1
  <2>1. ComingLen' = (q - 1) + m
    BY <1>1, <1>3, <1>4 DEF ComingLen
  <2>. QED
    BY <1>5, <2>1
<1>7. PICK c2 : c2 = Coming'
  OBVIOUS
<1>8. c2 = [k \in 1 .. (q - 1) + m |->
              IF k <= q - 1 THEN queue'[k]
              ELSE [aux |-> FALSE, code |-> devices.sends[k - (q - 1)]]]
  BY <1>1, <1>3, <1>4, <1>7 DEF Coming
<1>9. PICK c : c = Coming
  OBVIOUS
<1>10. c = [k \in 1 .. q + m |->
              IF k <= q THEN queue[k]
              ELSE [aux |-> FALSE, code |-> devices.sends[k - q]]]
  BY <1>3, <1>9 DEF Coming
<1>11. c[1] = queue[1]
  <2>1. 1 \in 1 .. q + m /\ 1 <= q
    BY <1>4, <1>5
  <2>. QED
    BY <1>10, <2>1
<1>12. ASSUME NEW k \in 1 .. n - 1 PROVE c2[k] = c[k + 1]
  <2>1. k \in 1 .. (q - 1) + m /\ k + 1 \in 1 .. q + m
    BY <1>5
  <2>2. CASE k <= q - 1
    <3>1. k + 1 <= q /\ k \in 1 .. q - 1
      BY <1>5, <2>2
    <3>2. c2[k] = queue'[k]
      BY <1>8, <2>1, <2>2
    <3>3. c[k + 1] = queue[k + 1]
      BY <1>10, <2>1, <3>1
    <3>. QED
      BY <1>4, <3>1, <3>2, <3>3
  <2>3. CASE ~(k <= q - 1)
    <3>1. ~(k + 1 <= q) /\ k - (q - 1) = k + 1 - q
      BY <1>5, <2>3
    <3>2. c2[k] = [aux |-> FALSE, code |-> devices.sends[k - (q - 1)]]
      BY <1>8, <2>1, <2>3
    <3>3. c[k + 1] = [aux |-> FALSE, code |-> devices.sends[k + 1 - q]]
      BY <1>10, <2>1, <3>1
    <3>. QED
      BY <3>1, <3>2, <3>3
  <2>. QED
    BY <2>2, <2>3
<1>13. /\ g \in [1 .. n + 1 -> KeyState]
       /\ g[1] = [ext |-> is_ext, shift |-> key_shift]
       /\ g[n + 1] = [ext |-> FALSE, shift |-> devices.shift]
       /\ \A k \in 1 .. n :
            g[k + 1] = IF ~c[k].aux THEN KeyStep(g[k], c[k].code) ELSE g[k]
  BY <1>2, <1>3, <1>9 DEF KeyHistory, IsKey
<1>14. g[2] = [ext |-> is_ext', shift |-> key_shift']
  <2>1. 1 \in 1 .. n /\ 1 + 1 = 2
    BY <1>4, <1>5
  <2>2. g[2] = IF ~queue[1].aux THEN KeyStep(g[1], queue[1].code) ELSE g[1]
    BY <1>11, <1>13, <2>1
  <2>3. CASE queue[1].aux /\ UNCHANGED <<is_ext, key_shift>>
    BY <1>13, <2>2, <2>3
  <2>4. CASE ~queue[1].aux /\ KeyByteOs1(queue[1].code)
    <3>1. [ext |-> is_ext', shift |-> key_shift'] =
            KeyStep([ext |-> is_ext, shift |-> key_shift], queue[1].code)
      BY <2>4, KeyByteIs
    <3>. QED
      BY <1>13, <2>2, <2>4, <3>1
  <2>. QED
    BY <2>3, <2>4, ReadIs
<1>15. PICK g2 : g2 = [k \in 1 .. n |-> g[k + 1]]
  OBVIOUS
<1>16. /\ g2 \in [1 .. n -> KeyState] /\ \A k \in 1 .. n : g2[k] = g[k + 1]
  <2>1. \A k \in 1 .. n : k + 1 \in 1 .. n + 1
    BY <1>5
  <2>. QED
    BY <1>13, <1>15, <2>1
<1>17. g2[1] = g[2] /\ g2[n] = g[n + 1]
  <2>1. 1 \in 1 .. n /\ n \in 1 .. n /\ 1 + 1 = 2
    BY <1>4, <1>5
  <2>. QED
    BY <1>16, <2>1
<1>18. \A k \in 1 .. n - 1 :
         g2[k + 1] = IF ~c2[k].aux THEN KeyStep(g2[k], c2[k].code) ELSE g2[k]
  <2>1. \A k \in 1 .. n - 1 : k \in 1 .. n /\ k + 1 \in 1 .. n
    BY <1>5
  <2>. QED
    BY <1>12, <1>13, <1>16, <2>1
<1>19. KeyHistory(g2)'
  <2>1. ComingLen' + 1 = n
    BY <1>5, <1>6
  <2>. QED
    BY <1>1, <1>6, <1>7, <1>13, <1>14, <1>16, <1>17, <1>18, <2>1 DEF KeyHistory, IsKey
<1>. QED
  BY <1>19

(* A key is pressed: its codes come last, and lead from one state of shift *)
(* to the next.                                                            *)
LEMMA KeysAppended ==
  ASSUME LoopTypes, LoopTypes', KeyInv, UNCHANGED <<desk, queue, is_ext, key_shift>>,
         devices.sends = <<>>,
         NEW l \in Nat, l = Len(devices'.sends),
         NEW t, t \in [0 .. l -> KeyState],
         t[0] = [ext |-> FALSE, shift |-> devices.shift],
         t[l] = [ext |-> FALSE, shift |-> devices'.shift],
         \A j \in 1 .. l : t[j] = KeyStep(t[j - 1], devices'.sends[j])
  PROVE  KeyInv'
<1>. SUFFICES ASSUME desk = "OS1" PROVE \E g : KeyHistory(g)'
  BY DEF KeyInv
<1>1. PICK g : KeyHistory(g)
  BY DEF KeyInv
<1>2. PICK n \in Nat : n = Len(queue)
  BY DEF LoopTypes
<1>3. ComingLen = n
  <2>1. Len(devices.sends) = 0
    OBVIOUS
  <2>. QED
    BY <1>2, <2>1 DEF ComingLen
<1>4. ComingLen' = n + l
  BY <1>2 DEF ComingLen
<1>5. PICK c : c = Coming
  OBVIOUS
<1>6. PICK c2 : c2 = Coming'
  OBVIOUS
<1>7. \A k \in 1 .. n : c[k] = queue[k]
  BY <1>2, <1>5, ComingIs
<1>8. c2 = [k \in 1 .. n + l |->
              IF k <= n THEN queue[k]
              ELSE [aux |-> FALSE, code |-> devices'.sends[k - n]]]
  BY <1>2, <1>6 DEF Coming
<1>9. \A k \in 1 .. n : c2[k] = c[k]
  <2>1. \A k \in 1 .. n : k \in 1 .. n + l /\ k <= n
    OBVIOUS
  <2>. QED
    BY <1>7, <1>8, <2>1
<1>10. \A k \in n + 1 .. n + l : ~c2[k].aux /\ c2[k].code = devices'.sends[k - n]
  <2>1. \A k \in n + 1 .. n + l : k \in 1 .. n + l /\ ~(k <= n)
    OBVIOUS
  <2>. QED
    BY <1>8, <2>1
<1>11. /\ g \in [1 .. n + 1 -> KeyState]
       /\ g[1] = [ext |-> is_ext, shift |-> key_shift]
       /\ g[n + 1] = [ext |-> FALSE, shift |-> devices.shift]
       /\ \A k \in 1 .. n :
            g[k + 1] = IF ~c[k].aux THEN KeyStep(g[k], c[k].code) ELSE g[k]
  BY <1>1, <1>3, <1>5 DEF KeyHistory, IsKey
<1>12. PICK g2 : g2 = [k \in 1 .. n + l + 1 |->
                         IF k <= n + 1 THEN g[k] ELSE t[k - (n + 1)]]
  OBVIOUS
<1>13. /\ g2 \in [1 .. n + l + 1 -> KeyState]
       /\ \A k \in 1 .. n + 1 : g2[k] = g[k]
       /\ \A k \in n + 1 .. n + l + 1 : g2[k] = t[k - (n + 1)]
  <2>1. \A k \in 1 .. n + l + 1 : /\ k <= n + 1 => k \in 1 .. n + 1
                                  /\ ~(k <= n + 1) => k - (n + 1) \in 0 .. l
    OBVIOUS
  <2>2. \A k \in 1 .. n + 1 : k \in 1 .. n + l + 1 /\ k <= n + 1
    OBVIOUS
  <2>3. \A k \in n + 1 .. n + l + 1 : /\ k \in 1 .. n + l + 1
                                      /\ k <= n + 1 => k = n + 1 /\ k - (n + 1) = 0
    OBVIOUS
  <2>. QED
    BY <1>11, <1>12, <2>1, <2>2, <2>3
<1>14. g2[1] = g[1] /\ g2[n + l + 1] = t[l]
  <2>1. 1 \in 1 .. n + 1 /\ n + l + 1 \in n + 1 .. n + l + 1 /\ n + l + 1 - (n + 1) = l
    OBVIOUS
  <2>. QED
    BY <1>13, <2>1
<1>15. ASSUME NEW k \in 1 .. n + l
       PROVE  g2[k + 1] = IF ~c2[k].aux THEN KeyStep(g2[k], c2[k].code) ELSE g2[k]
  <2>1. CASE k <= n
    <3>1. k \in 1 .. n /\ k \in 1 .. n + 1 /\ k + 1 \in 1 .. n + 1
      BY <2>1
    <3>. QED
      BY <1>9, <1>11, <1>13, <3>1
  <2>2. CASE ~(k <= n)
    <3>1. /\ k \in n + 1 .. n + l /\ k \in n + 1 .. n + l + 1 /\ k + 1 \in n + 1 .. n + l + 1
          /\ k - n \in 1 .. l /\ k + 1 - (n + 1) = k - n /\ k - (n + 1) = k - n - 1
      BY <2>2
    <3>2. g2[k] = t[k - n - 1] /\ g2[k + 1] = t[k - n]
      BY <1>13, <3>1
    <3>3. t[k - n] = KeyStep(t[k - n - 1], devices'.sends[k - n])
      BY <3>1
    <3>. QED
      BY <1>10, <3>1, <3>2, <3>3
  <2>. QED
    BY <2>1, <2>2
<1>16. KeyHistory(g2)'
  BY <1>4, <1>6, <1>11, <1>13, <1>14, <1>15 DEF KeyHistory, IsKey
<1>. QED
  BY <1>16

LEMMA KeysUserPresses ==
  ASSUME LoopTypes, LoopTypes', KeyInv, UserPressesKey
  PROVE  KeyInv'
<1>1. /\ UNCHANGED <<desk, queue, is_ext, key_shift>> /\ devices.sends = <<>>
  BY UserPressesKeyIs DEF UserPressesKey, polling
<1>2. PICK b \in BOOLEAN : b = devices.shift
  BY DevicesAre DEF LoopTypes
<1>3. CASE \E w \in HotApps : devices'.sends = <<w, "release">> /\ devices'.shift = b
  <2>1. PICK w \in HotApps : devices'.sends = <<w, "release">> /\ devices'.shift = b
    BY <1>3
  <2>2. PICK t : t = [j \in 0 .. 2 |-> [ext |-> FALSE, shift |-> b]]
    OBVIOUS
  <2>3. w \notin OtherCodes
    BY InputConstants
  <2>4. t \in [0 .. 2 -> KeyState] /\ t[0] = [ext |-> FALSE, shift |-> b]
        /\ t[2] = [ext |-> FALSE, shift |-> b]
    BY <2>2 DEF KeyState
  <2>5. \A j \in 1 .. 2 : t[j] = KeyStep(t[j - 1], devices'.sends[j])
    <3>1. KeyStep([ext |-> FALSE, shift |-> b], w) = [ext |-> FALSE, shift |-> b]
      BY <2>3 DEF KeyStep, OtherCodes
    <3>2. KeyStep([ext |-> FALSE, shift |-> b], "release") = [ext |-> FALSE, shift |-> b]
      BY DEF KeyStep
    <3>3. devices'.sends[1] = w /\ devices'.sends[2] = "release"
      BY <2>1
    <3>4. t[0] = [ext |-> FALSE, shift |-> b] /\ t[1] = [ext |-> FALSE, shift |-> b]
          /\ t[2] = [ext |-> FALSE, shift |-> b]
      BY <2>2
    <3>5. \A j \in 1 .. 2 : (j = 1 /\ j - 1 = 0) \/ (j = 2 /\ j - 1 = 1)
      OBVIOUS
    <3>. QED
      BY <3>1, <3>2, <3>3, <3>4, <3>5
  <2>6. Len(devices'.sends) = 2
    BY <2>1
  <2>. QED
    BY <1>1, <1>2, <2>1, <2>4, <2>5, <2>6, KeysAppended
<1>4. CASE devices'.sends = ArrowBytes /\ devices'.shift = b
  <2>1. PICK l \in {4, 8} : l = Len(devices'.sends)
    BY <1>4 DEF ArrowBytes
  <2>2. PICK t : t = [j \in 0 .. l |-> [ext |-> j % 2 = 1, shift |-> b]]
    OBVIOUS
  <2>3. t \in [0 .. l -> KeyState]
    BY <2>2 DEF KeyState
  <2>4. t[0] = [ext |-> FALSE, shift |-> b] /\ t[l] = [ext |-> FALSE, shift |-> b]
    <3>1. 0 \in 0 .. l /\ l \in 0 .. l /\ (0 % 2 = 1) = FALSE /\ (l % 2 = 1) = FALSE
      OBVIOUS
    <3>. QED
      BY <2>2, <3>1
  <2>5. \A j \in 1 .. l :
          /\ j % 2 = 1 => devices'.sends[j] = "E0"
          /\ j % 2 = 0 => devices'.sends[j] \in {"arrow", "unarrow", "shift", "unshift"}
    <3>1. CASE devices.shift
      <4>1. devices'.sends =
              <<"E0", "unshift", "E0", "arrow", "E0", "unarrow", "E0", "shift">> /\ l = 8
        BY <1>4, <2>1, <3>1 DEF ArrowBytes
      <4>. QED
        BY <4>1
    <3>2. CASE ~devices.shift
      <4>1. devices'.sends = <<"E0", "arrow", "E0", "unarrow">> /\ l = 4
        BY <1>4, <2>1, <3>2 DEF ArrowBytes
      <4>. QED
        BY <4>1
    <3>. QED
      BY <3>1, <3>2
  <2>6. ASSUME NEW j \in 1 .. l PROVE t[j] = KeyStep(t[j - 1], devices'.sends[j])
    <3>1. j \in 0 .. l /\ j - 1 \in 0 .. l
      OBVIOUS
    <3>2. t[j] = [ext |-> j % 2 = 1, shift |-> b]
          /\ t[j - 1] = [ext |-> (j - 1) % 2 = 1, shift |-> b]
      BY <2>2, <3>1
    <3>3. CASE j % 2 = 1
      <4>1. devices'.sends[j] = "E0"
        BY <2>5, <3>3
      <4>2. (j % 2 = 1) = TRUE /\ ((j - 1) % 2 = 1) = FALSE
        BY <3>3
      <4>3. t[j] = [ext |-> TRUE, shift |-> b] /\ t[j - 1] = [ext |-> FALSE, shift |-> b]
        BY <3>2, <4>2
      <4>4. KeyStep([ext |-> FALSE, shift |-> b], "E0") = [ext |-> TRUE, shift |-> b]
        BY DEF KeyStep
      <4>. QED
        BY <4>1, <4>3, <4>4
    <3>4. CASE j % 2 = 0
      <4>1. devices'.sends[j] \in {"arrow", "unarrow", "shift", "unshift"}
        BY <2>5, <3>4
      <4>2. (j % 2 = 1) = FALSE /\ ((j - 1) % 2 = 1) = TRUE
        BY <3>4
      <4>3. t[j] = [ext |-> FALSE, shift |-> b] /\ t[j - 1] = [ext |-> TRUE, shift |-> b]
        BY <3>2, <4>2
      <4>4. ASSUME NEW c \in {"arrow", "unarrow", "shift", "unshift"}
            PROVE  KeyStep([ext |-> TRUE, shift |-> b], c) = [ext |-> FALSE, shift |-> b]
        BY DEF KeyStep
      <4>. QED
        BY <4>1, <4>3, <4>4
    <3>5. j % 2 = 0 \/ j % 2 = 1
      OBVIOUS
    <3>. QED
      BY <3>3, <3>4, <3>5
  <2>7. l \in Nat /\ devices'.shift = devices.shift
    BY <1>2, <1>4
  <2>. QED
    BY <1>1, <1>2, <2>1, <2>3, <2>4, <2>6, <2>7, KeysAppended
<1>5. CASE /\ devices'.shift = ~b
           /\ devices'.sends = <<IF b THEN "unshift" ELSE "shift">>
  <2>1. PICK t : t = [j \in 0 .. 1 |-> [ext |-> FALSE, shift |-> IF j = 0 THEN b ELSE ~b]]
    OBVIOUS
  <2>2. t \in [0 .. 1 -> KeyState]
    BY <2>1 DEF KeyState
  <2>3. t[0] = [ext |-> FALSE, shift |-> b] /\ t[1] = [ext |-> FALSE, shift |-> ~b]
    BY <2>1
  <2>4. Len(devices'.sends) = 1 /\ devices'.sends[1] = IF b THEN "unshift" ELSE "shift"
    BY <1>5
  <2>5. KeyStep([ext |-> FALSE, shift |-> b], IF b THEN "unshift" ELSE "shift")
          = [ext |-> FALSE, shift |-> ~b]
    BY DEF KeyStep
  <2>6. \A j \in 1 .. 1 : t[j] = KeyStep(t[j - 1], devices'.sends[j])
    <3>1. \A j \in 1 .. 1 : j = 1 /\ j - 1 = 0
      OBVIOUS
    <3>. QED
      BY <2>3, <2>4, <2>5, <3>1
  <2>. QED
    BY <1>1, <1>2, <1>5, <2>2, <2>3, <2>4, <2>6, KeysAppended
<1>. QED
  BY <1>2, <1>3, <1>4, <1>5, UserPressesKeyIs

LEMMA KeyKept ==
  LoopTypes /\ LoopTypes' /\ KeyInv /\ [InputNext]_inputVars => KeyInv'
<1> SUFFICES ASSUME LoopTypes, LoopTypes', KeyInv, [InputNext]_inputVars
             PROVE  KeyInv'
  OBVIOUS
<1>1. ASSUME UNCHANGED <<desk, queue, devices, is_ext, key_shift>> PROVE KeyInv'
  <2>1. ComingLen' = ComingLen /\ \A k \in 1 .. ComingLen : Coming'[k] = Coming[k]
    BY <1>1 DEF ComingLen, Coming
  <2>. QED
    BY <1>1, <2>1, KeysRest
<1>2. CASE PollEnds \/ Keys \/ Mouse \/ AppsDraw
  <2>1. UNCHANGED <<desk, queue, devices, is_ext, key_shift>>
    BY <1>2 DEF PollEnds, Keys, Mouse, AppsDraw, polling
  <2>. QED
    BY <1>1, <2>1
<1>3. CASE UNCHANGED inputVars
  <2>1. UNCHANGED <<desk, queue, devices, is_ext, key_shift>>
    BY <1>3 DEF inputVars, polling
  <2>. QED
    BY <1>1, <2>1
<1>. QED
  BY <1>2, <1>3, KeysRead, KeysMouseSends, KeysUserPresses, KeysKeyboardSends
     DEF InputNext, Frame, Read

-----------------------------------------------------------------------------
(* Input: the theorems                                                     *)

LEMMA InputBegins == InputInit => InputInv
<1> SUFFICES ASSUME InputInit PROVE InputInv
  OBVIOUS
<1>1. PICK user \in Users :
        devices = [packets |-> user.packets, keys |-> user.keys,
                   byte |-> user.first, plain |-> user.plain,
                   in_step |-> user.first = 1, endless |-> user.endless,
                   left |-> FALSE, shift |-> FALSE, sends |-> <<>>]
  BY DEF InputInit
<1>2. user \in [packets: Nat, keys: Nat, first: 1 .. 3, plain: BOOLEAN, endless: BOOLEAN]
  BY InputConstants
<1>3. devices \in Devices
  <2>1. <<>> \in Seq(Codes) /\ (user.first = 1) \in BOOLEAN
    OBVIOUS
  <2>. QED
    BY <1>1, <1>2, <2>1 DEF Devices
<1>4. /\ desk \in {"OS1", "OS2"} /\ queue = <<>> /\ pc = "poll" /\ polled = 0
      /\ m_packet = <<>> /\ mouse_down = FALSE /\ mouse_just_pressed = FALSE
      /\ is_ext = FALSE /\ key_shift = FALSE /\ input_cooldown = 0
      /\ open = {} /\ minimized = {} /\ drag_win = NoWindow /\ win_z = FirstOrder
      /\ presses = 0 /\ taken = 0
  BY DEF InputInit
<1>5. Len(queue) = 0 /\ Len(m_packet) = 0
  BY <1>4
<1>6. LoopTypes
  <2>1. queue \in Seq(MouseBytes \cup KeyBytes) /\ m_packet \in Seq(MouseBytes)
        /\ Len(m_packet) < 3
    BY <1>4, <1>5
  <2>2. input_cooldown \in 0 .. Cooldown /\ polled \in 0 .. PollLimit
    BY <1>4, InputConstants
  <2>3. presses \in Nat /\ taken \in Nat
    BY <1>4
  <2>4. /\ desk \in {"OS1", "OS2"} /\ pc \in {"poll", "keys", "mouse", "apps"}
        /\ mouse_down \in BOOLEAN /\ mouse_just_pressed \in BOOLEAN
        /\ is_ext \in BOOLEAN /\ key_shift \in BOOLEAN
    BY <1>4
  <2>. QED
    BY <1>3, <2>1, <2>2, <2>3, <2>4 DEF LoopTypes
<1>7. WindowTypes
  <2>1. FirstOrder \in [1 .. Depth -> Windows]
        /\ \A i, j \in 1 .. Depth : FirstOrder[i] = FirstOrder[j] => i = j
    BY InputConstants
  <2>. QED
    BY <1>4, <2>1 DEF WindowTypes, WinZOK
<1>8. MouseInv
  <2>1. PICK h : h = [k \in 1 .. 1 |-> [byte |-> devices.byte, left |-> FALSE,
                                        presses |-> 0]]
    OBVIOUS
  <2>2. devices.byte \in 1 .. 3 /\ devices.left = FALSE
        /\ (devices.in_step => devices.byte = 1)
    BY <1>1, <1>2
  <2>3. h[1] = [byte |-> devices.byte, left |-> FALSE, presses |-> 0]
    BY <2>1
  <2>4. MouseHistory(h)
    <3>1. Len(queue) + 1 = 1 /\ 1 .. Len(queue) = {} /\ \A k \in 1 .. 1 : k = 1
      BY <1>5
    <3>2. h \in [1 .. 1 -> Past]
      BY <2>1, <2>2 DEF Past
    <3>3. h[1].presses <= presses
      BY <1>4, <2>3
    <3>. QED
      BY <1>4, <2>2, <2>3, <3>1, <3>2, <3>3 DEF MouseHistory
  <2>5. InHand(h[1])
    <3>1. Untaken = 0
      BY <1>4 DEF Untaken, Count
    <3>2. 1 .. Len(m_packet) = {} /\ Len(m_packet) + 1 = 1
      BY <1>5
    <3>3. taken + Untaken <= h[1].presses
      BY <1>4, <2>3, <3>1
    <3>4. \A i \in 1 .. Len(m_packet) : m_packet[i].n = i
      BY <3>2
    <3>5. h[1].byte = devices.byte /\ h[1].left = FALSE
      BY <2>3
    <3>6. devices.in_step \/ m_packet # <<>> => h[1].byte = Len(m_packet) + 1
      BY <1>4, <2>2, <3>2, <3>5
    <3>. QED
      BY <1>4, <3>3, <3>4, <3>5, <3>6 DEF InHand
  <2>. QED
    BY <2>4, <2>5 DEF MouseInv
<1>9. KeyInv
  <2>1. PICK g : g = [k \in 1 .. 1 |-> [ext |-> FALSE, shift |-> FALSE]]
    OBVIOUS
  <2>2. ComingLen = 0
    <3>1. Len(devices.sends) = 0
      BY <1>1
    <3>. QED
      BY <1>5, <3>1 DEF ComingLen
  <2>3. ComingLen + 1 = 1 /\ 1 .. ComingLen = {}
    BY <2>2
  <2>4. g \in [1 .. 1 -> KeyState] /\ g[1] = [ext |-> FALSE, shift |-> FALSE]
    BY <2>1 DEF KeyState
  <2>5. devices.shift = FALSE
    BY <1>1
  <2>6. KeyHistory(g)
    BY <1>4, <2>3, <2>4, <2>5 DEF KeyHistory
  <2>. QED
    BY <2>6 DEF KeyInv
<1>. QED
  BY <1>6, <1>7, <1>8, <1>9 DEF InputInv

LEMMA InputKept == InputInv /\ [InputNext]_inputVars => InputInv'
BY LoopTypesKept, WindowTypesKept, MouseKept, KeyKept DEF InputInv

LEMMA InputInvariant == InputSpec => []InputInv
BY InputBegins, InputKept, PTL DEF InputSpec

(* The driver's mark E0 behind a byte that is under way, from the bytes    *)
(* before it.                                                              *)
LEMMA BehindE0Is ==
  ASSUME LoopTypes
  PROVE  /\ BehindE0(1) <=> is_ext
         /\ \A k \in 1 .. ComingLen :
              BehindE0(k + 1) <=> IF IsKey(k) THEN Coming[k].code = "E0" ELSE BehindE0(k)
<1>1. BehindE0(1) <=> is_ext
  <2>1. 1 .. 1 - 1 = {}
    OBVIOUS
  <2>. QED
    BY <2>1 DEF BehindE0
<1>2. ASSUME NEW k \in 1 .. ComingLen
      PROVE  BehindE0(k + 1) <=>
               IF IsKey(k) THEN Coming[k].code = "E0" ELSE BehindE0(k)
  <2>1. k \in Nat /\ k >= 1
    BY ComingIs
  <2>2. /\ k + 1 - 1 = k /\ k + 1 .. k = {}
        /\ 1 .. k = 1 .. k - 1 \cup {k} /\ k \in 1 .. k
        /\ \A j \in 1 .. k - 1 : /\ j + 1 .. k = (j + 1 .. k - 1) \cup {k}
                                 /\ k \in j + 1 .. k
    BY <2>1
  <2>3. BehindE0(k + 1) <=>
          \/ \E j \in 1 .. k : /\ IsKey(j) /\ Coming[j].code = "E0"
                               /\ \A i \in j + 1 .. k : ~IsKey(i)
          \/ is_ext /\ \A i \in 1 .. k : ~IsKey(i)
    BY <2>2 DEF BehindE0
  <2>4. BehindE0(k) <=>
          \/ \E j \in 1 .. k - 1 : /\ IsKey(j) /\ Coming[j].code = "E0"
                                   /\ \A i \in j + 1 .. k - 1 : ~IsKey(i)
          \/ is_ext /\ \A i \in 1 .. k - 1 : ~IsKey(i)
    BY DEF BehindE0
  <2>5. CASE IsKey(k)
    BY <2>2, <2>3, <2>5
  <2>6. CASE ~IsKey(k)
    BY <2>2, <2>3, <2>4, <2>6
  <2>. QED
    BY <2>5, <2>6
<1>. QED
  BY <1>1, <1>2

(* While every code of shift that is under way is a pretended one, the     *)
(* driver's shift stays what it is.                                        *)
LEMMA ShiftStays ==
  ASSUME LoopTypes, NEW g, KeyHistory(g),
         \A k \in DOMAIN Coming :
           IsKey(k) /\ Coming[k].code \in {"shift", "unshift"} => BehindE0(k)
  PROVE  g[ComingLen + 1].shift = key_shift
<1>1. PICK n \in Nat : n = ComingLen
  BY ComingIs
<1>2. /\ g[1].ext = is_ext /\ g[1].shift = key_shift
      /\ \A k \in 1 .. n + 1 : g[k] \in KeyState
      /\ \A k \in 1 .. n :
           g[k + 1] = IF IsKey(k) THEN KeyStep(g[k], Coming[k].code) ELSE g[k]
  BY <1>1 DEF KeyHistory
<1> DEFINE Good(k) == g[k].shift = key_shift /\ (g[k].ext <=> BehindE0(k))
           Bad == {k \in 1 .. n + 1 : ~Good(k)}
<1>3. Good(1)
  BY <1>2, BehindE0Is
<1>4. ASSUME NEW k \in 1 .. n, Good(k) PROVE Good(k + 1)
  <2>1. BehindE0(k + 1) <=> IF IsKey(k) THEN Coming[k].code = "E0" ELSE BehindE0(k)
    BY <1>1, BehindE0Is
  <2>2. CASE ~IsKey(k)
    BY <1>2, <1>4, <2>1, <2>2
  <2>3. CASE IsKey(k)
    <3>1. Coming[k].code \in {"shift", "unshift"} => BehindE0(k)
      BY <1>1, <2>3, ComingIs
    <3>2. g[k + 1] = KeyStep(g[k], Coming[k].code)
      BY <1>2, <2>3
    <3>3. g[k + 1].ext = (Coming[k].code = "E0") /\ g[k + 1].shift = g[k].shift
      BY <1>4, <3>1, <3>2 DEF KeyStep
    <3>. QED
      BY <1>4, <2>1, <2>3, <3>3
  <2>. QED
    BY <2>2, <2>3
<1>5. Bad = {}
  <2>. SUFFICES ASSUME Bad # {} PROVE FALSE
    OBVIOUS
  <2>1. Bad \subseteq Nat
    OBVIOUS
  <2>2. PICK k \in Bad : \A y \in Bad : ~(<<y, k>> \in OpToRel(<, Nat))
    BY <2>1, NatLessThanWellFounded, WFMin
  <2>3. k # 1 /\ k \in 1 .. n + 1 /\ ~Good(k)
    BY <1>3
  <2>4. k - 1 \in 1 .. n /\ k - 1 + 1 = k /\ k - 1 < k /\ k - 1 \in Nat /\ k \in Nat
    BY <2>3
  <2>5. k - 1 \notin Bad
    BY <2>2, <2>4 DEF OpToRel
  <2>. QED
    BY <1>4, <2>3, <2>4, <2>5
<1>6. n + 1 \in 1 .. n + 1
  OBVIOUS
<1>. QED
  BY <1>1, <1>5, <1>6

(* What the invariant says of the properties.                              *)
LEMMA InputShown ==
  InputInv => InputTypeOK /\ WholePackets /\ NoPhantomClick /\ ShiftTracks
<1>1. InputInv => InputTypeOK
  BY DEF InputInv, LoopTypes, WindowTypes, InputTypeOK
<1>2. InputInv => WholePackets
  BY DEF InputInv, MouseInv, InHand, WholePackets
<1>3. InputInv => NoPhantomClick
  <2> SUFFICES ASSUME LoopTypes, MouseInv, InPhase PROVE taken <= presses
    BY DEF InputInv, NoPhantomClick
  <2>1. PICK h : MouseHistory(h) /\ InHand(h[1])
    BY DEF MouseInv
  <2>2. 1 \in 1 .. Len(queue) + 1
    BY DEF LoopTypes
  <2>3. h[1].presses \in Nat /\ h[1].presses <= presses
    BY <2>1, <2>2 DEF MouseHistory, Past
  <2>4. Untaken \in {0, 1} /\ presses \in Nat /\ taken \in Nat
    BY UntakenIs DEF LoopTypes
  <2>6. taken <= h[1].presses
    <3>1. CASE m_packet = <<>>
      BY <2>1, <2>3, <2>4, <3>1 DEF InHand
    <3>2. CASE m_packet # <<>>
      <4>1. PICK x : x = Count(m_packet[1].left /\ ~mouse_down)
        OBVIOUS
      <4>2. x \in {0, 1}
        BY <4>1 DEF Count
      <4>3. taken + Untaken + x <= h[1].presses
        BY <2>1, <3>2, <4>1 DEF InHand
      <4>. QED
        BY <2>3, <2>4, <4>2, <4>3
    <3>. QED
      BY <3>1, <3>2
  <2>. QED
    BY <2>3, <2>4, <2>6
<1>4. InputInv => ShiftTracks
  <2> SUFFICES ASSUME LoopTypes, KeyInv, desk = "OS1",
                      \A k \in DOMAIN Coming :
                        IsKey(k) /\ Coming[k].code \in {"shift", "unshift"}
                          => BehindE0(k)
               PROVE  key_shift = devices.shift
    BY DEF InputInv, ShiftTracks
  <2>1. PICK g : KeyHistory(g)
    BY DEF KeyInv
  <2>2. g[ComingLen + 1].shift = key_shift
    BY <2>1, ShiftStays
  <2>. QED
    BY <2>1, <2>2 DEF KeyHistory
<1>. QED
  BY <1>1, <1>2, <1>3, <1>4

(* win_z shows every window once, the driver never holds more than two     *)
(* bytes of a packet, and OS2 reads at most PollLimit bytes in a frame.    *)
THEOREM InputTyped == InputSpec => []InputTypeOK
BY InputInvariant, InputShown, PTL

(* However mouse and keyboard mix and frames end, the bytes of two packets *)
(* of the mouse are not put together, once the driver is in step or can    *)
(* find it.                                                                *)
THEOREM PacketsStayWhole == InputSpec => []WholePackets
BY InputInvariant, InputShown, PTL

(* Each click taken up is one the user made: a button that is held is not  *)
(* taken for a second click, and no movement for a button.                 *)
THEOREM NoClickInvented == InputSpec => []NoPhantomClick
BY InputInvariant, InputShown, PTL

(* OS1 knows whether shift is held, through all that the arrow keys        *)
(* pretend, whenever no true press or release of it is under way.          *)
THEOREM ShiftIsTracked == InputSpec => []ShiftTracks
BY InputInvariant, InputShown, PTL

-----------------------------------------------------------------------------
(* Usb: lists that are taken from lists                                    *)

LEMMA FewNumbers ==
  ASSUME NEW m \in Nat, NEW S \in SUBSET (0 .. m)
  PROVE  /\ IsFiniteSet(S) /\ Cardinality(S) \in Nat
         /\ S \subseteq 1 .. m => Cardinality(S) <= m
<1>1. IsFiniteSet(0 .. m) /\ IsFiniteSet(1 .. m) /\ Cardinality(1 .. m) = m
  BY FS_Interval
<1>. QED
  BY <1>1, FS_Subset, FS_CardinalityType

Lower(S, x) == {j \in S : j < x}

LEMMA PlaceIs ==
  ASSUME NEW m \in Nat, NEW S \in SUBSET (0 .. m), NEW n \in 1 .. Cardinality(S)
  PROVE  /\ Ascending(S)[n] \in S
         /\ Cardinality(Lower(S, Ascending(S)[n])) = n - 1
BY AscendingIs DEF Lower

(* As many below, the same number.                                         *)
LEMMA SamePlace ==
  ASSUME NEW m \in Nat, NEW S \in SUBSET (0 .. m), NEW i \in S, NEW k \in S,
         Cardinality(Lower(S, i)) = Cardinality(Lower(S, k))
  PROVE  i = k
<1>1. ASSUME NEW x \in S, NEW y \in S, x < y
      PROVE  Cardinality(Lower(S, x)) # Cardinality(Lower(S, y))
  <2>1. /\ IsFiniteSet(Lower(S, x)) /\ IsFiniteSet(Lower(S, y))
        /\ Cardinality(Lower(S, x)) \in Nat /\ Cardinality(Lower(S, y)) \in Nat
    BY FewNumbers, FS_Subset, FS_CardinalityType DEF Lower
  <2>2. ~(x < x) /\ x < y /\ \A j \in S : j < x => j < y
    BY <1>1
  <2>3. x \notin Lower(S, x) /\ Lower(S, x) \cup {x} \subseteq Lower(S, y)
    BY <2>2, Zenon DEF Lower
  <2>4. Cardinality(Lower(S, x) \cup {x}) = Cardinality(Lower(S, x)) + 1
    BY <2>1, <2>3, FS_AddElement
  <2>5. Cardinality(Lower(S, x) \cup {x}) <= Cardinality(Lower(S, y))
    BY <2>1, <2>3, FS_Subset
  <2>. QED
    BY <2>1, <2>4, <2>5
<1>2. i \in Nat /\ k \in Nat
  OBVIOUS
<1>. QED
  BY <1>1, <1>2

(* A number stands in its place once.                                      *)
LEMMA AscendingOnce ==
  ASSUME NEW m \in Nat, NEW S \in SUBSET (0 .. m),
         NEW n \in 1 .. Cardinality(S), NEW k \in 1 .. Cardinality(S),
         Ascending(S)[n] = Ascending(S)[k]
  PROVE  n = k
<1>1. Cardinality(Lower(S, Ascending(S)[n])) = n - 1
  BY PlaceIs
<1>2. Cardinality(Lower(S, Ascending(S)[k])) = k - 1
  BY PlaceIs
<1>. QED
  BY <1>1, <1>2, FewNumbers

LEMMA AscendingInterval ==
  ASSUME NEW m \in Nat, NEW n \in 1 .. m
  PROVE  Ascending(1 .. m)[n] = n
<1>1. Cardinality(1 .. m) = m /\ 1 .. m \in SUBSET (0 .. m)
  BY FS_Interval
<1>2. Lower(1 .. m, n) = 1 .. n - 1
  BY DEF Lower
<1>3. Cardinality(1 .. n - 1) = n - 1
  <2>1. n - 1 \in Nat
    OBVIOUS
  <2>. QED
    BY <2>1, FS_Interval
<1>4. /\ Ascending(1 .. m)[n] \in 1 .. m
      /\ Cardinality(Lower(1 .. m, Ascending(1 .. m)[n])) = n - 1
  BY <1>1, PlaceIs
<1>. QED
  BY <1>1, <1>2, <1>3, <1>4, SamePlace

(* A number larger than all others comes behind them.                      *)
LEMMA AscendingGrows ==
  ASSUME NEW m \in Nat, NEW S \in SUBSET (0 .. m)
  PROVE  /\ Cardinality(S \cup {m + 1}) = Cardinality(S) + 1
         /\ \A n \in 1 .. Cardinality(S) :
              Ascending(S \cup {m + 1})[n] = Ascending(S)[n]
         /\ Ascending(S \cup {m + 1})[Cardinality(S) + 1] = m + 1
<1>1. PICK T : T = S \cup {m + 1}
  OBVIOUS
<1>0. PICK l \in Nat : l = m + 1
  OBVIOUS
<1>2. T \in SUBSET (0 .. l) /\ m + 1 \in T /\ S \subseteq T
  BY <1>0, <1>1
<1>3. IsFiniteSet(S) /\ Cardinality(S) \in Nat /\ m + 1 \notin S
  BY FewNumbers
<1>4. Cardinality(T) = Cardinality(S) + 1
  BY <1>1, <1>3, FS_AddElement
<1>5. \A i \in S : Lower(T, i) = Lower(S, i)
  <2>1. \A i \in S : ~(m + 1 < i)
    OBVIOUS
  <2>. QED
    BY <1>1, <2>1 DEF Lower
<1>6. Lower(T, m + 1) = S
  <2>1. ~(m + 1 < m + 1) /\ \A i \in S : i < m + 1
    OBVIOUS
  <2>. QED
    BY <1>1, <2>1, Zenon DEF Lower
<1>7. ASSUME NEW n \in 1 .. Cardinality(S) PROVE Ascending(T)[n] = Ascending(S)[n]
  <2>1. n \in 1 .. Cardinality(T)
    BY <1>3, <1>4
  <2>2. Ascending(S)[n] \in S /\ Cardinality(Lower(S, Ascending(S)[n])) = n - 1
    BY PlaceIs
  <2>3. Ascending(T)[n] \in T /\ Cardinality(Lower(T, Ascending(T)[n])) = n - 1
    BY <1>2, <2>1, PlaceIs
  <2>4. Cardinality(Lower(T, Ascending(S)[n])) = n - 1 /\ Ascending(S)[n] \in T
    BY <1>2, <1>5, <2>2
  <2>. QED
    BY <1>2, <2>3, <2>4, SamePlace
<1>8. Ascending(T)[Cardinality(S) + 1] = m + 1
  <2>1. PICK c \in Nat : c = Cardinality(S)
    BY <1>3
  <2>2. c + 1 \in 1 .. Cardinality(T) /\ c + 1 - 1 = c
    BY <1>4, <2>1
  <2>6. PICK k \in 1 .. Cardinality(T) : k = c + 1
    BY <2>2
  <2>3. Ascending(T)[k] \in T /\ Cardinality(Lower(T, Ascending(T)[k])) = k - 1
    BY <1>2, PlaceIs
  <2>4. Cardinality(Lower(T, m + 1)) = k - 1
    BY <1>6, <2>1, <2>2, <2>6
  <2>5. Ascending(T)[c + 1] = m + 1
    BY <1>2, <2>3, <2>4, <2>6, SamePlace
  <2>. QED
    BY <2>1, <2>5
<1>. QED
  BY <1>1, <1>4, <1>7, <1>8

LEMMA SubsequenceIs ==
  ASSUME NEW T, NEW s \in Seq(T), NEW K \in SUBSET (1 .. Len(s))
  PROVE  /\ Cardinality(K) \in Nat /\ Cardinality(K) <= Len(s)
         /\ Subsequence(s, K) \in Seq(T) /\ Len(Subsequence(s, K)) = Cardinality(K)
         /\ \A n \in 1 .. Cardinality(K) :
              Ascending(K)[n] \in K /\ Subsequence(s, K)[n] = s[Ascending(K)[n]]
<1>1. PICK m \in Nat : m = Len(s)
  OBVIOUS
<1>2. K \in SUBSET (0 .. m) /\ K \subseteq 1 .. m
  BY <1>1
<1>3. PICK c \in Nat : c = Cardinality(K) /\ c <= m
  BY <1>2, FewNumbers
<1>4. \A n \in 1 .. c : Ascending(K)[n] \in K
  BY <1>2, <1>3, AscendingIs
<1>5. Subsequence(s, K) = [n \in 1 .. c |-> s[Ascending(K)[n]]]
  BY <1>3 DEF Subsequence
<1>6. \A n \in 1 .. c : s[Ascending(K)[n]] \in T
  <2>1. \A k \in 1 .. m : s[k] \in T
    BY <1>1
  <2>. QED
    BY <1>2, <1>4, <2>1
<1>7. Subsequence(s, K) \in Seq(T) /\ Len(Subsequence(s, K)) = c
  BY <1>5, <1>6
<1>. QED
  BY <1>1, <1>3, <1>4, <1>5, <1>7

-----------------------------------------------------------------------------
(* Usb: the invariant                                                      *)

DiskRows == {r \in [type: {2}, port: 0 .. 31, size: {0}, name: 0 .. 31] : r.name = r.port}
StickRows == {r \in [type: {3}, port: UsbPort, size: 0 .. Stack, name: UsbPort] :
                r.name = r.port}
DriveRows == DiskRows \cup StickRows

(* No row twice, each named by its kind and port.                          *)
NoneTwice(rows) ==
  \A i, j \in 1 .. Len(rows) :
    rows[i].type = rows[j].type /\ rows[i].port = rows[j].port => i = j

(* The ports that usb_mount_drive has done with.                           *)
Asked == boot.at \in {"test", "desktop"}
DonePorts == IF Asked THEN UsbPort ELSE {p \in UsbPort : p < boot.port}

UsbTypes ==
  /\ host \in UsbMachines
  /\ boot \in [at: Steps, port: UsbPort, size: 0 .. Stack]
  /\ stick \in [UsbPort -> Stick]
  /\ \A p \in UsbPort : /\ stick[p].enabled => stick[p].in
                        /\ stick[p].stage # "none" => stick[p].enabled
  /\ usb_read \in {"none", "cbw failed"} /\ lost \in SUBSET UsbPort

DrivesInv ==
  /\ drives \in Seq(DriveRows) /\ Len(drives) <= MaxRows /\ NoneTwice(drives)
  /\ \A i \in 1 .. Len(drives) : drives[i].type = 3 => drives[i].port \in DonePorts
  /\ boot.at \in {"cbw", "data", "csw"} => Len(drives) < MaxRows
  /\ boot.at = "pci" => boot.port = 1

(* While nothing was lost: a listed stick is enabled; a stick whose port   *)
(* is done with has that port's address; the one at work has it or is      *)
(* being given it; the sticks to come have none that is 0.                 *)
Given0 == {"configure", "cbw", "data", "csw"}
Looked == pci_find_uhci(host.bus) /\ boot.at # "pci"
Addressed ==
  /\ \A i \in 1 .. Len(drives) :
       drives[i].type = 3 => Looked /\ stick[drives[i].port].enabled
  /\ ~Asked /\ boot.at # "pci" => Looked
  /\ Looked => \A p \in DonePorts : stick[p].enabled => stick[p].address = p
  /\ boot.at \in Given0 =>
       stick[boot.port].enabled /\ stick[boot.port].address = boot.port
  /\ boot.at = "address" =>
       stick[boot.port].enabled /\ stick[boot.port].address = 0
  /\ \A p \in UsbPort :
       ~Asked /\ (boot.at = "pci" \/ p > boot.port) /\ stick[p].enabled
         => stick[p].address # 0
StickInv == lost = {} => Addressed

UsbInv == UsbTypes /\ DrivesInv /\ StickInv

-----------------------------------------------------------------------------
(* Usb: the list of drives                                                 *)

LEMMA RowIs ==
  ASSUME NEW r \in DriveRows
  PROVE  /\ r.type \in {2, 3} /\ r.name = r.port /\ (r.type = 3 => r \in StickRows)
         /\ (r.type = 2 => r \in DiskRows) /\ (r.type = 3 <=> r.type # 2)
BY DEF DriveRows, DiskRows, StickRows

(* ahci_mount_drive keeps the rows that it is given and puts disks behind. *)
LEMMA MountedIs ==
  ASSUME MaxRows \in Nat, NEW kept \in Seq(StickRows), Len(kept) <= MaxRows,
         NoneTwice(kept), NEW answer \in SUBSET (0 .. 31)
  PROVE  /\ Mounted(answer, kept) \in Seq(DriveRows)
         /\ Len(Mounted(answer, kept)) <= MaxRows /\ Len(kept) <= Len(Mounted(answer, kept))
         /\ \A n \in 1 .. Len(kept) : Mounted(answer, kept)[n] = kept[n]
         /\ \A n \in Len(kept) + 1 .. Len(Mounted(answer, kept)) :
              Mounted(answer, kept)[n] \in DiskRows
         /\ NoneTwice(Mounted(answer, kept))
<1>1. PICK k \in Nat : k = Len(kept)
  OBVIOUS
<1>2. PICK found \in Nat : found = Cardinality(answer)
  BY FewNumbers
<1>3. PICK l \in Nat : /\ l = (IF found < MaxRows - k THEN found ELSE MaxRows - k)
                       /\ l <= found /\ k + l <= MaxRows
  <2>1. MaxRows - k \in Nat
    BY <1>1
  <2>. QED
    BY <1>1, <1>2, <2>1
<1> DEFINE Disk(n) == Row(2, Ascending(answer)[n], 0, Ascending(answer)[n])
<1>4. PICK disks : disks = [n \in 1 .. l |-> Disk(n)]
  OBVIOUS
<1>5. \A n \in 1 .. l : /\ Disk(n) \in DiskRows
                        /\ Disk(n).port = Ascending(answer)[n] /\ Disk(n).type = 2
  <2>1. ASSUME NEW n \in 1 .. l PROVE Ascending(answer)[n] \in 0 .. 31
    <3>1. n \in 1 .. Cardinality(answer)
      BY <1>2, <1>3
    <3>. QED
      BY <3>1, AscendingIs
  <2>. QED
    BY <2>1 DEF DiskRows, Row
<1>6. disks \in Seq(DiskRows) /\ Len(disks) = l /\ \A n \in 1 .. l : disks[n] = Disk(n)
  BY <1>4, <1>5
<1>7. Mounted(answer, kept) = kept \o disks
  BY <1>1, <1>2, <1>3, <1>4 DEF Mounted
<1>8. PICK all : all = Mounted(answer, kept)
  OBVIOUS
<1>9. /\ all \in Seq(DriveRows) /\ Len(all) = k + l
      /\ \A n \in 1 .. k : all[n] = kept[n]
      /\ \A n \in k + 1 .. k + l : all[n] = disks[n - k]
  <2>1. kept \in Seq(DriveRows) /\ disks \in Seq(DriveRows)
    BY <1>6 DEF DriveRows
  <2>2. all \in Seq(DriveRows) /\ Len(all) = Len(kept) + Len(disks)
    BY <1>7, <1>8, <2>1
  <2>3. \A n \in 1 .. Len(kept) + Len(disks) :
          all[n] = IF n <= Len(kept) THEN kept[n] ELSE disks[n - Len(kept)]
    BY <1>7, <1>8, <2>1
  <2>4. \A n \in 1 .. k + l : all[n] = IF n <= k THEN kept[n] ELSE disks[n - k]
    BY <1>1, <1>6, <2>3
  <2>5. /\ \A n \in 1 .. k : n \in 1 .. k + l /\ n <= k
        /\ \A n \in k + 1 .. k + l : n \in 1 .. k + l /\ ~(n <= k)
    OBVIOUS
  <2>. QED
    BY <1>1, <1>6, <2>2, <2>4, <2>5
<1>10. \A n \in k + 1 .. k + l : n - k \in 1 .. l /\ all[n] = Disk(n - k)
  BY <1>6, <1>9
<1>11. \A n \in k + 1 .. k + l : all[n] \in DiskRows
  BY <1>5, <1>10
<1>12. NoneTwice(all)
  <2> SUFFICES ASSUME NEW i \in 1 .. k + l, NEW j \in 1 .. k + l,
                      all[i].type = all[j].type, all[i].port = all[j].port
               PROVE  i = j
    BY <1>9 DEF NoneTwice
  <2>1. \A n \in 1 .. k : all[n].type = 3
    BY <1>1, <1>9 DEF StickRows
  <2>2. \A n \in k + 1 .. k + l : all[n].type = 2
    BY <1>11 DEF DiskRows
  <2>3. CASE i \in 1 .. k /\ j \in 1 .. k
    BY <1>1, <1>9, <2>3 DEF NoneTwice
  <2>4. CASE i \in k + 1 .. k + l /\ j \in k + 1 .. k + l
    <3>1. PICK a \in 1 .. l, b \in 1 .. l : a = i - k /\ b = j - k
      BY <2>4
    <3>2. Ascending(answer)[a] = Ascending(answer)[b]
      BY <1>5, <1>10, <2>4, <3>1
    <3>3. a \in 1 .. Cardinality(answer) /\ b \in 1 .. Cardinality(answer)
      BY <1>2, <1>3
    <3>4. a = b
      BY <3>2, <3>3, AscendingOnce
    <3>. QED
      BY <3>1, <3>4
  <2>. QED
    BY <2>1, <2>2, <2>3, <2>4
<1>. QED
  BY <1>1, <1>3, <1>8, <1>9, <1>11, <1>12

(* The rows of the sticks, in their order.                                 *)
StickPlaces(rows) == {i \in 1 .. Len(rows) : rows[i].type = 3}

LEMMA SticksAre ==
  ASSUME NEW rows \in Seq(DriveRows)
  PROVE  /\ StickPlaces(rows) \in SUBSET (1 .. Len(rows))
         /\ SticksOf(rows) = Subsequence(rows, StickPlaces(rows))
         /\ Retained(rows) = SticksOf(rows)
         /\ SticksOf(rows) \in Seq(StickRows)
         /\ Len(SticksOf(rows)) = Cardinality(StickPlaces(rows))
         /\ Len(SticksOf(rows)) <= Len(rows)
<1>1. DOMAIN rows = 1 .. Len(rows)
  OBVIOUS
<1>2. \A i \in 1 .. Len(rows) : rows[i].type = 3 <=> rows[i].type # 2
  BY RowIs
<1>3. {i \in DOMAIN rows : rows[i].type # 2} = StickPlaces(rows)
  BY <1>1, <1>2 DEF StickPlaces
<1>4. StickPlaces(rows) \in SUBSET (1 .. Len(rows))
  BY DEF StickPlaces
<1>5. Retained(rows) = SticksOf(rows) /\ SticksOf(rows) = Subsequence(rows, StickPlaces(rows))
  BY <1>1, <1>3 DEF Retained, SticksOf, StickPlaces
<1>6. /\ SticksOf(rows) \in Seq(DriveRows)
      /\ Len(SticksOf(rows)) = Cardinality(StickPlaces(rows))
      /\ Cardinality(StickPlaces(rows)) <= Len(rows)
      /\ \A n \in 1 .. Cardinality(StickPlaces(rows)) :
           /\ Ascending(StickPlaces(rows))[n] \in StickPlaces(rows)
           /\ SticksOf(rows)[n] = rows[Ascending(StickPlaces(rows))[n]]
  BY <1>4, <1>5, SubsequenceIs
<1>7. \A n \in 1 .. Len(SticksOf(rows)) : SticksOf(rows)[n] \in StickRows
  BY <1>6, RowIs DEF StickPlaces
<1>8. SticksOf(rows) \in Seq(StickRows)
  BY <1>6, <1>7
<1>. QED
  BY <1>4, <1>5, <1>6, <1>8

LEMMA SticksOnce ==
  ASSUME NEW rows \in Seq(DriveRows), NoneTwice(rows)
  PROVE  NoneTwice(SticksOf(rows))
<1>1. PICK K : K = StickPlaces(rows)
  OBVIOUS
<1>2. PICK m \in Nat : m = Len(rows)
  OBVIOUS
<1>3. K \in SUBSET (1 .. m) /\ K \in SUBSET (0 .. m)
  BY <1>1, <1>2 DEF StickPlaces
<1>4. PICK c \in Nat : c = Cardinality(K)
  BY <1>3, FewNumbers
<1>5. /\ Len(SticksOf(rows)) = c
      /\ \A n \in 1 .. c : /\ Ascending(K)[n] \in 1 .. m
                           /\ SticksOf(rows)[n] = rows[Ascending(K)[n]]
  BY <1>1, <1>2, <1>3, <1>4, SticksAre, SubsequenceIs
<1>6. ASSUME NEW i \in 1 .. c, NEW j \in 1 .. c,
             SticksOf(rows)[i].type = SticksOf(rows)[j].type,
             SticksOf(rows)[i].port = SticksOf(rows)[j].port
      PROVE  i = j
  <2>1. Ascending(K)[i] = Ascending(K)[j]
    BY <1>2, <1>5, <1>6 DEF NoneTwice
  <2>. QED
    BY <1>3, <1>4, <2>1, AscendingOnce
<1>. QED
  BY <1>5, <1>6 DEF NoneTwice

(* Looking for the disks again leaves the sticks as they are.              *)
LEMMA SticksMounted ==
  ASSUME MaxRows \in Nat, NEW kept \in Seq(StickRows), Len(kept) <= MaxRows,
         NoneTwice(kept), NEW answer \in SUBSET (0 .. 31)
  PROVE  SticksOf(Mounted(answer, kept)) = kept
<1>1. PICK k \in Nat : k = Len(kept)
  OBVIOUS
<1>2. PICK all : all = Mounted(answer, kept)
  OBVIOUS
<1>3. /\ all \in Seq(DriveRows) /\ k <= Len(all)
      /\ \A n \in 1 .. k : all[n] = kept[n]
      /\ \A n \in k + 1 .. Len(all) : all[n] \in DiskRows
  BY <1>1, <1>2, MountedIs
<1>4. /\ \A n \in 1 .. k : all[n].type = 3
      /\ \A n \in k + 1 .. Len(all) : all[n].type # 3
  BY <1>1, <1>3 DEF StickRows, DiskRows
<1>5. StickPlaces(all) = 1 .. k
  BY <1>3, <1>4 DEF StickPlaces
<1>6. Cardinality(1 .. k) = k /\ \A n \in 1 .. k : Ascending(1 .. k)[n] = n
  BY FS_Interval, AscendingInterval
<1>7. SticksOf(all) = [n \in 1 .. k |-> all[Ascending(1 .. k)[n]]]
  BY <1>3, <1>5, <1>6, SticksAre DEF Subsequence
<1>8. SticksOf(all) = [n \in 1 .. k |-> kept[n]]
  BY <1>3, <1>6, <1>7
<1>9. kept = [n \in 1 .. k |-> kept[n]]
  BY <1>1
<1>. QED
  BY <1>2, <1>8, <1>9

(* A stick that is listed comes behind the others.                         *)
LEMMA SticksAppended ==
  ASSUME NEW rows \in Seq(DriveRows), NEW row \in StickRows
  PROVE  SticksOf(Append(rows, row)) = Append(SticksOf(rows), row)
<1>1. PICK m \in Nat : m = Len(rows)
  OBVIOUS
<1>2. PICK more : more = Append(rows, row)
  OBVIOUS
<1>3. /\ more \in Seq(DriveRows) /\ Len(more) = m + 1 /\ more[m + 1] = row
      /\ \A n \in 1 .. m : more[n] = rows[n]
  BY <1>1, <1>2 DEF DriveRows
<1>4. PICK K : K = StickPlaces(rows)
  OBVIOUS
<1>5. StickPlaces(more) = K \cup {m + 1}
  <2>1. row.type = 3
    BY DEF StickRows
  <2>2. 1 .. m + 1 = (1 .. m) \cup {m + 1}
    OBVIOUS
  <2>. QED
    BY <1>1, <1>3, <1>4, <2>1, <2>2 DEF StickPlaces
<1>6. K \in SUBSET (1 .. m) /\ K \in SUBSET (0 .. m)
  BY <1>1, <1>4 DEF StickPlaces
<1>7. PICK c \in Nat : c = Cardinality(K)
  BY <1>6, FewNumbers
<1>8. /\ Cardinality(StickPlaces(more)) = c + 1
      /\ \A n \in 1 .. c : Ascending(StickPlaces(more))[n] = Ascending(K)[n]
      /\ Ascending(StickPlaces(more))[c + 1] = m + 1
  <2>1. /\ Cardinality(K \cup {m + 1}) = Cardinality(K) + 1
        /\ \A n \in 1 .. Cardinality(K) : Ascending(K \cup {m + 1})[n] = Ascending(K)[n]
        /\ Ascending(K \cup {m + 1})[Cardinality(K) + 1] = m + 1
    BY <1>6, AscendingGrows
  <2>. QED
    BY <1>5, <1>7, <2>1
<1>9. SticksOf(more) = [n \in 1 .. c + 1 |-> more[Ascending(StickPlaces(more))[n]]]
  BY <1>3, <1>8, SticksAre DEF Subsequence
<1>10. /\ SticksOf(rows) \in Seq(StickRows) /\ Len(SticksOf(rows)) = c
       /\ \A n \in 1 .. c : /\ Ascending(K)[n] \in 1 .. m
                            /\ SticksOf(rows)[n] = rows[Ascending(K)[n]]
  <2>1. /\ SticksOf(rows) = Subsequence(rows, K) /\ SticksOf(rows) \in Seq(StickRows)
        /\ Len(SticksOf(rows)) = c
    BY <1>4, <1>7, SticksAre
  <2>2. \A n \in 1 .. c : /\ Ascending(K)[n] \in K
                          /\ Subsequence(rows, K)[n] = rows[Ascending(K)[n]]
    BY <1>1, <1>6, <1>7, SubsequenceIs
  <2>. QED
    BY <1>6, <2>1, <2>2
<1>11. Append(SticksOf(rows), row) =
         [n \in 1 .. c + 1 |-> IF n <= c THEN SticksOf(rows)[n] ELSE row]
  <2>1. PICK s \in Seq(StickRows) : s = SticksOf(rows) /\ Len(s) = c
    BY <1>10
  <2>6. Append(s, row) \in Seq(StickRows)
    OBVIOUS
  <2>2. PICK t \in Seq(StickRows) : t = Append(s, row)
    BY <2>6, Zenon
  <2>3. Len(t) = c + 1 /\ \A n \in 1 .. c + 1 : t[n] = IF n <= c THEN s[n] ELSE row
    BY <2>1, <2>2
  <2>4. t = [n \in 1 .. c + 1 |-> t[n]]
    BY <2>3
  <2>5. t = [n \in 1 .. c + 1 |-> IF n <= c THEN s[n] ELSE row]
    BY <2>3, <2>4
  <2>. QED
    BY <2>1, <2>2, <2>5
<1>12. ASSUME NEW n \in 1 .. c + 1
       PROVE  more[Ascending(StickPlaces(more))[n]]
                = IF n <= c THEN SticksOf(rows)[n] ELSE row
  <2>1. CASE n <= c
    <3>1. n \in 1 .. c
      BY <2>1
    <3>. QED
      BY <1>3, <1>8, <1>10, <2>1, <3>1
  <2>2. CASE ~(n <= c)
    <3>1. n = c + 1
      BY <2>2
    <3>. QED
      BY <1>3, <1>8, <2>2, <3>1
  <2>. QED
    BY <2>1, <2>2
<1>. QED
  BY <1>2, <1>9, <1>11, <1>12

LEMMA PrefixItself ==
  ASSUME NEW T, NEW s \in Seq(T)
  PROVE  IsPrefix(s, s)
BY DEF IsPrefix

LEMMA PrefixAppended ==
  ASSUME NEW T, NEW s \in Seq(T), NEW e \in T
  PROVE  IsPrefix(s, Append(s, e))
<1>1. /\ Len(Append(s, e)) = Len(s) + 1 /\ Len(s) \in Nat
      /\ \A n \in 1 .. Len(s) : Append(s, e)[n] = s[n]
  OBVIOUS
<1>2. SubSeq(s, 1, Len(s)) = [n \in 1 .. Len(s) |-> s[n]]
  OBVIOUS
<1>3. SubSeq(Append(s, e), 1, Len(s)) = [n \in 1 .. Len(s) |-> Append(s, e)[n]]
  BY <1>1
<1>. QED
  BY <1>1, <1>2, <1>3 DEF IsPrefix

-----------------------------------------------------------------------------
(* Usb: the types of the driver's state                                    *)

LEMMA StageSet ==
  ASSUME NEW s \in Stick, NEW g \in {"none", "cbw", "data", "csw"},
         NEW t, t = [s EXCEPT !.stage = g]
  PROVE  /\ t \in Stick /\ t.stage = g /\ t.in = s.in /\ t.enabled = s.enabled
         /\ t.address = s.address
BY DEF Stick

LEMMA AddressSet ==
  ASSUME NEW s \in Stick, NEW a \in 0 .. 127, NEW t, t = [s EXCEPT !.address = a]
  PROVE  /\ t \in Stick /\ t.address = a /\ t.in = s.in /\ t.enabled = s.enabled
         /\ t.stage = s.stage
BY DEF Stick

LEMMA FreshIs ==
  /\ Nothing \in Stick /\ ~Nothing.enabled /\ Nothing.stage = "none"
  /\ Fresh \in Stick /\ ~Fresh.enabled /\ Fresh.stage = "none"
  /\ [Fresh EXCEPT !.enabled = TRUE] \in Stick
<1>1. Nothing \in Stick /\ ~Nothing.enabled /\ Nothing.stage = "none"
  <2>1. 0 \in 0 .. 127
    OBVIOUS
  <2>. QED
    BY <2>1 DEF Nothing, Stick
<1>2. \A s, t : s \in Stick /\ t = [s EXCEPT !.in = TRUE] =>
               t \in Stick /\ t.enabled = s.enabled /\ t.stage = s.stage
  BY DEF Stick
<1>3. \A s, t : s \in Stick /\ t = [s EXCEPT !.enabled = TRUE] => t \in Stick
  BY DEF Stick
<1>4. Fresh \in Stick /\ ~Fresh.enabled /\ Fresh.stage = "none"
  <2>1. Fresh = [Nothing EXCEPT !.in = TRUE]
    BY DEF Fresh
  <2>. QED
    BY <1>1, <1>2, <2>1
<1>. QED
  BY <1>1, <1>3, <1>4

LEMMA BootIs ==
  ASSUME UsbTypes
  PROVE  /\ boot.at \in Steps /\ boot.port \in UsbPort /\ boot.size \in 0 .. Stack
         /\ \A step \in Steps : Goes(step) =>
              /\ boot' \in [at: Steps, port: UsbPort, size: 0 .. Stack]
              /\ boot'.at = step /\ boot'.port = boot.port
         /\ NextPort =>
              /\ boot' \in [at: Steps, port: UsbPort, size: 0 .. Stack]
              /\ \/ boot.port = 1 /\ boot'.at = "port" /\ boot'.port = 2
                 \/ boot.port = 2 /\ boot'.at = "test" /\ boot'.port = 2
<1>1. boot \in [at: Steps, port: UsbPort, size: 0 .. Stack]
  BY DEF UsbTypes
<1>2. boot.at \in Steps /\ boot.port \in {1, 2} /\ boot.size \in 0 .. Stack
  BY <1>1 DEF UsbPort
<1>3. ASSUME NEW step \in Steps, Goes(step)
      PROVE  /\ boot' \in [at: Steps, port: UsbPort, size: 0 .. Stack]
             /\ boot'.at = step /\ boot'.port = boot.port
  BY <1>1, <1>3 DEF Goes
<1>4. ASSUME NextPort
      PROVE  /\ boot' \in [at: Steps, port: UsbPort, size: 0 .. Stack]
             /\ \/ boot.port = 1 /\ boot'.at = "port" /\ boot'.port = 2
                \/ boot.port = 2 /\ boot'.at = "test" /\ boot'.port = 2
  <2>1. CASE boot.port = 1
    <3>2. boot.port # 2 /\ boot.port + 1 = 2
      BY <2>1
    <3>3. boot' = [boot EXCEPT !.at = "port", !.port = boot.port + 1, !.size = 0]
      BY <1>4, <3>2 DEF NextPort
    <3>1. boot' = [at |-> "port", port |-> 2, size |-> 0]
      BY <1>1, <3>2, <3>3
    <3>. QED
      BY <2>1, <3>1 DEF Steps, UsbPort, Stack
  <2>2. CASE boot.port = 2
    <3>1. boot' = [at |-> "test", port |-> 2, size |-> 0]
      BY <1>1, <1>4, <2>2 DEF NextPort
    <3>. QED
      BY <2>2, <3>1 DEF Steps, UsbPort, Stack
  <2>. QED
    BY <1>2, <2>1, <2>2
<1>. QED
  BY <1>2, <1>3, <1>4 DEF UsbPort

(* Apart from the stages of the handshake the sticks are as they were.     *)
OnlyStages ==
  /\ stick' \in [UsbPort -> Stick]
  /\ \A p \in UsbPort : /\ stick'[p].in = stick[p].in
                        /\ stick'[p].enabled = stick[p].enabled
                        /\ stick'[p].address = stick[p].address
                        /\ stick'[p].stage # "none" => stick[p].enabled

LEMMA RestStages == ASSUME UsbTypes, UNCHANGED stick PROVE OnlyStages
BY DEF UsbTypes, OnlyStages

LEMMA AnsweredStages ==
  ASSUME UsbTypes, NEW g \in {"cbw", "data", "csw"}, stick' = Answered(g)
  PROVE  OnlyStages
<1>1. \A p \in Ready(dev_addr, boot.at) : p \in UsbPort /\ stick[p].enabled
  BY DEF Ready, Hearers
<1>2. ASSUME NEW p \in UsbPort
      PROVE  /\ stick'[p] \in Stick /\ stick'[p].in = stick[p].in
             /\ stick'[p].enabled = stick[p].enabled
             /\ stick'[p].address = stick[p].address
             /\ stick'[p].stage # "none" => stick[p].enabled
  <2>1. stick[p] \in Stick /\ (stick[p].stage # "none" => stick[p].enabled)
    BY DEF UsbTypes
  <2>2. CASE p \in Ready(dev_addr, boot.at)
    <3>1. stick'[p] = [stick[p] EXCEPT !.stage = g]
      BY <2>2 DEF Answered
    <3>2. /\ stick'[p] \in Stick /\ stick'[p].in = stick[p].in
          /\ stick'[p].enabled = stick[p].enabled
          /\ stick'[p].address = stick[p].address
      BY <2>1, <3>1, StageSet
    <3>. QED
      BY <1>1, <2>2, <3>2
  <2>3. CASE p \notin Ready(dev_addr, boot.at)
    <3>1. stick'[p] = stick[p]
      BY <2>3 DEF Answered
    <3>. QED
      BY <2>1, <3>1
  <2>. QED
    BY <2>2, <2>3
<1>3. DOMAIN stick' = UsbPort /\ stick' = [p \in UsbPort |-> stick'[p]]
  BY DEF Answered
<1>. QED
  BY <1>2, <1>3 DEF OnlyStages

(* What a step of the boot does to the driver's state, as far as the list  *)
(* and the sticks' addresses are concerned.                                *)
LEMMA SetConfigurationIs ==
  ASSUME UsbTypes, SetConfiguration
  PROVE  /\ boot.at = "configure" /\ OnlyStages
         /\ \/ Fails
            \/ UNCHANGED lost /\ Len(drives) < MaxRows /\ Goes("cbw")
            \/ UNCHANGED lost /\ NextPort
         /\ UNCHANGED <<host, drives, chosen, usb_read>>
<1>1. PICK heard \in SUBSET UsbPort, ok \in BOOLEAN :
        /\ uhci_execute_control(dev_addr, heard, ok)
        /\ stick' = [p \in UsbPort |-> IF p \in heard
                       THEN [stick[p] EXCEPT !.stage = "cbw"] ELSE stick[p]]
        /\ IF ~ok THEN Fails
           ELSE /\ IF Len(drives) < MaxRows THEN Goes("cbw") ELSE NextPort
                /\ UNCHANGED lost
  BY DEF SetConfiguration
<1>2. \A p \in heard : stick[p].enabled
  BY <1>1 DEF uhci_execute_control, Hearers
<1>3. ASSUME NEW p \in UsbPort
      PROVE  /\ stick'[p] \in Stick /\ stick'[p].in = stick[p].in
             /\ stick'[p].enabled = stick[p].enabled
             /\ stick'[p].address = stick[p].address
             /\ stick'[p].stage # "none" => stick[p].enabled
  <2>1. stick[p] \in Stick /\ (stick[p].stage # "none" => stick[p].enabled)
    BY DEF UsbTypes
  <2>2. CASE p \in heard
    <3>1. stick'[p] = [stick[p] EXCEPT !.stage = "cbw"]
      BY <1>1, <2>2
    <3>2. /\ stick'[p] \in Stick /\ stick'[p].in = stick[p].in
          /\ stick'[p].enabled = stick[p].enabled
          /\ stick'[p].address = stick[p].address
      BY <2>1, <3>1, StageSet
    <3>. QED
      BY <1>2, <2>2, <3>2
  <2>3. CASE p \notin heard
    <3>1. stick'[p] = stick[p]
      BY <1>1, <2>3
    <3>. QED
      BY <2>1, <3>1
  <2>. QED
    BY <2>2, <2>3
<1>4. OnlyStages
  <2>1. stick' = [p \in UsbPort |-> stick'[p]]
    BY <1>1
  <2>. QED
    BY <1>3, <2>1 DEF OnlyStages
<1>. QED
  BY <1>1, <1>4 DEF SetConfiguration, SticksOnly

LEMMA BulkIs ==
  ASSUME UsbTypes, AskCapacity \/ TakeCapacity \/ TakeStatus
  PROVE  /\ boot.at \in {"cbw", "data", "csw"} /\ OnlyStages
         /\ UNCHANGED <<host, chosen, usb_read, lost>>
         /\ \/ /\ UNCHANGED drives /\ boot'.port = boot.port
               /\ boot'.at \in {"data", "csw"}
               /\ boot' \in [at: Steps, port: UsbPort, size: 0 .. Stack]
            \/ \E size \in 0 .. Stack : Listed(size)
<1>0. /\ "data" \in Steps /\ "csw" \in Steps /\ 0 \in 0 .. Stack /\ Stack \in 0 .. Stack
      /\ UsbPort \subseteq 0 .. Stack
  BY DEF Steps, Stack, UsbPort
<1>1. CASE AskCapacity
  <2>1. CASE stick' = Answered("data") /\ Goes("data") /\ UNCHANGED drives
    BY <1>0, <1>1, <2>1, AnsweredStages, BootIs DEF AskCapacity, BulkDone
  <2>2. CASE Listed(0) /\ UNCHANGED stick
    BY <1>0, <1>1, <2>2, RestStages DEF AskCapacity, BulkDone
  <2>. QED
    BY <1>1, <2>1, <2>2 DEF AskCapacity
<1>2. CASE TakeCapacity
  <2>1. CASE /\ stick' = Answered("csw") /\ UNCHANGED drives
             /\ \E size \in Ready(dev_addr, "data") \cup {Stack} :
                  boot' = [boot EXCEPT !.at = "csw", !.size = size]
    <3>1. PICK size \in Ready(dev_addr, "data") \cup {Stack} :
            boot' = [boot EXCEPT !.at = "csw", !.size = size]
      BY <2>1
    <3>2. size \in 0 .. Stack
      BY <1>0 DEF Ready, Hearers
    <3>3. boot \in [at: Steps, port: UsbPort, size: 0 .. Stack]
      BY DEF UsbTypes
    <3>4. /\ boot' \in [at: Steps, port: UsbPort, size: 0 .. Stack]
          /\ boot'.at = "csw" /\ boot'.port = boot.port
      BY <1>0, <3>1, <3>2, <3>3
    <3>. QED
      BY <1>2, <2>1, <3>4, AnsweredStages DEF TakeCapacity, BulkDone
  <2>2. CASE Listed(0) /\ UNCHANGED stick
    BY <1>0, <1>2, <2>2, RestStages DEF TakeCapacity, BulkDone
  <2>. QED
    BY <1>2, <2>1, <2>2 DEF TakeCapacity
<1>3. CASE TakeStatus
  <2>1. CASE stick' = Answered("cbw") /\ Listed(boot.size)
    BY <1>3, <2>1, AnsweredStages, BootIs DEF TakeStatus, BulkDone
  <2>2. CASE Listed(0) /\ UNCHANGED stick
    BY <1>0, <1>3, <2>2, RestStages DEF TakeStatus, BulkDone
  <2>. QED
    BY <1>3, <2>1, <2>2 DEF TakeStatus
<1>. QED
  BY <1>1, <1>2, <1>3

LEMMA SetAddressIs ==
  ASSUME UsbTypes, SetAddress
  PROVE  /\ boot.at = "address" /\ UNCHANGED <<host, drives, chosen, usb_read>>
         /\ stick' \in [UsbPort -> Stick]
         /\ \E heard \in SUBSET Hearers(0) :
              /\ \A p \in UsbPort :
                   /\ stick'[p].in = stick[p].in /\ stick'[p].enabled = stick[p].enabled
                   /\ stick'[p].stage = stick[p].stage
                   /\ stick'[p].address = IF p \in heard THEN boot.port
                                          ELSE stick[p].address
              /\ Fails \/ (heard # {} /\ Goes("configure") /\ UNCHANGED lost)
<1>1. PICK heard \in SUBSET UsbPort, ok \in BOOLEAN :
        /\ uhci_execute_control(0, heard, ok)
        /\ stick' = [p \in UsbPort |-> IF p \in heard
                       THEN [stick[p] EXCEPT !.address = dev_addr] ELSE stick[p]]
        /\ IF ok THEN Goes("configure") /\ UNCHANGED lost ELSE Fails
  BY DEF SetAddress
<1>2. heard \in SUBSET Hearers(0) /\ (ok => heard # {})
  BY <1>1 DEF uhci_execute_control
<1>3. dev_addr = boot.port /\ boot.port \in 0 .. 127
  <2>1. boot.port \in {1, 2}
    BY BootIs DEF UsbPort
  <2>. QED
    BY <2>1 DEF dev_addr
<1>4. ASSUME NEW p \in UsbPort
      PROVE  /\ stick'[p] \in Stick /\ stick'[p].in = stick[p].in
             /\ stick'[p].enabled = stick[p].enabled
             /\ stick'[p].stage = stick[p].stage
             /\ stick'[p].address = IF p \in heard THEN boot.port ELSE stick[p].address
  <2>1. stick[p] \in Stick
    BY DEF UsbTypes
  <2>2. CASE p \in heard
    <3>1. stick'[p] = [stick[p] EXCEPT !.address = boot.port]
      BY <1>1, <1>3, <2>2
    <3>2. /\ stick'[p] \in Stick /\ stick'[p].in = stick[p].in
          /\ stick'[p].enabled = stick[p].enabled
          /\ stick'[p].stage = stick[p].stage /\ stick'[p].address = boot.port
      BY <1>3, <2>1, <3>1, AddressSet
    <3>. QED
      BY <2>2, <3>2
  <2>3. CASE p \notin heard
    <3>1. stick'[p] = stick[p]
      BY <1>1, <2>3
    <3>. QED
      BY <2>1, <2>3, <3>1
  <2>. QED
    BY <2>2, <2>3
<1>5. stick' \in [UsbPort -> Stick]
  <2>1. stick' = [p \in UsbPort |-> stick'[p]]
    BY <1>1
  <2>. QED
    BY <1>4, <2>1
<1>6. boot.at = "address" /\ UNCHANGED <<host, drives, chosen, usb_read>>
  BY DEF SetAddress, SticksOnly
<1>. QED
  BY <1>1, <1>2, <1>4, <1>5, <1>6

LEMMA ResetPortIs ==
  ASSUME UsbTypes, ResetPort
  PROVE  /\ boot.at = "reset" /\ UNCHANGED <<host, drives, chosen, usb_read>>
         /\ stick' \in [UsbPort -> Stick]
         /\ \A p \in UsbPort : p # boot.port => stick'[p] = stick[p]
         /\ \A p \in UsbPort : /\ stick'[p].enabled => stick'[p].in
                               /\ stick'[p].stage # "none" => stick'[p].enabled
         /\ \/ Fails
            \/ /\ Goes("address") /\ UNCHANGED lost
               /\ stick'[boot.port].enabled /\ stick'[boot.port].address = 0
<1>1. boot.port \in UsbPort
  BY BootIs
<1>2. stick[boot.port] \in Stick /\ stick \in [UsbPort -> Stick]
  BY <1>1 DEF UsbTypes
<1>3. stick' = [stick EXCEPT ![boot.port] = PortReset(stick[boot.port])]
  BY DEF ResetPort
<1>4. PortReset(stick[boot.port]) \in Stick
  BY <1>2, FreshIs DEF PortReset
<1>5. /\ stick' \in [UsbPort -> Stick] /\ stick'[boot.port] = PortReset(stick[boot.port])
      /\ \A p \in UsbPort : p # boot.port => stick'[p] = stick[p]
  BY <1>1, <1>2, <1>3, <1>4
<1>6. /\ stick'[boot.port].enabled => stick'[boot.port].in
      /\ stick'[boot.port].stage # "none" => stick'[boot.port].enabled
      /\ stick[boot.port].in => stick'[boot.port].enabled /\ stick'[boot.port].address = 0
      /\ ~stick[boot.port].in => ~stick'[boot.port].enabled
  BY <1>1, <1>5 DEF PortReset, Fresh, Nothing, UsbTypes
<1>7. /\ boot.at = "reset" /\ UNCHANGED <<host, drives, chosen, usb_read>>
      /\ IF stick'[boot.port].enabled THEN Goes("address") /\ UNCHANGED lost ELSE Fails
  BY DEF ResetPort, SticksOnly
<1>8. \A p \in UsbPort : /\ stick'[p].enabled => stick'[p].in
                         /\ stick'[p].stage # "none" => stick'[p].enabled
  BY <1>5, <1>6 DEF UsbTypes
<1>. QED
  BY <1>5, <1>6, <1>7, <1>8

LEMMA PullStickIs ==
  ASSUME UsbTypes, PullStick
  PROVE  /\ stick' \in [UsbPort -> Stick] /\ lost' \in SUBSET UsbPort /\ lost' # {}
         /\ \A p \in UsbPort : /\ stick'[p].enabled => stick'[p].in
                               /\ stick'[p].stage # "none" => stick'[p].enabled
         /\ UNCHANGED <<host, boot, drives, chosen, usb_read>>
<1>1. PICK p \in UsbPort, s \in {Nothing, Fresh} :
        stick' = [stick EXCEPT ![p] = s] /\ lost' = lost \cup {p}
  BY DEF PullStick
<1>2. s \in Stick /\ ~s.enabled /\ s.stage = "none"
  BY FreshIs
<1>3. stick \in [UsbPort -> Stick] /\ lost \in SUBSET UsbPort
  BY DEF UsbTypes
<1>4. stick' \in [UsbPort -> Stick] /\ stick'[p] = s
      /\ \A q \in UsbPort : q # p => stick'[q] = stick[q]
  BY <1>1, <1>2, <1>3
<1>5. \A q \in UsbPort : /\ stick'[q].enabled => stick'[q].in
                         /\ stick'[q].stage # "none" => stick'[q].enabled
  BY <1>2, <1>4 DEF UsbTypes
<1>. QED
  BY <1>1, <1>3, <1>4, <1>5 DEF PullStick

(* The second driver's transfers are refused.                              *)
LEMMA ReadIsRefused == usb_bot_read_sectors = "cbw failed"
<1>1. uhci_bulk_transfer = 1
  BY DEF uhci_bulk_transfer, uhci_base_port
<1>2. uhci_bulk_transfer # 0
  BY <1>1
<1>. QED
  BY <1>2 DEF usb_bot_read_sectors

LEMMA OtherBootSteps ==
  ASSUME UsbTypes, FindUhci \/ LookAtPort \/ ReadBootSector
  PROVE  /\ UNCHANGED <<host, stick, drives, chosen, lost>>
         /\ usb_read' \in {"none", "cbw failed"}
         /\ \/ boot.at = "pci" /\ Goes("port") /\ pci_find_uhci(host.bus)
            \/ boot.at = "pci" /\ Goes("test") /\ ~pci_find_uhci(host.bus)
            \/ boot.at = "port" /\ Goes("reset")
            \/ boot.at = "port" /\ ~stick[boot.port].in /\ NextPort
            \/ boot.at = "test" /\ Goes("desktop")
<1>1. usb_read \in {"none", "cbw failed"} /\ usb_bot_read_sectors = "cbw failed"
  BY ReadIsRefused DEF UsbTypes
<1>2. CASE FindUhci
  <2>1. CASE pci_find_uhci(host.bus)
    BY <1>1, <1>2, <2>1 DEF FindUhci, SticksOnly
  <2>2. CASE ~pci_find_uhci(host.bus)
    BY <1>1, <1>2, <2>2 DEF FindUhci, SticksOnly
  <2>. QED
    BY <2>1, <2>2
<1>3. CASE LookAtPort
  <2>1. CASE stick[boot.port].in
    BY <1>1, <1>3, <2>1 DEF LookAtPort, SticksOnly
  <2>2. CASE ~stick[boot.port].in
    BY <1>1, <1>3, <2>2 DEF LookAtPort, SticksOnly
  <2>. QED
    BY <2>1, <2>2
<1>4. CASE ReadBootSector
  BY <1>1, <1>4 DEF ReadBootSector
<1>. QED
  BY <1>2, <1>3, <1>4

LEMMA UserSteps ==
  ASSUME UsbTypes, ChooseRow \/ SweepUsb \/ Refresh
  PROVE  /\ UNCHANGED <<host, boot, stick, lost>> /\ boot.at = "desktop"
         /\ usb_read' \in {"none", "cbw failed"}
         /\ \/ UNCHANGED drives
            \/ \E answer \in SUBSET host.disks :
                 drives' = Mounted(answer, Retained(drives))
<1>1. usb_read \in {"none", "cbw failed"} /\ usb_bot_read_sectors = "cbw failed"
  BY ReadIsRefused DEF UsbTypes
<1>2. UNCHANGED <<host, boot, stick, lost>> /\ boot.at = "desktop"
  BY DEF ChooseRow, SweepUsb, Refresh, ClickDrives
<1>. QED
  BY <1>1, <1>2 DEF ChooseRow, SweepUsb, Refresh

LEMMA UsbTypesKept == UsbTypes /\ [UsbNext]_usbVars => UsbTypes'
<1> SUFFICES ASSUME UsbTypes, [UsbNext]_usbVars PROVE UsbTypes'
  OBVIOUS
<1> DEFINE Boots == [at: Steps, port: UsbPort, size: 0 .. Stack]
<1>0. /\ host \in UsbMachines /\ boot \in Boots /\ stick \in [UsbPort -> Stick]
      /\ \A p \in UsbPort : /\ stick[p].enabled => stick[p].in
                            /\ stick[p].stage # "none" => stick[p].enabled
      /\ usb_read \in {"none", "cbw failed"} /\ lost \in SUBSET UsbPort
  BY DEF UsbTypes
<1>1. ASSUME host' = host, boot' \in Boots, stick' \in [UsbPort -> Stick],
             \A p \in UsbPort : /\ stick'[p].enabled => stick'[p].in
                                /\ stick'[p].stage # "none" => stick'[p].enabled,
             usb_read' \in {"none", "cbw failed"}, lost' \in SUBSET UsbPort
      PROVE  UsbTypes'
  BY <1>0, <1>1 DEF UsbTypes
<1>2. ASSUME OnlyStages
      PROVE  /\ stick' \in [UsbPort -> Stick]
             /\ \A p \in UsbPort : /\ stick'[p].enabled => stick'[p].in
                                   /\ stick'[p].stage # "none" => stick'[p].enabled
  BY <1>0, <1>2 DEF OnlyStages
<1>3. Fails => boot' \in Boots /\ lost' \in SUBSET UsbPort
  BY <1>0, BootIs DEF Fails
<1>4. \A step \in Steps : Goes(step) => boot' \in Boots
  BY BootIs
<1>5. NextPort => boot' \in Boots
  BY BootIs
<1>s. /\ "port" \in Steps /\ "reset" \in Steps /\ "address" \in Steps
      /\ "configure" \in Steps /\ "cbw" \in Steps /\ "test" \in Steps
      /\ "desktop" \in Steps
  BY DEF Steps
<1>6. CASE FindUhci \/ LookAtPort \/ ReadBootSector
  <2>1. /\ UNCHANGED <<host, stick, lost>> /\ usb_read' \in {"none", "cbw failed"}
        /\ boot' \in Boots
    BY <1>4, <1>5, <1>6, <1>s, OtherBootSteps
  <2>. QED
    BY <1>0, <1>1, <2>1
<1>7. CASE ResetPort
  <2>1. /\ boot' \in Boots /\ lost' \in SUBSET UsbPort
        /\ UNCHANGED <<host, usb_read>>
    BY <1>0, <1>3, <1>4, <1>7, <1>s, ResetPortIs
  <2>. QED
    BY <1>0, <1>1, <1>7, <2>1, ResetPortIs
<1>8. CASE SetAddress
  <2>1. /\ boot' \in Boots /\ lost' \in SUBSET UsbPort
        /\ UNCHANGED <<host, usb_read>> /\ stick' \in [UsbPort -> Stick]
        /\ \A p \in UsbPort :
             /\ stick'[p].in = stick[p].in /\ stick'[p].enabled = stick[p].enabled
             /\ stick'[p].stage = stick[p].stage
    BY <1>0, <1>3, <1>4, <1>8, <1>s, SetAddressIs
  <2>. QED
    BY <1>0, <1>1, <2>1
<1>9. CASE SetConfiguration
  <2>1. /\ boot' \in Boots /\ lost' \in SUBSET UsbPort
        /\ UNCHANGED <<host, usb_read>> /\ OnlyStages
    BY <1>0, <1>3, <1>4, <1>5, <1>9, <1>s, SetConfigurationIs
  <2>. QED
    BY <1>0, <1>1, <1>2, <2>1
<1>10. CASE AskCapacity \/ TakeCapacity \/ TakeStatus
  <2>1. boot' \in Boots /\ UNCHANGED <<host, usb_read, lost>> /\ OnlyStages
    BY <1>5, <1>10, BulkIs DEF Listed
  <2>. QED
    BY <1>0, <1>1, <1>2, <2>1
<1>11. CASE ChooseRow \/ SweepUsb \/ Refresh
  <2>1. UNCHANGED <<host, boot, stick, lost>> /\ usb_read' \in {"none", "cbw failed"}
    BY <1>11, UserSteps
  <2>. QED
    BY <1>0, <1>1, <2>1
<1>12. CASE PullStick
  <2>1. UNCHANGED <<host, boot, usb_read>>
    BY <1>12, PullStickIs
  <2>. QED
    BY <1>0, <1>1, <1>12, <2>1, PullStickIs
<1>13. CASE UNCHANGED usbVars
  <2>1. UNCHANGED <<host, boot, stick, usb_read, lost>>
    BY <1>13 DEF usbVars
  <2>. QED
    BY <1>0, <1>1, <2>1
<1>. QED
  BY <1>6, <1>7, <1>8, <1>9, <1>10, <1>11, <1>12, <1>13 DEF UsbNext, UsbBoot

-----------------------------------------------------------------------------
(* Usb: the list is kept                                                   *)

LEMMA PortsDone ==
  ASSUME UsbTypes
  PROVE  /\ DonePorts \subseteq UsbPort
         /\ \A step \in Steps :
              /\ Goes(step) /\ (Asked => step \in {"test", "desktop"})
                   => DonePorts \subseteq DonePorts'
              /\ Goes(step) /\ ~Asked /\ step \notin {"test", "desktop"}
                   => DonePorts' = DonePorts
         /\ NextPort /\ ~Asked =>
              /\ DonePorts' = DonePorts \cup {boot.port} /\ boot.port \notin DonePorts
              /\ boot'.at \in {"port", "test"} /\ (Asked' => boot.port = 2)
              /\ ~Asked' => boot'.port = 2
<1>1. DonePorts \subseteq UsbPort
  BY DEF DonePorts
<1>2. ASSUME NEW step \in Steps, Goes(step)
      PROVE  /\ (Asked => step \in {"test", "desktop"}) => DonePorts \subseteq DonePorts'
             /\ ~Asked /\ step \notin {"test", "desktop"} => DonePorts' = DonePorts
  <2>1. boot'.at = step /\ boot'.port = boot.port
    BY <1>2, BootIs
  <2>. QED
    BY <1>1, <2>1 DEF DonePorts, Asked
<1>3. ASSUME NextPort, ~Asked
      PROVE  /\ DonePorts' = DonePorts \cup {boot.port} /\ boot.port \notin DonePorts
             /\ boot'.at \in {"port", "test"} /\ (Asked' => boot.port = 2)
             /\ ~Asked' => boot'.port = 2
  <2>1. CASE boot.port = 1
    <3>1. boot'.at = "port" /\ boot'.port = 2
      BY <1>3, <2>1, BootIs
    <3>2. DonePorts = {} /\ DonePorts' = {1}
      BY <1>3, <2>1, <3>1 DEF DonePorts, Asked, UsbPort
    <3>. QED
      BY <2>1, <3>1, <3>2 DEF Asked
  <2>2. CASE boot.port = 2
    <3>1. boot'.at = "test"
      BY <1>3, <2>2, BootIs
    <3>2. DonePorts = {1} /\ DonePorts' = {1, 2}
      BY <1>3, <2>2, <3>1 DEF DonePorts, Asked, UsbPort
    <3>. QED
      BY <2>2, <3>1, <3>2 DEF Asked
  <2>. QED
    BY <2>1, <2>2, BootIs DEF UsbPort
<1>. QED
  BY <1>1, <1>2, <1>3

LEMMA ListIs ==
  ASSUME UsbTypes
  PROVE  MaxRows \in Nat /\ host.disks \subseteq 0 .. 31
BY UsbConstants DEF UsbTypes

LEMMA DrivesStep ==
  ASSUME UsbTypes, DrivesInv, [UsbNext]_usbVars
  PROVE  DrivesInv' /\ IsPrefix(SticksOf(drives), SticksOf(drives'))
<1> DEFINE Goal == DrivesInv' /\ IsPrefix(SticksOf(drives), SticksOf(drives'))
<1>0. /\ drives \in Seq(DriveRows) /\ Len(drives) \in Nat /\ Len(drives) <= MaxRows
      /\ NoneTwice(drives)
      /\ \A i \in 1 .. Len(drives) : drives[i].type = 3 => drives[i].port \in DonePorts
      /\ boot.at \in {"cbw", "data", "csw"} => Len(drives) < MaxRows
      /\ boot.at = "pci" => boot.port = 1
  BY DEF DrivesInv
<1>s. SticksOf(drives) \in Seq(StickRows) /\ Len(SticksOf(drives)) <= Len(drives)
      /\ Retained(drives) = SticksOf(drives) /\ NoneTwice(SticksOf(drives))
  BY <1>0, SticksAre, SticksOnce
<1>1. ASSUME UNCHANGED drives, DonePorts \subseteq DonePorts',
             boot'.at \in {"cbw", "data", "csw"} => Len(drives) < MaxRows,
             boot'.at # "pci"
      PROVE  Goal
  <2>1. DrivesInv'
    BY <1>0, <1>1 DEF DrivesInv, NoneTwice
  <2>2. IsPrefix(SticksOf(drives), SticksOf(drives))
    BY <1>s, PrefixItself
  <2>. QED
    BY <1>1, <2>1, <2>2
<1>2. ASSUME UNCHANGED <<drives, boot>> PROVE Goal
  <2>1. DonePorts' = DonePorts
    BY <1>2 DEF DonePorts, Asked
  <2>2. DrivesInv'
    BY <1>0, <1>2, <2>1 DEF DrivesInv, NoneTwice
  <2>3. IsPrefix(SticksOf(drives), SticksOf(drives))
    BY <1>s, PrefixItself
  <2>. QED
    BY <1>2, <2>2, <2>3
<1>3. ASSUME UNCHANGED drives, ~Asked, NextPort PROVE Goal
  <2>1. DonePorts \subseteq DonePorts' /\ boot'.at \in {"port", "test"}
    BY <1>3, PortsDone
  <2>. QED
    BY <1>1, <1>3, <2>1
<1>4. ASSUME UNCHANGED drives, NEW step \in Steps \ {"pci"}, Goes(step),
             Asked => step \in {"test", "desktop"},
             step = "cbw" => Len(drives) < MaxRows, step \notin {"data", "csw"}
      PROVE  Goal
  <2>1. DonePorts \subseteq DonePorts' /\ boot'.at = step
    BY <1>4, PortsDone, BootIs
  <2>. QED
    BY <1>1, <1>4, <2>1
<1>a. /\ "port" \in Steps \ {"pci"} /\ "reset" \in Steps \ {"pci"}
      /\ "address" \in Steps \ {"pci"} /\ "configure" \in Steps \ {"pci"}
      /\ "cbw" \in Steps \ {"pci"} /\ "test" \in Steps \ {"pci"}
      /\ "desktop" \in Steps \ {"pci"}
  BY DEF Steps
<1>5. CASE FindUhci \/ LookAtPort \/ ReadBootSector
  <2>1. UNCHANGED drives
    BY <1>5, OtherBootSteps
  <2>2. CASE NextPort /\ boot.at = "port"
    BY <1>3, <2>1, <2>2 DEF Asked
  <2>3. CASE (Goes("port") \/ Goes("test")) /\ boot.at = "pci"
    BY <1>4, <1>a, <2>1, <2>3 DEF Asked
  <2>4. CASE Goes("reset") /\ boot.at = "port"
    BY <1>4, <1>a, <2>1, <2>4 DEF Asked
  <2>5. CASE Goes("desktop")
    BY <1>4, <1>a, <2>1, <2>5 DEF Asked
  <2>. QED
    BY <1>5, <2>2, <2>3, <2>4, <2>5, OtherBootSteps
<1>6. CASE ResetPort
  <2>1. UNCHANGED drives /\ boot.at = "reset" /\ (Fails \/ Goes("address"))
    BY <1>6, ResetPortIs
  <2>2. CASE Fails
    BY <1>3, <2>1, <2>2 DEF Asked, Fails
  <2>3. CASE Goes("address")
    BY <1>4, <1>a, <2>1, <2>3 DEF Asked
  <2>. QED
    BY <2>1, <2>2, <2>3
<1>7. CASE SetAddress
  <2>1. UNCHANGED drives /\ boot.at = "address" /\ (Fails \/ Goes("configure"))
    BY <1>7, SetAddressIs
  <2>2. CASE Fails
    BY <1>3, <2>1, <2>2 DEF Asked, Fails
  <2>3. CASE Goes("configure")
    BY <1>4, <1>a, <2>1, <2>3 DEF Asked
  <2>. QED
    BY <2>1, <2>2, <2>3
<1>8. CASE SetConfiguration
  <2>1. /\ UNCHANGED drives /\ boot.at = "configure"
        /\ NextPort \/ (Goes("cbw") /\ Len(drives) < MaxRows)
    BY <1>8, SetConfigurationIs DEF Fails
  <2>2. CASE NextPort
    BY <1>3, <2>1, <2>2 DEF Asked
  <2>3. CASE Goes("cbw") /\ Len(drives) < MaxRows
    BY <1>4, <1>a, <2>1, <2>3 DEF Asked
  <2>. QED
    BY <2>1, <2>2, <2>3
<1>9. CASE AskCapacity \/ TakeCapacity \/ TakeStatus
  <2>1. boot.at \in {"cbw", "data", "csw"} /\ ~Asked /\ Len(drives) < MaxRows
    BY <1>0, <1>9, BulkIs DEF Asked
  <2>2. CASE /\ UNCHANGED drives /\ boot'.port = boot.port
             /\ boot'.at \in {"data", "csw"}
    <3>1. DonePorts' = DonePorts
      BY <2>1, <2>2 DEF DonePorts, Asked
    <3>. QED
      BY <1>1, <2>1, <2>2, <3>1
  <2>3. CASE \E size \in 0 .. Stack : Listed(size)
    <3>1. PICK size \in 0 .. Stack : Listed(size)
      BY <2>3
    <3>2. PICK row : row = Row(3, dev_addr, size, boot.port)
      OBVIOUS
    <3>3. row \in StickRows /\ row.type = 3 /\ row.port = boot.port
      <4>1. boot.port \in UsbPort
        BY BootIs
      <4>. QED
        BY <3>2, <4>1 DEF StickRows, Row, dev_addr
    <3>4. drives' = Append(drives, row) /\ NextPort
      BY <3>1, <3>2 DEF Listed
    <3>5. /\ DonePorts' = DonePorts \cup {boot.port} /\ boot.port \notin DonePorts
          /\ boot'.at \in {"port", "test"}
      BY <2>1, <3>4, PortsDone
    <3>6. /\ drives' \in Seq(DriveRows) /\ Len(drives') = Len(drives) + 1
          /\ drives'[Len(drives) + 1] = row
          /\ \A n \in 1 .. Len(drives) : drives'[n] = drives[n]
      BY <1>0, <3>3, <3>4 DEF DriveRows
    <3>7. NoneTwice(drives')
      <4>1. \A n \in 1 .. Len(drives) :
              ~(drives[n].type = 3 /\ drives[n].port = boot.port)
        BY <1>0, <3>5
      <4>2. \A n \in 1 .. Len(drives') : n \in 1 .. Len(drives) \/ n = Len(drives) + 1
        BY <1>0, <3>6
      <4>. QED
        BY <1>0, <3>3, <3>6, <4>1, <4>2 DEF NoneTwice
    <3>8. \A n \in 1 .. Len(drives') : drives'[n].type = 3 => drives'[n].port \in DonePorts'
      <4>2. \A n \in 1 .. Len(drives') : n \in 1 .. Len(drives) \/ n = Len(drives) + 1
        BY <1>0, <3>6
      <4>. QED
        BY <1>0, <3>3, <3>5, <3>6, <4>2
    <3>9. Len(drives') <= MaxRows
      BY <1>0, <2>1, <3>6, ListIs
    <3>10. DrivesInv'
      BY <3>5, <3>6, <3>7, <3>8, <3>9 DEF DrivesInv
    <3>11. IsPrefix(SticksOf(drives), SticksOf(drives'))
      BY <1>0, <1>s, <3>3, <3>4, SticksAppended, PrefixAppended
    <3>. QED
      BY <3>10, <3>11
  <2>. QED
    BY <1>9, <2>2, <2>3, BulkIs
<1>10. CASE ChooseRow \/ SweepUsb \/ Refresh
  <2>1. UNCHANGED boot /\ boot.at = "desktop"
    BY <1>10, UserSteps
  <2>2. CASE UNCHANGED drives
    BY <1>2, <2>1, <2>2
  <2>3. CASE \E answer \in SUBSET host.disks : drives' = Mounted(answer, Retained(drives))
    <3>1. PICK answer \in SUBSET (0 .. 31) : drives' = Mounted(answer, SticksOf(drives))
      BY <1>s, <2>3, ListIs
    <3>2. MaxRows \in Nat /\ Len(SticksOf(drives)) <= MaxRows
      BY <1>0, <1>s, ListIs
    <3>3. drives' \in Seq(DriveRows) /\ Len(drives') <= MaxRows /\ NoneTwice(drives')
      BY <1>s, <3>1, <3>2, MountedIs
    <3>4. \A n \in 1 .. Len(drives') : drives'[n].type = 3 => drives'[n].port \in UsbPort
      <4>1. \A n \in 1 .. Len(drives') : drives'[n] \in DriveRows
        BY <3>3
      <4>. QED
        BY <4>1, RowIs DEF StickRows
    <3>5. DonePorts' = UsbPort
      BY <2>1 DEF DonePorts, Asked
    <3>6. DrivesInv'
      BY <2>1, <3>3, <3>4, <3>5 DEF DrivesInv
    <3>7. SticksOf(drives') = SticksOf(drives)
      BY <1>s, <3>1, <3>2, SticksMounted
    <3>. QED
      BY <1>s, <3>6, <3>7, PrefixItself
  <2>. QED
    BY <1>10, <2>2, <2>3, UserSteps
<1>11. CASE PullStick
  BY <1>2, <1>11, PullStickIs
<1>12. CASE UNCHANGED usbVars
  <2>1. UNCHANGED <<drives, boot>>
    BY <1>12 DEF usbVars
  <2>. QED
    BY <1>2, <2>1
<1>. QED
  BY <1>5, <1>6, <1>7, <1>8, <1>9, <1>10, <1>11, <1>12 DEF UsbNext, UsbBoot

-----------------------------------------------------------------------------
(* Usb: addresses                                                          *)

LEMMA SticksFrom ==
  ASSUME NEW rows \in Seq(DriveRows), NEW n \in 1 .. Len(SticksOf(rows))
  PROVE  \E i \in 1 .. Len(rows) : SticksOf(rows)[n] = rows[i] /\ rows[i].type = 3
<1>1. PICK K : K = StickPlaces(rows)
  OBVIOUS
<1>2. /\ K \in SUBSET (1 .. Len(rows)) /\ SticksOf(rows) = Subsequence(rows, K)
      /\ n \in 1 .. Cardinality(K)
  BY <1>1, SticksAre
<1>3. Ascending(K)[n] \in K /\ SticksOf(rows)[n] = rows[Ascending(K)[n]]
  BY <1>2, SubsequenceIs
<1>. QED
  BY <1>1, <1>2, <1>3 DEF StickPlaces

(* The boot goes on: what it has to have seen to.                          *)
LEMMA AddressedGoes ==
  ASSUME UsbTypes, DrivesInv, Addressed, UNCHANGED <<host, drives>>, ~Asked,
         boot.at # "pci", NEW step \in Steps \ {"pci", "test", "desktop"},
         boot'.at = step, boot'.port = boot.port,
         \A p \in UsbPort \ {boot.port} : /\ stick'[p].enabled = stick[p].enabled
                                          /\ stick'[p].address = stick[p].address,
         step \in Given0 =>
           stick'[boot.port].enabled /\ stick'[boot.port].address = boot.port,
         step = "address" =>
           stick'[boot.port].enabled /\ stick'[boot.port].address = 0
  PROVE  Addressed'
<1>1. boot'.at = step /\ boot'.port = boot.port /\ ~Asked' /\ boot.port \in {1, 2}
  BY BootIs DEF Asked, UsbPort
<1>2. DonePorts' = DonePorts /\ boot.port \notin DonePorts /\ DonePorts \subseteq UsbPort
  BY <1>1 DEF DonePorts, Asked
<1>3. Looked' = Looked /\ Looked
  BY <1>1 DEF Looked, Addressed
<1>4. \A i \in 1 .. Len(drives) : drives[i].type = 3 => drives[i].port \in DonePorts
  BY DEF DrivesInv
<1>5. \A i \in 1 .. Len(drives) : drives[i].type = 3 => stick'[drives[i].port].enabled
  BY <1>2, <1>4 DEF Addressed
<1>6. \A p \in DonePorts : stick'[p].enabled => stick'[p].address = p
  BY <1>2, <1>3 DEF Addressed
<1>7. \A p \in UsbPort : p > boot.port /\ stick'[p].enabled => stick'[p].address # 0
  <2> SUFFICES ASSUME NEW p \in UsbPort, p > boot.port, stick'[p].enabled
               PROVE  stick'[p].address # 0
    OBVIOUS
  <2>1. p # boot.port
    BY <1>1
  <2>. QED
    BY <2>1 DEF Addressed
<1>. QED
  BY <1>1, <1>2, <1>3, <1>5, <1>6, <1>7 DEF Addressed

LEMMA AddressedNext ==
  ASSUME UsbTypes, DrivesInv, Addressed, UNCHANGED host, ~Asked, boot.at # "pci",
         NextPort, OnlyStages,
         stick[boot.port].enabled => stick[boot.port].address = boot.port,
         \/ UNCHANGED drives
         \/ stick[boot.port].enabled /\ \E size \in 0 .. Stack : Listed(size)
  PROVE  Addressed'
<1>1. /\ DonePorts' = DonePorts \cup {boot.port} /\ boot.port \in {1, 2}
      /\ boot'.at \in {"port", "test"} /\ DonePorts \subseteq UsbPort
      /\ Asked' => boot.port = 2
      /\ ~Asked' => boot'.port = 2
  BY PortsDone, BootIs DEF UsbPort
<1>2. Looked' = Looked /\ Looked
  BY <1>1 DEF Looked, Addressed
<1>3. \A p \in UsbPort : /\ stick'[p].enabled = stick[p].enabled
                         /\ stick'[p].address = stick[p].address
  BY DEF OnlyStages
<1>4. \A p \in DonePorts' : stick'[p].enabled => stick'[p].address = p
  BY <1>1, <1>2, <1>3 DEF Addressed, UsbPort
<1>5. \A i \in 1 .. Len(drives) : drives[i].type = 3 => drives[i].port \in UsbPort
  BY <1>1 DEF DrivesInv
<1>6. \A i \in 1 .. Len(drives') : drives'[i].type = 3 => stick'[drives'[i].port].enabled
  <2>1. CASE UNCHANGED drives
    BY <1>3, <1>5, <2>1 DEF Addressed
  <2>2. ASSUME NEW size \in 0 .. Stack, Listed(size), stick[boot.port].enabled
        PROVE  \A i \in 1 .. Len(drives') :
                 drives'[i].type = 3 => stick'[drives'[i].port].enabled
    <3>1. PICK row : row = Row(3, dev_addr, size, boot.port)
      OBVIOUS
    <3>2. row.port = boot.port /\ drives' = Append(drives, row)
      BY <2>2, <3>1 DEF Row, dev_addr, Listed
    <3>3. drives \in Seq(DriveRows)
      BY DEF DrivesInv
    <3>4. \A i \in 1 .. Len(drives') :
            (i \in 1 .. Len(drives) /\ drives'[i] = drives[i]) \/ drives'[i] = row
      BY <3>2, <3>3
    <3>. QED
      BY <1>1, <1>3, <1>5, <2>2, <3>2, <3>4 DEF Addressed, UsbPort
  <2>. QED
    BY <2>1, <2>2
<1>7. \A p \in UsbPort : ~Asked' => ~(p > boot'.port) /\ boot'.at # "pci"
  BY <1>1 DEF UsbPort
<1>8. boot'.at \notin Given0 /\ boot'.at # "address" /\ boot'.at # "pci"
  BY <1>1 DEF Given0
<1>. QED
  BY <1>2, <1>4, <1>6, <1>7, <1>8 DEF Addressed

(* Only the stick that was reset hears address 0.                          *)
LEMMA OneHears0 ==
  ASSUME UsbTypes, Addressed, boot.at = "address"
  PROVE  Hearers(0) = {boot.port}
<1>1. ~Asked /\ boot.port \in {1, 2} /\ Looked
  BY BootIs DEF Asked, UsbPort, Addressed
<1>2. boot.port \in Hearers(0)
  BY <1>1 DEF Addressed, Hearers, UsbPort
<1>3. ASSUME NEW p \in Hearers(0) PROVE p = boot.port
  <2>1. p \in UsbPort /\ p \in {1, 2} /\ stick[p].enabled /\ stick[p].address = 0
    BY <1>3 DEF Hearers, UsbPort
  <2>2. ~(p < boot.port)
    <3>1. p < boot.port => p \in DonePorts
      BY <1>1, <2>1 DEF DonePorts
    <3>. QED
      BY <1>1, <2>1, <3>1 DEF Addressed
  <2>3. ~(p > boot.port)
    BY <1>1, <2>1 DEF Addressed
  <2>. QED
    BY <1>1, <2>1, <2>2, <2>3
<1>. QED
  BY <1>2, <1>3

LEMMA StickKept ==
  ASSUME UsbTypes, DrivesInv, StickInv, [UsbNext]_usbVars
  PROVE  StickInv'
<1> SUFFICES ASSUME lost' = {} PROVE Addressed'
  BY DEF StickInv
<1>l. ~Fails
  BY DEF Fails
<1>0. ASSUME lost = {} PROVE Addressed
  BY <1>0 DEF StickInv
<1>d. /\ drives \in Seq(DriveRows) /\ Len(drives) \in Nat /\ Len(drives) <= MaxRows
      /\ NoneTwice(drives)
      /\ \A i \in 1 .. Len(drives) : drives[i].type = 3 => drives[i].port \in DonePorts
      /\ boot.at = "pci" => boot.port = 1
  BY DEF DrivesInv
<1>a. /\ "port" \in Steps /\ "reset" \in Steps /\ "address" \in Steps
      /\ "configure" \in Steps /\ "cbw" \in Steps /\ "data" \in Steps
      /\ "csw" \in Steps /\ "test" \in Steps /\ "desktop" \in Steps
  BY DEF Steps
<1>1. CASE FindUhci \/ LookAtPort \/ ReadBootSector
  <2>1. UNCHANGED <<host, stick, drives, lost>> /\ Addressed
    BY <1>0, <1>1, OtherBootSteps
  <2>2. CASE boot.at = "pci" /\ Goes("port") /\ pci_find_uhci(host.bus)
    <3>1. boot'.at = "port" /\ boot'.port = boot.port /\ boot.port = 1
      BY <1>a, <1>d, <2>2, BootIs
    <3>2. DonePorts = {} /\ DonePorts' = {} /\ ~Asked /\ ~Asked'
      BY <2>2, <3>1 DEF DonePorts, Asked, UsbPort
    <3>3. Looked'
      BY <2>1, <2>2, <3>1 DEF Looked
    <3>4. \A p \in UsbPort : stick[p].enabled => stick[p].address # 0
      BY <2>1, <2>2, <3>2 DEF Addressed
    <3>. QED
      BY <1>d, <2>1, <3>1, <3>2, <3>3, <3>4 DEF Addressed, Given0
  <2>3. CASE boot.at = "pci" /\ Goes("test") /\ ~pci_find_uhci(host.bus)
    <3>1. boot'.at = "test" /\ boot.port = 1
      BY <1>a, <1>d, <2>3, BootIs
    <3>2. DonePorts = {} /\ Asked'
      BY <2>3, <3>1 DEF DonePorts, Asked, UsbPort
    <3>3. ~Looked'
      BY <2>1, <2>3 DEF Looked
    <3>. QED
      BY <1>d, <2>1, <3>1, <3>2, <3>3 DEF Addressed, Given0
  <2>4. CASE boot.at = "port" /\ Goes("reset")
    <3>1. /\ boot'.at = "reset" /\ boot'.port = boot.port /\ ~Asked /\ boot.at # "pci"
          /\ "reset" \in Steps \ {"pci", "test", "desktop"} /\ "reset" \notin Given0
      BY <1>a, <2>4, BootIs DEF Asked, Given0
    <3>. QED
      BY <2>1, <3>1, AddressedGoes
  <2>5. CASE boot.at = "port" /\ ~stick[boot.port].in /\ NextPort
    <3>1. ~stick[boot.port].enabled /\ ~Asked /\ boot.at # "pci" /\ OnlyStages
      BY <2>1, <2>5, BootIs, RestStages DEF UsbTypes, Asked
    <3>. QED
      BY <2>1, <2>5, <3>1, AddressedNext
  <2>6. CASE boot.at = "test" /\ Goes("desktop")
    <3>1. boot'.at = "desktop"
      BY <1>a, <2>6, BootIs
    <3>2. Asked /\ Asked' /\ DonePorts' = DonePorts
      BY <2>6, <3>1 DEF Asked, DonePorts
    <3>3. Looked' = Looked
      BY <2>1, <2>6, <3>1 DEF Looked
    <3>. QED
      BY <2>1, <3>1, <3>2, <3>3 DEF Addressed, Given0
  <2>. QED
    BY <1>1, <2>2, <2>3, <2>4, <2>5, <2>6, OtherBootSteps
<1>2. CASE ResetPort
  <2>1. /\ boot.at = "reset" /\ UNCHANGED <<host, drives, lost>> /\ Goes("address")
        /\ stick'[boot.port].enabled /\ stick'[boot.port].address = 0
        /\ \A p \in UsbPort : p # boot.port => stick'[p] = stick[p]
    BY <1>l, <1>2, ResetPortIs
  <2>2. Addressed
    BY <1>0, <2>1
  <2>3. /\ boot'.at = "address" /\ boot'.port = boot.port /\ ~Asked /\ boot.at # "pci"
        /\ "address" \in Steps \ {"pci", "test", "desktop"} /\ "address" \notin Given0
    BY <1>a, <2>1, BootIs DEF Asked, Given0
  <2>. QED
    BY <2>1, <2>2, <2>3, AddressedGoes
<1>3. CASE SetAddress
  <2>1. PICK heard \in SUBSET Hearers(0) :
          /\ boot.at = "address" /\ UNCHANGED <<host, drives, lost>> /\ heard # {}
          /\ Goes("configure")
          /\ \A p \in UsbPort :
               /\ stick'[p].enabled = stick[p].enabled
               /\ stick'[p].address = IF p \in heard THEN boot.port ELSE stick[p].address
    BY <1>l, <1>3, SetAddressIs
  <2>2. Addressed /\ boot.port \in UsbPort
    BY <1>0, <2>1, BootIs
  <2>3. heard = {boot.port}
    BY <2>1, <2>2, OneHears0
  <2>4. /\ boot'.at = "configure" /\ boot'.port = boot.port /\ ~Asked
        /\ boot.at # "pci" /\ "configure" \in Steps \ {"pci", "test", "desktop"}
    BY <1>a, <2>1, BootIs DEF Asked
  <2>5. stick'[boot.port].enabled /\ stick'[boot.port].address = boot.port
    BY <2>1, <2>2, <2>3 DEF Addressed
  <2>6. \A p \in UsbPort \ {boot.port} : /\ stick'[p].enabled = stick[p].enabled
                                         /\ stick'[p].address = stick[p].address
    BY <2>1, <2>3
  <2>. QED
    BY <2>1, <2>2, <2>4, <2>5, <2>6, AddressedGoes
<1>4. ASSUME boot.at \in Given0, OnlyStages, UNCHANGED <<host, lost>>,
             \/ UNCHANGED drives /\ NextPort
             \/ \E size \in 0 .. Stack : Listed(size)
             \/ /\ UNCHANGED drives /\ boot'.port = boot.port
                /\ boot'.at \in {"cbw", "data", "csw"}
      PROVE  Addressed'
  <2>1. Addressed /\ boot.port \in UsbPort /\ ~Asked /\ boot.at # "pci"
    BY <1>0, <1>4, BootIs DEF Asked, Given0
  <2>2. stick[boot.port].enabled /\ stick[boot.port].address = boot.port
    BY <1>4, <2>1 DEF Addressed
  <2>3. CASE UNCHANGED drives /\ NextPort
    BY <1>4, <2>1, <2>2, <2>3, AddressedNext
  <2>4. CASE \E size \in 0 .. Stack : Listed(size)
    <3>1. NextPort
      BY <2>4 DEF Listed
    <3>. QED
      BY <1>4, <2>1, <2>2, <2>4, <3>1, AddressedNext
  <2>5. CASE /\ UNCHANGED drives /\ boot'.port = boot.port
             /\ boot'.at \in {"cbw", "data", "csw"}
    <3>1. \A p \in UsbPort : /\ stick'[p].enabled = stick[p].enabled
                             /\ stick'[p].address = stick[p].address
      BY <1>4 DEF OnlyStages
    <3>2. PICK step \in Steps \ {"pci", "test", "desktop"} :
            boot'.at = step /\ step # "address"
      BY <1>a, <2>5
    <3>. QED
      BY <1>4, <2>1, <2>2, <2>5, <3>1, <3>2, AddressedGoes
  <2>. QED
    BY <1>4, <2>3, <2>4, <2>5
<1>5. CASE SetConfiguration
  <2>1. /\ boot.at \in Given0 /\ OnlyStages /\ UNCHANGED <<host, lost, drives>>
        /\ NextPort \/ Goes("cbw")
    BY <1>l, <1>5, SetConfigurationIs DEF Given0
  <2>2. Goes("cbw") => boot'.at = "cbw" /\ boot'.port = boot.port
    BY <1>a, BootIs
  <2>. QED
    BY <1>4, <2>1, <2>2
<1>6. CASE AskCapacity \/ TakeCapacity \/ TakeStatus
  <2>1. boot.at \in Given0
    BY <1>6, BulkIs DEF Given0
  <2>. QED
    BY <1>4, <1>6, <2>1, BulkIs
<1>7. CASE ChooseRow \/ SweepUsb \/ Refresh
  <2>1. UNCHANGED <<host, boot, stick, lost>> /\ boot.at = "desktop" /\ Addressed
    BY <1>0, <1>7, UserSteps
  <2>2. Asked /\ Asked' /\ DonePorts' = DonePorts /\ Looked' = Looked
    BY <2>1 DEF Asked, DonePorts, Looked
  <2>3. \A i \in 1 .. Len(drives') : drives'[i].type = 3 =>
          \E j \in 1 .. Len(drives) : drives'[i] = drives[j]
    <3>1. CASE UNCHANGED drives
      BY <3>1
    <3>2. CASE \E answer \in SUBSET host.disks :
                 drives' = Mounted(answer, Retained(drives))
      <4>1. /\ SticksOf(drives) \in Seq(StickRows) /\ Len(SticksOf(drives)) <= MaxRows
            /\ Retained(drives) = SticksOf(drives) /\ NoneTwice(SticksOf(drives))
            /\ MaxRows \in Nat
        BY <1>d, ListIs, SticksAre, SticksOnce
      <4>2. PICK answer \in SUBSET (0 .. 31) : drives' = Mounted(answer, SticksOf(drives))
        BY <3>2, <4>1, ListIs
      <4>3. PICK k \in Nat : k = Len(SticksOf(drives))
        BY <4>1
      <4>4. /\ drives' \in Seq(DriveRows)
            /\ \A n \in 1 .. k : drives'[n] = SticksOf(drives)[n]
            /\ \A n \in k + 1 .. Len(drives') : drives'[n] \in DiskRows
        BY <4>1, <4>2, <4>3, MountedIs
      <4>5. ASSUME NEW i \in 1 .. Len(drives'), drives'[i].type = 3
            PROVE  \E j \in 1 .. Len(drives) : drives'[i] = drives[j]
        <5>1. i \in 1 .. k \/ i \in k + 1 .. Len(drives')
          BY <4>4
        <5>2. i \in 1 .. k
          BY <4>4, <4>5, <5>1 DEF DiskRows
        <5>. QED
          BY <1>d, <4>3, <4>4, <5>2, SticksFrom
      <4>. QED
        BY <4>5
    <3>. QED
      BY <1>7, <3>1, <3>2, UserSteps
  <2>. QED
    BY <2>1, <2>2, <2>3 DEF Addressed, Given0
<1>8. CASE PullStick
  BY <1>8, PullStickIs
<1>9. CASE UNCHANGED usbVars
  <2>1. UNCHANGED <<host, boot, stick, drives, lost>>
    BY <1>9 DEF usbVars
  <2>2. Addressed
    BY <1>0, <2>1
  <2>3. Asked' = Asked /\ DonePorts' = DonePorts /\ Looked' = Looked
    BY <2>1 DEF Asked, DonePorts, Looked
  <2>. QED
    BY <2>1, <2>2, <2>3 DEF Addressed
<1>. QED
  BY <1>1, <1>2, <1>3, <1>5, <1>6, <1>7, <1>8, <1>9 DEF UsbNext, UsbBoot

LEMMA UsbBegins == UsbInit => UsbInv
<1> SUFFICES ASSUME UsbInit PROVE UsbInv
  OBVIOUS
<1>1. /\ host \in UsbMachines /\ boot = [at |-> "pci", port |-> 1, size |-> 0]
      /\ stick = host.sticks /\ drives = Mounted(host.disks, <<>>)
      /\ usb_read = "none" /\ lost = {}
  BY DEF UsbInit
<1>2. /\ MaxRows \in Nat /\ host.disks \in SUBSET (0 .. 31)
      /\ stick \in [UsbPort -> Stick] /\ \A p \in UsbPort : StickAtStart(stick[p])
  BY <1>1, UsbConstants
<1>3. boot.at = "pci" /\ boot.port = 1 /\ boot \in [at: Steps, port: UsbPort, size: 0 .. Stack]
  BY <1>1 DEF Steps, UsbPort, Stack
<1>4. UsbTypes
  BY <1>1, <1>2, <1>3 DEF UsbTypes, StickAtStart
<1>5. /\ drives \in Seq(DriveRows) /\ Len(drives) <= MaxRows /\ NoneTwice(drives)
      /\ \A n \in 1 .. Len(drives) : drives[n] \in DiskRows
  <2>6. <<>> \in Seq(StickRows)
    OBVIOUS
  <2>1. PICK none \in Seq(StickRows) : none = <<>>
    BY <2>6, Zenon
  <2>2. Len(none) = 0
    BY <2>1
  <2>3. NoneTwice(none) /\ Len(none) <= MaxRows
    BY <1>2, <2>2 DEF NoneTwice
  <2>4. drives = Mounted(host.disks, none)
    BY <1>1, <2>1
  <2>5. /\ drives \in Seq(DriveRows) /\ Len(drives) <= MaxRows /\ NoneTwice(drives)
        /\ \A n \in Len(none) + 1 .. Len(drives) : drives[n] \in DiskRows
    BY <1>2, <2>3, <2>4, MountedIs
  <2>. QED
    BY <2>2, <2>5
<1>6. \A n \in 1 .. Len(drives) : drives[n].type # 3
  BY <1>5 DEF DiskRows
<1>7. DrivesInv
  BY <1>3, <1>5, <1>6 DEF DrivesInv
<1>8. ~Asked /\ ~Looked
  BY <1>3 DEF Asked, Looked
<1>9. StickInv
  BY <1>2, <1>3, <1>6, <1>8 DEF StickInv, Addressed, Given0, StickAtStart
<1>. QED
  BY <1>4, <1>7, <1>9 DEF UsbInv

LEMMA UsbKept == UsbInv /\ [UsbNext]_usbVars => UsbInv'
BY UsbTypesKept, DrivesStep, StickKept DEF UsbInv

LEMMA UsbInvariant == UsbSpec => []UsbInv
BY UsbBegins, UsbKept, PTL DEF UsbSpec

LEMMA UsbShown == UsbInv => UsbTypeOK /\ StickAnswersAlone
<1> SUFFICES ASSUME UsbInv PROVE UsbTypeOK /\ StickAnswersAlone
  OBVIOUS
<1>1. UsbTypes /\ DrivesInv /\ StickInv
  BY DEF UsbInv
<1>2. drives \in Seq(DriveRows) /\ DOMAIN drives = 1 .. Len(drives) /\ Len(drives) <= MaxRows
  BY <1>1 DEF DrivesInv
<1>3. \A i \in 1 .. Len(drives) : drives[i] \in DriveRows
  BY <1>2
<1>4. UsbTypeOK
  BY <1>1, <1>2, <1>3, RowIs, BootIs DEF UsbTypeOK, UsbTypes
<1>5. ASSUME boot.at \in {"test", "desktop"}, lost = {},
             NEW i \in 1 .. Len(drives), drives[i].type = 3
      PROVE  Hearers(drives[i].port) = {drives[i].name}
  <2>1. PICK p \in UsbPort : p = drives[i].port /\ p = drives[i].name
    BY <1>3, <1>5, RowIs DEF StickRows
  <2>2. Asked /\ DonePorts = UsbPort /\ Addressed
    BY <1>1, <1>5 DEF Asked, DonePorts, StickInv
  <2>3. Looked /\ stick[p].enabled
    BY <1>5, <2>1, <2>2 DEF Addressed
  <2>4. \A q \in UsbPort : stick[q].enabled => stick[q].address = q
    BY <2>2, <2>3 DEF Addressed
  <2>. QED
    BY <2>1, <2>3, <2>4 DEF Hearers
<1>6. StickAnswersAlone
  BY <1>2, <1>5 DEF StickAnswersAlone
<1>. QED
  BY <1>4, <1>6

LEMMA ListStays ==
  ASSUME UsbInv, [UsbNext]_usbVars
  PROVE  /\ IsPrefix(SticksOf(drives), SticksOf(drives'))
         /\ IsInjective([i \in DOMAIN drives' |-> <<drives'[i].type, drives'[i].name>>])
<1>1. DrivesInv' /\ IsPrefix(SticksOf(drives), SticksOf(drives'))
  BY DrivesStep DEF UsbInv
<1>2. drives' \in Seq(DriveRows) /\ NoneTwice(drives') /\ DOMAIN drives' = 1 .. Len(drives')
  BY <1>1 DEF DrivesInv
<1>3. \A i \in 1 .. Len(drives') : drives'[i].name = drives'[i].port
  BY <1>2, RowIs
<1>4. \A i, j \in 1 .. Len(drives') :
        <<drives'[i].type, drives'[i].name>> = <<drives'[j].type, drives'[j].name>> => i = j
  BY <1>2, <1>3 DEF NoneTwice
<1>. QED
  BY <1>1, <1>2, <1>4 DEF IsInjective

(* The state of the boot, of the sticks and of the list of drives stays in *)
(* range, the list no longer than its array (usb_mount_drive,              *)
(* ahci_mount_drive).                                                      *)
THEOREM UsbTyped == UsbSpec => []UsbTypeOK
BY UsbInvariant, UsbShown, PTL

(* A row of a stick means that stick: if no handshake failed and no stick  *)
(* was pulled, its address is heard in its port and in no other, whatever  *)
(* addresses the firmware had given (usb_mount_drive gives the sticks      *)
(* their addresses one after the other).                                   *)
THEOREM StickAnswers == UsbSpec => []StickAnswersAlone
BY UsbInvariant, UsbShown, PTL

(* A stick that is listed stays listed, in its order and once, however     *)
(* often the disks are looked for again (ahci_mount_drive).                *)
THEOREM SticksStayListed == UsbSpec => SticksStay
<1>1. UsbInv /\ [UsbNext]_usbVars =>
        [/\ IsPrefix(SticksOf(drives), SticksOf(drives'))
         /\ IsInjective([i \in DOMAIN drives' |-> <<drives'[i].type, drives'[i].name>>])
        ]_usbVars
  BY ListStays
<1>. QED
  BY <1>1, UsbInvariant, PTL DEF UsbSpec, SticksStay

-----------------------------------------------------------------------------
(* The parts together: a behaviour of the machine is one of each part      *)

LEMMA PartsBegin ==
  DesktopInit => Init /\ Os2Init /\ InputInit /\ UsbInit /\ GamesInit
<1> SUFFICES ASSUME DesktopInit
             PROVE  Init /\ Os2Init /\ InputInit /\ UsbInit /\ GamesInit
  OBVIOUS
<1>1. Init
  BY DEF DesktopInit, NetAtRest
<1>2. Os2Init
  BY DEF DesktopInit, DiskAtRest
<1>3. InputInit
  BY DEF DesktopInit, InputAtRest
<1>4. UsbInit
  BY DEF DesktopInit, UsbAtRest
<1>5. GamesInit
  BY DEF DesktopInit, GamesAtRest
<1>. QED
  BY <1>1, <1>2, <1>3, <1>4, <1>5

LEMMA PartsStep ==
  [DesktopNext]_desktopVars =>
    /\ [Next]_vars /\ [Os2Next]_os2Vars /\ [InputNext]_inputVars
    /\ [UsbNext]_usbVars /\ [GamesNext]_gamesVars
<1> SUFFICES ASSUME [DesktopNext]_desktopVars
             PROVE  /\ [Next]_vars /\ [Os2Next]_os2Vars /\ [InputNext]_inputVars
                    /\ [UsbNext]_usbVars /\ [GamesNext]_gamesVars
  OBVIOUS
<1>1. CASE OnlyPart("net") /\ Next
  BY <1>1 DEF OnlyPart
<1>2. CASE OnlyPart("disk") /\ Os2Next
  BY <1>2 DEF OnlyPart
<1>3. CASE OnlyPart("input") /\ InputNext
  BY <1>3 DEF OnlyPart
<1>4. CASE OnlyPart("usb") /\ UsbNext
  BY <1>4 DEF OnlyPart
<1>5. CASE OnlyPart("games") /\ GamesNext
  BY <1>5 DEF OnlyPart
<1>6. CASE UNCHANGED desktopVars
  BY <1>6 DEF desktopVars
<1>. QED
  BY <1>1, <1>2, <1>3, <1>4, <1>5, <1>6 DEF DesktopNext

(* What the parts share is nothing: whatever one does is, to the others, a *)
(* step in which they rest, so that the machine implements each of them.   *)
LEMMA MachineIsItsParts ==
  DesktopSpec => /\ Init /\ [][Next]_vars
                 /\ Os2Spec
                 /\ InputInit /\ [][InputNext]_inputVars
                 /\ UsbSpec /\ GamesSpec
BY PartsBegin, PartsStep, PTL DEF DesktopSpec, Os2Spec, UsbSpec, GamesSpec

(* In every state of the machine each part's variables are in range.       *)
THEOREM DesktopTyped == DesktopSpec => []DesktopTypeOK
<1>1. NetInv /\ [Next]_vars => NetInv'
  BY NetStep
<1>2. DesktopSpec => []NetInv
  BY <1>1, MachineIsItsParts, NetStart, PTL
<1>3. DesktopSpec => []InputInv
  BY MachineIsItsParts, InputBegins, InputKept, PTL
<1>4. NetInv => TypeOK
  BY NetShown
<1>5. InputInv => InputTypeOK
  BY InputShown
<1>6. TypeOK /\ Os2TypeOK /\ InputTypeOK /\ UsbTypeOK /\ GamesTypeOK => DesktopTypeOK
  BY DEF DesktopTypeOK
<1>. QED
  BY <1>2, <1>3, <1>4, <1>5, <1>6, MachineIsItsParts, Os2DiskTyped, UsbTyped,
     GamesTyped, PTL

(* What is shown of each part holds of the machine: no frame is skipped or *)
(* overtaken, no row is stale, no packet is mixed, no click invented, no   *)
(* stick's address shared, and no game won twice.                          *)
THEOREM DesktopSafe ==
  DesktopSpec =>
    /\ [](ReceivedIsSeenInOrder /\ DoneMeansOnWire /\ FirstLapInStep)
    /\ []RowsAreOnDisk
    /\ [](WholePackets /\ NoPhantomClick /\ ShiftTracks)
    /\ []StickAnswersAlone
    /\ []OneWinner
<1>1. NetInv /\ [Next]_vars => NetInv'
  BY NetStep
<1>2. DesktopSpec => []NetInv
  BY <1>1, MachineIsItsParts, NetStart, PTL
<1>3. DesktopSpec => []InputInv
  BY MachineIsItsParts, InputBegins, InputKept, PTL
<1>4. NetInv => ReceivedIsSeenInOrder /\ DoneMeansOnWire /\ FirstLapInStep
  BY NetShown
<1>5. InputInv => WholePackets /\ NoPhantomClick /\ ShiftTracks
  BY InputShown
<1>. QED
  BY <1>2, <1>3, <1>4, <1>5, MachineIsItsParts, RowsStayOnDisk, StickAnswers,
     OneSideWins, PTL

(* ... and so does what no step of a part may do: the card's frames leave  *)
(* in order, an entry stays on its drive, a listed stick in the list.      *)
THEOREM DesktopSteps == DesktopSpec => WireInOrder /\ EntriesStay /\ SticksStay
<1>1. NetInv /\ [Next]_vars => NetInv'
  BY NetStep
<1>2. NetInv /\ [Next]_vars => [wire' # wire => wire' < wire]_vars
  BY NetStep
<1>3. DesktopSpec => WireInOrder
  BY <1>1, <1>2, MachineIsItsParts, NetStart, PTL DEF WireInOrder
<1>. QED
  BY <1>3, MachineIsItsParts, WrittenEntriesStay, SticksStayListed, PTL
=============================================================================
