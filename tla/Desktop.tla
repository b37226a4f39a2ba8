------------------------------ MODULE Desktop -------------------------------
(***************************************************************************)
(* The desktop loop (kernel/src/desktop/mod.rs and input.rs) over the      *)
(* window manager: mouse interrupts queue button states, each turn of the  *)
(* loop drains them, handles the latest click, then a movement of the      *)
(* drag, then one key.                                                     *)
(***************************************************************************)
EXTENDS WindowManager

CONSTANTS
  QUEUE_SIZE,     \* MOUSE_BUFFER_SIZE: events the ring holds
  Icons,          \* number of desktop icons
  MenuApps,       \* entries of the start menu before the separator
  MaxMouse        \* bound: mouse events

\* The ring has room for an event, and the desktop has an icon.
DesktopConstants ==
  /\ {MAX_WINDOWS, MaxOpened, MenuApps, MaxMouse} \subseteq Nat
  /\ {QUEUE_SIZE, Icons} \subseteq Nat \ {0}

ASSUME DesktopAssumption == DesktopConstants

VARIABLES
  buttons,                    \* the buttons really held
  ring,                       \* MOUSE_BUFFER: button states, oldest first
  mouseCount,
  prev,                       \* MouseTracker: prev_left, prev_right
  start_menu_open, start_menu_selection, selected_icon,
  phase,                      \* of the loop
  moved                       \* the drained events

menu == <<start_menu_open, start_menu_selection>>
desk == <<start_menu_open, start_menu_selection, selected_icon>>
device == <<buttons, ring, mouseCount>>
desktopVars == <<wm, desk, device, prev, phase, moved>>

Buttons == [left : BOOLEAN, right : BOOLEAN]
Released == [left |-> FALSE, right |-> FALSE]

\* The start menu: applications, then the separator, then "Exit to Shell".
Separator == MenuApps
MenuCount == MenuApps + 2
NoIcon == Icons

DesktopInit ==
  /\ WmInit
  /\ start_menu_open = FALSE
  /\ start_menu_selection = 0
  /\ selected_icon = NoIcon
  /\ buttons = Released
  /\ ring = <<>>
  /\ mouseCount = 0
  /\ prev = Released
  /\ phase = "mouse"
  /\ moved = FALSE

\* Mutant: a full ring drops the new event.
Pushed_drops_newest(events, b) ==
  IF Len(events) < QUEUE_SIZE THEN Append(events, b) ELSE events

Pushed(events, b) ==
  IF Len(events) < QUEUE_SIZE THEN Append(events, b) ELSE Append(Tail(events), b)

\* The mouse moves or a button changes: the interrupt queues the new state.
mouse_interrupt(b) ==
  /\ mouseCount < MaxMouse
  /\ buttons' = b
  /\ ring' = Pushed(ring, b)
  /\ mouseCount' = mouseCount + 1
  /\ UNCHANGED <<wm, desk, prev, phase, moved>>

\* The click an event gives, seen from the button state before it.
ClickOf(before, b) ==
  CASE b.right /\ ~before.right -> "RightDown"
    [] ~b.left /\ before.left   -> "LeftUp"
    [] b.left /\ ~before.left   -> "LeftDown"
    [] OTHER                    -> "none"

\* process_events keeps the latest click only.
LatestClick ==
  LET click == [i \in DOMAIN ring |-> ClickOf(IF i = 1 THEN prev ELSE ring[i - 1], ring[i])]
      clicks == {i \in DOMAIN ring : click[i] # "none"}
  IN  IF clicks = {} THEN "none"
      ELSE click[CHOOSE i \in clicks : \A j \in clicks : j <= i]

Drained ==
  /\ prev' = IF ring = <<>> THEN prev ELSE ring[Len(ring)]
  /\ moved' = (ring # <<>>)
  /\ ring' = <<>>
  /\ UNCHANGED <<buttons, mouseCount>>

Exit == phase' = "exit"
Continue == phase' = "drag"

-----------------------------------------------------------------------------
\* handle_mouse_click, by what lies under the cursor.
ClickMenuItem(item) ==
  /\ start_menu_open
  /\ IF item = Separator THEN UNCHANGED <<wm, desk>> /\ Continue
     ELSE /\ start_menu_open' = FALSE
          /\ UNCHANGED <<start_menu_selection, selected_icon>>
          /\ IF item < MenuApps THEN open_app /\ Continue
             ELSE UNCHANGED wm /\ Exit

\* Elsewhere a click closes the menu first, and the start button opens it again.
ClickStartButton ==
  /\ start_menu_open' = TRUE
  /\ start_menu_selection' = 0
  /\ UNCHANGED <<wm, selected_icon>>
  /\ Continue

ClickTaskbar ==
  /\ start_menu_open' = FALSE
  /\ UNCHANGED <<start_menu_selection, selected_icon>>
  /\ UNCHANGED wm \/ \E id \in Ids(windows) : toggle_minimize_by_id(id)
  /\ Continue

ClickWindow ==
  /\ start_menu_open' = FALSE
  /\ UNCHANGED <<start_menu_selection, selected_icon>>
  /\ \E id \in Ids(windows), zone \in Zones : handle_click(id, zone)
  /\ Continue

ClickIcon(i) ==
  /\ start_menu_open' = FALSE
  /\ UNCHANGED start_menu_selection
  /\ IF selected_icon = i THEN open_app /\ UNCHANGED selected_icon
     ELSE selected_icon' = i /\ UNCHANGED wm
  /\ Continue

ClickEmpty ==
  /\ start_menu_open' = FALSE
  /\ UNCHANGED start_menu_selection
  /\ selected_icon' = NoIcon
  /\ unfocus_all
  /\ Continue

handle_mouse_click ==
  \/ \E item \in 0 .. MenuCount - 1 : ClickMenuItem(item)
  \/ ClickStartButton
  \/ ClickTaskbar
  \/ ClickWindow
  \/ \E i \in 0 .. Icons - 1 : ClickIcon(i)
  \/ ClickEmpty

LoopLeftDown ==
  /\ phase = "mouse"
  /\ LatestClick = "LeftDown"
  /\ Drained
  /\ handle_mouse_click

LoopLeftUp ==
  /\ phase = "mouse"
  /\ LatestClick = "LeftUp"
  /\ Drained
  /\ handle_mouse_up
  /\ UNCHANGED desk
  /\ Continue

\* A right click is handled by handle_click too; on the taskbar it is ignored.
LoopRightDown ==
  /\ phase = "mouse"
  /\ LatestClick = "RightDown"
  /\ Drained
  /\ \/ UNCHANGED <<wm, selected_icon>>
     \/ \E id \in Ids(windows), zone \in Zones : handle_click(id, zone) /\ UNCHANGED selected_icon
     \/ unfocus_all /\ selected_icon' = NoIcon
  /\ UNCHANGED menu
  /\ Continue

LoopNoClick ==
  /\ phase = "mouse"
  /\ LatestClick = "none"
  /\ Drained
  /\ UNCHANGED <<wm, desk>>
  /\ Continue

LoopDrag ==
  /\ phase = "drag"
  /\ IF moved /\ drag # 0 THEN handle_mouse_move ELSE UNCHANGED wm
  /\ phase' = "keys"
  /\ UNCHANGED <<desk, device, prev, moved>>

-----------------------------------------------------------------------------
\* One key: the start menu has it, else the focused window, else the desktop.
handle_start_menu_input ==
  /\ start_menu_open
  /\ UNCHANGED selected_icon
  /\ \/ start_menu_open' = FALSE /\ UNCHANGED <<start_menu_selection, wm>> /\ phase' = "mouse"
     \/ /\ start_menu_selection > 0
        /\ start_menu_selection' = start_menu_selection - 1
        /\ UNCHANGED <<start_menu_open, wm>>
        /\ phase' = "mouse"
     \/ /\ start_menu_selection + 1 < MenuCount
        /\ start_menu_selection' = start_menu_selection + 1
        /\ UNCHANGED <<start_menu_open, wm>>
        /\ phase' = "mouse"
     \/ /\ start_menu_open' = FALSE
        /\ UNCHANGED start_menu_selection
        /\ IF start_menu_selection < MenuApps THEN open_app /\ phase' = "mouse"
           ELSE UNCHANGED wm /\ Exit

handle_input ==
  /\ ~start_menu_open
  /\ close_focused \/ cycle_focus
  /\ UNCHANGED desk
  /\ phase' = "mouse"

\* Where Tab, Up and Down lead from a selected icon.
Neighbours(i) == {(i + 1) % Icons, i - 1, i + 1} \cap (0 .. Icons - 1)

handle_desktop_input ==
  /\ ~start_menu_open
  /\ ~has_focused_window
  /\ \/ UNCHANGED <<wm, desk>> /\ Exit
     \/ /\ start_menu_open' = TRUE
        /\ start_menu_selection' = 0
        /\ UNCHANGED <<wm, selected_icon>>
        /\ phase' = "mouse"
     \/ /\ selected_icon' \in IF selected_icon = NoIcon THEN {0}
                             ELSE Neighbours(selected_icon) \cup {selected_icon}
        /\ UNCHANGED <<wm, menu>>
        /\ phase' = "mouse"
     \/ /\ selected_icon # NoIcon
        /\ open_app
        /\ UNCHANGED desk
        /\ phase' = "mouse"

\* No key, or one that nobody handles or that only the application sees.
NoKey ==
  /\ UNCHANGED <<wm, desk>>
  /\ phase' = "mouse"

LoopKeys ==
  /\ phase = "keys"
  /\ handle_start_menu_input \/ handle_input \/ handle_desktop_input \/ NoKey
  /\ UNCHANGED <<device, prev, moved>>

DesktopNext ==
  \/ \E b \in Buttons : mouse_interrupt(b)
  \/ LoopLeftDown
  \/ LoopLeftUp
  \/ LoopRightDown
  \/ LoopNoClick
  \/ LoopDrag
  \/ LoopKeys

DesktopSpec == DesktopInit /\ [][DesktopNext]_desktopVars

-----------------------------------------------------------------------------
\* Type invariant; an open desktop never has more than MAX_WINDOWS windows.
DesktopTypeOK ==
  /\ WmTypeOK
  /\ {buttons, prev} \subseteq Buttons
  /\ mouseCount \in 0 .. MaxMouse
  /\ ring \in Seq(Buttons) /\ Len(ring) <= QUEUE_SIZE
  /\ {start_menu_open, moved} \subseteq BOOLEAN
  /\ start_menu_selection \in 0 .. MenuCount - 1
  /\ selected_icon \in 0 .. NoIcon
  /\ phase \in {"mouse", "drag", "keys", "exit"}

\* Keys have one receiver: through opening, closing, minimizing, restoring,
\* stacking and cycling, at most one window has the focus (set_focus and the
\* places that set focused directly).
AtMostOneFocused ==
  \A i, j \in DOMAIN windows : windows[i].focused /\ windows[j].focused => i = j

\* Escape closes a window in the middle of its drag and leaves the drag
\* behind (close_focused, wm.rs:423).  A window opened before the next
\* movement must not be taken for the dragged one.
DragNeverAdoptsStep ==
  \A id \in Ids(windows') \ Ids(windows) : id # drag
DragNeverAdopts == [][DragNeverAdoptsStep]_desktopVars

\* Once the events are drained the tracker knows the buttons really held,
\* although the ring overwrites events: the latest state is never the one
\* lost (MouseBuffer::push), so no button stays stuck.
ButtonsTracked == IF ring = <<>> THEN prev = buttons ELSE ring[Len(ring)] = buttons

\* An id names one window: none is given twice (next_id in open_app), not even
\* that of a closed window whose drag is still on (close_focused).
IdsFresh ==
  /\ \A i, j \in DOMAIN windows : windows[i].id = windows[j].id => i = j
  /\ \A i \in DOMAIN windows : windows[i].id < next_id
  /\ drag < next_id

\* One focus, one window to an id and the right buttons, together.
DesktopSound == DesktopTypeOK /\ AtMostOneFocused /\ ButtonsTracked /\ IdsFresh

\* A mouse button release ends any active drag (wm.rs:752): with all buttons
\* released and all events handled, nothing is being dragged.
DragEndsOnRelease ==
  (ring = <<>> /\ buttons = Released /\ phase = "keys") => drag \notin Ids(windows)

\* The separator of the start menu is skipped (mod.rs:408): choosing it with
\* Enter does not leave the desktop.
SeparatorSkipped ==
  [][phase = "keys" /\ phase' = "exit" /\ start_menu_open => start_menu_selection # Separator]_desktopVars

\* A click on the taskbar button of a window without focus brings it to the
\* front (wm.rs:581).
TaskbarBringsToFront ==
  [][\A id \in Ids(windows) :
       ClickTaskbar /\ toggle_minimize_by_id(id)
       /\ windows[IndexOf(windows, id)] = [id |-> id, focused |-> FALSE, minimized |-> FALSE, maximized |-> FALSE]
         => windows'[Len(windows')].id = id]_desktopVars

\* A click outside the open start menu closes it (input.rs:251).
ClickOutsideCloses ==
  [][phase = "mouse" /\ phase' = "drag" /\ LatestClick = "LeftDown" /\ start_menu_open /\ start_menu_open'
       => \E item \in 0 .. MenuCount - 1 : ClickMenuItem(item)]_desktopVars
=============================================================================
