---------------------------- MODULE WindowManager ----------------------------
(***************************************************************************)
(* The window list of the desktop (kernel/src/desktop/wm.rs): stacking     *)
(* order, focus, minimized windows and the drag in progress.  Where the    *)
(* windows lie on the screen is not modelled: a click hits some visible    *)
(* window, in one of its zones.                                            *)
(***************************************************************************)
EXTENDS Integers, Sequences

CONSTANTS
  MAX_WINDOWS,
  MaxOpened      \* bound: windows opened

VARIABLES
  windows,       \* back to front
  next_id,
  drag           \* the id of the window being moved or resized, or 0

wm == <<windows, next_id, drag>>

Zones == {"close", "maximize", "minimize", "edge", "title", "inside"}

WmInit ==
  /\ windows = <<>>
  /\ next_id = 1
  /\ drag = 0

Ids(ws) == {ws[i].id : i \in DOMAIN ws}

IndexOf(ws, id) == CHOOSE i \in DOMAIN ws : ws[i].id = id

has_focused_window == \E i \in DOMAIN windows : windows[i].focused

focused_index == CHOOSE i \in DOMAIN windows : windows[i].focused

\* Mutant: the other windows keep their focus.
set_focus_adds(ws, idx) == [ws EXCEPT ![idx].focused = TRUE]

set_focus(ws, idx) == [i \in DOMAIN ws |-> [ws[i] EXCEPT !.focused = (i = idx)]]

remove(ws, idx) == SubSeq(ws, 1, idx - 1) \o SubSeq(ws, idx + 1, Len(ws))

\* The window at idx is removed and the next one takes its place and the focus.
RemovedAt(ws, idx) ==
  LET rest == remove(ws, idx)
  IN  IF rest = <<>> THEN <<>>
      ELSE set_focus(rest, IF idx <= Len(rest) THEN idx ELSE Len(rest))

bring_to_front(ws, id) ==
  LET idx == IndexOf(ws, id)
      moved == Append(remove(ws, idx), ws[idx])
  IN  set_focus(moved, Len(moved))

\* The window at idx is hidden and the front visible one, if any, is focused.
Minimized(ws, idx) ==
  LET hidden == [ws EXCEPT ![idx].minimized = TRUE, ![idx].focused = FALSE]
      visible == {i \in DOMAIN hidden : ~hidden[i].minimized}
  IN  IF visible = {} THEN hidden
      ELSE [hidden EXCEPT ![CHOOSE i \in visible : \A j \in visible : j <= i].focused = TRUE]

\* Mutant: ids are taken from the number of open windows.
open_app_renumbers ==
  /\ next_id <= MaxOpened
  /\ IF Len(windows) >= MAX_WINDOWS THEN UNCHANGED <<windows, next_id>>
     ELSE LET w == [id |-> Len(windows) + 1, focused |-> TRUE, minimized |-> FALSE, maximized |-> FALSE]
          IN  /\ windows' = set_focus(Append(windows, w), Len(windows) + 1)
              /\ next_id' = next_id + 1
  /\ UNCHANGED drag

open_app ==
  /\ next_id <= MaxOpened
  /\ IF Len(windows) >= MAX_WINDOWS THEN UNCHANGED <<windows, next_id>>
     ELSE LET w == [id |-> next_id, focused |-> TRUE, minimized |-> FALSE, maximized |-> FALSE]
          IN  /\ windows' = set_focus(Append(windows, w), Len(windows) + 1)
              /\ next_id' = next_id + 1
  /\ UNCHANGED drag

\* Escape or F4.  The drag is left as it is.
close_focused ==
  /\ has_focused_window
  /\ windows' = RemovedAt(windows, focused_index)
  /\ UNCHANGED <<next_id, drag>>

cycle_focus ==
  /\ has_focused_window
  /\ windows' = IF Len(windows) <= 1 THEN windows
                ELSE set_focus(windows, (focused_index % Len(windows)) + 1)
  /\ UNCHANGED <<next_id, drag>>

toggle_minimize_by_id(id) ==
  LET idx == IndexOf(windows, id)
  IN  /\ id \in Ids(windows)
      /\ windows' =
           IF windows[idx].minimized
           THEN set_focus([windows EXCEPT ![idx].minimized = FALSE], idx)
           ELSE IF windows[idx].focused THEN Minimized(windows, idx)
           ELSE set_focus(windows, idx)
      /\ UNCHANGED <<next_id, drag>>

unfocus_all ==
  /\ windows' = [i \in DOMAIN windows |-> [windows[i] EXCEPT !.focused = FALSE]]
  /\ UNCHANGED <<next_id, drag>>

\* A click on a zone of a visible window.  A maximized window has no edges.
handle_click(id, zone) ==
  LET front == bring_to_front(windows, id)
      top == Len(front)
  IN  /\ id \in Ids(windows)
      /\ ~windows[IndexOf(windows, id)].minimized
      /\ zone = "edge" => ~front[top].maximized
      /\ windows' = CASE zone = "close"    -> RemovedAt(front, top)
                      [] zone = "maximize" -> [front EXCEPT ![top].maximized = ~@]
                      [] zone = "minimize" -> Minimized(front, top)
                      [] zone = "title"    -> [front EXCEPT ![top].maximized = FALSE]
                      [] OTHER             -> front
      /\ drag' = CASE zone \in {"edge", "title"}         -> id
                   [] zone = "close" /\ drag = id         -> 0
                   [] OTHER                               -> drag
      /\ UNCHANGED next_id

\* A drag of a window that is gone ends with the next movement.
handle_mouse_move ==
  /\ drag' = IF drag \in Ids(windows) THEN drag ELSE 0
  /\ UNCHANGED <<windows, next_id>>

handle_mouse_up ==
  /\ drag' = 0
  /\ UNCHANGED <<windows, next_id>>

-----------------------------------------------------------------------------
Window == [id : 1 .. MaxOpened, focused : BOOLEAN, minimized : BOOLEAN, maximized : BOOLEAN]

WmTypeOK ==
  /\ windows \in Seq(Window)
  /\ Len(windows) <= MAX_WINDOWS
  /\ next_id \in 1 .. MaxOpened + 1
  /\ drag \in 0 .. MaxOpened
=============================================================================
