------------------------------ MODULE MCDesktop -------------------------------
(***************************************************************************)
(* The mouse (Mouse) and the desktop's loop (Desktop) in one run. A        *)
(* behaviour is one of one of them, part; the variables it does not have   *)
(* are idle.  At most two windows are open at a time and three in a        *)
(* session; the menu has one entry, the desktop two icons.                 *)
(***************************************************************************)
EXTENDS Mouse, Desktop

VARIABLE part

-----------------------------------------------------------------------------
(* Instances                                                               *)

\* A ring of two events.
MouseEvents == [left : BOOLEAN, intact : BOOLEAN]
NoEvent == [left |-> FALSE, intact |-> TRUE]

-----------------------------------------------------------------------------
(* The sum                                                                 *)

MouseOnly == <<packet, index, left, before, lost, mistaken, spoiltAt, bytes,
               MOUSE_BUTTONS, garbled, events, read_idx,
               write_idx, count>>
DesktopOnly == <<windows, next_id, drag, start_menu_open,
                 start_menu_selection, selected_icon,
                 buttons, ring, mouseCount, prev, phase,
                 moved>>

IdleMouse == Init /\ ~left
IdleDesktop == DesktopInit

MCInit ==
  \/ part = "mouse" /\ Init /\ IdleDesktop
  \/ part = "desktop" /\ DesktopInit /\ IdleMouse

KeepMouse == UNCHANGED <<part, DesktopOnly>>
KeepDesktop == UNCHANGED <<part, MouseOnly>>

MCNext ==
  \/ part = "mouse" /\ Next /\ KeepMouse
  \/ part = "desktop" /\ DesktopNext /\ KeepDesktop

mcvars == <<part, packet, index, left, before, lost, mistaken, spoiltAt, bytes,
            MOUSE_BUTTONS, garbled, events, read_idx, write_idx, count, windows,
            next_id, drag, start_menu_open, start_menu_selection,
            selected_icon, buttons, ring, mouseCount, prev, phase,
            moved>>
MCSpec == MCInit /\ [][MCNext]_mcvars
=============================================================================
