------------------------------- MODULE Joypad -------------------------------
(***************************************************************************)
(* The joypad (src/src/system/joypad.cpp): eight buttons in two columns    *)
(* that share four input lines.  The host presses and releases buttons     *)
(* between ticks; the program selects columns through P1 and clears the    *)
(* request in IF.  The interrupt is the fall of a line, not the press.     *)
(***************************************************************************)

CONSTANTS
    Buttons, Directions,    \* the two columns
    Line                    \* the input line each of them pulls low

JoypadConstants ==
    /\ Buttons \cap Directions = {}
    /\ DOMAIN Line = Buttons \cup Directions

All == Buttons \cup Directions
Lines == {Line[b] : b \in All}

VARIABLES
    state,                          \* the buttons held down
    buttonSelected, dirSelected,    \* select lines, active low
    ifJoypad                        \* the Joypad bit of IF

\* History, since the program last cleared the request.
VARIABLES
    held,       \* the lines that have been low all the time
    fallen      \* some line fell

vars == <<state, buttonSelected, dirSelected, ifJoypad, held, fallen>>

\* Joypad::read: the lines pulled low by keys in the columns selected.
Selected(noButtons, noDirections) ==
    (IF noButtons THEN {} ELSE Buttons) \cup (IF noDirections THEN {} ELSE Directions)

LowLines(keys, noButtons, noDirections) ==
    {Line[b] : b \in keys \cap Selected(noButtons, noDirections)}

Low == LowLines(state, buttonSelected, dirSelected)

Init ==
    /\ state = {}
    /\ buttonSelected = FALSE /\ dirSelected = FALSE
    /\ ifJoypad = FALSE
    /\ held = {} /\ fallen = FALSE

\* Mutant: only a change that finds all lines high raises.
RaiseOnFirst(before) == ifJoypad' = (ifJoypad \/ (before = {} /\ Low' # {}))

\* Joypad::raiseOnFallingEdge, before being the lines low before the change.
RaiseOnFallingEdge(before) == ifJoypad' = (ifJoypad \/ Low' \ before # {})

\* What the history keeps of any step but the program's clearing.
Watch ==
    /\ held' = held \cap Low'
    /\ fallen' = (fallen \/ Low' \ Low # {})

Press(button) ==
    /\ state' = state \cup {button}
    /\ UNCHANGED <<buttonSelected, dirSelected>>
    /\ RaiseOnFallingEdge(Low)
    /\ Watch

Release(button) ==
    /\ state' = state \ {button}
    /\ UNCHANGED <<buttonSelected, dirSelected, ifJoypad>>
    /\ Watch

\* Joypad::write
Select ==
    /\ buttonSelected' \in BOOLEAN /\ dirSelected' \in BOOLEAN
    /\ UNCHANGED state
    /\ RaiseOnFallingEdge(Low)
    /\ Watch

\* A dispatch, or a write of IF.
ClearRequest ==
    /\ ifJoypad' = FALSE
    /\ held' = Low /\ fallen' = FALSE
    /\ UNCHANGED <<state, buttonSelected, dirSelected>>

Play == (\E button \in All : Press(button) \/ Release(button)) \/ Select

Next == Play \/ ClearRequest

Spec == Init /\ [][Next]_vars

-----------------------------------------------------------------------------
(* The request stands for the falls of lines.  None is missed: without a   *)
(* request pending, a line that is low has been low ever since the program *)
(* last cleared one, whichever keys on it were pressed and released and    *)
(* whichever columns were selected meanwhile.  And none is made up: a key  *)
(* pressed while another holds its line low, or in a column that is not    *)
(* selected, makes no request.                                             *)
RequestedByFalls ==
    /\ ~ifJoypad => Low \subseteq held
    /\ ifJoypad => fallen
=============================================================================
