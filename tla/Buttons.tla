------------------------------ MODULE Buttons ------------------------------
(***************************************************************************)
(* The registry of buttons in src/src/button.c.  Once per frame the dead   *)
(* buttons are purged and the button under the pointer is run.  The table  *)
(* is searched from its end, where new buttons are appended, and a purge   *)
(* fills the hole with the last.  No code of the program registers a       *)
(* button yet: the callers here are any that could.                        *)
(***************************************************************************)
EXTENDS Naturals, SequencesExt

CONSTANTS
    Ids,         \* the strings that name buttons
    Boxes,       \* the rectangles [x, y, w, h] that buttons are given
    Points,      \* the places [x, y] of the pointer
    MaxButtons,  \* the length of registered_buttons.buttons
    MaxCreated   \* bound: how many buttons are ever created

ASSUME ButtonsAssumption ==
    /\ Boxes \subseteq [x : Nat, y : Nat, w : Nat, h : Nat]
    /\ Points \subseteq [x : Nat, y : Nat]
    /\ MaxButtons \in Nat \ {0}
    /\ MaxCreated \in Nat

VARIABLES
    buttons,   \* registered_buttons, length long, each with its birth
    created,   \* how many were created: the birth of the last
    dead,      \* the ids whose destroy_when is true
    clicked,   \* the births of the buttons that the last frame could have
               \* run, and of the one it ran; none is 0
    purged,    \* a button has been purged
    proc       \* "running", or "abort" by ASSERT after a store past the table

vars == <<buttons, created, dead, clicked, purged, proc>>

TypeOK ==
    /\ \A i \in DOMAIN buttons :
          /\ buttons[i].id \in Ids
          /\ buttons[i].box \in Boxes
          /\ buttons[i].birth \in 1..created
    /\ Len(buttons) <= MaxButtons
    /\ created \in 0..MaxCreated
    /\ dead \subseteq Ids
    /\ clicked.under \subseteq 1..created
    /\ clicked.ran \in 0..created
    /\ purged \in BOOLEAN
    /\ proc \in {"running", "abort"}

Init ==
    /\ buttons = <<>>
    /\ created = 0
    /\ dead = {}
    /\ clicked = [under |-> {}, ran |-> 0]
    /\ purged = FALSE
    /\ proc = "running"

-----------------------------------------------------------------------------

\* A mistake: a button is never found.
IndexOfNone(id) == {}

\* button_get_registered_button: the first with this id.
IndexOf(id) == {i \in DOMAIN buttons : buttons[i].id = id}

\* A mistake: the table is full one button later.
FullLater == Len(buttons) > MaxButtons

Full == Len(buttons) >= MaxButtons

\* An id that is registered keeps its place and changes its box.  A new one
\* is appended; to a full table it is written before that is asserted.
Register(id, box) ==
    /\ \/ /\ IndexOf(id) # {}
          /\ buttons' = [buttons EXCEPT ![Min(IndexOf(id))].box = box]
          /\ UNCHANGED <<created, proc>>
       \/ /\ IndexOf(id) = {}
          /\ created < MaxCreated
          /\ ~Full
          /\ buttons' = Append(buttons, [id    |-> id,
                                         box   |-> box,
                                         birth |-> created + 1])
          /\ created' = created + 1
          /\ UNCHANGED proc
       \/ /\ IndexOf(id) = {}
          /\ Full
          /\ proc' = "abort"
          /\ UNCHANGED <<buttons, created>>
    /\ UNCHANGED <<dead, clicked, purged>>

\* The editor state that destroy_when asks changes.
Change(id) ==
    /\ dead' = IF id \in dead THEN dead \ {id} ELSE dead \cup {id}
    /\ UNCHANGED <<buttons, created, clicked, purged, proc>>

\* The last button takes the place of the one that goes.
RemoveSwap(table, i) == Front([table EXCEPT ![i] = Last(table)])

\* A mistake: from the start, past the button that took the place.
PurgeForward(table) ==
    LET after[n \in 0..Len(table)] ==
            IF n = 0 THEN table
            ELSE LET t == after[n - 1]
                 IN  IF n \in DOMAIN t /\ t[n].id \in dead
                     THEN RemoveSwap(t, n) ELSE t
    IN  after[Len(table)]

\* button_registered_buttons_purge_dead, from the end.
PurgeDead(table) ==
    LET after[n \in 0..Len(table)] ==
            IF n = 0 THEN table
            ELSE LET t == after[n - 1]
                     i == Len(table) - n + 1
                 IN  IF t[i].id \in dead THEN RemoveSwap(t, i) ELSE t
    IN  after[Len(table)]

\* is_pointer_within_bounds: the right and the lower edge are inside.
Within(p, box) ==
    /\ box.x <= p.x
    /\ box.y <= p.y
    /\ p.x <= box.x + box.w
    /\ p.y <= box.y + box.h

\* A mistake: the search goes from the start.
FirstOf(found) == Min(found)

\* The search goes from the end.
LastOf(found) == Max(found)

\* button_handle_click, in each frame.
HandleClick(p) ==
    LET table == PurgeDead(buttons)
        under == {i \in DOMAIN table : Within(p, table[i].box)}
    IN  /\ buttons' = table
        /\ clicked' = [under |-> {table[i].birth : i \in under},
                       ran   |-> IF under = {} THEN 0
                                 ELSE table[LastOf(under)].birth]
        /\ purged' = (purged \/ table # buttons)
        /\ UNCHANGED <<created, dead, proc>>

Next ==
    /\ proc = "running"
    /\ \/ \E id \in Ids, box \in Boxes : Register(id, box)
       \/ \E id \in Ids : Change(id)
       \/ \E p \in Points : HandleClick(p)

Spec == Init /\ [][Next]_vars

-----------------------------------------------------------------------------
(* What the registry promises *)

\* "checks all active buttons, and runs the most recently created button"
\* (internal.h:471): of those under the pointer.
MostRecentRuns == \A birth \in clicked.under : birth <= clicked.ran

\* It does as long as nothing was purged; and in any case it runs a button
\* under the pointer if there is one.
MostRecentRunsAtFirst ==
    /\ ~purged => MostRecentRuns
    /\ clicked.under # {} => clicked.ran \in clicked.under

\* An id names one button, however often it is registered and purged, and no
\* button is in the table twice.
IdsAreUnique ==
    \A i, j \in DOMAIN buttons :
        buttons[i].id = buttons[j].id \/ buttons[i].birth = buttons[j].birth
            => i = j

IdsOf(table) == {table[i].id : i \in DOMAIN table}

\* A frame removes the buttons whose destroy_when is true and no other,
\* though the table changes under the loop that searches it.
PurgeIsExact ==
    [][Len(buttons') < Len(buttons) \/ clicked' # clicked =>
          IdsOf(buttons') = IdsOf(buttons) \ dead]_vars

=============================================================================
