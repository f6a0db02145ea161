------------------------------- MODULE Inputs -------------------------------
(***************************************************************************)
(* The way of an input: the X server queues an event, window_pol_event of  *)
(* src/src/x11/window.c turns it into an entry of a table of MAX_INPUTS,   *)
(* and once per frame editor_simulate of src/src/editor.c takes entries    *)
(* out of the table: requests, then the binds, then the text.              *)
(*                                                                         *)
(* The user and the server run beside the program and may queue an event   *)
(* between any two steps of it.  The program is one thread: the polling of *)
(* an event and the simulation of a frame are its steps.                   *)
(***************************************************************************)
EXTENDS Naturals, SequencesExt

CONSTANTS
    Keys,        \* the keys of the keyboard that are used
    KeysymOf,    \* key -> the keysym of the program, or "NOT_FOUND"
    TextOf,      \* key -> what Xutf8LookupString makes of it, "" for nothing
    Positions,   \* the places of the pointer
    Origin,      \* the place 0, 0 of the window, which position starts with
    MaxInputs,   \* MAX_INPUTS
    Repeating,   \* the keys that repeat while they are held; modifiers do not
    Hasty,       \* TRUE: a key may be pressed again before the program has
                 \* read that it was released
    MaxEvents    \* bound: how often the user and the server act

ASSUME InputsAssumption ==
    /\ IsFiniteSet(Keys)
    /\ KeysymOf \in [Keys -> STRING]
    /\ TextOf \in [Keys -> STRING]
    /\ Origin \in Positions
    /\ Repeating \subseteq Keys
    /\ MaxInputs \in Nat \ {0}
    /\ Hasty \in BOOLEAN
    /\ MaxEvents \in Nat

VARIABLES
    queue,      \* the events that the server holds for the program
    down,       \* the keys that are held
    pointer,    \* where the pointer is
    budget,     \* how often the user and the server will still act
    inputs,     \* clicker_keystate.inputs, inputs_len long
    position,   \* clicker_keystate.mouse_position
    running,    \* clicker_state.is_running
    resize,     \* clicker_state.resize_required
    err,        \* err_str says "failed to add input"
    at,         \* where the frame is: 0 polling, then the next bind to try,
                \* and behind the last the text input
    typed       \* the texts inserted, in order

server == <<queue, down, pointer, budget>>
program == <<inputs, position, running, resize, err, at, typed>>
vars == <<server, program>>

-----------------------------------------------------------------------------
(* The table *)

Key(sym, text)   == [tag |-> "keyboard", what |-> sym, text |-> text]
Mouse(button)    == [tag |-> "mouse", what |-> button, text |-> ""]
Request(request) == [tag |-> "request", what |-> request, text |-> ""]

\* Entries are compared by tag and value.  No caller asks for a key that was
\* not found, the one case in which the text is compared too.
Same(e, f) == e.tag = f.tag /\ e.what = f.what

contains_input(table, e) == \E i \in DOMAIN table : Same(table[i], e)

\* A mistake: the last entry goes, whichever was meant.
RemoveLast(table, i) == Front(table)

\* The last entry takes the place of the one that goes.
RemoveSwap(table, i) == Front([table EXCEPT ![i] = Last(table)])

\* The first entry that is the same.
consume_input(table, e) ==
    LET found == {i \in DOMAIN table : Same(table[i], e)}
    IN  IF found = {} THEN table ELSE RemoveSwap(table, Min(found))

\* Two mistakes: one entry too many is taken; the loss is not told.
add_input_past(e) ==
    IF Len(inputs) > MaxInputs
    THEN err' = TRUE /\ UNCHANGED inputs
    ELSE inputs' = Append(inputs, e) /\ UNCHANGED err

add_input_silently(e) ==
    /\ inputs' = IF Len(inputs) >= MaxInputs THEN inputs ELSE Append(inputs, e)
    /\ UNCHANGED err

\* A full table takes no more: the input is lost and err_str says so.
add_input(e) ==
    IF Len(inputs) >= MaxInputs
    THEN err' = TRUE /\ UNCHANGED inputs
    ELSE inputs' = Append(inputs, e) /\ UNCHANGED err

-----------------------------------------------------------------------------
(* The user and the server *)

Press(k)   == [type |-> "KeyPress", of |-> k]
Release(k) == [type |-> "KeyRelease", of |-> k]

Queued(e) == \E i \in DOMAIN queue : queue[i] = e

Send(events) ==
    /\ budget > 0
    /\ budget' = budget - 1
    /\ queue' = queue \o events
    /\ UNCHANGED program

PressKey(k) ==
    /\ k \notin down
    /\ Queued(Release(k)) => Hasty
    /\ down' = down \cup {k}
    /\ Send(<<Press(k)>>)
    /\ UNCHANGED pointer

ReleaseKey(k) ==
    /\ k \in down
    /\ down' = down \ {k}
    /\ Send(<<Release(k)>>)
    /\ UNCHANGED pointer

\* A key that is held repeats as a release and a press.
RepeatKey(k) ==
    /\ k \in down \cap Repeating
    /\ Send(<<Release(k), Press(k)>>)
    /\ UNCHANGED <<down, pointer>>

MovePointer(p) ==
    /\ p # pointer
    /\ pointer' = p
    /\ Send(<<[type |-> "MotionNotify", of |-> p]>>)
    /\ UNCHANGED down

ButtonTypes == {"ButtonPress", "ButtonRelease"}

Other(type) ==
    /\ Send(<<[type |-> type, of |-> "-"]>>)
    /\ UNCHANGED <<down, pointer>>

-----------------------------------------------------------------------------
(* window_pol_event *)

IsMotion(e) == e.type = "MotionNotify"

\* A mistake: the press may be of any key.
FakeReleaseByAny(k) == Len(queue) > 1 /\ queue[2].type = "KeyPress"

\* A release is taken for the fake one of a repeat if the next event is a
\* press of the same key.
FakeRelease(k) == Len(queue) > 1 /\ queue[2] = Press(k)

\* Of several motions in the queue the position is that of the first.
NewPosition(e) == IF IsMotion(e) THEN e.of ELSE position

\* The events that are left when the motions are thrown away.
WithoutMotions(events) ==
    LET kept[n \in 0..Len(events)] ==
            IF n = 0 THEN <<>>
            ELSE IF IsMotion(events[n]) THEN kept[n - 1]
            ELSE Append(kept[n - 1], events[n])
    IN  kept[Len(events)]

\* One event.  With a motion, those still queued, wherever, are thrown away.
Poll ==
    /\ running
    /\ at = 0
    /\ queue # <<>>
    /\ LET e == Head(queue)
           k == e.of
       IN  /\ queue' = IF IsMotion(e)
                       THEN WithoutMotions(Tail(queue))
                       ELSE Tail(queue)
           /\ position' = NewPosition(e)
           /\ \/ /\ e.type = "KeyPress"
                 /\ add_input(Key(KeysymOf[k], TextOf[k]))
              \/ /\ e.type = "KeyRelease"
                 /\ ~FakeRelease(k)
                 /\ KeysymOf[k] # "NOT_FOUND"
                 /\ inputs' = consume_input(inputs, Key(KeysymOf[k], ""))
                 /\ UNCHANGED err
              \/ /\ e.type = "KeyRelease"
                 /\ FakeRelease(k) \/ KeysymOf[k] = "NOT_FOUND"
                 /\ UNCHANGED <<inputs, err>>
              \/ /\ e.type = "ButtonPress"
                 /\ add_input(Mouse("MOUSE1"))
              \/ /\ e.type = "ButtonRelease"
                 /\ inputs' = consume_input(inputs, Mouse("MOUSE1"))
                 /\ UNCHANGED err
              \/ /\ e.type = "ClientMessage"
                 /\ add_input(Request("CLOSE"))
              \/ /\ e.type = "ConfigureNotify"
                 /\ add_input(Request("RESIZE"))
              \/ /\ IsMotion(e)
                 /\ UNCHANGED <<inputs, err>>
    /\ UNCHANGED <<down, pointer, budget, running, resize, at, typed>>

-----------------------------------------------------------------------------
(* editor_simulate *)

\* A frame: polling ends when there is nothing to read.  One resize request
\* is taken; the request to close is left in the table.
Simulate ==
    /\ running
    /\ at = 0
    /\ queue = <<>>
    /\ inputs' = consume_input(inputs, Request("RESIZE"))
    /\ resize' = (resize \/ contains_input(inputs, Request("RESIZE")))
    /\ \/ /\ contains_input(inputs, Request("CLOSE"))
          /\ running' = FALSE
          /\ UNCHANGED at
       \/ /\ ~contains_input(inputs, Request("CLOSE"))
          /\ at' = 1
          /\ UNCHANGED running
    /\ UNCHANGED <<server, position, err, typed>>

\* clicker_binds without the one for debugging: the inputs that have to be in
\* the table.
clicker_binds ==
    << <<Key("EQUAL", ""), Key("CTRL_LEFT", "")>>,    \* increase text size
       <<Key("MINUS", ""), Key("CTRL_LEFT", "")>>,    \* decrease text size
       <<Key("ARROW_UP", "")>>,
       <<Key("ARROW_DOWN", "")>>,
       <<Key("ARROW_LEFT", "")>>,
       <<Key("ARROW_RIGHT", "")>>,
       <<Key("BACKSPACE", "")>>,
       <<Mouse("MOUSE1")>> >>                         \* click

\* A mistake: the inputs of a bind are looked for as another key.
TakenAsNone(e) == Key("NONE", "")

\* They are consumed by the keysym they hold, keys or not; a mouse button has
\* the first, 0, there.
Taken(e) == IF e.tag = "keyboard" THEN e ELSE Key("ARROW_UP", "")

\* All inputs of the i-th bind are in the table.
Ready(i) ==
    \A j \in DOMAIN clicker_binds[i] : contains_input(inputs, clicker_binds[i][j])

\* The table when a bind has consumed its inputs, one after another.
AfterBind(bind) ==
    LET table[n \in 0..Len(bind)] ==
            IF n = 0 THEN inputs ELSE consume_input(table[n - 1], Taken(bind[n]))
    IN  table[Len(bind)]

\* editor_do_binds: each in turn, once, if its inputs are still there.
DoBinds ==
    /\ running
    /\ at \in DOMAIN clicker_binds
    /\ \/ \E i \in at..Len(clicker_binds) :
              /\ Ready(i)
              /\ \A j \in at..(i - 1) : ~Ready(j)
              /\ at' = i + 1
              /\ inputs' = AfterBind(clicker_binds[i])
       \/ /\ \A i \in at..Len(clicker_binds) : ~Ready(i)
          /\ at' = Len(clicker_binds) + 1
          /\ UNCHANGED inputs
    /\ UNCHANGED <<server, position, running, resize, err, typed>>

\* A mistake: only the first entry is looked at.
FirstEntry(table) == {i \in DOMAIN table : i = 1 /\ table[i].text # ""}

TextEntries(table) == {i \in DOMAIN table : table[i].text # ""}

\* editor_buffer_text_input: the first entry with a text is inserted and the
\* last takes its place, until there is none; not with Ctrl in the table.
TextInput ==
    LET texts == TextEntries(inputs)
        ctrl  == contains_input(inputs, Key("CTRL_LEFT", ""))
    IN  /\ running
        /\ at = Len(clicker_binds) + 1
        /\ \/ /\ ~ctrl
              /\ texts # {}
              /\ typed' = Append(typed, inputs[Min(texts)].text)
              /\ inputs' = RemoveSwap(inputs, Min(texts))
              /\ UNCHANGED at
           \/ /\ ctrl \/ texts = {}
              /\ at' = 0
              /\ UNCHANGED <<inputs, typed>>
        /\ UNCHANGED <<server, position, running, resize, err>>

-----------------------------------------------------------------------------

Init ==
    /\ queue = <<>>
    /\ down = {}
    /\ pointer \in Positions
    /\ budget = MaxEvents
    /\ inputs = <<>>
    /\ position = Origin
    /\ running = TRUE
    /\ resize = FALSE
    /\ err = FALSE
    /\ at = 0
    /\ typed = <<>>

OtherTypes == ButtonTypes \cup {"ClientMessage", "ConfigureNotify"}

Environment ==
    \/ \E k \in Keys : PressKey(k) \/ ReleaseKey(k) \/ RepeatKey(k)
    \/ \E p \in Positions : MovePointer(p)
    \/ \E type \in OtherTypes : Other(type)

MainLoop == Poll \/ Simulate \/ DoBinds \/ TextInput

Next == Environment \/ MainLoop

\* The main loop never waits for the user: it polls what there is and ends
\* its frame.  Nothing is asked of the user and the server.
Spec == Init /\ [][Next]_vars /\ WF_vars(MainLoop)

-----------------------------------------------------------------------------

Entries ==
    [tag  : {"keyboard", "mouse", "request"},
     what : {KeysymOf[k] : k \in Keys} \cup {"MOUSE1", "CLOSE", "RESIZE"},
     text : {TextOf[k] : k \in Keys} \cup {""}]

TypeOK ==
    /\ \A i \in DOMAIN queue : queue[i].type \in
          OtherTypes \cup {"KeyPress", "KeyRelease", "MotionNotify"}
    /\ down \subseteq Keys
    /\ {pointer, position} \subseteq Positions
    /\ budget \in 0..MaxEvents
    /\ inputs \in Seq(Entries)
    /\ Len(inputs) <= MaxInputs
    /\ {running, resize, err} \subseteq BOOLEAN
    /\ at \in 0..(Len(clicker_binds) + 1)

(* What the way of an input promises *)

\* A request to close the window ends the main loop, unless the table was
\* full and the editor has said that it lost an input (window.c:33-36).
CloseIsHonoured ==
    Queued([type |-> "ClientMessage", of |-> "-"]) ~> (~running \/ err)

HasText == \E i \in DOMAIN inputs : inputs[i].text # ""

\* Texts do not stay in the table: at some time all are inserted, or used up
\* by a bind or a release, but for the time that Ctrl is in the table.
TextsLeave ==
    HasText ~> (~HasText \/ ~running
                \/ contains_input(inputs, Key("CTRL_LEFT", "")))

\* The texts of keys that the program knows by nothing else.
Letters ==
    {TextOf[k] : k \in {k \in Keys : KeysymOf[k] = "NOT_FOUND"}}
        \ ({""} \cup {TextOf[k] : k \in {k \in Keys : KeysymOf[k] # "NOT_FOUND"}})

PressesOf(text) == {Press(k) : k \in {k \in Keys : TextOf[k] = text}}

\* How often a letter has been pressed and not been lost: it is in the queue,
\* in the table or in the text.
Presses(letter) ==
    Cardinality({i \in DOMAIN queue : queue[i] \in PressesOf(letter)})
    + Cardinality({i \in DOMAIN inputs : inputs[i].text = letter})
    + Cardinality({i \in DOMAIN typed : typed[i] = letter})

\* The program neither loses nor doubles a letter, however binds, releases
\* and insertions move the entries of the table around, but for one that a
\* full table refuses, which it says.
LettersArePreserved ==
    [][budget' = budget =>
          \A letter \in Letters :
             \/ Presses(letter)' = Presses(letter)
             \/ err' /\ Presses(letter)' = Presses(letter) - 1]_vars

\* When all events are read, Ctrl is in the table only if it is held: a press
\* and its release cancel out, since a release is only skipped if it is a
\* "fake release" (window.c:172).  Text is not inserted otherwise.
NoStuckCtrl ==
    queue = <<>> /\ contains_input(inputs, Key("CTRL_LEFT", "")) =>
        \E k \in down : KeysymOf[k] = "CTRL_LEFT"

\* The texts that only the key of the bind brings.
Backspaces ==
    {t \in {TextOf[k] : k \in Keys} :
        \A k \in Keys : TextOf[k] = t => KeysymOf[k] = "BACKSPACE"}

\* How many entries of the table are of that key.
Entered == Cardinality({i \in DOMAIN inputs : inputs[i].what = "BACKSPACE"})

TypedOf(t) == Cardinality({i \in DOMAIN typed : typed[i] = t})

\* The frame, at n, has tried the bind of the key.
PastBackspace(n) ==
    \A i \in DOMAIN clicker_binds :
        clicker_binds[i] = <<Key("BACKSPACE", "")>> => n > i

\* The key of a one-key bind brings a text, too.  The bind uses up one entry of
\* the key in a frame, before the text is read; so its text is inserted only if
\* the key was there twice: if it repeated, or was pressed again, between two
\* frames.
CommandsAreNotText ==
    [][/\ at # 0 /\ ~PastBackspace(at) /\ PastBackspace(at') =>
             IF Entered = 0 THEN Entered' = 0 ELSE Entered' = Entered - 1
       /\ \A t \in Backspaces :
             TypedOf(t)' # TypedOf(t) =>
                PastBackspace(at) /\ Entered' = Entered - 1]_vars

=============================================================================
