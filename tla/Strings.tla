------------------------------ MODULE Strings -------------------------------
(***************************************************************************)
(* src/src/mr_utils/src/mrs_strings.c: strings with a length and a         *)
(* capacity in a block of their own.  An operator is named after its       *)
(* function and returns the string the call leaves; `granted' says whether *)
(* malloc or realloc gives the block.  The field bad is set by a store     *)
(* outside of the block.                                                   *)
(***************************************************************************)
EXTENDS Blocks, FiniteSets

CONSTANT CafeBabe  \* CAFE_BABE, what a freed string has for its length

Nul     == "nul"
Newline == "newline"
Tab     == "tab"
Space   == "space"

Failed == [value |-> Null, len |-> 0, capacity |-> 0, bad |-> FALSE]

Freed == [Failed EXCEPT !.len = CafeBabe, !.capacity = CafeBabe]

\* The characters of a string.
Text(str) == SubSeq(str.value, 1, str.len)

\* chars and a terminator are stored from the offset at on.
Ending(str, at, chars) ==
    [str EXCEPT !.value = Stored(str.value, at, Append(chars, Nul)),
                !.len = at + Len(chars),
                !.bad = @ \/ ~Within(str.value, at, Len(chars) + 1)]

\* A block for n characters and the terminator, which is written last.
Block(n) == Stored(malloc(n + 1), n, <<Nul>>)

mrs_create(capacity) == [Failed EXCEPT !.value = Block(capacity),
                                       !.capacity = capacity]

mrs_setstrn(str, src, len) ==
    IF len > str.capacity \/ len > Len(src)
    THEN str ELSE Ending(str, 0, SubSeq(src, 1, len))

mrs_setstr(str, src) ==
    IF Len(src) > str.capacity THEN str ELSE Ending(str, 0, src)

mrs_init(wanted, chars, granted) ==
    LET capacity == IF wanted = 0 THEN Len(chars) ELSE wanted
    IN  IF ~granted THEN Failed
        ELSE IF Len(chars) > capacity THEN Freed
        ELSE mrs_setstrn(mrs_create(capacity), chars, Len(chars))

\* Without a block only the pointer of the destination is written.
mrs_copy(dest, src, granted) ==
    IF ~granted THEN [dest EXCEPT !.value = Null]
    ELSE [src EXCEPT !.value = Stored(malloc(src.capacity + 1), 0,
                                      SubSeq(src.value, 1, src.len + 1))]

\* The characters that the loop of mrs_filter has kept after n steps.
Kept(str, remove_me) ==
    LET kept[n \in 0..str.len] ==
            IF n = 0 THEN <<>>
            ELSE IF str.value[n] # remove_me
                 THEN Append(kept[n - 1], str.value[n])
                 ELSE kept[n - 1]
    IN  kept[str.len]

mrs_filter(str, remove_me) ==
    LET kept == Kept(str, remove_me)
    IN  mrs_setstrn(str, kept, Len(kept))

mrs_remove_whitespace(str) ==
    mrs_filter(mrs_filter(mrs_filter(str, Space), Newline), Tab)

mrs_strcmp(a, b) == a.len = b.len /\ Text(a) = Text(b)

mrs_strcat(dest, src, granted) ==
    LET len == src.len + dest.len
    IN  IF len <= dest.capacity THEN Ending(dest, dest.len, Text(src))
        ELSE IF ~granted THEN dest
        ELSE Ending([dest EXCEPT !.value = malloc(len + 1), !.capacity = len],
                    0, Text(dest) \o Text(src))

\* A mistake: no room for the terminator.
mrs_pushstr_tight(dest, chars, granted) ==
    LET len == dest.len + Len(chars)
    IN  IF ~granted THEN dest
        ELSE Ending([dest EXCEPT
                        !.value = realloc(@, len),
                        !.capacity = IF len > @ THEN len ELSE @],
                    dest.len, chars)

\* The block is cut to the text, also where the capacity is larger.
mrs_pushstr(dest, chars, granted) ==
    LET len == dest.len + Len(chars)
    IN  IF ~granted THEN dest
        ELSE Ending([dest EXCEPT
                        !.value = realloc(@, len + 1),
                        !.capacity = IF len > @ THEN len ELSE @],
                    dest.len, chars)

\* The inner loop of mrs_strstr: an empty needle is at no place.
IsAt(haystack, needle, i) ==
    /\ needle.len > 0
    /\ \A j \in 1..needle.len : haystack.value[i + j] = needle.value[j]

\* The offset of the needle, or the length for NULL.
mrs_strstr(haystack, needle, start) ==
    LET found == {i \in start..(haystack.len - 1) :
                     /\ i + needle.len <= haystack.len
                     /\ IsAt(haystack, needle, i)}
    IN  IF found = {} THEN haystack.len
        ELSE CHOOSE i \in found : \A j \in found : i <= j

mrs_get_char(str, idx) == IF idx >= str.len THEN Nul ELSE str.value[idx + 1]

\* A pointer into the block, given as an offset, back to an index; the length
\* stands for NOT_FOUND.
mrs_get_idx(str, offset) == IF offset < str.len THEN offset ELSE str.len

mrs_is_whitespace(str, idx) ==
    IF mrs_get_char(str, idx) = Nul THEN "NOT_FOUND"
    ELSE IF mrs_get_char(str, idx) \in {Newline, Tab, Space} THEN "OK"
    ELSE "ERR"

mrs_strchr(str, target) ==
    LET found == {i \in 0..(str.len - 1) : str.value[i + 1] = target}
    IN  IF found = {} THEN str.len
        ELSE CHOOSE i \in found : \A j \in found : i <= j

\* The capacity is that of the source, the block is not.
mrs_strndup(src, len, dest, granted) ==
    IF src.len < len THEN dest
    ELSE IF ~granted THEN Failed
    ELSE Ending([src EXCEPT !.value = malloc(len + 1)], 0,
                SubSeq(src.value, 1, len))

mrs_shrink_to_fit(str) ==
    IF str.len = str.capacity THEN str
    ELSE Ending([str EXCEPT !.value = malloc(str.len + 1),
                            !.capacity = str.len],
                0, Text(str))

mrs_pop_char(str) ==
    IF str.len = 0 THEN str
    ELSE [str EXCEPT !.value = Stored(@, str.len - 1, <<Nul>>), !.len = @ - 1]

\* isspace in the C locale, on the characters modelled.
isspace(c) == c \in {Newline, Tab, Space}

\* Pop by pop from the end: what is left is the text up to the last character
\* that is no space.
mrs_trim_trailing_whitespace(str) ==
    LET trimmed[n \in 0..str.len] ==
            IF n = 0 THEN str
            ELSE LET s == trimmed[n - 1]
                 IN  IF s.len > 0 /\ isspace(s.value[s.len])
                     THEN mrs_pop_char(s) ELSE s
    IN  trimmed[str.len]

-----------------------------------------------------------------------------
(* What the library does with strings str and other, on what their texts   *)
(* are.  A string is sized if its block has room for its capacity.         *)

Sized(str) == str.value # Null /\ Len(str.value) = str.capacity + 1

Terminated(str) ==
    str.len < Len(str.value) /\ str.value[str.len + 1] = Nul

Good(str, text) == Text(str) = text /\ Terminated(str) /\ ~str.bad

\* The items of a sequence at some places, in their order.
Picked(seq, places) ==
    [i \in 1..Cardinality(places) |->
        seq[CHOOSE n \in places : Cardinality({m \in places : m <= n}) = i]]

Without(text, chars) == Picked(text, {n \in DOMAIN text : text[n] \notin chars})

\* Calls that stay in the block whatever the capacity says: other is a string,
\* or a destination that a refused call leaves as it is.
CallsAgree(str, other, chars) ==
    LET text == Text(str)
    IN  /\ Good(mrs_pushstr(str, Text(other), TRUE), text \o Text(other))
        /\ Good(mrs_remove_whitespace(str), Without(text, {Newline, Tab, Space}))
        /\ \A c \in chars :
              LET first == mrs_strchr(str, c)
              IN  /\ Good(mrs_filter(str, c), Without(text, {c}))
                  /\ IF c \in {text[i] : i \in DOMAIN text}
                     THEN /\ mrs_get_char(str, first) = c
                          /\ mrs_get_idx(str, first) = first
                          /\ c \notin {text[i] : i \in 1..first}
                     ELSE first = str.len
        /\ \A n \in 0..str.len :
              LET prefix == SubSeq(text, 1, n)
                  dup == mrs_strndup(str, n, Failed, TRUE)
              IN  Good(dup, prefix) /\ (mrs_strcmp(dup, str) <=> n = str.len)
        /\ mrs_strndup(str, str.len + 1, other, TRUE) = other
        /\ Good(mrs_copy(Failed, str, TRUE), text)
        /\ Good(mrs_shrink_to_fit(str), text)
        /\ Sized(mrs_shrink_to_fit(str)) \/ str.capacity = str.len
        /\ \A i \in 0..str.len :
              (mrs_is_whitespace(str, i) = "OK")
                 <=> (i < str.len /\ isspace(text[i + 1]))
        /\ \A start \in 0..str.len :
              LET i == mrs_strstr(str, other, start)
                  Occurs(j) ==
                      /\ j + other.len <= str.len
                      /\ SubSeq(text, j + 1, j + other.len) = Text(other)
              IN  IF i = str.len
                  THEN other.len > 0 => \A j \in start..str.len : ~Occurs(j)
                  ELSE Occurs(i) /\ \A j \in start..(i - 1) : ~Occurs(j)

\* Calls that trust the capacity.  Where it says more than the block has, and
\* the text with its terminator is too long for the block but not for the
\* capacity, they store past the end; and nowhere else.
TrustingCallsAgree(str, other) ==
    LET set     == mrs_setstr(str, Text(other))
        joined  == mrs_strcat(str, other, TRUE)
        TooLong(len) == len \in Len(str.value)..str.capacity
    IN  /\ other.len > str.capacity => set = str
        /\ other.len <= str.capacity =>
              IF TooLong(other.len) THEN set.bad ELSE Good(set, Text(other))
        /\ IF TooLong(str.len + other.len)
           THEN joined.bad
           ELSE Good(joined, Text(str) \o Text(other))

=============================================================================
