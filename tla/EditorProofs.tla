----------------------------- MODULE EditorProofs -----------------------------
(***************************************************************************)
(* Theorems about the table of gap buffers, the editing commands and the   *)
(* screen, for every size of a page, header, number of slots, alphabet,    *)
(* text, file, set of inputs and range of a coordinate.  First what the    *)
(* operations of GapBuffer make of a buffer and of its content, and what   *)
(* holds of the table.  Then the walks over the text, which are loops over *)
(* a char pointer: they stay in or just behind the mapping and end, and    *)
(* where nothing misleads them they stop at the characters of the text, so *)
(* the rows and columns they count are those of the text.  From this       *)
(* follow what the cursor and the renderer promise.                        *)
(***************************************************************************)
EXTENDS Editor, Texts, Loops, FiniteSetTheorems, SequenceTheorems, TLAPS

-----------------------------------------------------------------------------
(* A buffer *)

\* A mapping is at least a page, so its header and terminator fit.
LEMMA SizeIsNat ==
    ASSUME NEW n \in Sizes
    PROVE  /\ n \in Nat
           /\ PageSize <= n
           /\ MaxText(n) \in Nat
           /\ MaxText(n) > 0
<1>1. PICK k \in 1..MaxPages : n = k * PageSize
  BY DEF Sizes
<1>2. k \in Nat /\ k >= 1 /\ PageSize \in Nat
  BY SizeAssumption
<1>3. n \in Nat /\ PageSize <= n
  BY <1>1, <1>2
<1>4. QED
  BY <1>3, SizeAssumption DEF MaxText

\* What a well-formed buffer's fields are.
LEMMA Fields ==
    ASSUME NEW b, IsGapBuffer(b)
    PROVE  /\ b.size \in Nat
           /\ b.size \in Sizes
           /\ PageSize <= b.size
           /\ MaxText(b.size) \in Nat
           /\ MaxText(b.size) = b.size - HeaderSize - 1
           /\ b.gap_start \in Nat
           /\ b.gap_end \in Nat
           /\ b.gap_start <= b.gap_end
           /\ b.gap_end <= MaxText(b.size)
           /\ Gap(b) \in Nat
           /\ Gap(b) = b.gap_end - b.gap_start
           /\ TextLen(b) \in Nat
           /\ TextLen(b) = MaxText(b.size) - Gap(b)
           /\ b.gap_start <= TextLen(b)
           /\ b.text \in [0..MaxText(b.size) -> Bytes]
<1>1. /\ b.size \in Sizes
      /\ b.gap_start \in Nat
      /\ b.gap_end \in Nat
      /\ b.gap_start <= b.gap_end
      /\ b.gap_end <= MaxText(b.size)
      /\ b.text \in [0..MaxText(b.size) -> Bytes]
  BY DEF IsGapBuffer
<1>2. /\ b.size \in Nat
      /\ PageSize <= b.size
      /\ MaxText(b.size) \in Nat
  BY <1>1, SizeIsNat
<1>3. MaxText(b.size) = b.size - HeaderSize - 1
  BY DEF MaxText
<1>4. QED
  BY <1>1, <1>2, <1>3 DEF Gap, TextLen

\* The content is a sequence of bytes.
LEMMA ContentIsSeq ==
    ASSUME NEW b, IsGapBuffer(b)
    PROVE  /\ Content(b) \in Seq(Bytes)
           /\ Len(Content(b)) = TextLen(b)
           /\ DOMAIN Content(b) = 1..TextLen(b)
<1> USE Fields
<1>1. ASSUME NEW k \in 1..TextLen(b)
      PROVE  (IF k <= b.gap_start THEN b.text[k - 1] ELSE b.text[k - 1 + Gap(b)])
                \in Bytes
  <2>1. k \in Nat /\ k >= 1 /\ k <= TextLen(b)
    OBVIOUS
  <2>2. k - 1 \in 0..MaxText(b.size) /\ k - 1 + Gap(b) \in 0..MaxText(b.size)
    BY <2>1
  <2>3. QED
    BY <2>2
<1>2. Content(b) \in [1..TextLen(b) -> Bytes]
  BY <1>1 DEF Content
<1>3. QED
  BY <1>2

-----------------------------------------------------------------------------
(* New buffers *)

\* A blank mapping is a buffer with an empty text.
LEMMA BlankIsGapBuffer ==
    ASSUME NEW n \in Sizes
    PROVE  /\ IsGapBuffer(Blank(n))
           /\ Content(Blank(n)) = <<>>
           /\ Blank(n).gap_start = 0
           /\ Blank(n).text[MaxText(n)] = NUL
<1>1. /\ MaxText(n) \in Nat
      /\ MaxText(n) > 0
  BY SizeIsNat
<1>2. /\ Blank(n).size = n
      /\ Blank(n).gap_start = 0
      /\ Blank(n).gap_end = MaxText(n)
      /\ Blank(n).text = [p \in 0..MaxText(n) |-> NUL]
  BY DEF Blank
<1>3. IsGapBuffer(Blank(n))
  BY <1>1, <1>2, ByteAssumption DEF IsGapBuffer, Blank
<1>4. TextLen(Blank(n)) = 0
  BY <1>1, <1>2 DEF TextLen, Gap
<1>5. Content(Blank(n)) \in Seq(Bytes) /\ Len(Content(Blank(n))) = 0
  BY <1>3, <1>4, ContentIsSeq
<1>6. QED
  BY <1>1, <1>2, <1>3, <1>5

\* A mapping that is filled from a file is a buffer with the text of the file.
LEMMA FilledIsGapBuffer ==
    ASSUME NEW n \in Sizes, NEW s \in Seq(Bytes), Len(s) <= MaxText(n)
    PROVE  /\ IsGapBuffer(Filled(n, s))
           /\ Content(Filled(n, s)) = [i \in 1..Len(s) |-> s[i]]
           /\ Filled(n, s).size = n
           /\ Filled(n, s).gap_start = 0
           /\ Filled(n, s).gap_end = MaxText(n) - Len(s)
           /\ Filled(n, s).text[MaxText(n)] = FreshByte
           /\ s # <<>> => Filled(n, s).text[MaxText(n) - Len(s)] = s[1]
<1> DEFINE f == Filled(n, s)
           e == MaxText(n) - Len(s)
<1>1. /\ MaxText(n) \in Nat
      /\ Len(s) \in Nat
      /\ e \in Nat
  BY SizeIsNat
<1>2. /\ f.size = n
      /\ f.gap_start = 0
      /\ f.gap_end = e
      /\ f.text = [p \in 0..MaxText(n) |->
                      IF p \in e..MaxText(n) - 1 THEN s[p - e + 1] ELSE FreshByte]
  BY DEF Filled
<1>3. f.text \in [0..MaxText(n) -> Bytes]
  <2>1. ASSUME NEW p \in 0..MaxText(n), p \in e..MaxText(n) - 1
        PROVE  s[p - e + 1] \in Bytes
    <3>1. p - e + 1 \in 1..Len(s)
      BY <1>1, <2>1
    <3>2. QED
      BY <3>1
  <2>2. QED
    BY <1>2, <2>1, ByteAssumption
<1>4. IsGapBuffer(f)
  <2> HIDE DEF f, e
  <2>1. f \in [size : Sizes, gap_start : Nat, gap_end : Nat,
               text : [0..MaxText(f.size) -> Bytes]]
    BY <1>1, <1>2, <1>3 DEF f, Filled
  <2>2. f.gap_start <= f.gap_end /\ f.gap_end <= MaxText(f.size)
    BY <1>1, <1>2 DEF e
  <2>3. QED
    BY <2>1, <2>2 DEF IsGapBuffer
<1>5. TextLen(f) = Len(s) /\ Gap(f) = e
  BY <1>1, <1>2 DEF TextLen, Gap
<1>6. ASSUME NEW i \in 1..Len(s)
      PROVE  (IF i <= f.gap_start THEN f.text[i - 1] ELSE f.text[i - 1 + Gap(f)])
                = s[i]
  <2>1. i - 1 + e \in e..MaxText(n) - 1 /\ i - 1 + e \in 0..MaxText(n)
    BY <1>1
  <2>2. ~(i <= f.gap_start)
    BY <1>2
  <2>3. (i - 1 + e) - e + 1 = i
    BY <1>1
  <2> HIDE DEF f, e
  <2>4. f.text[i - 1 + e] = s[i]
    BY <2>1, <2>3, <1>2
  <2>5. QED
    BY <1>5, <2>2, <2>4
<1>7. Content(f) = [i \in 1..Len(s) |-> s[i]]
  <2> HIDE DEF f
  <2>1. QED
    BY <1>5, <1>6 DEF Content
<1>8. f.text[MaxText(n)] = FreshByte
  BY <1>1, <1>2
<1>9. s # <<>> => f.text[e] = s[1]
  <2>1. SUFFICES ASSUME s # <<>> PROVE f.text[e] = s[1]
    OBVIOUS
  <2>2. Len(s) > 0
    BY <2>1
  <2>3. e \in 0..MaxText(n) /\ e \in e..MaxText(n) - 1 /\ e - e + 1 = 1
    BY <1>1, <2>2
  <2> HIDE DEF f, e
  <2>4. QED
    BY <1>2, <2>3
<1>10. QED
  BY <1>2, <1>4, <1>7, <1>8, <1>9

-----------------------------------------------------------------------------
(* Moving the gap *)

\* Moving the gap changes neither the text nor the terminator: the bytes
\* between the two positions are copied to the other side, whole and in order,
\* although source and target overlap.
LEMMA MoveGapKeepsContent ==
    ASSUME NEW b, IsGapBuffer(b), NEW g \in Nat
    PROVE  /\ IsGapBuffer(MoveGap(b, g))
           /\ Content(MoveGap(b, g)) = Content(b)
           /\ MoveGap(b, g).size = b.size
           /\ MoveGap(b, g).gap_start = IF g > TextLen(b) THEN TextLen(b) ELSE g
           /\ MoveGap(b, g).text[MaxText(b.size)] = b.text[MaxText(b.size)]
<1> DEFINE to == IF g > TextLen(b) THEN TextLen(b) ELSE g
           w  == Gap(b)
           max == MaxText(b.size)
           m  == MoveGap(b, g)
<1>1. /\ b.size \in Sizes
      /\ max \in Nat
      /\ b.gap_start \in Nat
      /\ b.gap_end \in Nat
      /\ w \in Nat
      /\ b.gap_end = b.gap_start + w
      /\ b.gap_end <= max
      /\ TextLen(b) = max - w
      /\ TextLen(b) \in Nat
      /\ b.text \in [0..max -> Bytes]
  BY Fields
<1>2. to \in Nat /\ to + w <= max
  BY <1>1
<1>3. b \in [size : Sizes, gap_start : Nat, gap_end : Nat,
             text : [0..MaxText(b.size) -> Bytes]]
  BY DEF IsGapBuffer
<1>4. /\ m.size = b.size
      /\ m.gap_start = to
      /\ m.gap_end = to + w
      /\ m.text = [p \in 0..max |->
                      IF p \in (to + w)..(b.gap_end - 1) THEN b.text[p - w]
                      ELSE IF p \in b.gap_start..(to - 1) THEN b.text[p + w]
                      ELSE b.text[p]]
      /\ m \in [size : {b.size}, gap_start : {to}, gap_end : {to + w},
                text : {m.text}]
  BY <1>1, <1>3 DEF MoveGap
<1> HIDE DEF to, w, max, m
<1>5. m.text \in [0..max -> Bytes]
  <2>1. ASSUME NEW p \in 0..max, p \in (to + w)..(b.gap_end - 1)
        PROVE  p - w \in 0..max
    BY <1>1, <1>2, <2>1
  <2>2. ASSUME NEW p \in 0..max, p \in b.gap_start..(to - 1)
        PROVE  p + w \in 0..max
    BY <1>1, <1>2, <2>2
  <2>3. b.text \in [0..max -> Bytes]
    BY <1>1
  <2>4. m.text = [p \in 0..max |->
                     IF p \in (to + w)..(b.gap_end - 1) THEN b.text[p - w]
                     ELSE IF p \in b.gap_start..(to - 1) THEN b.text[p + w]
                     ELSE b.text[p]]
    BY <1>4
  <2>5. QED
    BY <2>1, <2>2, <2>3, <2>4
<1>6. IsGapBuffer(m)
  <2>1. to + w \in Nat
    BY <1>1, <1>2
  <2>2. m.text \in [0..MaxText(m.size) -> Bytes]
    BY <1>4, <1>5 DEF max
  <2>3. m \in [size : {b.size}, gap_start : {to}, gap_end : {to + w},
               text : {m.text}]
    BY <1>4
  <2>4. m \in [size : Sizes, gap_start : Nat, gap_end : Nat,
               text : [0..MaxText(m.size) -> Bytes]]
    BY <1>1, <1>2, <2>1, <2>2, <2>3
  <2>5. m.gap_start <= m.gap_end /\ m.gap_end <= MaxText(m.size)
    BY <1>1, <1>2, <1>4 DEF max
  <2>6. QED
    BY <2>4, <2>5 DEF IsGapBuffer
<1>g. /\ m.size = b.size /\ m.gap_start = to /\ m.gap_end = to + w
      /\ to \in Nat /\ w \in Nat
  BY <1>1, <1>2, <1>4
<1>7. Gap(m) = w /\ TextLen(m) = TextLen(b)
  <2>1. Gap(m) = w
    BY <1>g DEF Gap
  <2>2. QED
    BY <1>1, <1>g, <2>1 DEF TextLen, max
<1>8. ASSUME NEW k \in 1..TextLen(b)
      PROVE  (IF k <= m.gap_start THEN m.text[k - 1] ELSE m.text[k - 1 + w])
           = (IF k <= b.gap_start THEN b.text[k - 1] ELSE b.text[k - 1 + w])
  <2>1. k \in Nat /\ k >= 1 /\ k <= max - w
    BY <1>1
  <2>2. k - 1 \in 0..max /\ k - 1 + w \in 0..max
    BY <1>1, <2>1
  <2>3. CASE k <= to
    <3>a. k - 1 \notin (to + w)..(b.gap_end - 1)
      BY <1>g, <2>1, <2>3
    <3>1. m.text[k - 1] = IF k - 1 \in b.gap_start..(to - 1)
                          THEN b.text[k - 1 + w] ELSE b.text[k - 1]
      <4>1. m.text = [p \in 0..max |->
                         IF p \in (to + w)..(b.gap_end - 1) THEN b.text[p - w]
                         ELSE IF p \in b.gap_start..(to - 1) THEN b.text[p + w]
                         ELSE b.text[p]]
        BY <1>4
      <4>2. QED
        BY <2>2, <3>a, <4>1
    <3>2. k <= m.gap_start
      BY <1>g, <2>3
    <3>3. k - 1 \in b.gap_start..(to - 1) <=> ~(k <= b.gap_start)
      BY <1>1, <1>g, <2>1, <2>3
    <3>4. QED
      BY <3>1, <3>2, <3>3
  <2>4. CASE k > to
    <3> DEFINE p == k - 1 + w
    <3>a. p \in Int /\ p - w = k - 1 /\ p >= to + w
      BY <1>1, <1>2, <2>1, <2>4
    <3>b. p \in 0..max
      BY <2>2
    <3>c. b.gap_end = b.gap_start + w /\ b.gap_start \in Nat /\ w \in Nat /\ to \in Nat
      BY <1>1, <1>2
    <3> HIDE DEF p
    <3>d. p \notin b.gap_start..(to - 1)
      BY <3>a, <3>c
    <3>e. p \in (to + w)..(b.gap_end - 1) <=> k <= b.gap_start
      BY <2>1, <3>a, <3>c
    <3>1. /\ p \in 0..max
          /\ p - w = k - 1
          /\ p >= to + w
          /\ p \notin b.gap_start..(to - 1)
          /\ p \in (to + w)..(b.gap_end - 1) <=> k <= b.gap_start
      BY <3>a, <3>b, <3>d, <3>e
    <3> HIDE DEF p
    <3>2. m.text[p] = IF p \in (to + w)..(b.gap_end - 1)
                      THEN b.text[p - w] ELSE b.text[p]
      BY <1>4, <3>1
    <3>3. ~(k <= m.gap_start)
      BY <1>2, <1>4, <2>1, <2>4
    <3>4. QED
      BY <3>1, <3>2, <3>3 DEF p
  <2>5. QED
    BY <1>2, <2>1, <2>3, <2>4
<1>9. Content(m) = Content(b)
  BY <1>7, <1>8 DEF Content, w
<1>10. m.text[max] = b.text[max]
  <2>1. max \in 0..max /\ max \notin (to + w)..(b.gap_end - 1)
    BY <1>1, <1>g
  <2>2. max \notin b.gap_start..(to - 1)
    BY <1>1, <1>2
  <2>3. QED
    BY <1>4, <2>1, <2>2
<1>11. QED
  BY <1>4, <1>6, <1>9, <1>10 DEF m, to, max

-----------------------------------------------------------------------------
(* Inserting and deleting *)

\* Storing a string that fits the gap puts it in at the point.
LEMMA StoreSplices ==
    ASSUME NEW b, IsGapBuffer(b), NEW s \in Seq(Bytes), Len(s) <= Gap(b)
    PROVE  /\ IsGapBuffer(Store(b, s))
           /\ Content(Store(b, s)) = Splice(Content(b), b.gap_start, s)
           /\ Store(b, s).size = b.size
           /\ Store(b, s).gap_start = b.gap_start + Len(s)
           /\ Store(b, s).gap_end = b.gap_end
           /\ \A p \in 0..MaxText(b.size) :
                 p \notin b.gap_start..(b.gap_end - 1) =>
                     Store(b, s).text[p] = b.text[p]
           /\ s # <<>> => Store(b, s).text[b.gap_start] = s[1]
<1> DEFINE l == Len(s)
           w == Gap(b)
           max == MaxText(b.size)
           m  == Store(b, s)
<1>1. /\ b.size \in Sizes
      /\ max \in Nat
      /\ b.gap_start \in Nat
      /\ b.gap_end \in Nat
      /\ w \in Nat
      /\ b.gap_end = b.gap_start + w
      /\ b.gap_end <= max
      /\ TextLen(b) = max - w
      /\ TextLen(b) \in Nat
      /\ b.text \in [0..max -> Bytes]
  BY Fields
<1>2. l \in Nat /\ l <= w
  OBVIOUS
<1>3. b \in [size : Sizes, gap_start : Nat, gap_end : Nat,
             text : [0..MaxText(b.size) -> Bytes]]
  BY DEF IsGapBuffer
<1>4. /\ m.size = b.size
      /\ m.gap_start = b.gap_start + l
      /\ m.gap_end = b.gap_end
      /\ m.text = [p \in 0..max |->
                      IF p \in b.gap_start..(b.gap_start + l - 1)
                      THEN s[p - b.gap_start + 1] ELSE b.text[p]]
      /\ m \in [size : {b.size}, gap_start : {m.gap_start},
                gap_end : {b.gap_end}, text : {m.text}]
  BY <1>1, <1>3 DEF Store
<1>g. m.gap_start = b.gap_start + l /\ m.gap_end = b.gap_end /\ m.size = b.size
  BY <1>4
<1>a. /\ max \in Nat /\ b.gap_start \in Nat /\ w \in Nat /\ l \in Nat /\ l <= w
      /\ b.gap_end = b.gap_start + w
      /\ b.gap_start + w <= max
      /\ TextLen(b) = max - w
  BY <1>1, <1>2
<1>5. Content(b) \in [1..TextLen(b) -> Bytes] /\ Len(Content(b)) = TextLen(b)
  BY ContentIsSeq
<1>6. Content(b) = [k \in 1..TextLen(b) |->
          IF k <= b.gap_start THEN b.text[k - 1] ELSE b.text[k - 1 + w]]
  BY DEF Content
<1>7. s \in [1..l -> Bytes]
  OBVIOUS
<1> HIDE DEF l, w, max, m
<1>8. m.text \in [0..max -> Bytes]
  <2>1. ASSUME NEW p \in 0..max, p \in b.gap_start..(b.gap_start + l - 1)
        PROVE  s[p - b.gap_start + 1] \in Bytes
    <3>1. p - b.gap_start + 1 \in 1..l
      BY <1>a, <2>1, SMTT(20)
    <3>2. QED
      BY <1>7, <3>1
  <2>2. QED
    BY <1>1, <1>4, <2>1
<1>9. IsGapBuffer(m)
  <2>1. m.text \in [0..MaxText(m.size) -> Bytes]
    BY <1>4, <1>8 DEF max
  <2>2. m.gap_start \in Nat
    BY <1>1, <1>2, <1>4
  <2>3. m \in [size : {b.size}, gap_start : {m.gap_start},
               gap_end : {b.gap_end}, text : {m.text}]
    BY <1>4
  <2>4. m \in [size : Sizes, gap_start : Nat, gap_end : Nat,
               text : [0..MaxText(m.size) -> Bytes]]
    BY <1>1, <2>1, <2>2, <2>3
  <2>5. m.gap_start <= m.gap_end /\ m.gap_end <= MaxText(m.size)
    BY <1>1, <1>2, <1>4 DEF max
  <2>6. QED
    BY <2>4, <2>5 DEF IsGapBuffer
<1>10. Gap(m) = w - l /\ TextLen(m) = TextLen(b) + l
  BY <1>a, <1>g DEF Gap, TextLen, max
<1>11. ASSUME NEW k \in 1..(TextLen(b) + l)
       PROVE  (IF k <= m.gap_start THEN m.text[k - 1] ELSE m.text[k - 1 + (w - l)])
            = (IF k <= b.gap_start THEN Content(b)[k]
               ELSE IF k <= b.gap_start + l THEN s[k - b.gap_start]
               ELSE Content(b)[k - l])
  <2>1. k \in Nat /\ k >= 1 /\ k <= max - w + l
    BY <1>1, <1>2
  <2>2. CASE k <= b.gap_start
    <3>1. /\ k - 1 \in 0..max
          /\ k - 1 \notin b.gap_start..(b.gap_start + l - 1)
          /\ k \in 1..TextLen(b)
          /\ k <= m.gap_start
      BY <1>a, <1>g, <2>1, <2>2
    <3>2. m.text[k - 1] = b.text[k - 1]
      BY <1>4, <3>1
    <3>3. Content(b)[k] = b.text[k - 1]
      BY <1>6, <2>2, <3>1
    <3>4. QED
      BY <2>2, <3>1, <3>2, <3>3
  <2>3. CASE k > b.gap_start /\ k <= b.gap_start + l
    <3>a. k - 1 \in Int /\ k - 1 >= b.gap_start /\ k - 1 <= b.gap_start + l - 1
      BY <1>a, <2>1, <2>3
    <3>b. k - 1 >= 0 /\ k - 1 <= max
      BY <1>a, <2>1, <3>a
    <3>c. k - 1 - b.gap_start + 1 = k - b.gap_start
      BY <1>a, <2>1
    <3>d. k <= m.gap_start /\ ~(k <= b.gap_start)
      BY <1>a, <1>g, <2>1, <2>3
    <3>e. k - 1 \in b.gap_start..(b.gap_start + l - 1)
      BY <1>a, <3>a
    <3>f. k - 1 \in 0..max
      BY <1>a, <3>a, <3>b
    <3>1. /\ k - 1 \in 0..max
          /\ k - 1 \in b.gap_start..(b.gap_start + l - 1)
          /\ k - 1 - b.gap_start + 1 = k - b.gap_start
          /\ k <= m.gap_start
          /\ ~(k <= b.gap_start)
      BY <3>c, <3>d, <3>e, <3>f
    <3>2. m.text[k - 1] = s[k - b.gap_start]
      BY <1>4, <3>1
    <3>3. QED
      BY <2>3, <3>1, <3>2
  <2>4. CASE k > b.gap_start + l
    <3> DEFINE p == k - 1 + (w - l)
    <3>a. p \in Int /\ p >= b.gap_start + l /\ p <= max
      BY <1>a, <2>1, <2>4
    <3>b. p = (k - l) - 1 + w
      BY <1>a, <2>1
    <3>c. /\ ~(k - l <= b.gap_start)
          /\ ~(k <= m.gap_start)
          /\ ~(k <= b.gap_start)
          /\ ~(k <= b.gap_start + l)
      BY <1>a, <1>g, <2>1, <2>4
    <3>d. k - l >= 1 /\ k - l <= max - w
      BY <1>a, <2>1, <2>4
    <3>e. k - l \in 1..TextLen(b)
      BY <1>a, <2>1, <3>d
    <3> HIDE DEF p
    <3>f. p \notin b.gap_start..(b.gap_start + l - 1)
      BY <1>a, <3>a
    <3>g. p \in 0..max
      BY <1>a, <3>a
    <3>1. /\ p \in 0..max
          /\ p \notin b.gap_start..(b.gap_start + l - 1)
          /\ p = (k - l) - 1 + w
          /\ k - l \in 1..TextLen(b)
          /\ ~(k - l <= b.gap_start)
          /\ ~(k <= m.gap_start)
          /\ ~(k <= b.gap_start)
          /\ ~(k <= b.gap_start + l)
      BY <3>b, <3>c, <3>e, <3>f, <3>g
    <3>2. m.text[p] = b.text[p]
      BY <1>4, <3>1
    <3>3. Content(b)[k - l] = b.text[p]
      BY <1>6, <3>1
    <3>4. QED
      BY <3>1, <3>2, <3>3 DEF p
  <2>5. QED
    BY <1>1, <1>2, <2>1, <2>2, <2>3, <2>4
<1>12. Content(m) = Splice(Content(b), b.gap_start, s)
  BY <1>5, <1>10, <1>11 DEF Content, Splice, l
<1>13. ASSUME NEW p \in 0..max, p \notin b.gap_start..(b.gap_end - 1)
       PROVE  m.text[p] = b.text[p]
  <2>1. p \notin b.gap_start..(b.gap_start + l - 1)
    <3>1. p < b.gap_start \/ p > b.gap_end - 1
      BY <1>a, <1>13
    <3>2. QED
      BY <1>a, <3>1
  <2>2. QED
    BY <1>4, <2>1
<1>14. s # <<>> => m.text[b.gap_start] = s[1]
  <2>1. SUFFICES ASSUME s # <<>> PROVE m.text[b.gap_start] = s[1]
    OBVIOUS
  <2>2. l > 0
    BY <2>1 DEF l
  <2>3. /\ b.gap_start \in 0..max
        /\ b.gap_start \in b.gap_start..(b.gap_start + l - 1)
        /\ b.gap_start - b.gap_start + 1 = 1
    BY <1>1, <1>2, <2>2
  <2>4. QED
    BY <1>4, <2>3
<1>15. QED
  BY <1>4, <1>9, <1>12, <1>13, <1>14 DEF m, l, max

\* Taking bytes back into the gap cuts them out of the text.
LEMMA CutBackCuts ==
    ASSUME NEW b, IsGapBuffer(b), NEW p \in Nat, p <= b.gap_start
    PROVE  /\ IsGapBuffer(CutBack(b, p))
           /\ Content(CutBack(b, p)) = Cut(Content(b), p, b.gap_start)
           /\ CutBack(b, p).size = b.size
           /\ CutBack(b, p).gap_start = p
           /\ CutBack(b, p).gap_end = b.gap_end
           /\ CutBack(b, p).text = b.text
<1> DEFINE w == Gap(b)
           max == MaxText(b.size)
           d == b.gap_start - p
           m == CutBack(b, p)
<1>1. /\ b.size \in Sizes
      /\ max \in Nat
      /\ b.gap_start \in Nat
      /\ b.gap_end \in Nat
      /\ w \in Nat
      /\ b.gap_end = b.gap_start + w
      /\ b.gap_end <= max
      /\ TextLen(b) = max - w
      /\ TextLen(b) \in Nat
      /\ d \in Nat
      /\ b.text \in [0..max -> Bytes]
  BY Fields
<1>a. /\ max \in Nat /\ w \in Nat /\ d \in Nat /\ p \in Nat
      /\ b.gap_start = p + d
      /\ b.gap_start + w <= max
      /\ TextLen(b) = max - w
  BY <1>1
<1>2. b \in [size : Sizes, gap_start : Nat, gap_end : Nat,
             text : [0..MaxText(b.size) -> Bytes]]
  BY DEF IsGapBuffer
<1>3. /\ m.size = b.size
      /\ m.gap_start = p
      /\ m.gap_end = b.gap_end
      /\ m.text = b.text
      /\ m \in [size : Sizes, gap_start : Nat, gap_end : Nat,
                text : [0..MaxText(b.size) -> Bytes]]
  BY <1>2 DEF CutBack
<1>4. Content(b) = [k \in 1..TextLen(b) |->
          IF k <= b.gap_start THEN b.text[k - 1] ELSE b.text[k - 1 + w]]
  BY DEF Content
<1>5. Len(Content(b)) = TextLen(b)
  BY ContentIsSeq
<1> HIDE DEF w, max, m, d
<1>6. IsGapBuffer(m)
  BY <1>1, <1>3 DEF IsGapBuffer, max
<1>7. Gap(m) = w + d /\ TextLen(m) = TextLen(b) - d
  BY <1>a, <1>1, <1>3 DEF Gap, TextLen, max
<1>8. ASSUME NEW k \in 1..(TextLen(b) - d)
      PROVE  (IF k <= p THEN b.text[k - 1] ELSE b.text[k - 1 + (w + d)])
           = (IF k <= p THEN Content(b)[k] ELSE Content(b)[k + d])
  <2>1. CASE k <= p
    <3>1. k \in 1..TextLen(b) /\ k <= b.gap_start
      BY <1>a, <2>1
    <3>2. QED
      BY <1>4, <2>1, <3>1
  <2>2. CASE ~(k <= p)
    <3>1. /\ k + d \in 1..TextLen(b)
          /\ ~(k + d <= b.gap_start)
          /\ (k + d) - 1 + w = k - 1 + (w + d)
      BY <1>a, <2>2
    <3>2. Content(b)[k + d] = b.text[(k + d) - 1 + w]
      BY <1>4, <3>1
    <3>3. QED
      BY <2>2, <3>1, <3>2
  <2>3. QED
    BY <2>1, <2>2
<1>9. Content(m) = Cut(Content(b), p, b.gap_start)
  BY <1>3, <1>5, <1>7, <1>8 DEF Content, Cut, d
<1>10. QED
  BY <1>3, <1>6, <1>9 DEF m

-----------------------------------------------------------------------------
(* Growing *)

\* The larger mapping holds the same text, with a gap that is one page wider.
LEMMA GrowKeepsContent ==
    ASSUME NEW b, IsGapBuffer(b), b.size + PageSize \in Sizes
    PROVE  /\ IsGapBuffer(Grow(b))
           /\ Content(Grow(b)) = Content(b)
           /\ Grow(b).size = b.size + PageSize
           /\ Grow(b).gap_start = b.gap_start
           /\ Grow(b).gap_end = b.gap_end + PageSize
           /\ Gap(Grow(b)) = Gap(b) + PageSize
           /\ MaxText(Grow(b).size) = MaxText(b.size) + PageSize
           /\ \A p \in 0..(b.gap_start - 1) : Grow(b).text[p] = b.text[p]
           /\ \A p \in b.gap_end..(MaxText(b.size) - 1) :
                 Grow(b).text[p + PageSize] = b.text[p]
           /\ Grow(b).text[MaxText(Grow(b).size)] = FreshByte
<1> DEFINE w == Gap(b)
           max == MaxText(b.size)
           new == MaxText(b.size + PageSize)
           m == Grow(b)
<1>1. /\ max \in Nat
      /\ b.size \in Nat
      /\ b.gap_start \in Nat
      /\ b.gap_end \in Nat
      /\ w \in Nat
      /\ b.gap_end = b.gap_start + w
      /\ b.gap_end <= max
      /\ TextLen(b) = max - w
      /\ max = b.size - HeaderSize - 1
      /\ PageSize \in Nat
      /\ HeaderSize \in Nat
      /\ PageSize > 0
  BY Fields, SizeAssumption
<1>2. b.text \in [0..max -> Bytes]
  BY Fields
<1>3. new = max + PageSize
  BY <1>1 DEF MaxText
<1>4. /\ m.size = b.size + PageSize
      /\ m.gap_start = b.gap_start
      /\ m.gap_end = b.gap_end + PageSize
  BY DEF Grow
<1>5. m.text = [p \in 0..new |->
                   IF p \in (b.gap_end + PageSize)..(new - 1) THEN b.text[p - PageSize]
                   ELSE IF p <= max THEN b.text[p]
                   ELSE FreshByte]
  BY DEF Grow
<1>6. m = [size |-> m.size, gap_start |-> m.gap_start, gap_end |-> m.gap_end,
           text |-> m.text]
  BY DEF Grow
<1> HIDE DEF w, max, new, m
<1>7. m.text \in [0..new -> Bytes]
  <2>1. ASSUME NEW p \in 0..new, p \in (b.gap_end + PageSize)..(new - 1)
        PROVE  b.text[p - PageSize] \in Bytes
    <3>1. p - PageSize \in 0..max
      BY <1>1, <1>3, <2>1
    <3>2. QED
      BY <1>2, <3>1
  <2>2. ASSUME NEW p \in 0..new, p <= max
        PROVE  b.text[p] \in Bytes
    <3>1. p \in 0..max
      BY <1>1, <2>2
    <3>2. QED
      BY <1>2, <3>1
  <2>3. QED
    BY <1>5, <2>1, <2>2, ByteAssumption
<1>8. IsGapBuffer(m)
  <2>1. /\ m.size \in Sizes
        /\ m.gap_start \in Nat
        /\ m.gap_end \in Nat
        /\ m.gap_start <= m.gap_end
        /\ m.gap_end <= new
    BY <1>1, <1>3, <1>4
  <2>2. MaxText(m.size) = new
    BY <1>4 DEF new
  <2>3. m.text \in [0..MaxText(m.size) -> Bytes]
    BY <1>7, <2>2
  <2>4. m \in [size : Sizes, gap_start : Nat, gap_end : Nat,
               text : [0..MaxText(m.size) -> Bytes]]
    BY <1>6, <2>1, <2>3
  <2>5. QED
    BY <2>1, <2>2, <2>4 DEF IsGapBuffer
<1>9. Gap(m) = w + PageSize /\ MaxText(m.size) = new /\ TextLen(m) = TextLen(b)
  BY <1>1, <1>3, <1>4 DEF Gap, TextLen, new
<1>10. ASSUME NEW p \in 0..(b.gap_start - 1)
       PROVE  m.text[p] = b.text[p]
  <2>1. p \in 0..new /\ p \notin (b.gap_end + PageSize)..(new - 1) /\ p <= max
    BY <1>1, <1>3
  <2>2. QED
    BY <1>5, <2>1
<1>11. ASSUME NEW p \in b.gap_end..(max - 1)
       PROVE  m.text[p + PageSize] = b.text[p]
  <2>1. /\ p + PageSize \in 0..new
        /\ p + PageSize \in (b.gap_end + PageSize)..(new - 1)
        /\ (p + PageSize) - PageSize = p
    BY <1>1, <1>3
  <2>2. QED
    BY <1>5, <2>1
<1>12. m.text[new] = FreshByte
  <2>1. new \in 0..new /\ new \notin (b.gap_end + PageSize)..(new - 1) /\ ~(new <= max)
    BY <1>1, <1>3
  <2>2. QED
    BY <1>5, <2>1
<1>13. ASSUME NEW k \in 1..TextLen(b)
       PROVE  (IF k <= b.gap_start THEN m.text[k - 1]
               ELSE m.text[k - 1 + (w + PageSize)])
            = (IF k <= b.gap_start THEN b.text[k - 1] ELSE b.text[k - 1 + w])
  <2>1. CASE k <= b.gap_start
    <3>1. k - 1 \in 0..(b.gap_start - 1)
      BY <1>1, <2>1
    <3>2. QED
      BY <1>10, <2>1, <3>1
  <2>2. CASE ~(k <= b.gap_start)
    <3>1. /\ k - 1 + w \in b.gap_end..(max - 1)
          /\ k - 1 + (w + PageSize) = (k - 1 + w) + PageSize
      BY <1>1, <2>2
    <3>2. QED
      BY <1>11, <2>2, <3>1
  <2>3. QED
    BY <2>1, <2>2
<1>14. Content(m) = Content(b)
  BY <1>4, <1>9, <1>13 DEF Content, w
<1>15. QED
  BY <1>3, <1>4, <1>8, <1>9, <1>10, <1>11, <1>12, <1>14 DEF m, max, w

-----------------------------------------------------------------------------
(* The way between an offset and its place in the text *)

TextOffsets(b) == (0..b.gap_start - 1) \cup (b.gap_end..MaxText(b.size) - 1)

\* The numbers that the next lemmas are about.
LEMMA GapIs ==
    ASSUME NEW b, IsGapBuffer(b)
    PROVE  /\ MaxText(b.size) \in Nat
           /\ Gap(b) \in Nat
           /\ b.gap_start \in Nat
           /\ b.gap_end \in Nat
           /\ b.gap_end = b.gap_start + Gap(b)
           /\ b.gap_end <= MaxText(b.size)
           /\ TextLen(b) = MaxText(b.size) - Gap(b)
           /\ TextLen(b) \in Nat
           /\ b.gap_start <= TextLen(b)
BY Fields

\* The byte at an offset is the one at its place in the text.
LEMMA ByteOfText ==
    ASSUME NEW b, IsGapBuffer(b), NEW p \in TextOffsets(b)
    PROVE  /\ Logical(b, p) \in 0..(TextLen(b) - 1)
           /\ Content(b)[Logical(b, p) + 1] = b.text[p]
<1> DEFINE w == Gap(b)
<1>1. /\ MaxText(b.size) \in Nat /\ w \in Nat
      /\ b.gap_start \in Nat /\ b.gap_end = b.gap_start + w
      /\ b.gap_end <= MaxText(b.size)
      /\ TextLen(b) = MaxText(b.size) - w
  BY GapIs
<1>2. p \in (0..b.gap_start - 1) \cup (b.gap_end..MaxText(b.size) - 1)
  BY DEF TextOffsets
<1>3. Logical(b, p) = IF p < b.gap_start THEN p ELSE p - w
  BY DEF Logical
<1> HIDE DEF w
<1>4. Logical(b, p) \in 0..(TextLen(b) - 1)
  BY <1>1, <1>2, <1>3
<1>5. PICK k \in 1..TextLen(b) : k = Logical(b, p) + 1
  BY <1>1, <1>4
<1>6. Content(b)[k] = IF k <= b.gap_start THEN b.text[k - 1] ELSE b.text[k - 1 + w]
  BY DEF Content, w
<1>7. CASE p < b.gap_start
  <2>1. k <= b.gap_start /\ k - 1 = p
    BY <1>1, <1>2, <1>3, <1>5, <1>7
  <2>2. QED
    BY <1>4, <1>5, <1>6, <2>1
<1>8. CASE ~(p < b.gap_start)
  <2>1. ~(k <= b.gap_start) /\ k - 1 + w = p
    BY <1>1, <1>2, <1>3, <1>5, <1>8
  <2>2. QED
    BY <1>4, <1>5, <1>6, <2>1
<1>9. QED
  BY <1>7, <1>8

\* Each place in the text has an offset.
LEMMA OffsetOfByte ==
    ASSUME NEW b, IsGapBuffer(b), NEW k \in 0..(TextLen(b) - 1)
    PROVE  \E p \in TextOffsets(b) : Logical(b, p) = k
<1>1. /\ MaxText(b.size) \in Nat /\ Gap(b) \in Nat
      /\ b.gap_start \in Nat /\ b.gap_end = b.gap_start + Gap(b)
      /\ b.gap_end <= MaxText(b.size)
      /\ TextLen(b) = MaxText(b.size) - Gap(b)
  BY GapIs
<1>2. CASE k < b.gap_start
  BY <1>1, <1>2 DEF TextOffsets, Logical
<1>3. CASE ~(k < b.gap_start)
  <2>1. PICK p \in TextOffsets(b) : p = k + Gap(b)
    BY <1>1, <1>3 DEF TextOffsets
  <2>2. ~(p < b.gap_start) /\ p - Gap(b) = k
    BY <1>1, <1>3, <2>1
  <2>3. QED
    BY <2>1, <2>2 DEF Logical
<1>4. QED
  BY <1>2, <1>3

\* Offsets and places are in the same order, the end of the text included.
LEMMA LogicalKeepsOrder ==
    ASSUME NEW b, IsGapBuffer(b),
           NEW p \in TextOffsets(b) \cup {MaxText(b.size)},
           NEW q \in TextOffsets(b) \cup {MaxText(b.size)}
    PROVE  /\ p \in Nat /\ q \in Nat
           /\ Logical(b, p) \in 0..TextLen(b)
           /\ Logical(b, q) \in 0..TextLen(b)
           /\ Logical(b, MaxText(b.size)) = TextLen(b)
           /\ Logical(b, p) < Logical(b, q) <=> p < q
           /\ Logical(b, p) = Logical(b, q) <=> p = q
<1>1. /\ MaxText(b.size) \in Nat /\ Gap(b) \in Nat
      /\ b.gap_start \in Nat /\ b.gap_end = b.gap_start + Gap(b)
      /\ b.gap_end <= MaxText(b.size)
      /\ TextLen(b) = MaxText(b.size) - Gap(b)
  BY GapIs
<1>2. \A r \in TextOffsets(b) \cup {MaxText(b.size)} :
         r \in Nat /\ (r < b.gap_start \/ b.gap_end <= r) /\ r <= MaxText(b.size)
  BY <1>1 DEF TextOffsets
<1>3. \A r : Logical(b, r) = IF r < b.gap_start THEN r ELSE r - Gap(b)
  BY DEF Logical
<1>4. Logical(b, MaxText(b.size)) = TextLen(b)
  BY <1>1, <1>3
<1>5. p \in Nat /\ (p < b.gap_start \/ b.gap_end <= p) /\ p <= MaxText(b.size)
  BY <1>2
<1>6. q \in Nat /\ (q < b.gap_start \/ b.gap_end <= q) /\ q <= MaxText(b.size)
  BY <1>2
<1>7. /\ Logical(b, p) = IF p < b.gap_start THEN p ELSE p - Gap(b)
      /\ Logical(b, q) = IF q < b.gap_start THEN q ELSE q - Gap(b)
  BY <1>3
<1>8. /\ Logical(b, p) \in 0..TextLen(b)
      /\ Logical(b, q) \in 0..TextLen(b)
      /\ Logical(b, p) < Logical(b, q) <=> p < q
      /\ Logical(b, p) = Logical(b, q) <=> p = q
  BY <1>1, <1>5, <1>6, <1>7
<1>9. QED
  BY <1>4, <1>5, <1>6, <1>8

\* The bytes of kind X: of a text behind its first j bytes up to the k-th, and
\* of a buffer from offset p up to q.
InText(s, j, k, X) == {i \in (j + 1)..k : s[i] \in X}

InBuffer(b, p, q, X) == {r \in TextOffsets(b) : p <= r /\ r < q /\ b.text[r] \in X}

\* Between two offsets there are as many of them as between their places in
\* the text.
LEMMA CountsAgree ==
    ASSUME NEW b, IsGapBuffer(b), NEW X,
           NEW p \in TextOffsets(b) \cup {MaxText(b.size)},
           NEW q \in TextOffsets(b) \cup {MaxText(b.size)}
    PROVE  /\ IsFiniteSet(InBuffer(b, p, q, X))
           /\ Cardinality(InText(Content(b), Logical(b, p), Logical(b, q), X))
                 = Cardinality(InBuffer(b, p, q, X))
<1> DEFINE S == {r \in TextOffsets(b) : p <= r /\ r < q /\ b.text[r] \in X}
           T == {i \in (Logical(b, p) + 1)..Logical(b, q) : Content(b)[i] \in X}
           f == [r \in S |-> Logical(b, r) + 1]
           all == TextOffsets(b) \cup {MaxText(b.size)}
<1>1. /\ TextLen(b) \in Nat
      /\ Logical(b, p) \in 0..TextLen(b) /\ Logical(b, q) \in 0..TextLen(b)
      /\ p \in Nat /\ q \in Nat
  BY GapIs, LogicalKeepsOrder
<1>2. IsFiniteSet(S)
  <2>1. ASSUME NEW r \in S
        PROVE  r \in 0..q
    <3>1. r \in Nat /\ r < q
      BY LogicalKeepsOrder
    <3>2. QED
      BY <1>1, <3>1
  <2>2. IsFiniteSet(0..q)
    BY <1>1, FS_Interval
  <2>3. QED
    BY <2>1, <2>2, FS_Subset
<1>3. ASSUME NEW r \in TextOffsets(b)
      PROVE  /\ r \in all
             /\ Logical(b, r) \in 0..(TextLen(b) - 1)
             /\ Content(b)[Logical(b, r) + 1] = b.text[r]
             /\ Logical(b, r) < Logical(b, q) <=> r < q
             /\ Logical(b, p) <= Logical(b, r) <=> p <= r
  <2>1. /\ r \in Nat /\ Logical(b, r) \in 0..TextLen(b)
        /\ Logical(b, r) < Logical(b, q) <=> r < q
        /\ Logical(b, r) < Logical(b, p) <=> r < p
    BY LogicalKeepsOrder
  <2>2. Logical(b, p) <= Logical(b, r) <=> p <= r
    BY <1>1, <2>1
  <2>3. QED
    BY <2>1, <2>2, ByteOfText
<1>4. ASSUME NEW r \in S
      PROVE  Logical(b, r) + 1 \in T
  <2>1. /\ r \in TextOffsets(b) /\ b.text[r] \in X
        /\ Logical(b, p) <= Logical(b, r) /\ Logical(b, r) < Logical(b, q)
    BY <1>3
  <2>2. Logical(b, r) + 1 \in (Logical(b, p) + 1)..Logical(b, q)
    BY <1>1, <1>3, <2>1
  <2>3. QED
    BY <1>3, <2>1, <2>2
<1>5. f \in [S -> T]
  BY <1>4
<1>6. ASSUME NEW x \in S, NEW y \in S, f[x] = f[y]
      PROVE  x = y
  <2>1. Logical(b, x) + 1 = Logical(b, y) + 1
    BY <1>6
  <2>2. Logical(b, x) = Logical(b, y)
    BY <1>3, <2>1
  <2>3. QED
    BY <2>2, LogicalKeepsOrder
<1>7. ASSUME NEW i \in T
      PROVE  \E r \in S : f[r] = i
  <2>1. i \in (Logical(b, p) + 1)..Logical(b, q) /\ Content(b)[i] \in X
    OBVIOUS
  <2>2. i - 1 \in 0..(TextLen(b) - 1) /\ i - 1 + 1 = i
    BY <1>1, <2>1
  <2>3. PICK r \in TextOffsets(b) : Logical(b, r) = i - 1
    BY <2>2, OffsetOfByte
  <2>4. Logical(b, p) <= Logical(b, r) /\ Logical(b, r) < Logical(b, q)
    BY <1>1, <2>1, <2>3
  <2>5. p <= r /\ r < q /\ b.text[r] \in X
    BY <1>3, <2>1, <2>2, <2>3, <2>4
  <2>6. QED
    BY <2>2, <2>3, <2>5
<1> HIDE DEF S, T, f
<1>8. Cardinality(T) = Cardinality(S)
  BY <1>2, <1>5, <1>6, <1>7, SameCount
<1>9. QED
  BY <1>2, <1>8 DEF S, T, InText, InBuffer

-----------------------------------------------------------------------------
(* Looking up characters *)

\* A buffer has finitely many characters.
LEMMA CharStartsFinite ==
    ASSUME NEW b, IsGapBuffer(b)
    PROVE  /\ CharStarts(b) \in SUBSET Nat
           /\ IsFiniteSet(CharStarts(b))
           /\ Cardinality(CharStarts(b)) \in Nat
<1>1. CharStarts(b) \subseteq 0..MaxText(b.size)
  BY Fields DEF CharStarts
<1>2. IsFiniteSet(0..MaxText(b.size))
  BY Fields, FS_Interval
<1>3. QED
  BY <1>1, <1>2, Fields, FS_Subset, FS_CardinalityType

\* The characters in front of an offset.
CharsTo(b, p) == {q \in CharStarts(b) : q < p}

Rank(b, p) == Cardinality(CharsTo(b, p))

LEMMA RankType ==
    ASSUME NEW b, IsGapBuffer(b), NEW p
    PROVE  /\ IsFiniteSet(CharsTo(b, p))
           /\ Rank(b, p) \in Nat
           /\ Rank(b, p) <= Cardinality(CharStarts(b))
<1>1. IsFiniteSet(CharStarts(b)) /\ CharsTo(b, p) \in SUBSET CharStarts(b)
  BY CharStartsFinite DEF CharsTo
<1>2. /\ IsFiniteSet(CharsTo(b, p))
      /\ Cardinality(CharsTo(b, p)) <= Cardinality(CharStarts(b))
  BY <1>1, FS_Subset
<1>3. QED
  BY <1>2, FS_CardinalityType DEF Rank

\* A character that starts at an offset is one more in front of the next.
LEMMA RankOfNext ==
    ASSUME NEW b, IsGapBuffer(b), NEW p \in TextOffsets(b)
    PROVE  Rank(b, p + 1) =
              IF b.text[p] \in Cont THEN Rank(b, p) ELSE Rank(b, p) + 1
<1>1. p \in Nat /\ CharStarts(b) \in SUBSET Nat
  BY GapIs, CharStartsFinite DEF TextOffsets
<1>2. p \in CharStarts(b) <=> b.text[p] \notin Cont
  BY DEF CharStarts, TextOffsets
<1>3. \A q \in CharStarts(b) : q < p + 1 <=> q < p \/ q = p
  BY <1>1
<1>4. IsFiniteSet(CharsTo(b, p)) /\ p \notin CharsTo(b, p)
  BY <1>1, RankType DEF CharsTo
<1>5. CASE b.text[p] \in Cont
  <2>1. CharsTo(b, p + 1) = CharsTo(b, p)
    BY <1>2, <1>3, <1>5 DEF CharsTo
  <2>2. QED
    BY <1>5, <2>1 DEF Rank
<1>6. CASE b.text[p] \notin Cont
  <2>1. CharsTo(b, p + 1) = CharsTo(b, p) \cup {p}
    BY <1>2, <1>3, <1>6 DEF CharsTo
  <2>2. Cardinality(CharsTo(b, p) \cup {p}) = Cardinality(CharsTo(b, p)) + 1
    BY <1>4, FS_AddElement
  <2>3. QED
    BY <1>6, <2>1, <2>2 DEF Rank
<1>7. QED
  BY <1>5, <1>6

\* No character starts in front of the text, none in the gap, and all of them
\* in front of the terminator.
LEMMA RankOfEnds ==
    ASSUME NEW b, IsGapBuffer(b)
    PROVE  /\ Rank(b, 0) = 0
           /\ Rank(b, b.gap_end) = Rank(b, b.gap_start)
           /\ Rank(b, MaxText(b.size)) = Cardinality(CharStarts(b))
<1>1. /\ \A q \in CharStarts(b) :
            /\ q \in Nat
            /\ q < MaxText(b.size)
            /\ q < b.gap_start \/ b.gap_end <= q
      /\ b.gap_start \in Nat /\ b.gap_end \in Nat
      /\ b.gap_start <= b.gap_end
  BY Fields DEF CharStarts
<1>2. CharsTo(b, 0) = {}
  BY <1>1 DEF CharsTo
<1>3. CharsTo(b, b.gap_end) = CharsTo(b, b.gap_start)
  BY <1>1 DEF CharsTo
<1>4. CharsTo(b, MaxText(b.size)) = CharStarts(b)
  BY <1>1 DEF CharsTo
<1>5. QED
  BY <1>2, <1>3, <1>4, FS_EmptySet DEF Rank

\* Of two characters the one behind has more in front of it.
LEMMA RankGrows ==
    ASSUME NEW b, IsGapBuffer(b), NEW p \in CharStarts(b), NEW q, p < q,
           q \in CharStarts(b) \cup {MaxText(b.size)}
    PROVE  Rank(b, p) < Rank(b, q)
<1>1. p \in Nat /\ q \in Nat /\ CharStarts(b) \in SUBSET Nat
  BY Fields, CharStartsFinite
<1>2. CharsTo(b, p) \cup {p} \in SUBSET CharsTo(b, q)
  <2>1. \A r \in CharStarts(b) : r < p => r < q
    BY <1>1
  <2>2. QED
    BY <2>1 DEF CharsTo
<1>3. /\ IsFiniteSet(CharsTo(b, p)) /\ p \notin CharsTo(b, p)
      /\ IsFiniteSet(CharsTo(b, q))
  BY <1>1, RankType DEF CharsTo
<1>4. Cardinality(CharsTo(b, p) \cup {p}) = Rank(b, p) + 1
  BY <1>3, FS_AddElement DEF Rank
<1>5. Cardinality(CharsTo(b, p) \cup {p}) <= Rank(b, q)
  BY <1>2, <1>3, FS_Subset DEF Rank
<1>6. QED
  BY <1>4, <1>5, RankType

\* So the number of characters in front tells where a character starts, and
\* that the end of the text is none.
LEMMA OneOfRank ==
    ASSUME NEW b, IsGapBuffer(b),
           NEW p \in CharStarts(b) \cup {MaxText(b.size)},
           NEW q \in CharStarts(b) \cup {MaxText(b.size)},
           Rank(b, p) = Rank(b, q)
    PROVE  p = q
<1>1. /\ p \in Nat /\ q \in Nat
      /\ \A r \in CharStarts(b) : r < MaxText(b.size)
  BY Fields, CharStartsFinite DEF CharStarts
<1>2. Rank(b, p) \in Nat /\ Rank(b, q) \in Nat
  BY RankType
<1>3. CASE p < q
  <2>1. p \in CharStarts(b)
    BY <1>1, <1>3
  <2>2. Rank(b, p) < Rank(b, q)
    BY <1>3, <2>1, RankGrows
  <2>3. QED
    BY <1>2, <2>2
<1>4. CASE q < p
  <2>1. q \in CharStarts(b)
    BY <1>1, <1>4
  <2>2. Rank(b, q) < Rank(b, p)
    BY <1>4, <2>1, RankGrows
  <2>3. QED
    BY <1>2, <2>2
<1>5. QED
  BY <1>1, <1>3, <1>4

LStates == [logical : Nat, chars : Nat, found : BOOLEAN]

LEMMA LogicalTurnType ==
    ASSUME NEW b, NEW i, NEW p, NEW t \in LStates
    PROVE  LogicalTurn(b, i, t, p) \in LStates
<1>1. [t EXCEPT !.logical = @ + 1] \in LStates
  BY DEF LStates
<1>2. [t EXCEPT !.found = TRUE] \in LStates
  BY DEF LStates
<1>3. [logical |-> t.logical + 1, chars |-> t.chars + 1, found |-> FALSE] \in LStates
  BY DEF LStates
<1>4. QED
  BY <1>1, <1>2, <1>3 DEF LogicalTurn

\* Where a loop of the lookup without the gap is in front of offset p, which
\* is the l-th byte of the text: it has found the character with i others in
\* front of it, or counted what lies in front of p.
LogicalAt(b, i, s, p, l) ==
    /\ s \in LStates
    /\ s.found => \E q \in CharStarts(b) :
                      Rank(b, q) = i /\ s.logical = Logical(b, q)
    /\ ~s.found => /\ s.chars = Rank(b, p)
                   /\ s.chars <= i
                   /\ s.logical = l

\* One turn goes one byte further.
LEMMA LogicalTurnGoesOn ==
    ASSUME NEW b, IsGapBuffer(b), NEW i \in Nat, NEW p \in TextOffsets(b),
           NEW s, LogicalAt(b, i, s, p, Logical(b, p))
    PROVE  LogicalAt(b, i, LogicalTurn(b, i, s, p), p + 1, Logical(b, p) + 1)
<1> DEFINE t == LogicalTurn(b, i, s, p)
<1>1. s \in LStates /\ s.logical \in Nat /\ s.chars \in Nat /\ s.found \in BOOLEAN
  BY DEF LogicalAt, LStates
<1>2. CASE s.found
  <2>1. t = s
    BY <1>2 DEF LogicalTurn
  <2>2. QED
    BY <1>2, <2>1 DEF LogicalAt
<1>3. CASE ~s.found
  <2>1. s.chars = Rank(b, p) /\ s.chars <= i /\ s.logical = Logical(b, p)
    BY <1>3 DEF LogicalAt
  <2>2. CASE b.text[p] \in Cont
    <3>1. t = [s EXCEPT !.logical = @ + 1]
      BY <1>3, <2>2 DEF LogicalTurn
    <3>2. /\ t \in LStates /\ ~t.found
          /\ t.chars = s.chars /\ t.logical = s.logical + 1
      BY <1>1, <1>3, <3>1 DEF LStates
    <3>3. Rank(b, p + 1) = Rank(b, p)
      BY <2>2, RankOfNext
    <3>4. QED
      BY <2>1, <3>2, <3>3 DEF LogicalAt
  <2>3. CASE b.text[p] \notin Cont /\ s.chars = i
    <3>1. t = [s EXCEPT !.found = TRUE]
      BY <1>3, <2>3 DEF LogicalTurn
    <3>2. t \in LStates /\ t.found /\ t.logical = s.logical
      BY <1>1, <3>1 DEF LStates
    <3>3. p \in CharStarts(b)
      BY <2>3 DEF CharStarts, TextOffsets
    <3>4. QED
      BY <2>1, <2>3, <3>2, <3>3 DEF LogicalAt
  <2>4. CASE b.text[p] \notin Cont /\ s.chars # i
    <3>1. t = [logical |-> s.logical + 1, chars |-> s.chars + 1, found |-> FALSE]
      BY <1>3, <2>4 DEF LogicalTurn
    <3>2. /\ t \in LStates /\ ~t.found
          /\ t.chars = s.chars + 1 /\ t.logical = s.logical + 1
      BY <1>1, <1>3, <3>1 DEF LStates
    <3>3. Rank(b, p + 1) = Rank(b, p) + 1
      BY <2>4, RankOfNext
    <3>4. s.chars + 1 <= i
      BY <1>1, <2>1, <2>4
    <3>5. QED
      BY <2>1, <3>2, <3>3, <3>4 DEF LogicalAt
  <2>5. QED
    BY <2>2, <2>3, <2>4
<1>4. QED
  BY <1>1, <1>2, <1>3

\* And a loop goes from its first offset to its last.
LEMMA LogicalLoopGoesOn ==
    ASSUME NEW b, IsGapBuffer(b), NEW i \in Nat,
           NEW from \in Nat, NEW to \in Nat, from <= to, NEW l \in Nat,
           \A p \in from..(to - 1) :
              p \in TextOffsets(b) /\ Logical(b, p) = l + (p - from),
           NEW s, LogicalAt(b, i, s, from, l)
    PROVE  LogicalAt(b, i, LogicalLoop(b, i, s, from, to), to, l + (to - from))
<1> DEFINE m == to - from
           Next1(n, t) == LogicalTurn(b, i, t, from + n - 1)
           F == [n \in 1..m |-> [t \in LStates |-> Next1(n, t)]]
           Is(f) == f = [n \in 0..m |-> IF n = 0 THEN s ELSE Next1(n, f[n - 1])]
           after == CHOOSE f : Is(f)
<1>1. m \in Nat /\ s \in LStates
  BY DEF LogicalAt
<1>2. F \in [1..m -> [LStates -> LStates]]
  <2>1. ASSUME NEW n \in 1..m, NEW t \in LStates
        PROVE  Next1(n, t) \in LStates
    BY LogicalTurnType
  <2> HIDE DEF Next1, m
  <2>2. QED
    BY <2>1
<1>3. PICK g : AreTurns(g, LStates, F, s, m)
  <2> HIDE DEF F, m
  <2>1. QED
    BY <1>1, <1>2, TurnsExist
<1> HIDE DEF Next1, m
<1>4. Is(g)
  <2>1. ASSUME NEW n \in 0..m, n # 0
        PROVE  g[n] = Next1(n, g[n - 1])
    <3>1. n - 1 \in 0..m /\ n \in 1..m
      BY <1>1, <2>1
    <3>2. g[n - 1] \in LStates
      BY <1>3, <3>1 DEF AreTurns
    <3>3. QED
      BY <1>3, <3>1, <3>2 DEF AreTurns
  <2>2. QED
    BY <1>3, <2>1 DEF AreTurns
<1>5. Is(after)
  BY <1>4
<1>6. LogicalLoop(b, i, s, from, to) = after[m]
  BY DEF LogicalLoop, Next1, m
<1> HIDE DEF after
<1>7. /\ after[0] = s
      /\ \A n \in 1..m : after[n] = Next1(n, after[n - 1])
  BY <1>1, <1>5
<1> DEFINE T == {n \in 0..m : LogicalAt(b, i, after[n], from + n, l + n)}
<1>8. 0 \in T
  BY <1>1, <1>7
<1>9. ASSUME NEW n \in 1..m, n - 1 \in T
      PROVE  n \in T
  <2> DEFINE p == from + n - 1
  <2>1. /\ p \in from..(to - 1) /\ p = from + (n - 1) /\ p + 1 = from + n
        /\ p - from = n - 1 /\ l + (n - 1) + 1 = l + n /\ n \in 0..m
    BY DEF m
  <2>2. p \in TextOffsets(b) /\ Logical(b, p) = l + (n - 1)
    BY <2>1
  <2>3. LogicalAt(b, i, after[n - 1], p, Logical(b, p))
    BY <1>9, <2>1, <2>2
  <2>4. after[n] = LogicalTurn(b, i, after[n - 1], p)
    BY <1>7 DEF Next1
  <2> HIDE DEF p
  <2>5. LogicalAt(b, i, after[n], p + 1, Logical(b, p) + 1)
    BY <2>2, <2>3, <2>4, LogicalTurnGoesOn
  <2>6. QED
    BY <2>1, <2>2, <2>5
<1> HIDE DEF T
<1>10. m \in T
  <2>1. \A n \in 0..m : n \in T
    BY <1>1, <1>8, <1>9, EveryTurn
  <2>2. QED
    BY <1>1, <2>1
<1>11. from + m = to
  BY DEF m
<1>12. QED
  BY <1>6, <1>10, <1>11 DEF T, m

\* So the lookup without the gap ends at the character with i in front of it,
\* or at the end of the text with all the characters counted.
LEMMA LogicalLookupEnds ==
    ASSUME NEW b, IsGapBuffer(b), NEW i \in Nat
    PROVE  LogicalAt(b, i, LogicalLookup(b, i), MaxText(b.size), TextLen(b))
<1> DEFINE zero  == [logical |-> 0, chars |-> 0, found |-> FALSE]
           front == LogicalLoop(b, i, zero, 0, b.gap_start)
<1>1. /\ MaxText(b.size) \in Nat /\ Gap(b) \in Nat
      /\ b.gap_start \in Nat /\ b.gap_end \in Nat
      /\ b.gap_end = b.gap_start + Gap(b)
      /\ b.gap_end <= MaxText(b.size)
      /\ TextLen(b) = MaxText(b.size) - Gap(b)
  BY GapIs
<1>2. LogicalAt(b, i, zero, 0, 0)
  <2>1. zero \in LStates
    BY DEF LStates
  <2>2. QED
    BY <2>1, RankOfEnds DEF LogicalAt
<1>3. \A p \in 0..(b.gap_start - 1) :
         p \in TextOffsets(b) /\ Logical(b, p) = 0 + (p - 0)
  BY <1>1 DEF TextOffsets, Logical
<1>4. LogicalAt(b, i, front, b.gap_start, b.gap_start)
  <2>a. front = LogicalLoop(b, i, zero, 0, b.gap_start)
    OBVIOUS
  <2> HIDE DEF zero, front
  <2>b. 0 \in Nat /\ 0 <= b.gap_start
    BY <1>1
  <2>c. LogicalAt(b, i, LogicalLoop(b, i, zero, 0, b.gap_start), b.gap_start,
                  0 + (b.gap_start - 0))
    BY <1>1, <1>2, <1>3, <2>b, LogicalLoopGoesOn
  <2>1. LogicalAt(b, i, front, b.gap_start, 0 + (b.gap_start - 0))
    BY <2>a, <2>c
  <2>2. 0 + (b.gap_start - 0) = b.gap_start
    BY <1>1
  <2>3. QED
    BY <2>1, <2>2
<1>5. LogicalAt(b, i, front, b.gap_end, b.gap_start)
  BY <1>4, RankOfEnds DEF LogicalAt
<1>6. \A p \in b.gap_end..(MaxText(b.size) - 1) :
         p \in TextOffsets(b) /\ Logical(b, p) = b.gap_start + (p - b.gap_end)
  BY <1>1 DEF TextOffsets, Logical
<1>7. LogicalLookup(b, i) = LogicalLoop(b, i, front, b.gap_end, MaxText(b.size))
  BY DEF LogicalLookup
<1> HIDE DEF front
<1>8. LogicalAt(b, i, LogicalLookup(b, i), MaxText(b.size),
                b.gap_start + (MaxText(b.size) - b.gap_end))
  BY <1>1, <1>5, <1>6, <1>7, LogicalLoopGoesOn
<1>9. b.gap_start + (MaxText(b.size) - b.gap_end) = TextLen(b)
  BY <1>1
<1>10. QED
  BY <1>8, <1>9

\* It returns for the characters of the text and for its end.
LEMMA ValidCharIs ==
    ASSUME NEW b, IsGapBuffer(b), NEW i \in Nat
    PROVE  ValidChar(b, i) <=> i <= Cardinality(CharStarts(b))
<1> DEFINE s == LogicalLookup(b, i)
<1>1. LogicalAt(b, i, s, MaxText(b.size), TextLen(b))
  BY LogicalLookupEnds
<1>2. ValidChar(b, i) <=> s.found \/ s.chars = i
  BY DEF ValidChar
<1> HIDE DEF s
<1>3. CASE s.found
  <2>1. PICK q \in CharStarts(b) : Rank(b, q) = i
    BY <1>1, <1>3 DEF LogicalAt
  <2>2. QED
    BY <1>2, <1>3, <2>1, RankType
<1>4. CASE ~s.found
  <2>1. s.chars = Cardinality(CharStarts(b)) /\ s.chars <= i
    BY <1>1, <1>4, RankOfEnds DEF LogicalAt
  <2>2. QED
    BY <1>2, <1>4, <2>1, CharStartsFinite
<1>5. QED
  BY <1>3, <1>4

BStates == [byte_idx : Nat, chars : Nat, found : BOOLEAN]

\* Where a loop of the lookup with the gap is in front of offset p.
ByteAt(b, i, s, p) ==
    /\ s \in BStates
    /\ s.found => s.byte_idx \in CharStarts(b) /\ Rank(b, s.byte_idx) = i
    /\ ~s.found => /\ s.chars = Rank(b, p)
                   /\ s.chars <= i
                   /\ s.byte_idx = MaxText(b.size)

LEMMA ByteTurnGoesOn ==
    ASSUME NEW b, IsGapBuffer(b), NEW i \in Nat, NEW p \in TextOffsets(b),
           NEW s, ByteAt(b, i, s, p)
    PROVE  ByteAt(b, i, ByteTurn(b, i, s, p), p + 1)
<1> DEFINE t == ByteTurn(b, i, s, p)
<1>1. /\ s \in BStates /\ s.byte_idx \in Nat /\ s.chars \in Nat
      /\ s.found \in BOOLEAN /\ p \in Nat
  BY GapIs DEF ByteAt, BStates, TextOffsets
<1>2. CASE s.found
  <2>1. t = s
    BY <1>2 DEF ByteTurn
  <2>2. QED
    BY <1>2, <2>1 DEF ByteAt
<1>3. CASE ~s.found
  <2>1. s.chars = Rank(b, p) /\ s.chars <= i /\ s.byte_idx = MaxText(b.size)
    BY <1>3 DEF ByteAt
  <2>2. CASE b.text[p] \in Cont
    <3>1. t = s
      BY <2>2 DEF ByteTurn
    <3>2. Rank(b, p + 1) = Rank(b, p)
      BY <2>2, RankOfNext
    <3>3. QED
      BY <1>1, <1>3, <2>1, <3>1, <3>2 DEF ByteAt
  <2>3. CASE b.text[p] \notin Cont /\ s.chars = i
    <3>1. t = [byte_idx |-> p, chars |-> i, found |-> TRUE]
      BY <1>3, <2>3 DEF ByteTurn
    <3>2. t \in BStates /\ t.found /\ t.byte_idx = p
      BY <1>1, <3>1 DEF BStates
    <3>3. p \in CharStarts(b)
      BY <2>3 DEF CharStarts, TextOffsets
    <3>4. QED
      BY <2>1, <2>3, <3>2, <3>3 DEF ByteAt
  <2>4. CASE b.text[p] \notin Cont /\ s.chars # i
    <3>1. t = [s EXCEPT !.chars = @ + 1]
      BY <1>3, <2>4 DEF ByteTurn
    <3>2. /\ t \in BStates /\ ~t.found
          /\ t.chars = s.chars + 1 /\ t.byte_idx = s.byte_idx
      BY <1>1, <1>3, <3>1 DEF BStates
    <3>3. Rank(b, p + 1) = Rank(b, p) + 1
      BY <2>4, RankOfNext
    <3>4. s.chars + 1 <= i
      BY <1>1, <2>1, <2>4
    <3>5. QED
      BY <2>1, <3>2, <3>3, <3>4 DEF ByteAt
  <2>5. QED
    BY <2>2, <2>3, <2>4
<1>4. QED
  BY <1>1, <1>2, <1>3

LEMMA ByteLoopGoesOn ==
    ASSUME NEW b, IsGapBuffer(b), NEW i \in Nat,
           NEW from \in Nat, NEW to \in Nat, from <= to,
           from..(to - 1) \in SUBSET TextOffsets(b),
           NEW s, ByteAt(b, i, s, from)
    PROVE  ByteAt(b, i, ByteLoop(b, i, s, from, to), to)
<1> DEFINE m == to - from
           Next1(n, t) == ByteTurn(b, i, t, from + n - 1)
           F == [n \in 1..m |-> [t \in BStates |-> Next1(n, t)]]
           Is(f) == f = [n \in 0..m |-> IF n = 0 THEN s ELSE Next1(n, f[n - 1])]
           after == CHOOSE f : Is(f)
<1>1. m \in Nat /\ s \in BStates
  BY DEF ByteAt
<1>2. F \in [1..m -> [BStates -> BStates]]
  <2>1. ASSUME NEW n \in 1..m, NEW t \in BStates
        PROVE  Next1(n, t) \in BStates
    <3> DEFINE p == from + n - 1
    <3>1. p \in Nat
      OBVIOUS
    <3> HIDE DEF p
    <3>2. /\ [byte_idx |-> p, chars |-> i, found |-> TRUE] \in BStates
          /\ [t EXCEPT !.chars = @ + 1] \in BStates
      BY <3>1 DEF BStates
    <3>3. ByteTurn(b, i, t, p) \in BStates
      BY <3>2 DEF ByteTurn
    <3>4. QED
      BY <3>3 DEF p
  <2> HIDE DEF Next1, m
  <2>2. QED
    BY <2>1
<1>3. PICK g : AreTurns(g, BStates, F, s, m)
  <2> HIDE DEF F, m
  <2>1. QED
    BY <1>1, <1>2, TurnsExist
<1> HIDE DEF Next1, m
<1>4. Is(g)
  <2>1. ASSUME NEW n \in 0..m, n # 0
        PROVE  g[n] = Next1(n, g[n - 1])
    <3>1. n - 1 \in 0..m /\ n \in 1..m
      BY <1>1, <2>1
    <3>2. g[n - 1] \in BStates
      BY <1>3, <3>1 DEF AreTurns
    <3>3. QED
      BY <1>3, <3>1, <3>2 DEF AreTurns
  <2>2. QED
    BY <1>3, <2>1 DEF AreTurns
<1>5. Is(after)
  BY <1>4
<1>6. ByteLoop(b, i, s, from, to) = after[m]
  BY DEF ByteLoop, Next1, m
<1> HIDE DEF after
<1>7. /\ after[0] = s
      /\ \A n \in 1..m : after[n] = Next1(n, after[n - 1])
  BY <1>1, <1>5
<1> DEFINE T == {n \in 0..m : ByteAt(b, i, after[n], from + n)}
<1>8. 0 \in T
  BY <1>1, <1>7
<1>9. ASSUME NEW n \in 1..m, n - 1 \in T
      PROVE  n \in T
  <2> DEFINE p == from + n - 1
  <2>1. /\ p \in from..(to - 1) /\ p = from + (n - 1) /\ p + 1 = from + n
        /\ n \in 0..m
    BY DEF m
  <2>2. p \in TextOffsets(b)
    BY <2>1
  <2>3. ByteAt(b, i, after[n - 1], p)
    BY <1>9, <2>1
  <2>4. after[n] = ByteTurn(b, i, after[n - 1], p)
    BY <1>7 DEF Next1
  <2> HIDE DEF p
  <2>5. ByteAt(b, i, after[n], p + 1)
    BY <2>2, <2>3, <2>4, ByteTurnGoesOn
  <2>6. QED
    BY <2>1, <2>5
<1> HIDE DEF T
<1>10. m \in T
  <2>1. \A n \in 0..m : n \in T
    BY <1>1, <1>8, <1>9, EveryTurn
  <2>2. QED
    BY <1>1, <2>1
<1>11. from + m = to
  BY DEF m
<1>12. QED
  BY <1>6, <1>10, <1>11 DEF T

\* The lookup of a valid character index ends at the start of the character
\* with that many in front of it, or at the end of the text.
LEMMA ByteIdxIsStart ==
    ASSUME NEW b, IsGapBuffer(b), NEW i \in Nat, ValidChar(b, i)
    PROVE  /\ ByteIdx(b, i) \in CharStarts(b) \cup {MaxText(b.size)}
           /\ Rank(b, ByteIdx(b, i)) = i
<1> DEFINE end   == MaxText(b.size)
           zero  == [byte_idx |-> end, chars |-> 0, found |-> FALSE]
           front == ByteLoop(b, i, zero, 0, b.gap_start)
           s     == ByteLoop(b, i, front, b.gap_end, end)
<1>1. /\ MaxText(b.size) \in Nat /\ b.gap_start \in Nat /\ b.gap_end \in Nat
      /\ b.gap_end <= MaxText(b.size)
  BY GapIs
<1>2. ByteAt(b, i, zero, 0)
  <2>1. zero \in BStates
    BY <1>1 DEF BStates
  <2>2. QED
    BY <2>1, RankOfEnds DEF ByteAt
<1>3. /\ 0..(b.gap_start - 1) \in SUBSET TextOffsets(b)
      /\ b.gap_end..(MaxText(b.size) - 1) \in SUBSET TextOffsets(b)
  BY DEF TextOffsets
<1>4. ByteAt(b, i, front, b.gap_start)
  <2>1. front = ByteLoop(b, i, zero, 0, b.gap_start)
    OBVIOUS
  <2> HIDE DEF zero, front
  <2>2. 0 \in Nat /\ 0 <= b.gap_start
    BY <1>1
  <2>3. ByteAt(b, i, ByteLoop(b, i, zero, 0, b.gap_start), b.gap_start)
    BY <1>1, <1>2, <1>3, <2>2, ByteLoopGoesOn
  <2>4. QED
    BY <2>1, <2>3
<1>5. ByteAt(b, i, front, b.gap_end)
  BY <1>4, RankOfEnds DEF ByteAt
<1>6. ByteAt(b, i, s, MaxText(b.size))
  <2> HIDE DEF front
  <2>1. QED
    BY <1>1, <1>3, <1>5, ByteLoopGoesOn
<1>7. ByteIdx(b, i) = s.byte_idx
  BY DEF ByteIdx
<1> HIDE DEF s
<1>8. CASE s.found
  BY <1>6, <1>7, <1>8 DEF ByteAt
<1>9. CASE ~s.found
  <2>1. /\ s.chars = Cardinality(CharStarts(b)) /\ s.chars <= i
        /\ s.byte_idx = MaxText(b.size)
    BY <1>6, <1>9, RankOfEnds DEF ByteAt
  <2>2. i = Cardinality(CharStarts(b))
    BY <2>1, ValidCharIs, CharStartsFinite
  <2>3. QED
    BY <1>7, <2>1, <2>2, RankOfEnds
<1>10. QED
  BY <1>8, <1>9

\* The other lookup gives the position of the same place in the text.
LEMMA LogicalIdxIs ==
    ASSUME NEW b, IsGapBuffer(b), NEW i \in Nat, ValidChar(b, i)
    PROVE  LogicalIdx(b, i) = Logical(b, ByteIdx(b, i))
<1> DEFINE s == LogicalLookup(b, i)
           p == ByteIdx(b, i)
<1>1. LogicalAt(b, i, s, MaxText(b.size), TextLen(b))
  BY LogicalLookupEnds
<1>2. LogicalIdx(b, i) = s.logical /\ (s.found \/ s.chars = i)
  BY DEF LogicalIdx, ValidChar
<1>3. p \in CharStarts(b) \cup {MaxText(b.size)} /\ Rank(b, p) = i
  BY ByteIdxIsStart
<1> HIDE DEF s, p
<1>4. CASE s.found
  <2>1. PICK q \in CharStarts(b) : Rank(b, q) = i /\ s.logical = Logical(b, q)
    BY <1>1, <1>4 DEF LogicalAt
  <2>2. p = q
    BY <1>3, <2>1, OneOfRank
  <2>3. QED
    BY <1>2, <2>1, <2>2 DEF p
<1>5. CASE ~s.found
  <2>1. s.logical = TextLen(b) /\ Rank(b, MaxText(b.size)) = i
    BY <1>1, <1>2, <1>5 DEF LogicalAt
  <2>2. p = MaxText(b.size)
    BY <1>3, <2>1, OneOfRank
  <2>3. Logical(b, MaxText(b.size)) = TextLen(b)
    BY LogicalKeepsOrder
  <2>4. QED
    BY <1>2, <2>1, <2>2, <2>3 DEF p
<1>6. QED
  BY <1>4, <1>5

\* So the position it gives is one of the text, and the byte there, if any,
\* is not a continuation byte.
LEMMA LogicalIdxIsStart ==
    ASSUME NEW b, IsGapBuffer(b), NEW i \in Nat, ValidChar(b, i)
    PROVE  /\ LogicalIdx(b, i) \in 0..TextLen(b)
           /\ LogicalIdx(b, i) < TextLen(b) =>
                  /\ Content(b)[LogicalIdx(b, i) + 1] = b.text[ByteIdx(b, i)]
                  /\ Content(b)[LogicalIdx(b, i) + 1] \notin Cont
<1> DEFINE p == ByteIdx(b, i)
<1>1. p = MaxText(b.size) \/ p \in CharStarts(b)
  BY ByteIdxIsStart
<1>2. LogicalIdx(b, i) = Logical(b, p)
  BY LogicalIdxIs
<1> HIDE DEF p
<1>3. CASE p = MaxText(b.size)
  <2>1. Logical(b, p) = TextLen(b) /\ TextLen(b) \in Nat
    BY <1>3, LogicalKeepsOrder, GapIs
  <2>2. QED
    BY <1>2, <2>1
<1>4. CASE p \in CharStarts(b)
  <2>1. p \in TextOffsets(b) /\ b.text[p] \notin Cont
    BY <1>4 DEF CharStarts, TextOffsets
  <2>2. /\ Logical(b, p) \in 0..(TextLen(b) - 1)
        /\ Content(b)[Logical(b, p) + 1] = b.text[p]
    BY <2>1, ByteOfText
  <2>3. Logical(b, p) \in 0..TextLen(b)
    BY <2>2, GapIs
  <2>4. QED
    BY <1>2, <2>1, <2>2, <2>3 DEF p
<1>5. QED
  BY <1>1, <1>3, <1>4

\* The text begins at some offset.
LEMMA FirstOffset ==
    ASSUME NEW b, IsGapBuffer(b)
    PROVE  \E p \in TextOffsets(b) \cup {MaxText(b.size)} :
              /\ Logical(b, p) = 0
              /\ \A r \in TextOffsets(b) : p <= r
<1>1. /\ MaxText(b.size) \in Nat /\ Gap(b) \in Nat
      /\ b.gap_start \in Nat /\ b.gap_end = b.gap_start + Gap(b)
      /\ b.gap_end \in Nat /\ b.gap_end <= MaxText(b.size)
  BY GapIs
<1>2. CASE b.gap_start = 0
  <2>1. b.gap_end \in TextOffsets(b) \cup {MaxText(b.size)}
    BY <1>1 DEF TextOffsets
  <2>2. Logical(b, b.gap_end) = 0
    BY <1>1, <1>2 DEF Logical
  <2>3. \A r \in TextOffsets(b) : b.gap_end <= r
    BY <1>1, <1>2 DEF TextOffsets
  <2>4. QED
    BY <2>1, <2>2, <2>3
<1>3. CASE b.gap_start # 0
  <2>1. 0 \in TextOffsets(b) /\ Logical(b, 0) = 0
    BY <1>1, <1>3 DEF TextOffsets, Logical
  <2>2. \A r \in TextOffsets(b) : 0 <= r
    BY <1>1 DEF TextOffsets
  <2>3. QED
    BY <2>1, <2>2
<1>4. QED
  BY <1>2, <1>3

\* The number of characters before an offset.
LEMMA CharsBefore ==
    ASSUME NEW b, IsGapBuffer(b), NEW p \in TextOffsets(b) \cup {MaxText(b.size)}
    PROVE  Cardinality({j \in Doc!Starts(Content(b)) : j < Logical(b, p)})
              = Cardinality({q \in CharStarts(b) : q < p})
<1> DEFINE X == Bytes \ Cont
           s == Content(b)
           k == Logical(b, p)
           S == {i \in 1..k : s[i] \in X}
           T == {j \in Doc!Starts(s) : j < k}
           f == [i \in S |-> i - 1]
<1>1. /\ TextLen(b) \in Nat /\ k \in 0..TextLen(b)
      /\ s \in Seq(Bytes) /\ Len(s) = TextLen(b)
  BY GapIs, LogicalKeepsOrder, ContentIsSeq
<1>2. PICK o \in TextOffsets(b) \cup {MaxText(b.size)} :
         Logical(b, o) = 0 /\ \A r \in TextOffsets(b) : o <= r
  BY FirstOffset
<1>3. S = {i \in (Logical(b, o) + 1)..k : s[i] \in X}
  BY <1>2
<1>4. {q \in CharStarts(b) : q < p}
         = {r \in TextOffsets(b) : o <= r /\ r < p /\ b.text[r] \in X}
  <2>1. ASSUME NEW r \in TextOffsets(b)
        PROVE  b.text[r] \in Bytes /\ o <= r
    <3>1. r \in 0..MaxText(b.size)
      BY GapIs DEF TextOffsets
    <3>2. QED
      BY <1>2, <3>1, Fields
  <2>2. QED
    BY <2>1 DEF CharStarts, TextOffsets
<1>5. Cardinality(S) = Cardinality({q \in CharStarts(b) : q < p})
  <2>1. S = InText(s, Logical(b, o), k, X)
    BY <1>3 DEF InText
  <2>2. {q \in CharStarts(b) : q < p} = InBuffer(b, o, p, X)
    BY <1>4 DEF InBuffer
  <2> HIDE DEF X, S
  <2>3. QED
    BY <2>1, <2>2, CountsAgree
<1> HIDE DEF k, s
<1>6. IsFiniteSet(S)
  <2>1. k \in Nat
    BY <1>1
  <2>2. IsFiniteSet(1..k) /\ S \in SUBSET (1..k)
    BY <2>1, FS_Interval
  <2>3. QED
    BY <2>2, FS_Subset
<1>7. ASSUME NEW i \in S
      PROVE  i - 1 \in T
  BY <1>1 DEF Doc!Starts
<1>8. ASSUME NEW j \in T
      PROVE  \E x \in S : x - 1 = j
  <2>1. j \in Nat /\ j + 1 \in S /\ j + 1 - 1 = j
    BY <1>1 DEF Doc!Starts
  <2> HIDE DEF S
  <2>2. QED
    BY <2>1
<1>9. f \in [S -> T]
  BY <1>7
<1>10. \A x, y \in S : f[x] = f[y] => x = y
  BY <1>1
<1>11. ASSUME NEW j \in T
       PROVE  \E x \in S : f[x] = j
  <2>1. PICK x \in S : x - 1 = j
    BY <1>8
  <2>2. f[x] = x - 1
    OBVIOUS
  <2>3. QED
    BY <2>1, <2>2
<1> HIDE DEF S, T, f
<1>12. Cardinality(T) = Cardinality(S)
  BY <1>6, <1>9, <1>10, <1>11, SameCount
<1>13. QED
  BY <1>5, <1>12 DEF T, k, s

\* A character index that is valid leads both lookups to the same character,
\* the one with as many characters before it.
LEMMA IndexesAgree ==
    ASSUME NEW b, IsGapBuffer(b), NEW i \in Nat, ValidChar(b, i)
    PROVE  /\ Doc!IsCharIndex(Content(b), i, LogicalIdx(b, i))
           /\ ByteIdx(b, i) \in CharStarts(b) \cup {MaxText(b.size)}
           /\ Logical(b, ByteIdx(b, i)) = LogicalIdx(b, i)
<1> DEFINE p == ByteIdx(b, i)
           k == LogicalIdx(b, i)
<1>1. /\ CharStarts(b) \in SUBSET TextOffsets(b)
      /\ \A q \in TextOffsets(b) : q < MaxText(b.size)
  BY GapIs DEF CharStarts, TextOffsets
<1>2. Cardinality({q \in CharStarts(b) : q < p}) = i
  BY ByteIdxIsStart DEF Rank, CharsTo
<1>3. p \in TextOffsets(b) \cup {MaxText(b.size)}
  BY <1>1, ByteIdxIsStart
<1>4. k = Logical(b, p)
  BY LogicalIdxIs
<1>5. Cardinality({j \in Doc!Starts(Content(b)) : j < k}) = i
  BY <1>2, <1>3, <1>4, CharsBefore
<1>6. /\ k \in 0..TextLen(b)
      /\ k < TextLen(b) => /\ Content(b)[k + 1] = b.text[p]
                           /\ Content(b)[k + 1] \notin Cont
  BY LogicalIdxIsStart
<1>7. k \in Doc!Starts(Content(b)) \cup {Len(Content(b))}
  <2>1. TextLen(b) \in Nat /\ Len(Content(b)) = TextLen(b)
    BY GapIs, ContentIsSeq
  <2>2. CASE k = TextLen(b)
    BY <2>1, <2>2
  <2>3. CASE k # TextLen(b)
    <3>1. k \in 0..(Len(Content(b)) - 1) /\ k < TextLen(b)
      BY <1>6, <2>1, <2>3
    <3>2. QED
      BY <1>6, <3>1 DEF Doc!Starts
  <2>4. QED
    BY <2>2, <2>3
<1> HIDE DEF k, p
<1>8. Doc!IsCharIndex(Content(b), i, k)
  <2> DEFINE before == {j \in Doc!Starts(Content(b)) : j < k}
  <2>1. Doc!Cardinality(before) = Cardinality(before)
    BY DEF Doc!Cardinality, Cardinality
  <2>2. QED
    BY <1>5, <1>7, <2>1 DEF Doc!IsCharIndex
<1>9. QED
  BY <1>4, <1>8, ByteIdxIsStart DEF k, p

\* The search of a deletion for the start of the last character before the
\* gap ends there, if one starts there at all.
LEMMA LastStartIsStart ==
    ASSUME NEW b, IsGapBuffer(b), StartsBefore(b) # {}
    PROVE  /\ LastStart(b) \in StartsBefore(b)
           /\ \A q \in StartsBefore(b) : q <= LastStart(b)
           /\ LastStart(b) \in 0..(b.gap_start - 1)
           /\ b.text[LastStart(b)] \notin Cont
<1>1. StartsBefore(b) \in SUBSET Nat /\ b.gap_start \in Nat
  BY Fields, CharStartsFinite DEF StartsBefore
<1>2. \A q \in StartsBefore(b) : q <= b.gap_start
  BY <1>1 DEF StartsBefore
<1>3. \E p \in StartsBefore(b) : \A q \in StartsBefore(b) : q <= p
  BY <1>1, <1>2, GreatestNatural
<1>4. /\ LastStart(b) \in StartsBefore(b)
      /\ \A q \in StartsBefore(b) : q <= LastStart(b)
  BY <1>3 DEF LastStart
<1>5. QED
  BY <1>1, <1>4 DEF StartsBefore, CharStarts

-----------------------------------------------------------------------------
(* Sequences *)

\* The first n elements of a sequence.
LEMMA PrefixIsSeq ==
    ASSUME NEW S, NEW s \in Seq(S), NEW n \in 0..Len(s)
    PROVE  /\ SubSeq(s, 1, n) \in Seq(S)
           /\ Len(SubSeq(s, 1, n)) = n
           /\ \A i \in 1..n : SubSeq(s, 1, n)[i] = s[i]
           /\ SubSeq(s, 1, n) = [i \in 1..n |-> s[i]]
<1>1. n \in Nat /\ Len(s) \in Nat
  OBVIOUS
<1>2. \A i \in 1..n : s[i] \in S
  BY <1>1
<1>3. /\ SubSeq(s, 1, n) \in Seq(S)
      /\ Len(SubSeq(s, 1, n)) = IF 1 <= n THEN n - 1 + 1 ELSE 0
      /\ \A i \in 1..(n - 1 + 1) : SubSeq(s, 1, n)[i] = s[1 + i - 1]
  BY <1>1, <1>2, SubSeqProperties
<1>4. Len(SubSeq(s, 1, n)) = n /\ \A i \in 1..n : SubSeq(s, 1, n)[i] = s[i]
  BY <1>1, <1>3
<1>5. SubSeq(s, 1, n) = [i \in 1..n |-> s[i]]
  BY <1>3, <1>4, LenProperties
<1>6. QED
  BY <1>3, <1>4, <1>5

\* What overwriting the first n elements of a file leaves.
LEMMA OverlayIsSeq ==
    ASSUME NEW S, NEW f \in Seq(S), NEW t \in Seq(S)
    PROVE  /\ t \o SubSeq(f, Len(t) + 1, Len(f)) \in Seq(S)
           /\ t \o SubSeq(f, Len(t) + 1, Len(f)) = Overlay(f, t)
<1> DEFINE n == Len(t)
           r == SubSeq(f, n + 1, Len(f))
<1>1. n \in Nat /\ Len(f) \in Nat
  OBVIOUS
<1>2. \A i \in (n + 1)..Len(f) : f[i] \in S
  BY <1>1
<1>3. /\ r \in Seq(S)
      /\ Len(r) = IF n + 1 <= Len(f) THEN Len(f) - (n + 1) + 1 ELSE 0
      /\ \A i \in 1..(Len(f) - (n + 1) + 1) : r[i] = f[(n + 1) + i - 1]
  BY <1>1, <1>2, SubSeqProperties
<1>4. Len(r) = (IF n > Len(f) THEN n ELSE Len(f)) - n /\ Len(r) \in Nat
  BY <1>1, <1>3
<1> HIDE DEF r
<1>5. /\ t \o r \in Seq(S)
      /\ Len(t \o r) = n + Len(r)
      /\ \A i \in 1..(n + Len(r)) : (t \o r)[i] = IF i <= n THEN t[i] ELSE r[i - n]
  BY <1>3, ConcatProperties
<1> DEFINE max == IF n > Len(f) THEN n ELSE Len(f)
<1>6. max = n + Len(r)
  BY <1>1, <1>4
<1>7. ASSUME NEW i \in 1..max
      PROVE  (t \o r)[i] = IF i <= n THEN t[i] ELSE f[i]
  <2>1. CASE i <= n
    BY <1>5, <1>6, <2>1
  <2>2. CASE ~(i <= n)
    <3>1. /\ i - n \in 1..(Len(f) - (n + 1) + 1)
          /\ (n + 1) + (i - n) - 1 = i
      BY <1>1, <2>2
    <3>2. r[i - n] = f[i]
      BY <1>3, <3>1
    <3>3. QED
      BY <1>5, <1>6, <2>2, <3>2
  <2>3. QED
    BY <2>1, <2>2
<1>8. t \o r = [i \in 1..max |-> IF i <= n THEN t[i] ELSE f[i]]
  <2>1. DOMAIN (t \o r) = 1..max
    BY <1>5, <1>6, LenProperties
  <2>2. t \o r = [i \in 1..max |-> (t \o r)[i]]
    BY <1>5, <2>1, LenProperties
  <2>3. QED
    BY <1>7, <2>2
<1>9. QED
  BY <1>5, <1>8 DEF Overlay, r

-----------------------------------------------------------------------------
(* The type invariant *)

\* A buffer is not the mark of a free slot.
LEMMA BufferIsNotFree ==
    ASSUME NEW b, IsGapBuffer(b)
    PROVE  b # NoBuffer
<1>1. b.size # 0
  BY Fields, SizeAssumption
<1>2. QED
  BY <1>1 DEF NoBuffer

\* The buffers that are open are well formed.
LEMMA OpenBuffer ==
    ASSUME TypeOK, NEW id \in Open
    PROVE  id \in Slots /\ IsGapBuffer(buffers[id])
BY DEF TypeOK, Open

\* A step that puts a well-formed buffer into a slot keeps the type.
LEMMA PutType ==
    ASSUME TypeOK, NEW id \in Slots, NEW b, IsGapBuffer(b),
           buffers' = [buffers EXCEPT ![id] = b],
           file' = file, proc' \in Procs, stray' \subseteq Causes
    PROVE  TypeOK'
<1>1. DOMAIN buffers' = Slots
  BY DEF TypeOK
<1>2. ASSUME NEW k \in Slots, buffers'[k] # NoBuffer
      PROVE  IsGapBuffer(buffers'[k])
  BY <1>2 DEF TypeOK, Open
<1>3. QED
  BY <1>1, <1>2 DEF TypeOK, Open

\* A step that ends the process keeps the type.
LEMMA FailType ==
    ASSUME TypeOK, NEW outcome \in Procs, NEW causes \in SUBSET Causes,
           Fail(outcome, causes)
    PROVE  TypeOK'
BY DEF TypeOK, Fail, Open

\* The buffer that loading makes: the text is a prefix of the file.
LEMMA LoadedBuffer ==
    ASSUME TypeOK, NEW size \in Sizes,
           NEW length, length = IF Len(file) > size THEN MaxText(size) ELSE Len(file),
           length <= MaxText(size)
    PROVE  /\ length \in 0..Len(file)
           /\ SubSeq(file, 1, length) \in Seq(Bytes)
           /\ Len(SubSeq(file, 1, length)) = length
           /\ SubSeq(file, 1, length) = [i \in 1..length |-> file[i]]
           /\ IsGapBuffer(Filled(size, SubSeq(file, 1, length)))
<1>1. file \in Seq(Bytes) /\ Len(file) \in Nat
  BY DEF TypeOK
<1>2. /\ size \in Nat
      /\ MaxText(size) \in Nat
      /\ MaxText(size) < size
  BY SizeIsNat, SizeAssumption DEF MaxText
<1>3. length \in 0..Len(file)
  BY <1>1, <1>2
<1>4. /\ SubSeq(file, 1, length) \in Seq(Bytes)
      /\ Len(SubSeq(file, 1, length)) = length
      /\ SubSeq(file, 1, length) = [i \in 1..length |-> file[i]]
  BY <1>1, <1>3, PrefixIsSeq
<1>5. QED
  BY <1>3, <1>4, FilledIsGapBuffer, ZenonT(30)

\* What is stored after growing fits: the new gap has at least a page.
LEMMA GrownBuffer ==
    ASSUME TypeOK, NEW id \in Open, CanGrow(buffers[id]), NEW c \in Bytes
    PROVE  /\ IsGapBuffer(Grow(buffers[id]))
           /\ <<c>> \in Seq(Bytes)
           /\ Len(<<c>>) = 1
           /\ Len(<<c>>) <= Gap(Grow(buffers[id]))
           /\ IsGapBuffer(Store(Grow(buffers[id]), <<c>>))
<1>1. IsGapBuffer(buffers[id])
  BY OpenBuffer
<1>2. buffers[id].size + PageSize \in Sizes
  BY DEF CanGrow
<1>3. /\ IsGapBuffer(Grow(buffers[id]))
      /\ Gap(Grow(buffers[id])) = Gap(buffers[id]) + PageSize
  BY <1>1, <1>2, GrowKeepsContent
<1>4. <<c>> \in Seq(Bytes) /\ Len(<<c>>) = 1
  OBVIOUS
<1>5. Gap(buffers[id]) \in Nat
  BY <1>1, Fields
<1>6. Len(<<c>>) <= Gap(Grow(buffers[id]))
  BY <1>3, <1>4, <1>5, SizeAssumption
<1>7. QED
  BY <1>3, <1>4, <1>6, StoreSplices

\* The table starts out typed: every slot is free.
LEMMA InitType == Init => TypeOK
<1> SUFFICES ASSUME Init PROVE TypeOK
  OBVIOUS
<1>1. Open = {}
  BY DEF Init, Open
<1>2. QED
  BY <1>1, InputAssumption DEF Init, TypeOK, Procs

\* Every call keeps the buffers well formed, action by action.
LEMMA NextType == TypeOK /\ [Next]_vars => TypeOK'
<1> SUFFICES ASSUME TypeOK, [Next]_vars PROVE TypeOK'
  OBVIOUS
<1>a. proc \in Procs /\ stray \in SUBSET Causes /\ file \in Seq(Bytes)
  BY DEF TypeOK
<1>1. CASE UNCHANGED vars
  BY <1>1 DEF vars, TypeOK, Open
<1>2. CASE BuffersFree
  BY <1>2 DEF BuffersFree, TypeOK, Open
<1>3. ASSUME NEW id \in Slots, Create(id)
      PROVE  TypeOK'
  <2>1. ASSUME NEW n \in BlankSizes, CreateBlank(id, n)
        PROVE  TypeOK'
    <3>1. IsGapBuffer(Blank(RoundUp(n)))
      BY <2>1, BlankIsGapBuffer DEF CreateBlank
    <3>2. QED
      BY <1>a, <2>1, <3>1, PutType DEF CreateBlank, Put
  <2>2. ASSUME NEW first \in 0..Len(file), CreateFromFile(id, first)
        PROVE  TypeOK'
    <3> DEFINE size == RoundUp(first)
               length == IF Len(file) > size THEN MaxText(size) ELSE Len(file)
    <3>1. CASE length <= MaxText(size) /\ Put(id, Filled(size, SubSeq(file, 1, length)))
      <4>1. size \in Sizes
        BY <2>2 DEF CreateFromFile
      <4>2. IsGapBuffer(Filled(size, SubSeq(file, 1, length)))
        BY <3>1, <4>1, LoadedBuffer
      <4>3. QED
        BY <1>a, <3>1, <4>2, PutType DEF Put
    <3>2. CASE \E outcome \in {"corrupt", "segv"} : Fail(outcome, {"header"})
      BY <3>2, FailType DEF Procs, Causes
    <3>3. QED
      BY <2>2, <3>1, <3>2 DEF CreateFromFile
  <2>3. QED
    BY <1>3, <2>1, <2>2 DEF Create
<1>4. ASSUME NEW id \in Slots, Destroy(id)
      PROVE  TypeOK'
  <2>1. buffers' = [buffers EXCEPT ![id] = NoBuffer] /\ UNCHANGED <<file, proc, stray>>
    BY <1>4 DEF Destroy, Put
  <2>2. DOMAIN buffers' = Slots
    BY <2>1 DEF TypeOK
  <2>3. ASSUME NEW k \in Slots, buffers'[k] # NoBuffer
        PROVE  IsGapBuffer(buffers'[k])
    BY <2>1, <2>3 DEF TypeOK, Open
  <2>4. QED
    BY <1>a, <2>1, <2>2, <2>3 DEF TypeOK, Open
<1>5. ASSUME NEW id \in Slots, Edit(id)
      PROVE  TypeOK'
  <2>1. ASSUME NEW c \in Asciis, InsertAscii(id, c)
        PROVE  TypeOK'
    <3>1. id \in Open /\ IsGapBuffer(buffers[id]) /\ c \in Bytes
      BY <2>1, OpenBuffer, InputAssumption DEF InsertAscii
    <3>2. CASE Gap(buffers[id]) > 0 /\ Put(id, Store(buffers[id], <<c>>))
      <4>1. <<c>> \in Seq(Bytes) /\ Len(<<c>>) <= Gap(buffers[id])
        BY <3>1, <3>2, Fields
      <4>2. IsGapBuffer(Store(buffers[id], <<c>>))
        BY <3>1, <4>1, StoreSplices
      <4>3. QED
        BY <1>a, <3>2, <4>2, PutType DEF Put
    <3>3. CASE /\ CanGrow(buffers[id])
               /\ buffers' = [buffers EXCEPT ![id] = Store(Grow(buffers[id]), <<c>>)]
               /\ stray' = stray \cup {"terminator"}
               /\ UNCHANGED <<file, proc>>
      <4>1. IsGapBuffer(Store(Grow(buffers[id]), <<c>>))
        BY <3>1, <3>3, GrownBuffer
      <4>2. stray' \subseteq Causes
        BY <1>a, <3>3 DEF Causes
      <4>3. QED
        BY <1>a, <3>3, <4>1, <4>2, PutType
    <3>4. CASE Fail("segv", {"terminator"}) \/ Fail("corrupt", {"overrun"})
      BY <3>4, FailType DEF Procs, Causes
    <3>5. QED
      BY <2>1, <3>2, <3>3, <3>4 DEF InsertAscii
  <2>2. ASSUME NEW s \in Inputs, InsertUtf8(id, s)
        PROVE  TypeOK'
    <3>1. id \in Open /\ IsGapBuffer(buffers[id]) /\ s \in Seq(Bytes)
      BY <2>2, OpenBuffer, InputAssumption DEF InsertUtf8, Fills
    <3>2. CASE Len(s) <= Gap(buffers[id]) /\ Put(id, Store(buffers[id], s))
      <4>1. IsGapBuffer(Store(buffers[id], s))
        BY <3>1, <3>2, StoreSplices
      <4>2. QED
        BY <1>a, <3>2, <4>1, PutType DEF Put
    <3>3. CASE /\ CanGrow(buffers[id])
               /\ buffers' = [buffers EXCEPT ![id] = Grow(buffers[id])]
               /\ stray' = stray \cup {"terminator"}
               /\ UNCHANGED <<file, proc>>
      <4>1. IsGapBuffer(Grow(buffers[id]))
        BY <3>1, <3>3, GrowKeepsContent DEF CanGrow
      <4>2. stray' \subseteq Causes
        BY <1>a, <3>3 DEF Causes
      <4>3. QED
        BY <1>a, <3>3, <4>1, <4>2, PutType
    <3>4. CASE \/ Fail("segv", {"terminator"})
               \/ Fail("segv", {"terminator", "stale"})
               \/ Fail("corrupt", {"overrun"})
      BY <3>4, FailType DEF Procs, Causes
    <3>5. Len(s) \in Nat /\ Gap(buffers[id]) \in Nat
      BY <3>1, Fields
    <3>6. /\ ~(Len(s) >= Gap(buffers[id])) => Len(s) <= Gap(buffers[id])
          /\ Len(s) = Gap(buffers[id]) => Len(s) <= Gap(buffers[id])
      BY <3>5
    <3>7. QED
      BY <2>2, <3>2, <3>3, <3>4, <3>6, Zenon DEF InsertUtf8, Fills
  <2>3. ASSUME DeleteUtf8(id)
        PROVE  TypeOK'
    <3>1. id \in Open /\ IsGapBuffer(buffers[id])
      BY <2>3, OpenBuffer DEF DeleteUtf8
    <3>2. CASE /\ StartsBefore(buffers[id]) # {}
               /\ Put(id, CutBack(buffers[id], LastStart(buffers[id])))
      <4>1. LastStart(buffers[id]) \in Nat /\ LastStart(buffers[id]) <= buffers[id].gap_start
        BY <3>1, <3>2, LastStartIsStart, Fields
      <4>2. IsGapBuffer(CutBack(buffers[id], LastStart(buffers[id])))
        BY <3>1, <4>1, CutBackCuts
      <4>3. QED
        BY <1>a, <3>2, <4>2, PutType DEF Put
    <3>3. CASE Fail("corrupt", {"underflow"})
      BY <3>3, FailType DEF Procs, Causes
    <3>4. QED
      BY <2>3, <3>2, <3>3 DEF DeleteUtf8
  <2>4. ASSUME DeleteAscii(id)
        PROVE  TypeOK'
    <3> DEFINE p == buffers[id].gap_start - 1
    <3>1. id \in Open /\ IsGapBuffer(buffers[id])
      BY <2>4, OpenBuffer DEF DeleteAscii
    <3>2. p \in Nat /\ p <= buffers[id].gap_start
      BY <2>4, <3>1, Fields DEF DeleteAscii
    <3>3. IsGapBuffer(CutBack(buffers[id], p))
      BY <3>1, <3>2, CutBackCuts
    <3>4. QED
      BY <1>a, <2>4, <3>3, PutType DEF DeleteAscii, Put
  <2>5. QED
    BY <1>5, <2>1, <2>2, <2>3, <2>4 DEF Edit
<1>6. ASSUME NEW id \in Slots, Use(id)
      PROVE  TypeOK'
  <2>1. ASSUME NEW g \in Nat, id \in Open, Put(id, MoveGap(buffers[id], g))
        PROVE  TypeOK'
    <3>1. IsGapBuffer(MoveGap(buffers[id], g))
      BY <2>1, OpenBuffer, MoveGapKeepsContent
    <3>2. QED
      BY <1>a, <2>1, <3>1, PutType DEF Put
  <2>2. ASSUME NEW g \in 0..(TextLen(buffers[id]) + 1), Move(id, g)
        PROVE  TypeOK'
    BY <2>1, <2>2 DEF Move
  <2>3. ASSUME id \in Open,
               NEW i \in 0..(Cardinality(CharStarts(buffers[id])) + 1),
               MoveToUtf8Idx(id, i)
        PROVE  TypeOK'
    <3>1. CASE ValidChar(buffers[id], i) /\ Put(id, MoveGap(buffers[id], LogicalIdx(buffers[id], i)))
      <4>1. LogicalIdx(buffers[id], i) \in 0..TextLen(buffers[id])
        BY <2>3, <3>1, OpenBuffer, LogicalIdxIsStart
      <4>2. QED
        BY <2>1, <2>3, <3>1, <4>1
    <3>2. CASE Fail("abort", {})
      BY <3>2, FailType DEF Procs
    <3>3. QED
      BY <2>3, <3>1, <3>2 DEF MoveToUtf8Idx
  <2>4. ASSUME id \in Open, NEW n \in 0..TextLen(buffers[id]), SaveToFile(id, n)
        PROVE  TypeOK'
    <3> DEFINE written == SubSeq(Content(buffers[id]), 1, n)
    <3>1. /\ Content(buffers[id]) \in Seq(Bytes)
          /\ Len(Content(buffers[id])) = TextLen(buffers[id])
      BY <2>4, OpenBuffer, ContentIsSeq
    <3>2. written \in Seq(Bytes) /\ Len(written) = n
      BY <3>1, PrefixIsSeq
    <3>3. file' = written \o SubSeq(file, Len(written) + 1, Len(file))
      BY <2>4, <3>2 DEF SaveToFile
    <3>4. file' \in Seq(Bytes)
      BY <1>a, <3>2, <3>3, OverlayIsSeq
    <3>5. QED
      BY <2>4, <3>4 DEF SaveToFile, TypeOK, Open
  <2>5. QED
    BY <1>6, <2>2, <2>3, <2>4 DEF Use
<1>7. QED
  BY <1>1, <1>2, <1>3, <1>4, <1>5, <1>6 DEF Next

\* Whatever the calls, every buffer in the table stays one whose gap lies
\* within its text area and whose bytes are all there.
THEOREM TypeCorrect == Spec => []TypeOK
BY InitType, NextType, PTL DEF Spec

\* Both lookups by character index, two loops each over the bytes before and
\* behind the gap, end at the same place, the character of the text that the
\* index counts to, and neither returns for an index beyond the number of
\* characters (buffers.c:261-347).
THEOREM LookupsAgree == Spec => []CharIndexAgrees
<1>1. TypeOK => CharIndexAgrees
  <2> SUFFICES ASSUME TypeOK, NEW id \in Open
               PROVE  LET b == buffers[id]
                          n == Cardinality(CharStarts(b))
                      IN  /\ \A i \in 0..n :
                                /\ ValidChar(b, i)
                                /\ Doc!IsCharIndex(Content(b), i, LogicalIdx(b, i))
                                /\ ByteIdx(b, i) \in CharStarts(b) \cup {MaxText(b.size)}
                                /\ Logical(b, ByteIdx(b, i)) = LogicalIdx(b, i)
                          /\ ~ValidChar(b, n + 1)
    BY DEF CharIndexAgrees
  <2> DEFINE b == buffers[id]
             n == Cardinality(CharStarts(b))
  <2>1. IsGapBuffer(b)
    BY OpenBuffer
  <2>2. n \in Nat
    BY <2>1, CharStartsFinite
  <2> HIDE DEF b
  <2>3. ASSUME NEW i \in 0..n
        PROVE  /\ ValidChar(b, i)
               /\ Doc!IsCharIndex(Content(b), i, LogicalIdx(b, i))
               /\ ByteIdx(b, i) \in CharStarts(b) \cup {MaxText(b.size)}
               /\ Logical(b, ByteIdx(b, i)) = LogicalIdx(b, i)
    <3>1. i \in Nat /\ ValidChar(b, i)
      BY <2>1, <2>2, ValidCharIs
    <3>2. QED
      BY <2>1, <3>1, IndexesAgree
  <2>4. ~ValidChar(b, n + 1)
    BY <2>1, <2>2, ValidCharIs
  <2>5. QED
    BY <2>3, <2>4 DEF b
<1>2. QED
  BY <1>1, TypeCorrect, PTL

-----------------------------------------------------------------------------
(* The terminator *)

\* A slot that gets a terminated buffer, or is freed, keeps the table terminated.
LEMMA PutNul ==
    ASSUME TypeOK, NulTerminated, NEW id \in Slots, NEW b,
           b = NoBuffer \/ b.text[MaxText(b.size)] = NUL,
           buffers' = [buffers EXCEPT ![id] = b]
    PROVE  NulTerminated'
<1>1. ASSUME NEW k \in Slots, buffers'[k] # NoBuffer
      PROVE  buffers'[k].text[MaxText(buffers'[k].size)] = NUL
  BY <1>1 DEF TypeOK, NulTerminated, Open
<1>2. QED
  BY <1>1 DEF NulTerminated, Open

\* The terminator lies behind the gap's end.
LEMMA NotInGap ==
    ASSUME NEW b, IsGapBuffer(b)
    PROVE  /\ MaxText(b.size) \in 0..MaxText(b.size)
           /\ MaxText(b.size) \notin b.gap_start..(b.gap_end - 1)
BY Fields

\* No call stores over a terminator: a store, a move and a cut end before it,
\* and the mappings that are made have NUL there.
LEMMA NextNul ==
    ASSUME FreshByte = NUL, TypeOK, NulTerminated, [Next]_vars
    PROVE  NulTerminated'
<1>1. CASE UNCHANGED buffers
  BY <1>1 DEF NulTerminated, Open
<1>2. CASE BuffersFree
  BY <1>2 DEF BuffersFree, NulTerminated, Open
<1>3. ASSUME NEW id \in Slots, Create(id)
      PROVE  NulTerminated'
  <2>1. ASSUME NEW n \in BlankSizes, CreateBlank(id, n)
        PROVE  NulTerminated'
    <3>1. Blank(RoundUp(n)).text[MaxText(Blank(RoundUp(n)).size)] = NUL
      BY <2>1, BlankIsGapBuffer DEF CreateBlank, Blank
    <3>2. QED
      BY <2>1, <3>1, PutNul DEF CreateBlank, Put
  <2>2. ASSUME NEW first \in 0..Len(file), CreateFromFile(id, first)
        PROVE  NulTerminated'
    <3> DEFINE size == RoundUp(first)
               length == IF Len(file) > size THEN MaxText(size) ELSE Len(file)
               s == SubSeq(file, 1, length)
    <3>1. CASE length <= MaxText(size) /\ Put(id, Filled(size, s))
      <4>1. size \in Sizes
        BY <2>2 DEF CreateFromFile
      <4>2. s \in Seq(Bytes) /\ Len(s) <= MaxText(size)
        BY <3>1, <4>1, LoadedBuffer
      <4> HIDE DEF s, size
      <4>3. /\ Filled(size, s).size = size
            /\ Filled(size, s).text[MaxText(size)] = FreshByte
        BY <4>1, <4>2, FilledIsGapBuffer, ZenonT(30)
      <4>4. QED
        BY <3>1, <4>3, PutNul DEF Put
    <3>2. CASE \E outcome \in {"corrupt", "segv"} : Fail(outcome, {"header"})
      BY <1>1, <3>2 DEF Fail
    <3>3. QED
      BY <2>2, <3>1, <3>2 DEF CreateFromFile
  <2>3. QED
    BY <1>3, <2>1, <2>2 DEF Create
<1>4. ASSUME NEW id \in Slots, Destroy(id)
      PROVE  NulTerminated'
  BY <1>4, PutNul DEF Destroy, Put
<1>5. ASSUME NEW id \in Open, NEW s \in Seq(Bytes), Len(s) <= Gap(buffers[id]),
             Put(id, Store(buffers[id], s))
      PROVE  NulTerminated'
  <2>1. IsGapBuffer(buffers[id])
    BY OpenBuffer
  <2>2. /\ Store(buffers[id], s).size = buffers[id].size
        /\ Store(buffers[id], s).text[MaxText(buffers[id].size)]
              = buffers[id].text[MaxText(buffers[id].size)]
    BY <1>5, <2>1, NotInGap, StoreSplices
  <2>3. QED
    BY <1>5, <2>1, <2>2, PutNul DEF Put, Open, NulTerminated
<1>6. ASSUME NEW id \in Open, CanGrow(buffers[id])
      PROVE  /\ IsGapBuffer(Grow(buffers[id]))
             /\ Grow(buffers[id]).text[MaxText(Grow(buffers[id]).size)] = NUL
  <2>1. IsGapBuffer(buffers[id])
    BY OpenBuffer
  <2>2. QED
    BY <1>6, <2>1, GrowKeepsContent DEF CanGrow
<1>7. ASSUME NEW id \in Slots, Edit(id)
      PROVE  NulTerminated'
  <2>1. ASSUME NEW c \in Asciis, InsertAscii(id, c)
        PROVE  NulTerminated'
    <3>1. /\ id \in Open
          /\ IsGapBuffer(buffers[id])
          /\ <<c>> \in Seq(Bytes)
          /\ Len(<<c>>) = 1
          /\ Gap(buffers[id]) \in Nat
      BY <2>1, OpenBuffer, Fields, InputAssumption DEF InsertAscii
    <3>2. CASE Gap(buffers[id]) > 0 /\ Put(id, Store(buffers[id], <<c>>))
      <4>1. Len(<<c>>) <= Gap(buffers[id])
        BY <3>1, <3>2
      <4>2. QED
        BY <1>5, <3>1, <3>2, <4>1
    <3>3. CASE /\ CanGrow(buffers[id])
               /\ buffers' = [buffers EXCEPT ![id] = Store(Grow(buffers[id]), <<c>>)]
      <4> DEFINE g == Grow(buffers[id])
      <4>1. IsGapBuffer(g) /\ g.text[MaxText(g.size)] = NUL
        BY <1>6, <3>1, <3>3
      <4>2. Len(<<c>>) <= Gap(g)
        BY <3>1, <3>3, GrownBuffer, InputAssumption
      <4>3. /\ Store(g, <<c>>).size = g.size
            /\ Store(g, <<c>>).text[MaxText(g.size)] = NUL
        BY <3>1, <4>1, <4>2, NotInGap, StoreSplices, ZenonT(30)
      <4>4. QED
        BY <3>3, <4>3, PutNul
    <3>4. CASE Fail("segv", {"terminator"}) \/ Fail("corrupt", {"overrun"})
      BY <1>1, <3>4 DEF Fail
    <3>5. QED
      BY <2>1, <3>2, <3>3, <3>4 DEF InsertAscii
  <2>2. ASSUME NEW s \in Inputs, InsertUtf8(id, s)
        PROVE  NulTerminated'
    <3>1. id \in Open /\ IsGapBuffer(buffers[id]) /\ s \in Seq(Bytes)
      BY <2>2, OpenBuffer, InputAssumption DEF InsertUtf8, Fills
    <3>2. CASE Len(s) <= Gap(buffers[id]) /\ Put(id, Store(buffers[id], s))
      BY <1>5, <3>1, <3>2
    <3>3. CASE /\ CanGrow(buffers[id])
               /\ buffers' = [buffers EXCEPT ![id] = Grow(buffers[id])]
      BY <1>6, <3>1, <3>3, PutNul
    <3>4. CASE \/ Fail("segv", {"terminator"})
               \/ Fail("segv", {"terminator", "stale"})
               \/ Fail("corrupt", {"overrun"})
      BY <1>1, <3>4 DEF Fail
    <3>5. Len(s) \in Nat /\ Gap(buffers[id]) \in Nat
      BY <3>1, Fields
    <3>6. /\ ~(Len(s) >= Gap(buffers[id])) => Len(s) <= Gap(buffers[id])
          /\ Len(s) = Gap(buffers[id]) => Len(s) <= Gap(buffers[id])
      BY <3>5
    <3>7. QED
      BY <2>2, <3>2, <3>3, <3>4, <3>6, Zenon DEF InsertUtf8, Fills
  <2>3. ASSUME NEW p \in Nat, id \in Open, p <= buffers[id].gap_start,
               Put(id, CutBack(buffers[id], p))
        PROVE  NulTerminated'
    <3>1. IsGapBuffer(buffers[id])
      BY <2>3, OpenBuffer
    <3>2. /\ CutBack(buffers[id], p).size = buffers[id].size
          /\ CutBack(buffers[id], p).text = buffers[id].text
      BY <2>3, <3>1, CutBackCuts
    <3>3. QED
      BY <2>3, <3>2, PutNul DEF Put, NulTerminated
  <2>4. CASE DeleteUtf8(id)
    <3>1. id \in Open /\ IsGapBuffer(buffers[id])
      BY <2>4, OpenBuffer DEF DeleteUtf8
    <3>2. CASE /\ StartsBefore(buffers[id]) # {}
               /\ Put(id, CutBack(buffers[id], LastStart(buffers[id])))
      <4>1. LastStart(buffers[id]) \in Nat /\ LastStart(buffers[id]) <= buffers[id].gap_start
        BY <3>1, <3>2, LastStartIsStart, Fields
      <4>2. QED
        BY <2>3, <3>1, <3>2, <4>1
    <3>3. CASE Fail("corrupt", {"underflow"})
      BY <1>1, <3>3 DEF Fail
    <3>4. QED
      BY <2>4, <3>2, <3>3 DEF DeleteUtf8
  <2>5. CASE DeleteAscii(id)
    <3>1. id \in Open /\ IsGapBuffer(buffers[id])
      BY <2>5, OpenBuffer DEF DeleteAscii
    <3>2. /\ buffers[id].gap_start - 1 \in Nat
          /\ buffers[id].gap_start - 1 <= buffers[id].gap_start
      BY <2>5, <3>1, Fields DEF DeleteAscii
    <3>3. QED
      BY <2>3, <2>5, <3>1, <3>2 DEF DeleteAscii
  <2>6. QED
    BY <1>7, <2>1, <2>2, <2>4, <2>5 DEF Edit
<1>8. ASSUME NEW id \in Slots, Use(id)
      PROVE  NulTerminated'
  <2>1. ASSUME NEW g \in Nat, id \in Open, Put(id, MoveGap(buffers[id], g))
        PROVE  NulTerminated'
    <3>1. IsGapBuffer(buffers[id])
      BY <2>1, OpenBuffer
    <3>2. /\ MoveGap(buffers[id], g).size = buffers[id].size
          /\ MoveGap(buffers[id], g).text[MaxText(buffers[id].size)] = NUL
      BY <2>1, <3>1, MoveGapKeepsContent DEF NulTerminated
    <3>3. QED
      BY <2>1, <3>2, PutNul DEF Put
  <2>2. ASSUME NEW g \in 0..(TextLen(buffers[id]) + 1), Move(id, g)
        PROVE  NulTerminated'
    BY <2>1, <2>2 DEF Move
  <2>3. ASSUME id \in Open,
               NEW i \in 0..(Cardinality(CharStarts(buffers[id])) + 1),
               MoveToUtf8Idx(id, i)
        PROVE  NulTerminated'
    <3>1. CASE ValidChar(buffers[id], i) /\ Put(id, MoveGap(buffers[id], LogicalIdx(buffers[id], i)))
      <4>1. LogicalIdx(buffers[id], i) \in 0..TextLen(buffers[id])
        BY <2>3, <3>1, OpenBuffer, LogicalIdxIsStart
      <4>2. QED
        BY <2>1, <2>3, <3>1, <4>1
    <3>2. CASE Fail("abort", {})
      BY <1>1, <3>2 DEF Fail
    <3>3. QED
      BY <2>3, <3>1, <3>2 DEF MoveToUtf8Idx
  <2>4. ASSUME NEW n \in 0..TextLen(buffers[id]), SaveToFile(id, n)
        PROVE  NulTerminated'
    BY <1>1, <2>4 DEF SaveToFile
  <2>5. QED
    BY <1>8, <2>2, <2>3, <2>4 DEF Use
<1>9. QED
  BY <1>1, <1>2, <1>3, <1>4, <1>7, <1>8 DEF Next, vars

\* Where a new mapping is zeroed, as it is in a release build, the byte that
\* the macro keeps for the terminator holds it at all times, although the
\* expansion of a gap writes its '\0' elsewhere.
THEOREM Terminated ==
    ASSUME FreshByte = NUL
    PROVE  Spec => []NulTerminated
<1>1. Init => NulTerminated
  BY DEF Init, NulTerminated, Open
<1>2. TypeOK /\ NulTerminated /\ [Next]_vars => NulTerminated'
  BY NextNul
<1>3. QED
  BY <1>1, <1>2, TypeCorrect, PTL DEF Spec

-----------------------------------------------------------------------------
(* Callers that go by characters *)

FileStartsChar == file # <<>> => file[1] \notin Cont

\* What CorruptOnlyByFile rests on: no deletion can run below a text whose
\* first byte starts a character, and it is the moves, which put the gap
\* between characters, that keep such a byte first.
CharInv ==
    /\ TypeOK
    /\ OnCharBoundaries
    /\ FileStartsChar
    /\ CorruptOnlyByFile

\* A text that is cut or started at a character boundary starts with one.
LEMMA FirstIsStart ==
    ASSUME NEW b, IsGapBuffer(b), OnCharBoundary(b), TextLen(b) > 0
    PROVE  Content(b)[1] \notin Cont
<1>1. /\ b.gap_start \in Nat
      /\ b.gap_end \in Nat
      /\ Gap(b) = b.gap_end - b.gap_start
      /\ TextLen(b) = MaxText(b.size) - Gap(b)
      /\ TextLen(b) \in Nat
      /\ MaxText(b.size) \in Nat
  BY Fields
<1>2. PICK k \in 1..TextLen(b) : k = 1
  BY <1>1
<1>3. Content(b)[k] = IF k <= b.gap_start THEN b.text[k - 1] ELSE b.text[k - 1 + Gap(b)]
  BY DEF Content
<1>4. CASE b.gap_start > 0
  <2>1. k <= b.gap_start /\ k - 1 = 0
    BY <1>1, <1>2, <1>4
  <2>2. b.text[0] \notin Cont
    BY <1>4 DEF OnCharBoundary
  <2>3. QED
    BY <1>2, <1>3, <2>1, <2>2
<1>5. CASE b.gap_start = 0
  <2>1. ~(k <= b.gap_start) /\ k - 1 + Gap(b) = b.gap_end
    BY <1>1, <1>2, <1>5
  <2>2. b.gap_end < MaxText(b.size)
    BY <1>1, <1>5
  <2>3. b.text[b.gap_end] \notin Cont
    BY <2>2 DEF OnCharBoundary
  <2>4. QED
    BY <1>2, <1>3, <2>1, <2>3
<1>6. QED
  BY <1>1, <1>4, <1>5

\* The converse, in terms of the text: the gap may be where a character
\* starts, if the text starts with one.
LEMMA BoundaryFromContent ==
    ASSUME NEW b, IsGapBuffer(b),
           b.gap_start < TextLen(b) => Content(b)[b.gap_start + 1] \notin Cont,
           TextLen(b) > 0 => Content(b)[1] \notin Cont
    PROVE  OnCharBoundary(b)
<1>1. /\ b.gap_start \in Nat
      /\ b.gap_end \in Nat
      /\ Gap(b) = b.gap_end - b.gap_start
      /\ TextLen(b) = MaxText(b.size) - Gap(b)
      /\ TextLen(b) \in Nat
      /\ MaxText(b.size) \in Nat
      /\ b.gap_start <= TextLen(b)
  BY Fields
<1>2. \A k \in 1..TextLen(b) : Content(b)[k] =
         IF k <= b.gap_start THEN b.text[k - 1] ELSE b.text[k - 1 + Gap(b)]
  BY DEF Content
<1>3. ASSUME b.gap_end < MaxText(b.size)
      PROVE  b.text[b.gap_end] \notin Cont
  <2>a. b.gap_start < TextLen(b)
    BY <1>1, <1>3
  <2>1. PICK k \in 1..TextLen(b) : k = b.gap_start + 1
    BY <1>1, <2>a
  <2>b. k - 1 + Gap(b) = b.gap_end
    BY <1>1, <2>1
  <2>2. ~(k <= b.gap_start) /\ k - 1 + Gap(b) = b.gap_end
    BY <1>1, <2>1, <2>b
  <2>3. Content(b)[k] = b.text[b.gap_end]
    BY <1>2, <2>2
  <2>4. QED
    BY <2>a, <2>1, <2>3
<1>4. ASSUME b.gap_start > 0
      PROVE  b.text[0] \notin Cont
  <2>1. PICK k \in 1..TextLen(b) : k = 1
    BY <1>1, <1>4
  <2>2. k <= b.gap_start /\ k - 1 = 0 /\ TextLen(b) > 0
    BY <1>1, <1>4, <2>1
  <2>3. QED
    BY <1>2, <2>1, <2>2
<1>5. QED
  BY <1>3, <1>4 DEF OnCharBoundary

\* A gap that is moved to a character stands at a boundary.
LEMMA MoveKeepsBoundary ==
    ASSUME NEW b, IsGapBuffer(b), OnCharBoundary(b), NEW i \in Nat, ValidChar(b, i)
    PROVE  OnCharBoundary(MoveGap(b, LogicalIdx(b, i)))
<1> DEFINE g == LogicalIdx(b, i)
           m == MoveGap(b, g)
<1>1. /\ g \in 0..TextLen(b)
      /\ g < TextLen(b) => Content(b)[g + 1] \notin Cont
      /\ TextLen(b) \in Nat
  BY LogicalIdxIsStart, Fields
<1> HIDE DEF g
<1>2. /\ IsGapBuffer(m)
      /\ Content(m) = Content(b)
      /\ m.gap_start = IF g > TextLen(b) THEN TextLen(b) ELSE g
  BY <1>1, MoveGapKeepsContent
<1>3. m.gap_start = g
  BY <1>1, <1>2
<1>4. TextLen(m) = TextLen(b)
  BY <1>2, ContentIsSeq
<1>5. TextLen(b) > 0 => Content(b)[1] \notin Cont
  BY FirstIsStart
<1> HIDE DEF m
<1>6. OnCharBoundary(m)
  BY <1>1, <1>2, <1>3, <1>4, <1>5, BoundaryFromContent
<1>7. QED
  BY <1>6 DEF m, g

\* Storing a whole character leaves the gap at a boundary.
LEMMA StoreKeepsBoundary ==
    ASSUME NEW b, IsGapBuffer(b), OnCharBoundary(b),
           NEW s \in Seq(Bytes), Len(s) <= Gap(b), s # <<>> => s[1] \notin Cont
    PROVE  OnCharBoundary(Store(b, s))
<1> DEFINE m == Store(b, s)
<1>1. /\ b.gap_start \in Nat
      /\ b.gap_end \in Nat
      /\ b.gap_start <= b.gap_end
      /\ b.gap_end <= MaxText(b.size)
      /\ MaxText(b.size) \in Nat
  BY Fields
<1>2. /\ m.size = b.size
      /\ m.gap_start = b.gap_start + Len(s)
      /\ m.gap_end = b.gap_end
      /\ \A p \in 0..MaxText(b.size) :
             p \notin b.gap_start..(b.gap_end - 1) => m.text[p] = b.text[p]
      /\ s # <<>> => m.text[b.gap_start] = s[1]
  BY StoreSplices
<1> HIDE DEF m
<1>3. ASSUME m.gap_end < MaxText(m.size)
      PROVE  m.text[m.gap_end] \notin Cont
  <2>1. b.gap_end \in 0..MaxText(b.size) /\ b.gap_end \notin b.gap_start..(b.gap_end - 1)
    BY <1>1
  <2>2. QED
    BY <1>2, <1>3, <2>1 DEF OnCharBoundary
<1>4. ASSUME m.gap_start > 0
      PROVE  m.text[0] \notin Cont
  <2>1. CASE b.gap_start > 0
    <3>1. 0 \in 0..MaxText(b.size) /\ 0 \notin b.gap_start..(b.gap_end - 1)
      BY <1>1, <2>1
    <3>2. QED
      BY <1>2, <2>1, <3>1 DEF OnCharBoundary
  <2>2. CASE b.gap_start = 0
    <3>1. s # <<>>
      BY <1>2, <1>4, <2>2
    <3>2. QED
      BY <1>2, <2>2, <3>1
  <2>3. QED
    BY <1>1, <2>1, <2>2
<1>5. QED
  BY <1>3, <1>4 DEF OnCharBoundary, m

\* Moving to a larger mapping leaves the gap at a boundary.
LEMMA GrowKeepsBoundary ==
    ASSUME NEW b, IsGapBuffer(b), OnCharBoundary(b), b.size + PageSize \in Sizes
    PROVE  OnCharBoundary(Grow(b))
<1> DEFINE m == Grow(b)
<1>1. /\ b.gap_start \in Nat
      /\ b.gap_end \in Nat
      /\ b.gap_start <= b.gap_end
      /\ b.gap_end <= MaxText(b.size)
      /\ MaxText(b.size) \in Nat
      /\ PageSize \in Nat
  BY Fields, SizeAssumption
<1>2. /\ m.gap_start = b.gap_start
      /\ m.gap_end = b.gap_end + PageSize
      /\ MaxText(m.size) = MaxText(b.size) + PageSize
      /\ \A p \in 0..(b.gap_start - 1) : m.text[p] = b.text[p]
      /\ \A p \in b.gap_end..(MaxText(b.size) - 1) :
            m.text[p + PageSize] = b.text[p]
  BY GrowKeepsContent
<1> HIDE DEF m
<1>3. ASSUME m.gap_end < MaxText(m.size)
      PROVE  m.text[m.gap_end] \notin Cont
  <2>1. b.gap_end \in b.gap_end..(MaxText(b.size) - 1) /\ b.gap_end < MaxText(b.size)
    BY <1>1, <1>2, <1>3
  <2>2. QED
    BY <1>2, <2>1 DEF OnCharBoundary
<1>4. ASSUME m.gap_start > 0
      PROVE  m.text[0] \notin Cont
  <2>1. 0 \in 0..(b.gap_start - 1) /\ b.gap_start > 0
    BY <1>1, <1>2, <1>4
  <2>2. QED
    BY <1>2, <2>1 DEF OnCharBoundary
<1>5. QED
  BY <1>3, <1>4 DEF OnCharBoundary, m

\* Taking back whole characters leaves what is behind the gap, and, if the
\* gap does not start the text, its first byte.
LEMMA CutKeepsBoundary ==
    ASSUME NEW b, IsGapBuffer(b), OnCharBoundary(b), NEW p \in Nat, p <= b.gap_start
    PROVE  OnCharBoundary(CutBack(b, p))
<1>1. /\ CutBack(b, p).size = b.size
      /\ CutBack(b, p).gap_start = p
      /\ CutBack(b, p).gap_end = b.gap_end
      /\ CutBack(b, p).text = b.text
      /\ b.gap_start \in Nat
  BY CutBackCuts, Fields
<1>2. p > 0 => b.gap_start > 0
  BY <1>1
<1>3. QED
  BY <1>1, <1>2 DEF OnCharBoundary

\* A step that leaves proc as it is, or ends in a fault, and puts a buffer at
\* a character boundary into a slot, or frees it.
LEMMA PutChar ==
    ASSUME CharInv, TypeOK', NEW id \in Slots, NEW b,
           b = NoBuffer \/ OnCharBoundary(b),
           buffers' = [buffers EXCEPT ![id] = b],
           file' = file, proc' = proc, stray \subseteq stray'
    PROVE  CharInv'
<1>1. ASSUME NEW k \in Slots, buffers'[k] # NoBuffer
      PROVE  OnCharBoundary(buffers'[k])
  BY <1>1 DEF CharInv, TypeOK, OnCharBoundaries, Open
<1>2. OnCharBoundaries'
  BY <1>1 DEF OnCharBoundaries, Open
<1>3. FileStartsChar' /\ CorruptOnlyByFile'
  BY DEF CharInv, FileStartsChar, CorruptOnlyByFile
<1>4. QED
  BY <1>2, <1>3 DEF CharInv

\* A call that fails changes no buffer.
LEMMA FailChar ==
    ASSUME CharInv, TypeOK', NEW outcome, NEW causes, Fail(outcome, causes),
           outcome = "corrupt" => "header" \in causes
    PROVE  CharInv'
BY DEF CharInv, Fail, OnCharBoundaries, FileStartsChar, CorruptOnlyByFile, Open

\* Every call of a caller that goes by characters keeps the invariant.
LEMMA NextKeepsChar ==
    ASSUME CharCallers, CharInv, [Next]_vars
    PROVE  CharInv'
<1>a. TypeOK /\ TypeOK'
  BY NextType DEF CharInv
<1>b. /\ ~ByteLevel
      /\ FALSE \notin MmapOutcomes
      /\ \A s \in Inputs : s # <<>> => s[1] \notin Cont
  BY DEF CharCallers
<1>c. ASSUME NEW id \in Open
      PROVE  id \in Slots /\ IsGapBuffer(buffers[id]) /\ OnCharBoundary(buffers[id])
  BY <1>a, OpenBuffer DEF CharInv, OnCharBoundaries
<1>1. CASE UNCHANGED vars
  BY <1>1, <1>a DEF vars, CharInv, OnCharBoundaries, FileStartsChar, CorruptOnlyByFile, Open
<1>2. CASE BuffersFree
  BY <1>2, <1>a DEF BuffersFree, CharInv, OnCharBoundaries, FileStartsChar, CorruptOnlyByFile, Open
<1>3. ASSUME NEW id \in Slots, Create(id)
      PROVE  CharInv'
  <2>1. ASSUME NEW n \in BlankSizes, CreateBlank(id, n)
        PROVE  CharInv'
    <3>1. OnCharBoundary(Blank(RoundUp(n)))
      <4>1. RoundUp(n) \in Sizes
        BY <2>1 DEF CreateBlank
      <4>2. MaxText(RoundUp(n)) \in Nat
        BY <4>1, SizeIsNat
      <4>3. QED
        BY <4>2 DEF OnCharBoundary, Blank
    <3>2. QED
      BY <1>a, <2>1, <3>1, PutChar DEF CreateBlank, Put
  <2>2. ASSUME NEW first \in 0..Len(file), CreateFromFile(id, first)
        PROVE  CharInv'
    <3> DEFINE size == RoundUp(first)
               length == IF Len(file) > size THEN MaxText(size) ELSE Len(file)
               s == SubSeq(file, 1, length)
    <3>1. CASE length <= MaxText(size) /\ Put(id, Filled(size, s))
      <4>1. size \in Sizes
        BY <2>2 DEF CreateFromFile
      <4>2. /\ s \in Seq(Bytes)
            /\ Len(s) <= MaxText(size)
            /\ length \in 0..Len(file)
            /\ Len(s) = length
            /\ s = [i \in 1..length |-> file[i]]
        BY <1>a, <3>1, <4>1, LoadedBuffer
      <4>3. s # <<>> => s[1] \notin Cont
        <5>1. SUFFICES ASSUME s # <<>> PROVE s[1] \notin Cont
          OBVIOUS
        <5>2. length > 0 /\ file # <<>>
          BY <1>a, <4>2, <5>1 DEF TypeOK
        <5>3. file[1] \notin Cont
          BY <5>2 DEF CharInv, FileStartsChar
        <5>4. 1 \in 1..length
          BY <4>2, <5>2
        <5> HIDE DEF s
        <5>5. QED
          BY <4>2, <5>3, <5>4
      <4> HIDE DEF s, size
      <4>4. /\ Filled(size, s).size = size
            /\ Filled(size, s).gap_start = 0
            /\ Filled(size, s).gap_end = MaxText(size) - Len(s)
            /\ s # <<>> => Filled(size, s).text[MaxText(size) - Len(s)] = s[1]
        BY <4>1, <4>2, FilledIsGapBuffer, ZenonT(30)
      <4>5. MaxText(size) - Len(s) < MaxText(size) => s # <<>>
        BY <4>1, <4>2, SizeIsNat
      <4>6. OnCharBoundary(Filled(size, s))
        BY <4>3, <4>4, <4>5 DEF OnCharBoundary
      <4>7. QED
        BY <1>a, <3>1, <4>6, PutChar DEF Put
    <3>2. CASE \E outcome \in {"corrupt", "segv"} : Fail(outcome, {"header"})
      BY <1>a, <3>2, FailChar
    <3>3. QED
      BY <2>2, <3>1, <3>2 DEF CreateFromFile
  <2>3. QED
    BY <1>3, <2>1, <2>2 DEF Create
<1>4. ASSUME NEW id \in Slots, Destroy(id)
      PROVE  CharInv'
  BY <1>4, <1>a, PutChar DEF Destroy, Put
<1>5. ASSUME NEW id \in Slots, Edit(id)
      PROVE  CharInv'
  <2>1. ASSUME NEW c \in Asciis, InsertAscii(id, c)
        PROVE  CharInv'
    <3>1. /\ id \in Open
          /\ <<c>> \in Seq(Bytes)
          /\ Len(<<c>>) = 1
          /\ c \in Bytes
          /\ <<c>>[1] \notin Cont
      BY <2>1, InputAssumption DEF InsertAscii
    <3>2. Gap(buffers[id]) \in Nat
      BY <1>c, <3>1, Fields
    <3>3. CASE Gap(buffers[id]) > 0 /\ Put(id, Store(buffers[id], <<c>>))
      <4>1. Len(<<c>>) <= Gap(buffers[id])
        BY <3>1, <3>2, <3>3
      <4>2. OnCharBoundary(Store(buffers[id], <<c>>))
        BY <1>c, <3>1, <4>1, StoreKeepsBoundary
      <4>3. QED
        BY <1>a, <3>3, <4>2, PutChar DEF Put
    <3>4. CASE /\ CanGrow(buffers[id])
               /\ buffers' = [buffers EXCEPT ![id] = Store(Grow(buffers[id]), <<c>>)]
               /\ stray' = stray \cup {"terminator"}
               /\ UNCHANGED <<file, proc>>
      <4> DEFINE g == Grow(buffers[id])
      <4>1. OnCharBoundary(g)
        BY <1>c, <3>1, <3>4, GrowKeepsBoundary DEF CanGrow
      <4>2. IsGapBuffer(g) /\ Len(<<c>>) <= Gap(g)
        BY <1>a, <3>1, <3>4, GrownBuffer
      <4> HIDE DEF g
      <4>3. OnCharBoundary(Store(g, <<c>>))
        BY <3>1, <4>1, <4>2, StoreKeepsBoundary
      <4>4. QED
        BY <1>a, <3>4, <4>3, PutChar DEF g
    <3>5. CASE Fail("segv", {"terminator"})
      BY <1>a, <3>5, FailChar
    <3>6. QED
      BY <1>b, <2>1, <3>3, <3>4, <3>5 DEF InsertAscii
  <2>2. ASSUME NEW s \in Inputs, InsertUtf8(id, s)
        PROVE  CharInv'
    <3>1. id \in Open /\ s \in Seq(Bytes) /\ (s # <<>> => s[1] \notin Cont)
      BY <1>b, <2>2, InputAssumption DEF InsertUtf8, Fills
    <3>2. CASE Len(s) <= Gap(buffers[id]) /\ Put(id, Store(buffers[id], s))
      <4>1. OnCharBoundary(Store(buffers[id], s))
        BY <1>c, <3>1, <3>2, StoreKeepsBoundary
      <4>2. QED
        BY <1>a, <3>2, <4>1, PutChar DEF Put
    <3>3. CASE /\ CanGrow(buffers[id])
               /\ buffers' = [buffers EXCEPT ![id] = Grow(buffers[id])]
               /\ stray' = stray \cup {"terminator"}
               /\ UNCHANGED <<file, proc>>
      <4>1. OnCharBoundary(Grow(buffers[id]))
        BY <1>c, <3>1, <3>3, GrowKeepsBoundary DEF CanGrow
      <4>2. QED
        BY <1>a, <3>3, <4>1, PutChar
    <3>4. CASE Fail("segv", {"terminator"}) \/ Fail("segv", {"terminator", "stale"})
      BY <1>a, <3>4, FailChar
    <3>5. Len(s) \in Nat /\ Gap(buffers[id]) \in Nat
      BY <1>c, <3>1, Fields
    <3>6. ~(Len(s) >= Gap(buffers[id])) => Len(s) <= Gap(buffers[id])
      BY <3>5
    <3>7. QED
      BY <1>b, <2>2, <3>2, <3>3, <3>4, <3>6, Zenon DEF InsertUtf8, Fills
  <2>3. CASE DeleteUtf8(id)
    <3> DEFINE b == buffers[id]
    <3>1. id \in Open /\ IsGapBuffer(b) /\ OnCharBoundary(b) /\ b.gap_start # 0
      BY <1>c, <2>3 DEF DeleteUtf8
    <3>2. 0 \in StartsBefore(b)
      <4>1. b.gap_start \in Nat /\ b.gap_start > 0
        BY <3>1, Fields
      <4>2. b.text[0] \notin Cont
        BY <3>1, <4>1 DEF OnCharBoundary
      <4>3. QED
        BY <4>1, <4>2 DEF StartsBefore, CharStarts
    <3>3. Put(id, CutBack(b, LastStart(b)))
      BY <2>3, <3>2 DEF DeleteUtf8
    <3>4. LastStart(b) \in Nat /\ LastStart(b) <= b.gap_start
      BY <3>1, <3>2, LastStartIsStart, Fields
    <3>5. OnCharBoundary(CutBack(b, LastStart(b)))
      BY <3>1, <3>4, CutKeepsBoundary
    <3>6. QED
      BY <1>a, <3>3, <3>5, PutChar DEF Put
  <2>4. QED
    BY <1>5, <1>b, <2>1, <2>2, <2>3 DEF Edit
<1>6. ASSUME NEW id \in Slots, Use(id)
      PROVE  CharInv'
  <2>1. ASSUME id \in Open,
               NEW i \in 0..(Cardinality(CharStarts(buffers[id])) + 1),
               MoveToUtf8Idx(id, i)
        PROVE  CharInv'
    <3>1. CASE ValidChar(buffers[id], i) /\ Put(id, MoveGap(buffers[id], LogicalIdx(buffers[id], i)))
      <4>1. OnCharBoundary(MoveGap(buffers[id], LogicalIdx(buffers[id], i)))
        BY <1>c, <2>1, <3>1, MoveKeepsBoundary
      <4>2. QED
        BY <1>a, <3>1, <4>1, PutChar DEF Put
    <3>2. CASE Fail("abort", {})
      BY <1>a, <3>2, FailChar
    <3>3. QED
      BY <2>1, <3>1, <3>2 DEF MoveToUtf8Idx
  <2>2. ASSUME id \in Open, NEW n \in 0..TextLen(buffers[id]), SaveToFile(id, n)
        PROVE  CharInv'
    <3> DEFINE t == SubSeq(Content(buffers[id]), 1, n)
    <3>1. /\ Content(buffers[id]) \in Seq(Bytes)
          /\ Len(Content(buffers[id])) = TextLen(buffers[id])
          /\ TextLen(buffers[id]) \in Nat
      BY <1>c, <2>2, ContentIsSeq, Fields
    <3>2. /\ t \in Seq(Bytes)
          /\ Len(t) = n
          /\ \A i \in 1..n : t[i] = Content(buffers[id])[i]
      BY <3>1, PrefixIsSeq
    <3>3. file \in Seq(Bytes)
      BY <1>a DEF TypeOK
    <3>4. file' = t \o SubSeq(file, Len(t) + 1, Len(file))
      BY <2>2, <3>2 DEF SaveToFile
    <3> HIDE DEF t
    <3>5. file' = Overlay(file, t)
      BY <3>2, <3>3, <3>4, OverlayIsSeq
    <3>6. FileStartsChar'
      <4>1. SUFFICES ASSUME file' # <<>> PROVE file'[1] \notin Cont
        BY DEF FileStartsChar
      <4>2. file' = [i \in 1..(IF n > Len(file) THEN n ELSE Len(file)) |->
                       IF i <= n THEN t[i] ELSE file[i]]
        BY <3>2, <3>5 DEF Overlay
      <4>3. n \in Nat /\ Len(file) \in Nat
        BY <3>1, <3>3
      <4>4. CASE n >= 1
        <5>1. file'[1] = t[1] /\ t[1] = Content(buffers[id])[1]
          BY <3>2, <4>2, <4>3, <4>4
        <5>2. QED
          BY <1>c, <2>2, <3>1, <4>4, <5>1, FirstIsStart
      <4>5. CASE n = 0 /\ Len(file) >= 1
        <5>1. file'[1] = file[1] /\ file # <<>>
          BY <4>2, <4>3, <4>5
        <5>2. QED
          BY <5>1 DEF CharInv, FileStartsChar
      <4>6. CASE n = 0 /\ Len(file) = 0
        <5>1. file' = [i \in 1..0 |-> IF i <= n THEN t[i] ELSE file[i]]
          BY <4>2, <4>6
        <5>2. file' = <<>>
          BY <5>1
        <5>3. QED
          BY <4>1, <5>2
      <4>7. QED
        BY <4>3, <4>4, <4>5, <4>6
    <3>7. OnCharBoundaries' /\ CorruptOnlyByFile'
      BY <2>2 DEF SaveToFile, CharInv, OnCharBoundaries, CorruptOnlyByFile, Open
    <3>8. QED
      BY <1>a, <3>6, <3>7 DEF CharInv
  <2>3. QED
    BY <1>6, <1>b, <2>1, <2>2 DEF Use
<1>7. QED
  BY <1>1, <1>2, <1>3, <1>4, <1>5, <1>6 DEF Next

\* What holds for such callers, as long as they call.
LEMMA CharInvariant ==
    ASSUME CharCallers
    PROVE  Spec => []CharInv
<1>1. Init => CharInv
  <2> SUFFICES ASSUME Init PROVE CharInv
    OBVIOUS
  <2>1. TypeOK
    BY InitType
  <2>2. OnCharBoundaries
    BY DEF Init, OnCharBoundaries, Open
  <2>3. FileStartsChar /\ CorruptOnlyByFile
    BY DEF Init, CharCallers, FileStartsChar, CorruptOnlyByFile
  <2>4. QED
    BY <2>1, <2>2, <2>3 DEF CharInv
<1>2. CharInv /\ [Next]_vars => CharInv'
  BY NextKeepsChar
<1>3. QED
  BY <1>1, <1>2, PTL DEF Spec

\* Callers like the editor, which go by characters and are never refused
\* memory, keep every gap between two characters, even if a file was cut
\* inside one when it was loaded or saved.
THEOREM CharCallersAreSafe ==
    ASSUME CharCallers
    PROVE  Spec => []OnCharBoundaries
<1>1. CharInv => OnCharBoundaries
  BY DEF CharInv
<1>2. QED
  BY <1>1, CharInvariant, PTL

\* They can have a text or a header overwritten in one way only: by loading a
\* file that does not fit the mapping made for it.  Their deletions always
\* find the start of a character (buffers.c:392-399).
THEOREM OnlyFilesCorrupt ==
    ASSUME CharCallers
    PROVE  Spec => []CorruptOnlyByFile
<1>1. CharInv => CorruptOnlyByFile
  BY DEF CharInv
<1>2. QED
  BY <1>1, CharInvariant, PTL

-----------------------------------------------------------------------------
(* A buffer is a text with a point *)

docs == [id \in Slots |-> DocOf(buffers[id])]

\* What a well-formed buffer stands for.
LEMMA DocOfBuffer ==
    ASSUME NEW b, IsGapBuffer(b)
    PROVE  /\ DocOf(b) = Doc!Doc(Content(b), b.gap_start)
           /\ DocOf(b).open
           /\ DocOf(b).text = Content(b)
           /\ DocOf(b).point = b.gap_start
BY BufferIsNotFree DEF DocOf, Doc!Doc

\* A slot is open for both specifications, with the text it stands for.
LEMMA OpenAgrees ==
    ASSUME TypeOK, NEW id \in Slots
    PROVE  /\ id \in Open <=> id \in Doc!OpenSlots
           /\ docs[id] = DocOf(buffers[id])
<1>1. docs[id] = DocOf(buffers[id])
  BY DEF docs
<1>2. CASE id \in Open
  BY <1>1, <1>2, OpenBuffer, DocOfBuffer DEF Doc!OpenSlots, docs
<1>3. CASE id \notin Open
  <2>1. DocOf(buffers[id]).open = FALSE
    BY <1>3 DEF DocOf, Open
  <2>2. QED
    BY <1>1, <1>3, <2>1 DEF Doc!OpenSlots, docs
<1>4. QED
  BY <1>1, <1>2, <1>3

\* Putting a buffer into a slot sets the document of that slot alone.
LEMMA PutSets ==
    ASSUME TypeOK, proc = "running", NEW id \in Slots, NEW b,
           buffers' = [buffers EXCEPT ![id] = b],
           file' = file, proc' = proc
    PROVE  Doc!Set(id, DocOf(b))
<1>1. docs' = [docs EXCEPT ![id] = DocOf(b)]
  BY DEF docs, TypeOK
<1>2. QED
  BY <1>1 DEF Doc!Set, docs

\* A call that ends the process is the end of it in Document too.
LEMMA FailHalts ==
    ASSUME TypeOK, NEW outcome, NEW causes, Fail(outcome, causes), outcome # "running"
    PROVE  Doc!Halt
BY DEF Fail, Doc!Halt

\* Storing, in the buffer or in a larger copy of it, is an insertion.
LEMMA StoreInserts ==
    ASSUME TypeOK, proc = "running", NEW id \in Open, NEW b, IsGapBuffer(b),
           Content(b) = Content(buffers[id]), b.gap_start = buffers[id].gap_start,
           NEW s \in Inputs \cup {<<c>> : c \in Asciis}, s \in Seq(Bytes), Len(s) <= Gap(b),
           buffers' = [buffers EXCEPT ![id] = Store(b, s)],
           file' = file, proc' = proc
    PROVE  Doc!Insert(id)
<1>1. id \in Slots /\ IsGapBuffer(buffers[id])
  BY OpenBuffer
<1>2. /\ IsGapBuffer(Store(b, s))
      /\ Content(Store(b, s)) = Splice(Content(b), b.gap_start, s)
      /\ Store(b, s).gap_start = b.gap_start + Len(s)
  BY StoreSplices
<1>3. DocOf(Store(b, s)) = Doc!Doc(Splice(Content(b), b.gap_start, s), b.gap_start + Len(s))
  BY <1>2, DocOfBuffer
<1>4. Doc!Set(id, DocOf(Store(b, s)))
  BY <1>1, PutSets
<1>5. /\ id \in Doc!OpenSlots
      /\ docs[id].text = Content(b)
      /\ docs[id].point = b.gap_start
  BY <1>1, OpenAgrees, DocOfBuffer
<1>6. Doc!Splice(Content(b), b.gap_start, s) = Splice(Content(b), b.gap_start, s)
  BY DEF Splice, Doc!Splice
<1>7. QED
  BY <1>3, <1>4, <1>5, <1>6 DEF Doc!Insert, docs

\* Moving the gap is moving the point.
LEMMA MoveMoves ==
    ASSUME TypeOK, proc = "running", NEW id \in Open, NEW g \in Nat,
           Put(id, MoveGap(buffers[id], g))
    PROVE  Doc!MoveTo(id)
<1> DEFINE b == buffers[id]
           m == MoveGap(b, g)
<1>1. id \in Slots /\ IsGapBuffer(b)
  BY OpenBuffer
<1>a. /\ IsGapBuffer(m)
      /\ Content(m) = Content(b)
      /\ m.gap_start = IF g > TextLen(b) THEN TextLen(b) ELSE g
  BY <1>1, MoveGapKeepsContent
<1> HIDE DEF m
<1>b. TextLen(b) \in Nat /\ Len(Content(b)) = TextLen(b)
  BY <1>1, ContentIsSeq, Fields
<1>2. /\ IsGapBuffer(m)
      /\ Content(m) = Content(b)
      /\ m.gap_start \in 0..Len(Content(b))
  BY <1>a, <1>b
<1>3. DocOf(m) = Doc!Doc(Content(b), m.gap_start)
  BY <1>2, DocOfBuffer
<1>4. Doc!Set(id, DocOf(m))
  BY <1>1, PutSets DEF Put, m
<1>5. id \in Doc!OpenSlots /\ docs[id].text = Content(b)
  BY <1>1, OpenAgrees, DocOfBuffer
<1>6. Doc!Set(id, Doc!Doc(docs[id].text, m.gap_start))
  BY <1>3, <1>4, <1>5
<1>7. m.gap_start \in 0..Len(docs[id].text)
  BY <1>2, <1>5
<1> HIDE DEF m, b
<1>8. \E k \in 0..Len(docs[id].text) : Doc!Set(id, Doc!Doc(docs[id].text, k))
  BY <1>6, <1>7
<1>9. QED
  BY <1>5, <1>8 DEF Doc!MoveTo, docs

\* The character starts before the gap, seen in the text.
LEMMA StartsAgree ==
    ASSUME NEW b, IsGapBuffer(b), NEW k \in Nat, k < b.gap_start
    PROVE  k \in Doc!Starts(Content(b)) <=> k \in StartsBefore(b)
<1>1. /\ b.gap_start \in Nat
      /\ b.gap_start <= TextLen(b)
      /\ TextLen(b) \in Nat
      /\ Len(Content(b)) = TextLen(b)
  BY Fields, ContentIsSeq
<1>2. PICK i \in 1..TextLen(b) : i = k + 1
  BY <1>1
<1>3. Content(b)[i] = IF i <= b.gap_start THEN b.text[i - 1] ELSE b.text[i - 1 + Gap(b)]
  BY DEF Content
<1>4. i <= b.gap_start /\ i - 1 = k
  BY <1>1, <1>2
<1>5. Content(b)[k + 1] = b.text[k]
  BY <1>2, <1>3, <1>4
<1>6. k \in 0..(Len(Content(b)) - 1) /\ k \in 0..b.gap_start - 1
  BY <1>1
<1>7. QED
  BY <1>5, <1>6 DEF Doc!Starts, StartsBefore, CharStarts

\* Taking back bytes erases those bytes of the text.
LEMMA CutErases ==
    ASSUME TypeOK, proc = "running", NEW id \in Open, NEW p \in Nat,
           p <= buffers[id].gap_start, Put(id, CutBack(buffers[id], p))
    PROVE  /\ id \in Doc!OpenSlots
           /\ docs[id].text = Content(buffers[id])
           /\ docs[id].point = buffers[id].gap_start
           /\ Doc!Set(id, Doc!Doc(Doc!Cut(docs[id].text, p, docs[id].point), p))
<1> DEFINE b == buffers[id]
           m == CutBack(b, p)
<1>1. id \in Slots /\ IsGapBuffer(b)
  BY OpenBuffer
<1>2. /\ IsGapBuffer(m)
      /\ Content(m) = Cut(Content(b), p, b.gap_start)
      /\ m.gap_start = p
  BY <1>1, CutBackCuts
<1>3. DocOf(m) = Doc!Doc(Cut(Content(b), p, b.gap_start), p)
  BY <1>2, DocOfBuffer
<1>4. Doc!Set(id, DocOf(m))
  BY <1>1, PutSets DEF Put
<1>5. /\ id \in Doc!OpenSlots
      /\ docs[id].text = Content(b)
      /\ docs[id].point = b.gap_start
  BY <1>1, OpenAgrees, DocOfBuffer
<1>6. Doc!Cut(Content(b), p, b.gap_start) = Cut(Content(b), p, b.gap_start)
  BY DEF Cut, Doc!Cut
<1>7. QED
  BY <1>3, <1>4, <1>5, <1>6

\* The initial states agree.
LEMMA DocInit == Init => Doc!Init
<1> SUFFICES ASSUME Init PROVE Doc!Init
  OBVIOUS
<1>1. docs = [d \in Slots |-> Doc!Closed]
  BY DEF Init, docs, DocOf, Doc!Closed
<1>2. QED
  BY <1>1, InputAssumption DEF Init, docs, Doc!Init

\* Every call is a step of Document, or changes nothing it can see.
LEMMA DocNext ==
    ASSUME TypeOK, [Next]_vars
    PROVE  [proc = "running" /\ Doc!Next]_(Doc!vars)
<1>1. CASE UNCHANGED vars
  BY <1>1 DEF vars, Doc!vars, docs
<1>2. SUFFICES ASSUME Next PROVE Doc!Next \/ UNCHANGED Doc!vars
  BY <1>1 DEF Next
<1>a. proc = "running"
  BY <1>2 DEF Next
<1>3. CASE BuffersFree
  <2>1. docs' = [d \in Slots |-> Doc!Closed]
    BY <1>3 DEF BuffersFree, docs, DocOf, Doc!Closed
  <2>2. Doc!CloseAll
    BY <1>3, <2>1 DEF BuffersFree, Doc!CloseAll, docs
  <2>3. QED
    BY <2>2 DEF Doc!Next
<1>4. ASSUME NEW id \in Slots, Create(id)
      PROVE  Doc!Next
  <2>1. ASSUME NEW n \in BlankSizes, CreateBlank(id, n)
        PROVE  Doc!Create(id)
    <3>1. /\ IsGapBuffer(Blank(RoundUp(n)))
          /\ Content(Blank(RoundUp(n))) = <<>>
          /\ Blank(RoundUp(n)).gap_start = 0
      BY <2>1, BlankIsGapBuffer DEF CreateBlank
    <3>2. Doc!Set(id, Doc!Doc(<<>>, 0))
      BY <1>a, <2>1, <3>1, DocOfBuffer, PutSets DEF CreateBlank, Put
    <3>3. id \notin Doc!OpenSlots
      BY <2>1, OpenAgrees DEF CreateBlank, IsNextEmpty
    <3>4. QED
      BY <3>2, <3>3 DEF Doc!Create
  <2>2. ASSUME NEW first \in 0..Len(file), CreateFromFile(id, first)
        PROVE  Doc!Load(id) \/ Doc!Halt
    <3> DEFINE size == RoundUp(first)
               length == IF Len(file) > size THEN MaxText(size) ELSE Len(file)
               s == SubSeq(file, 1, length)
    <3>1. CASE length <= MaxText(size) /\ Put(id, Filled(size, s))
      <4>1. size \in Sizes
        BY <2>2 DEF CreateFromFile
      <4>2. /\ s \in Seq(Bytes)
            /\ Len(s) <= MaxText(size)
            /\ length \in 0..Len(file)
            /\ Len(s) = length
            /\ s = [i \in 1..length |-> file[i]]
        BY <3>1, <4>1, LoadedBuffer
      <4> HIDE DEF s, size
      <4>3. /\ IsGapBuffer(Filled(size, s))
            /\ Content(Filled(size, s)) = [i \in 1..Len(s) |-> s[i]]
            /\ Filled(size, s).gap_start = 0
        BY <4>1, <4>2, FilledIsGapBuffer, ZenonT(30)
      <4>4. Content(Filled(size, s)) = [i \in 1..length |-> file[i]]
        BY <4>2, <4>3
      <4>5. Doc!Set(id, Doc!Doc([i \in 1..length |-> file[i]], 0))
        <5> DEFINE f == Filled(size, s)
        <5>1. Doc!Set(id, DocOf(f))
          <6> HIDE DEF f
          <6>1. /\ buffers' = [buffers EXCEPT ![id] = f]
                /\ file' = file
                /\ proc' = proc
            BY <3>1 DEF Put, f
          <6>2. QED
            BY <1>a, <6>1, PutSets
        <5>2. DocOf(f) = Doc!Doc(Content(f), f.gap_start)
          BY <4>3, DocOfBuffer
        <5>3. QED
          BY <4>3, <4>4, <5>1, <5>2
      <4>6. id \notin Doc!OpenSlots
        BY <2>2, OpenAgrees DEF CreateFromFile, IsNextEmpty
      <4> HIDE DEF length
      <4>7. QED
        BY <4>2, <4>5, <4>6 DEF Doc!Load
    <3>2. CASE \E outcome \in {"corrupt", "segv"} : Fail(outcome, {"header"})
      BY <3>2, FailHalts
    <3>3. QED
      BY <2>2, <3>1, <3>2 DEF CreateFromFile
  <2>3. QED
    BY <1>4, <2>1, <2>2 DEF Create, Doc!Next
<1>5. ASSUME NEW id \in Slots, Destroy(id)
      PROVE  Doc!Next
  <2>1. Doc!Set(id, Doc!Closed)
    BY <1>a, <1>5, PutSets DEF Destroy, Put, DocOf, Doc!Closed
  <2>2. id \in Doc!OpenSlots
    BY <1>5, OpenAgrees DEF Destroy
  <2>3. QED
    BY <2>1, <2>2 DEF Doc!Close, Doc!Next
<1>6. ASSUME NEW id \in Slots, Edit(id)
      PROVE  Doc!Next \/ UNCHANGED Doc!vars
  <2>1. ASSUME NEW c \in Asciis, InsertAscii(id, c)
        PROVE  Doc!Insert(id) \/ Doc!Halt
    <3>1. /\ id \in Open
          /\ IsGapBuffer(buffers[id])
          /\ c \in Bytes
          /\ <<c>> \in Seq(Bytes)
          /\ Len(<<c>>) = 1
          /\ <<c>> \in Inputs \cup {<<k>> : k \in Asciis}
      BY <2>1, OpenBuffer, InputAssumption DEF InsertAscii
    <3>2. CASE Gap(buffers[id]) > 0 /\ Put(id, Store(buffers[id], <<c>>))
      <4>1. Len(<<c>>) <= Gap(buffers[id])
        BY <3>1, <3>2, Fields
      <4>2. QED
        BY <1>a, <3>1, <3>2, <4>1, StoreInserts DEF Put
    <3>3. CASE /\ CanGrow(buffers[id])
               /\ buffers' = [buffers EXCEPT ![id] = Store(Grow(buffers[id]), <<c>>)]
               /\ UNCHANGED <<file, proc>>
      <4> DEFINE g == Grow(buffers[id])
      <4>1. IsGapBuffer(g) /\ Len(<<c>>) <= Gap(g)
        BY <3>1, <3>3, GrownBuffer
      <4>2. Content(g) = Content(buffers[id]) /\ g.gap_start = buffers[id].gap_start
        BY <3>1, <3>3, GrowKeepsContent DEF CanGrow
      <4>3. QED
        BY <1>a, <3>1, <3>3, <4>1, <4>2, StoreInserts
    <3>4. CASE Fail("segv", {"terminator"}) \/ Fail("corrupt", {"overrun"})
      BY <3>4, FailHalts
    <3>5. QED
      BY <2>1, <3>2, <3>3, <3>4 DEF InsertAscii
  <2>2. ASSUME NEW s \in Inputs, InsertUtf8(id, s)
        PROVE  Doc!Insert(id) \/ Doc!Halt \/ UNCHANGED Doc!vars
    <3>1. id \in Open /\ IsGapBuffer(buffers[id]) /\ s \in Seq(Bytes)
      BY <2>2, OpenBuffer, InputAssumption DEF InsertUtf8, Fills
    <3>2. CASE Len(s) <= Gap(buffers[id]) /\ Put(id, Store(buffers[id], s))
      BY <1>a, <3>1, <3>2, StoreInserts DEF Put
    <3>3. CASE /\ CanGrow(buffers[id])
               /\ buffers' = [buffers EXCEPT ![id] = Grow(buffers[id])]
               /\ UNCHANGED <<file, proc>>
      <4> DEFINE g == Grow(buffers[id])
      <4>1. /\ IsGapBuffer(g)
            /\ Content(g) = Content(buffers[id])
            /\ g.gap_start = buffers[id].gap_start
        BY <3>1, <3>3, GrowKeepsContent DEF CanGrow
      <4>2. DocOf(g) = DocOf(buffers[id])
        BY <3>1, <4>1, DocOfBuffer
      <4>3. docs' = docs
        BY <3>1, <3>3, <4>2 DEF docs, TypeOK
      <4>4. QED
        BY <3>3, <4>3 DEF Doc!vars, docs
    <3>4. CASE \/ Fail("segv", {"terminator"})
               \/ Fail("segv", {"terminator", "stale"})
               \/ Fail("corrupt", {"overrun"})
      BY <3>4, FailHalts
    <3>5. Len(s) \in Nat /\ Gap(buffers[id]) \in Nat
      BY <3>1, Fields
    <3>6. /\ ~(Len(s) >= Gap(buffers[id])) => Len(s) <= Gap(buffers[id])
          /\ Len(s) = Gap(buffers[id]) => Len(s) <= Gap(buffers[id])
      BY <3>5
    <3>7. QED
      BY <2>2, <3>2, <3>3, <3>4, <3>6, Zenon DEF InsertUtf8, Fills
  <2>3. ASSUME DeleteUtf8(id)
        PROVE  Doc!EraseChar(id) \/ Doc!Halt
    <3> DEFINE b == buffers[id]
               j == LastStart(b)
    <3>1. id \in Open /\ IsGapBuffer(b)
      BY <2>3, OpenBuffer DEF DeleteUtf8
    <3>2. CASE StartsBefore(b) # {} /\ Put(id, CutBack(b, j))
      <4>1. /\ j \in StartsBefore(b)
            /\ \A q \in StartsBefore(b) : q <= j
            /\ j \in Nat
            /\ j < b.gap_start
            /\ j <= b.gap_start
            /\ b.gap_start \in Nat
        BY <3>1, <3>2, LastStartIsStart, Fields
      <4> HIDE DEF j
      <4>2. /\ id \in Doc!OpenSlots
            /\ docs[id].text = Content(b)
            /\ docs[id].point = b.gap_start
            /\ Doc!Set(id, Doc!Doc(Doc!Cut(docs[id].text, j, docs[id].point), j))
        BY <1>a, <3>1, <3>2, <4>1, CutErases
      <4>3. j \in Doc!Starts(docs[id].text) /\ j < docs[id].point
        BY <3>1, <4>1, <4>2, StartsAgree
      <4>4. ASSUME NEW k \in Doc!Starts(docs[id].text), k < docs[id].point
            PROVE  k <= j
        <5>1. k \in Nat
          BY DEF Doc!Starts
        <5>2. k \in StartsBefore(b)
          BY <3>1, <4>2, <4>4, <5>1, StartsAgree
        <5>3. QED
          BY <4>1, <5>2
      <4>5. QED
        BY <4>2, <4>3, <4>4 DEF Doc!EraseChar, docs
    <3>3. CASE Fail("corrupt", {"underflow"})
      BY <3>3, FailHalts
    <3>4. QED
      BY <2>3, <3>2, <3>3 DEF DeleteUtf8
  <2>4. ASSUME DeleteAscii(id)
        PROVE  Doc!EraseByte(id)
    <3> DEFINE p == buffers[id].gap_start - 1
    <3>1. id \in Open /\ IsGapBuffer(buffers[id])
      BY <2>4, OpenBuffer DEF DeleteAscii
    <3>2. /\ p \in Nat
          /\ p <= buffers[id].gap_start
          /\ buffers[id].gap_start > 0
      BY <2>4, <3>1, Fields DEF DeleteAscii
    <3>3. /\ id \in Doc!OpenSlots
          /\ docs[id].point = buffers[id].gap_start
          /\ Doc!Set(id, Doc!Doc(Doc!Cut(docs[id].text, p, docs[id].point), p))
      BY <1>a, <2>4, <3>1, <3>2, CutErases DEF DeleteAscii
    <3>4. QED
      BY <3>2, <3>3 DEF Doc!EraseByte, docs
  <2>5. QED
    BY <1>6, <2>1, <2>2, <2>3, <2>4 DEF Edit, Doc!Next
<1>7. ASSUME NEW id \in Slots, Use(id)
      PROVE  Doc!Next
  <2>1. ASSUME id \in Open, NEW g \in 0..(TextLen(buffers[id]) + 1), Move(id, g)
        PROVE  Doc!MoveTo(id)
    BY <1>a, <2>1, MoveMoves DEF Move
  <2>2. ASSUME id \in Open,
               NEW i \in 0..(Cardinality(CharStarts(buffers[id])) + 1),
               MoveToUtf8Idx(id, i)
        PROVE  Doc!MoveTo(id) \/ Doc!Halt
    <3>1. CASE ValidChar(buffers[id], i) /\ Put(id, MoveGap(buffers[id], LogicalIdx(buffers[id], i)))
      <4>1. LogicalIdx(buffers[id], i) \in Nat
        BY <2>2, <3>1, OpenBuffer, LogicalIdxIsStart
      <4>2. QED
        BY <1>a, <2>2, <3>1, <4>1, MoveMoves
    <3>2. CASE Fail("abort", {})
      BY <3>2, FailHalts
    <3>3. QED
      BY <2>2, <3>1, <3>2 DEF MoveToUtf8Idx
  <2>3. ASSUME id \in Open, NEW n \in 0..TextLen(buffers[id]), SaveToFile(id, n)
        PROVE  Doc!Save(id)
    <3> DEFINE t == SubSeq(Content(buffers[id]), 1, n)
    <3>1. /\ Content(buffers[id]) \in Seq(Bytes)
          /\ Len(Content(buffers[id])) = TextLen(buffers[id])
      BY <2>3, OpenBuffer, ContentIsSeq
    <3>2. /\ t \in Seq(Bytes)
          /\ Len(t) = n
          /\ t = [i \in 1..n |-> Content(buffers[id])[i]]
      BY <3>1, PrefixIsSeq
    <3>3. file \in Seq(Bytes)
      BY DEF TypeOK
    <3>4. file' = t \o SubSeq(file, Len(t) + 1, Len(file))
      BY <2>3, <3>2 DEF SaveToFile
    <3> HIDE DEF t
    <3>5. file' = Doc!Overlay(file, t)
      BY <3>2, <3>3, <3>4, OverlayIsSeq DEF Overlay, Doc!Overlay
    <3>6. id \in Doc!OpenSlots /\ docs[id].text = Content(buffers[id])
      BY <1>7, <2>3, OpenAgrees, OpenBuffer, DocOfBuffer
    <3>7. file' = Doc!Overlay(file, [i \in 1..n |-> docs[id].text[i]])
      BY <3>2, <3>5, <3>6
    <3>8. n \in 0..Len(docs[id].text)
      BY <3>1, <3>6
    <3>9. docs' = docs /\ UNCHANGED proc
      BY <2>3 DEF SaveToFile, docs
    <3>10. QED
      BY <3>6, <3>7, <3>8, <3>9 DEF Doc!Save, docs
  <2>4. QED
    BY <1>7, <2>1, <2>2, <2>3 DEF Use, Doc!Next
<1>8. QED
  BY <1>2, <1>3, <1>4, <1>5, <1>6, <1>7 DEF Next

\* The table of gap buffers implements the table of plain texts, each with a
\* point: no caller can tell, but for a process that ends, that there are
\* gaps, pages and mappings that move.
THEOREM ImplementsDocument == Spec => DocumentSpec
<1>1. Spec => [][proc = "running" /\ Doc!Next]_(Doc!vars)
  BY TypeCorrect, DocNext, PTL DEF Spec
<1>2. QED
  BY <1>1, DocInit, PTL DEF Spec, DocumentSpec, Doc!Spec


-----------------------------------------------------------------------------

\* The least of some natural numbers.
LEMMA MinIs ==
    ASSUME NEW S \in SUBSET Nat, S # {}
    PROVE  /\ Min(S) \in S
           /\ \A y \in S : Min(S) <= y
<1>1. \E x \in S : \A y \in S : x <= y
  BY LeastNatural
<1>2. QED
  BY <1>1 DEF Min

-----------------------------------------------------------------------------
(* The walk *)

\* The next character is further on, and at most just behind the mapping.
LEMMA NextCharIs ==
    ASSUME NEW b, IsGapBuffer(b), NEW p \in Nat
    PROVE  /\ NextChar(b, p) \in Nat
           /\ NextChar(b, p) <= Off(b)
           /\ p < Off(b) => p < NextChar(b, p)
<1> DEFINE S == {r \in (p + 1)..End(b) : b.text[r] \notin Cont} \cup {Off(b)}
<1>1. End(b) \in Nat /\ Off(b) = End(b) + 1
  BY Fields DEF End, Off
<1>2. S \in SUBSET Nat /\ S # {}
  BY <1>1
<1>3. Min(S) \in S
  BY <1>2, MinIs
<1>4. \A r \in S : r <= Off(b) /\ (p < Off(b) => p < r)
  BY <1>1
<1> HIDE DEF S
<1>5. QED
  BY <1>2, <1>3, <1>4 DEF NextChar, S

\* So is the next stop of a walk, since a gap is skipped to its end.
LEMMA SeekIs ==
    ASSUME NEW b, IsGapBuffer(b), NEW p \in Nat
    PROVE  /\ Seek(b, p) \in Nat
           /\ Seek(b, p) <= Off(b)
           /\ p < Off(b) => p < Seek(b, p)
<1>1. /\ b.gap_start \in Nat
      /\ b.gap_end \in Nat
      /\ b.gap_start <= b.gap_end
      /\ b.gap_end <= End(b)
      /\ End(b) \in Nat
      /\ Off(b) = End(b) + 1
  BY Fields DEF End, Off
<1>2. /\ NextChar(b, p) \in Nat
      /\ NextChar(b, p) <= Off(b)
      /\ p < Off(b) => p < NextChar(b, p)
  BY NextCharIs
<1>3. Seek(b, p) = IF NextChar(b, p) = b.gap_start THEN b.gap_end ELSE NextChar(b, p)
  BY DEF Seek
<1>4. QED
  BY <1>1, <1>2, <1>3

LEMMA StartIs ==
    ASSUME NEW b, IsGapBuffer(b)
    PROVE  Start(b) \in Nat /\ Start(b) <= End(b)
BY Fields DEF Start, End

\* One turn of the loop that moves the pointer.
Turn(b, p) == IF p < End(b) THEN Seek(b, p) ELSE p

\* The function in the definition of Visited is there: the offsets in their
\* order, from the start, each one turn after the one before.
LEMMA WalkExists ==
    ASSUME NEW b, IsGapBuffer(b)
    PROVE  \E f \in [0..End(b) -> 0..Off(b)] :
              /\ Visited(b) = {f[n] : n \in 0..End(b)}
              /\ f[0] = Start(b)
              /\ \A n \in 1..End(b) : f[n] = Turn(b, f[n - 1])
<1> DEFINE S == 0..Off(b)
           F == [n \in 1..End(b) |-> [p \in S |-> Turn(b, p)]]
           m == End(b)
<1>1. m \in Nat /\ Off(b) = m + 1
  BY Fields DEF End, Off
<1>2. Start(b) \in S
  BY <1>1, StartIs
<1>3. F \in [1..m -> [S -> S]]
  <2>1. ASSUME NEW p \in S
        PROVE  Turn(b, p) \in S
    BY <1>1, SeekIs DEF Turn
  <2>2. QED
    BY <2>1
<1> DEFINE Is(f) == f = [n \in 0..m |->
               IF n = 0 THEN Start(b)
               ELSE LET p == f[n - 1] IN IF p < End(b) THEN Seek(b, p) ELSE p]
           after == CHOOSE f : Is(f)
<1>4. PICK g : AreTurns(g, S, F, Start(b), m)
  <2> HIDE DEF S, F, m
  <2>1. QED
    BY <1>1, <1>2, <1>3, TurnsExist
<1>5. Is(g)
  <2>1. ASSUME NEW n \in 0..m, n # 0
        PROVE  g[n] = Turn(b, g[n - 1])
    <3>1. n - 1 \in 0..m /\ n \in 1..m
      BY <1>1, <2>1
    <3>2. QED
      BY <1>4, <3>1 DEF AreTurns
  <2>2. g = [n \in 0..m |-> IF n = 0 THEN Start(b) ELSE Turn(b, g[n - 1])]
    BY <1>4, <2>1 DEF AreTurns
  <2>3. QED
    BY <2>2 DEF Turn
<1>6. Is(after)
  BY <1>5
<1>7. Visited(b) = {after[n] : n \in 0..m}
  BY DEF Visited
<1> HIDE DEF after
<1>8. after = [n \in 0..m |-> IF n = 0 THEN Start(b) ELSE Turn(b, after[n - 1])]
  BY <1>6 DEF Turn
<1>9. /\ after[0] = Start(b)
      /\ \A n \in 1..m : after[n] = Turn(b, after[n - 1])
  BY <1>1, <1>8
<1>10. ASSUME NEW n \in 1..m, after[n - 1] \in S
       PROVE  after[n] \in S
  <2>1. /\ F[n] = [p \in S |-> Turn(b, p)]
        /\ F[n] \in [S -> S]
    BY <1>3
  <2>2. F[n][after[n - 1]] = Turn(b, after[n - 1]) /\ F[n][after[n - 1]] \in S
    BY <1>10, <2>1
  <2>3. QED
    BY <1>9, <2>2
<1>11. \A n \in 0..m : after[n] \in S
  <2> DEFINE T == {n \in 0..m : after[n] \in S}
  <2>1. 0 \in T
    BY <1>1, <1>2, <1>9
  <2>2. \A n \in 1..m : n - 1 \in T => n \in T
    BY <1>10
  <2> HIDE DEF T
  <2>3. \A n \in 0..m : n \in T
    BY <1>1, <2>1, <2>2, EveryTurn
  <2>4. QED
    BY <2>3 DEF T
<1>12. after \in [0..m -> S]
  BY <1>8, <1>11
<1>13. QED
  BY <1>7, <1>9, <1>12


\* The walk stays in the mapping or stops right behind it, and it comes to the
\* end of the text.
LEMMA VisitedIs ==
    ASSUME NEW b, IsGapBuffer(b)
    PROVE  /\ Visited(b) \in SUBSET (0..Off(b))
           /\ Visited(b) \in SUBSET Nat
           /\ IsFiniteSet(Visited(b))
           /\ \E p \in Visited(b) : p >= End(b)
<1>1. End(b) \in Nat /\ Off(b) = End(b) + 1 /\ Off(b) \in Nat
  BY Fields DEF End, Off
<1>2. PICK f \in [0..End(b) -> 0..Off(b)] :
         /\ Visited(b) = {f[n] : n \in 0..End(b)}
         /\ f[0] = Start(b)
         /\ \A n \in 1..End(b) : f[n] = Turn(b, f[n - 1])
  BY WalkExists
<1>3. Visited(b) \in SUBSET (0..Off(b))
  BY <1>2
<1>4. IsFiniteSet(Visited(b))
  <2>1. IsFiniteSet(0..Off(b))
    BY <1>1, FS_Interval
  <2>2. QED
    BY <1>3, <2>1, FS_Subset
<1>5. f[End(b)] >= End(b)
  <2> DEFINE T == {n \in 0..End(b) : f[n] >= n \/ f[n] >= End(b)}
  <2>1. 0 \in T
    BY <1>1, <1>2
  <2>2. ASSUME NEW n \in 1..End(b), n - 1 \in T
        PROVE  n \in T
    <3>1. /\ n \in 0..End(b) /\ n - 1 \in 0..End(b)
          /\ f[n] = Turn(b, f[n - 1])
          /\ f[n - 1] \in Nat
          /\ f[n - 1] >= n - 1 \/ f[n - 1] >= End(b)
      BY <1>1, <1>2, <2>2
    <3>2. CASE f[n - 1] < End(b)
      <4>1. f[n - 1] < Off(b)
        BY <1>1, <3>1, <3>2
      <4>2. f[n - 1] < Seek(b, f[n - 1]) /\ Seek(b, f[n - 1]) \in Nat
        BY <3>1, <4>1, SeekIs
      <4>3. QED
        BY <1>1, <3>1, <3>2, <4>2 DEF Turn
    <3>3. CASE ~(f[n - 1] < End(b))
      BY <1>1, <3>1, <3>3 DEF Turn
    <3>4. QED
      BY <3>2, <3>3
  <2> HIDE DEF T
  <2>3. End(b) \in T
    <3>1. \A n \in 0..End(b) : n \in T
      BY <1>1, <2>1, <2>2, EveryTurn
    <3>2. QED
      BY <1>1, <3>1
  <2>4. QED
    BY <1>1, <2>3 DEF T
<1>6. f[End(b)] \in Visited(b)
  BY <1>1, <1>2
<1>7. QED
  BY <1>1, <1>3, <1>4, <1>5, <1>6

\* What a walk counts are numbers.
LEMMA CountsAre ==
    ASSUME NEW b, IsGapBuffer(b), NEW p, NEW q
    PROVE  /\ Rows(b, Visited(b), p, q) \in Nat
           /\ Columns(b, Visited(b), p, q) \in Nat
<1>1. \A S \in SUBSET Visited(b) : Cardinality(S) \in Nat
  BY VisitedIs, FS_Subset, FS_CardinalityType
<1>2. Rows(b, Visited(b), p, q) \in Nat
  BY <1>1 DEF Rows
<1> DEFINE chars == {r \in Visited(b) : p <= r /\ r < q}
           tabs == {r \in chars : b.text[r] = Tab}
<1>3. Cardinality(chars \ tabs) \in Nat /\ Cardinality(tabs) \in Nat
  BY <1>1
<1>4. Columns(b, Visited(b), p, q)
         = Cardinality(chars \ tabs) + TabSpaces * Cardinality(tabs)
  BY DEF Columns
<1> HIDE DEF chars, tabs
<1>5. TabSpaces \in Nat
  BY WalkAssumption
<1>6. Columns(b, Visited(b), p, q) \in Nat
  BY <1>3, <1>4, <1>5
<1>7. QED
  BY <1>2, <1>6

\* The start of a row is an offset of the walk, its end if there is no such row.
LEMMA LineStartIs ==
    ASSUME NEW b, IsGapBuffer(b), NEW r
    PROVE  LineStart(b, r) \in Visited(b)
<1> DEFINE S == {p \in Visited(b) : Rows(b, Visited(b), 0, p) = r \/ p >= End(b)}
<1>1. S \in SUBSET Nat /\ S # {}
  BY VisitedIs
<1>2. Min(S) \in S
  BY <1>1, MinIs
<1>3. QED
  BY <1>2 DEF LineStart

\* What the commands ask of the text are numbers.
LEMMA AnswersAre ==
    ASSUME NEW b, IsGapBuffer(b), NEW r, NEW c
    PROVE  /\ RowLength(b, r) \in Nat
           /\ MaxRow(b) \in Nat
           /\ StopAt(b, r, c) \in Nat
<1>1. RowLength(b, r) \in Nat /\ MaxRow(b) \in Nat
  BY CountsAre DEF RowLength, MaxRow
<1> DEFINE v == Visited(b)
           p == Min({q \in v : Rows(b, v, 0, q) = r} \cup {Off(b)})
           S == {q \in v : p <= q /\ (EndsRow(b, q) \/ Columns(b, v, p, q) = c)}
                   \cup {Off(b)}
<1>2. Off(b) \in Nat
  BY Fields DEF Off, End
<1>3. S \in SUBSET Nat /\ S # {}
  BY <1>2, VisitedIs
<1>4. StopAt(b, r, c) = Min(S)
  BY DEF StopAt
<1> HIDE DEF S
<1>5. StopAt(b, r, c) \in Nat
  BY <1>3, <1>4, MinIs
<1>6. QED
  BY <1>1, <1>5

LEMMA PointIs ==
    ASSUME NEW b, IsGapBuffer(b), NEW p \in Nat
    PROVE  PointFor(b, p) \in Nat
BY Fields DEF PointFor

-----------------------------------------------------------------------------
(* The commands *)

\* A position that is cut to 16 bits is one.
LEMMA CoordIs ==
    ASSUME NEW n \in Int
    PROVE  Narrow(n) \in 0..(CoordRange - 1)
BY EditorAssumption DEF Narrow

LEMMA CursorIs ==
    ASSUME NEW r \in Int, NEW c \in Int, SetCursor(r, c)
    PROVE  row' \in 0..(CoordRange - 1) /\ col' \in 0..(CoordRange - 1)
BY EditorAssumption DEF SetCursor

\* What the invariants of the editor rest on: its buffer is never closed.
EditorInv == EditorTypeOK /\ 0 \in Open

\* Between two frames of a running editor there is room in the gap.
HasRoom == proc = "running" => Gap(buf) > 0

LEMMA BufIs ==
    ASSUME EditorInv
    PROVE  /\ 0 \in Slots /\ 0 \in Open
           /\ IsGapBuffer(buf) /\ buf = buffers[0]
           /\ TypeOK
           /\ proc \in Procs /\ stray \in SUBSET Causes
           /\ row \in Int /\ col \in Int
BY EditorAssumption, OpenBuffer DEF EditorInv, EditorTypeOK, TypeOK, buf

\* A walk and the move it ends in: the gap goes somewhere else in the text, or
\* the process is killed; what the text area holds is the same.
LEMMA GoToKeeps ==
    ASSUME EditorInv, proc = "running", NEW r \in Int, NEW c \in Int, GoTo(r, c)
    PROVE  /\ EditorInv'
           /\ Doc!MoveTo(0) \/ Doc!Halt
           /\ HasRoom => HasRoom'
<1> DEFINE stop == StopAt(buf, r, c)
<1>1. /\ 0 \in Slots /\ 0 \in Open
      /\ IsGapBuffer(buf) /\ buf = buffers[0]
      /\ TypeOK
      /\ proc \in Procs /\ stray \in SUBSET Causes
  BY BufIs
<1>2. PointFor(buf, stop) \in Nat /\ TextLen(buf) \in Nat
  BY <1>1, AnswersAre, PointIs, Fields
<1>3. row' \in 0..(CoordRange - 1) /\ col' \in 0..(CoordRange - 1)
  BY CursorIs DEF GoTo
<1>4. ASSUME NEW g \in Nat, Put(0, MoveGap(buf, g))
      PROVE  /\ EditorInv'
             /\ Doc!MoveTo(0)
             /\ HasRoom => HasRoom'
  <2>1. /\ IsGapBuffer(MoveGap(buf, g))
        /\ MoveGap(buf, g).size = buf.size
        /\ Content(MoveGap(buf, g)) = Content(buf)
    BY <1>1, MoveGapKeepsContent
  <2>2. TypeOK'
    BY <1>1, <1>4, <2>1, PutType DEF Put
  <2>3. buffers'[0] = MoveGap(buf, g) /\ proc' = proc
    BY <1>1, <1>4 DEF Put, TypeOK
  <2>4. 0 \in Open'
    BY <1>1, <2>1, <2>3, BufferIsNotFree DEF Open
  <2>5. Doc!MoveTo(0)
    BY <1>1, <1>4, MoveMoves
  <2>6. TextLen(MoveGap(buf, g)) = TextLen(buf)
    BY <1>1, <2>1, ContentIsSeq
  <2>7. Gap(MoveGap(buf, g)) = Gap(buf)
    BY <1>1, <2>1, <2>6, Fields
  <2>8. QED
    BY <1>3, <2>2, <2>3, <2>4, <2>5, <2>7 DEF EditorInv, EditorTypeOK, HasRoom, buf
<1>5. ASSUME Fail("segv", {})
      PROVE  /\ EditorInv'
             /\ Doc!Halt
             /\ HasRoom'
  <2>1. TypeOK'
    BY <1>1, <1>5, FailType DEF Procs
  <2>2. 0 \in Open'
    BY <1>1, <1>5 DEF Fail, Open
  <2>3. Doc!Halt
    BY <1>1, <1>5, FailHalts
  <2>4. HasRoom'
    BY <1>5 DEF Fail, HasRoom
  <2>5. QED
    BY <1>3, <2>1, <2>2, <2>3, <2>4 DEF EditorInv, EditorTypeOK
<1>6. \/ Put(0, MoveGap(buf, PointFor(buf, stop)))
      \/ Put(0, MoveGap(buf, TextLen(buf)))
      \/ Fail("segv", {})
  BY DEF GoTo
<1>7. QED
  BY <1>2, <1>4, <1>5, <1>6


\* A call of the table that edits the buffer leaves it open; typing leaves
\* room, if the system grants memory, since what would fill the gap grows it,
\* and the process that then stores to the old mapping ends.
LEMMA TypingKeeps ==
    ASSUME EditorInv, NEW s \in Inputs, s # <<>>, InsertUtf8(0, s)
    PROVE  /\ 0 \in Open'
           /\ FALSE \notin MmapOutcomes /\ HasRoom => HasRoom'
<1>1. /\ 0 \in Slots /\ 0 \in Open
      /\ IsGapBuffer(buf) /\ buf = buffers[0]
      /\ TypeOK
  BY BufIs
<1>2. s \in Seq(Bytes) /\ Len(s) \in Nat /\ Gap(buf) \in Nat
  BY <1>1, InputAssumption, Fields
<1>3. ASSUME Put(0, Store(buf, s)), Len(s) <= Gap(buf)
      PROVE  0 \in Open' /\ (Len(s) < Gap(buf) => HasRoom')
  <2>1. /\ IsGapBuffer(Store(buf, s))
        /\ Store(buf, s).gap_start = buf.gap_start + Len(s)
        /\ Store(buf, s).gap_end = buf.gap_end
    BY <1>1, <1>2, <1>3, StoreSplices
  <2>2. buffers'[0] = Store(buf, s)
    BY <1>1, <1>3 DEF Put, TypeOK
  <2>3. 0 \in Open'
    BY <1>1, <2>1, <2>2, BufferIsNotFree DEF Open
  <2>4. Gap(Store(buf, s)) = Gap(buf) - Len(s)
    <3>1. /\ Gap(Store(buf, s)) = Store(buf, s).gap_end - Store(buf, s).gap_start
          /\ Gap(buf) = buf.gap_end - buf.gap_start
      BY DEF Gap
    <3>2. buf.gap_end \in Nat /\ buf.gap_start \in Nat
      BY <1>1, Fields
    <3>3. QED
      BY <1>2, <2>1, <3>1, <3>2
  <2>5. QED
    BY <1>2, <2>2, <2>3, <2>4 DEF HasRoom, buf
<1>4. ASSUME NEW outcome, NEW causes, Fail(outcome, causes), outcome # "running"
      PROVE  0 \in Open' /\ HasRoom'
  BY <1>1, <1>4 DEF Fail, Open, HasRoom
<1>5. CASE ~Fills(buf, s) /\ Put(0, Store(buf, s))
  <2>1. Len(s) < Gap(buf)
    BY <1>2, <1>5 DEF Fills
  <2>2. Len(s) <= Gap(buf)
    BY <1>2, <2>1
  <2>3. QED
    BY <1>3, <1>5, <2>1, <2>2
<1>6. CASE Fail("segv", {"terminator"}) \/ Fail("segv", {"terminator", "stale"})
  BY <1>4, <1>6
<1>7. CASE /\ FALSE \in MmapOutcomes
           /\ \/ Len(s) = Gap(buf) /\ Put(0, Store(buf, s))
              \/ Fail("corrupt", {"overrun"})
  <2>1. Len(s) = Gap(buf) => Len(s) <= Gap(buf)
    BY <1>2
  <2>2. CASE Len(s) = Gap(buf) /\ Put(0, Store(buf, s))
    BY <1>3, <1>7, <2>1, <2>2
  <2>3. CASE Fail("corrupt", {"overrun"})
    BY <1>4, <2>3
  <2>4. QED
    BY <1>7, <2>2, <2>3
<1>8. QED
  BY <1>1, <1>5, <1>6, <1>7, Zenon DEF InsertUtf8

\* Erasing a character makes more room.
LEMMA ErasingKeeps ==
    ASSUME EditorInv, DeleteUtf8(0)
    PROVE  /\ 0 \in Open'
           /\ HasRoom => HasRoom'
<1>1. /\ 0 \in Slots /\ 0 \in Open
      /\ IsGapBuffer(buf) /\ buf = buffers[0]
      /\ TypeOK
  BY BufIs
<1>2. CASE StartsBefore(buf) # {} /\ Put(0, CutBack(buf, LastStart(buf)))
  <2> DEFINE m == CutBack(buf, LastStart(buf))
  <2>1. LastStart(buf) \in Nat /\ LastStart(buf) <= buf.gap_start
    BY <1>1, <1>2, LastStartIsStart, Fields
  <2>2. /\ IsGapBuffer(m)
        /\ m.gap_start = LastStart(buf)
        /\ m.gap_end = buf.gap_end
    BY <1>1, <2>1, CutBackCuts
  <2>3. buffers'[0] = m /\ proc' = proc
    BY <1>1, <1>2 DEF Put, TypeOK
  <2>4. 0 \in Open'
    BY <1>1, <2>2, <2>3, BufferIsNotFree DEF Open
  <2>5. Gap(buf) <= Gap(m) /\ Gap(m) \in Nat /\ Gap(buf) \in Nat
    BY <1>1, <2>1, <2>2, Fields
  <2> HIDE DEF m
  <2>6. HasRoom => HasRoom'
    BY <2>3, <2>5 DEF HasRoom, buf
  <2>7. QED
    BY <2>4, <2>6
<1>3. CASE Fail("corrupt", {"underflow"})
  BY <1>1, <1>3 DEF Fail, Open, HasRoom
<1>4. QED
  BY <1>1, <1>2, <1>3 DEF DeleteUtf8

\* What a step of the editor keeps, and what it is to the texts.
LEMMA StepKeeps ==
    ASSUME EditorInv, EditorNext
    PROVE  /\ EditorInv'
           /\ [Doc!Next]_(Doc!vars)
           /\ FALSE \notin MmapOutcomes /\ HasRoom => HasRoom'
<1>1. /\ 0 \in Slots /\ 0 \in Open
      /\ IsGapBuffer(buf) /\ buf = buffers[0]
      /\ TypeOK
      /\ row \in Int /\ col \in Int
      /\ proc = "running"
      /\ CoordRange \in Nat \ {0}
  BY BufIs, EditorAssumption DEF EditorNext
<1>2. \A r, c : RowLength(buf, r) \in Nat /\ MaxRow(buf) \in Nat
  BY <1>1, AnswersAre
<1>3. \A n \in Int : Narrow(n) \in Int
  BY <1>1 DEF Narrow
<1>4. ASSUME NEW r \in Int, NEW c \in Int, GoTo(r, c)
      PROVE  /\ EditorInv'
             /\ [Doc!Next]_(Doc!vars)
             /\ HasRoom => HasRoom'
  BY <1>1, <1>4, GoToKeeps DEF Doc!Next
<1>5. ASSUME NEW r \in Int PROVE Clip(r, col) \in Int
  BY <1>1, <1>2, <1>3 DEF Clip
<1>6. \A c : Width(c) \in Nat
  BY WalkAssumption DEF Width
<1>7. CASE Up
  <2>1. row - 1 \in Int
    BY <1>1
  <2>2. QED
    BY <1>4, <1>5, <1>7, <2>1 DEF Up
<1>8. CASE Down
  <2>1. Narrow(row + 1) \in Int
    BY <1>1, <1>3
  <2>2. QED
    BY <1>4, <1>5, <1>8, <2>1 DEF Down
<1>9. CASE Left
  <2>1. \A w \in Nat : Narrow(col + CoordRange - w) \in Int
    BY <1>1, <1>3
  <2>2. QED
    BY <1>1, <1>4, <1>6, <1>9, <2>1 DEF Left
<1>10. CASE Right
  <2>1. \A w \in Nat : Narrow(col + w) \in Int
    BY <1>1, <1>3
  <2>2. QED
    BY <1>1, <1>4, <1>6, <1>10, <2>1 DEF Right
<1>11. ASSUME NEW r0 \in MouseRows, NEW c0 \in MouseCols, Click(r0, c0)
       PROVE  /\ EditorInv'
              /\ [Doc!Next]_(Doc!vars)
              /\ HasRoom => HasRoom'
  <2> DEFINE r == IF r0 > MaxRow(buf) THEN Narrow(MaxRow(buf)) ELSE r0
             p == LineStart(buf, r)
             n == Cardinality({q \in Visited(buf) : p <= q /\ q < LineEnd(buf, p)})
             c == IF c0 > n THEN Narrow(n) ELSE c0
  <2>1. r0 \in Int /\ c0 \in Int
    BY EditorAssumption
  <2>2. r \in Int
    BY <1>2, <1>3, <2>1
  <2>3. n \in Nat
    BY <1>1, VisitedIs, FS_Subset, FS_CardinalityType
  <2>4. GoTo(r, c)
    BY <1>11 DEF Click
  <2> HIDE DEF r, n
  <2>5. c \in Int
    BY <1>3, <2>1, <2>3
  <2> HIDE DEF c
  <2>6. QED
    BY <1>4, <2>2, <2>4, <2>5
<1>12. ASSUME Edit(0), 0 \in Open',
              row' \in 0..(CoordRange - 1), col' \in 0..(CoordRange - 1)
       PROVE  EditorInv' /\ [Doc!Next]_(Doc!vars)
  <2>1. Next
    BY <1>1, <1>12 DEF Next
  <2>2. TypeOK'
    BY <1>1, <2>1, NextType
  <2>3. [Doc!Next]_(Doc!vars)
    BY <1>1, <2>1, DocNext
  <2>4. QED
    BY <1>12, <2>2, <2>3 DEF EditorInv, EditorTypeOK
<1>13. ASSUME NEW s \in Inputs, TextInput(s)
       PROVE  /\ EditorInv'
              /\ [Doc!Next]_(Doc!vars)
              /\ FALSE \notin MmapOutcomes /\ HasRoom => HasRoom'
  <2>1. s # <<>> /\ InsertUtf8(0, s)
    BY <1>13 DEF TextInput
  <2>2. row' \in 0..(CoordRange - 1) /\ col' \in 0..(CoordRange - 1)
    <3>1. /\ row + 1 \in Int /\ 0 \in Int
          /\ col + Width(s[1]) \in Int
      BY <1>1, <1>6
    <3>2. SetCursor(row + 1, 0) \/ SetCursor(row, col + Width(s[1]))
      BY <1>13 DEF TextInput
    <3>3. QED
      BY <1>1, <3>1, <3>2, CursorIs
  <2>3. QED
    BY <1>12, <2>1, <2>2, TypingKeeps DEF Edit
<1>14. CASE Backspace
  <2>1. DeleteUtf8(0)
    BY <1>14 DEF Backspace
  <2>2. 0 \in Open' /\ (HasRoom => HasRoom')
    BY <2>1, ErasingKeeps
  <2>3. TypeOK'
    <3>1. Next
      BY <1>1, <2>1 DEF Next, Edit
    <3>2. QED
      BY <1>1, <3>1, NextType
  <2>4. IsGapBuffer(buf')
    BY <2>2, <2>3 DEF TypeOK, buf
  <2>5. row' \in 0..(CoordRange - 1) /\ col' \in 0..(CoordRange - 1)
    <3>1. CASE UNCHANGED <<row, col>>
      BY <3>1 DEF EditorInv, EditorTypeOK
    <3>2. CASE SetCursor(row - 1, RowLength(buf', row - 1))
      <4>1. row - 1 \in Int /\ RowLength(buf', row - 1) \in Int
        BY <1>1, <2>4, AnswersAre
      <4>2. QED
        BY <3>2, <4>1, CursorIs
    <3>3. CASE SetCursor(row, col + CoordRange - Width(buf'.text[buf'.gap_start]))
      <4>1. col + CoordRange - Width(buf'.text[buf'.gap_start]) \in Int
        BY <1>1, <1>6
      <4>2. QED
        BY <1>1, <3>3, <4>1, CursorIs
    <3>4. QED
      BY <1>14, <3>1, <3>2, <3>3 DEF Backspace
  <2>6. QED
    BY <1>12, <2>1, <2>2, <2>5 DEF Edit
<1>15. QED
  BY <1>7, <1>8, <1>9, <1>10, <1>11, <1>13, <1>14 DEF EditorNext

\* editor_init gives a blank page to slot 0, with the cursor at its start.
LEMMA EditorStarts ==
    ASSUME EditorInit
    PROVE  EditorInv /\ HasRoom
<1>1. 0 \in Slots /\ PageSize \in Nat /\ MaxPages \in Nat /\ MaxPages > 0 /\ PageSize > 0
  BY EditorAssumption, SizeAssumption
<1>2. RoundUp(PageSize) = PageSize
  <2>1. (PageSize + PageSize - 1) \div PageSize = 1
    BY <1>1
  <2>2. QED
    BY <1>1, <2>1 DEF RoundUp
<1>3. PageSize \in Sizes
  <2>1. 1 \in 1..MaxPages /\ PageSize = 1 * PageSize
    BY <1>1
  <2>2. QED
    BY <2>1 DEF Sizes
<1>4. /\ IsGapBuffer(Blank(PageSize))
      /\ MaxText(PageSize) > 0
      /\ MaxText(PageSize) \in Nat
  BY <1>3, BlankIsGapBuffer, SizeIsNat
<1>5. Blank(PageSize) # NoBuffer
  BY <1>4, BufferIsNotFree
<1>6. buffers = [id \in Slots |-> IF id = 0 THEN Blank(PageSize) ELSE NoBuffer]
  BY <1>2 DEF EditorInit
<1>7. 0 \in Open /\ TypeOK
  <2>1. DOMAIN buffers = Slots /\ 0 \in Open
    BY <1>1, <1>5, <1>6 DEF Open
  <2>2. \A id \in Open : IsGapBuffer(buffers[id])
    BY <1>4, <1>6 DEF Open
  <2>3. QED
    BY <2>1, <2>2 DEF EditorInit, TypeOK, Procs
<1>8. Gap(buf) > 0
  BY <1>1, <1>4, <1>6 DEF buf, Gap, Blank
<1>9. row \in 0..(CoordRange - 1) /\ col \in 0..(CoordRange - 1)
  BY EditorAssumption DEF EditorInit
<1>10. QED
  BY <1>7, <1>8, <1>9 DEF EditorInv, EditorTypeOK, HasRoom

\* What stays the same when no variable changes.
LEMMA StutterKeeps ==
    ASSUME EditorInv, UNCHANGED evars
    PROVE  /\ EditorInv'
           /\ UNCHANGED Doc!vars
           /\ HasRoom => HasRoom'
<1>1. vars' = vars /\ row' = row /\ col' = col
  BY DEF evars, vars
<1>2. TypeOK' /\ 0 \in Open'
  BY <1>1 DEF EditorInv, EditorTypeOK, TypeOK, Open, vars
<1>3. UNCHANGED Doc!vars
  BY <1>1 DEF vars, Doc!vars
<1>4. HasRoom => HasRoom'
  BY <1>1 DEF HasRoom, buf, vars
<1>5. QED
  BY <1>1, <1>2, <1>3, <1>4 DEF EditorInv, EditorTypeOK

LEMMA EditorInvariant == EditorSpec => []EditorInv
<1>1. EditorInit => EditorInv
  BY EditorStarts
<1>2. EditorInv /\ [EditorNext]_evars => EditorInv'
  BY StepKeeps, StutterKeeps
<1>3. QED
  BY <1>1, <1>2, PTL DEF EditorSpec

\* Whatever is typed and wherever the cursor goes, the buffer of the editor
\* stays well formed and row and column stay 16 bits wide (editor.c:68-75).
THEOREM EditorTypeCorrect == EditorSpec => []EditorTypeOK
<1>1. EditorInv => EditorTypeOK
  BY DEF EditorInv
<1>2. QED
  BY <1>1, EditorInvariant, PTL

\* Each command is, to the text, an insertion or an erasure at the point or a
\* move of it: the walks it takes, right or wrong, change no byte
\* (editor.c:35-56, binds.c:115-147).
THEOREM EditsOnlyText == EditorSpec => EditsText
<1>1. EditorInv /\ [EditorNext]_evars => [proc = "running" /\ Doc!Next]_(Doc!vars)
  <2> SUFFICES ASSUME EditorInv, [EditorNext]_evars
               PROVE  [proc = "running" /\ Doc!Next]_(Doc!vars)
    OBVIOUS
  <2>1. CASE EditorNext
    <3>1. proc = "running"
      BY <2>1 DEF EditorNext
    <3>2. [Doc!Next]_(Doc!vars)
      BY <2>1, StepKeeps
    <3>3. QED
      BY <3>1, <3>2
  <2>2. CASE UNCHANGED evars
    BY <2>2, StutterKeeps
  <2>3. QED
    BY <2>1, <2>2
<1>2. QED
  BY <1>1, EditorInvariant, PTL DEF EditorSpec, EditsText

-----------------------------------------------------------------------------
(* The renderer *)

\* The walks of the renderer.
Walks == [ptr : Nat, start : Nat, x : Nat, y : Nat, drawn : SUBSET (Nat \X Nat \X Nat)]

\* The characters of a piece are some of its offsets.
LEMMA GlyphsAre ==
    ASSUME NEW b, NEW p \in Nat, NEW q \in Nat
    PROVE  /\ Glyphs(b, p, q) \in SUBSET Nat
           /\ \A S \in SUBSET Glyphs(b, p, q) : Cardinality(S) \in Nat
<1>1. Glyphs(b, p, q) \in SUBSET (p..(q - 1))
  BY DEF Glyphs
<1>2. IsFiniteSet(p..(q - 1))
  BY FS_Interval
<1>3. Glyphs(b, p, q) \in SUBSET Nat
  BY <1>1
<1>4. IsFiniteSet(Glyphs(b, p, q))
  BY <1>1, <1>2, FS_Subset
<1>5. QED
  BY <1>3, <1>4, FS_Subset, FS_CardinalityType

LEMMA NewPieceIs ==
    ASSUME NEW b, NEW w \in Walks, NEW p \in Nat, NEW x \in Nat, NEW y \in Nat
    PROVE  /\ NewPiece(b, w, p, x, y) \in Walks
           /\ NewPiece(b, w, p, x, y).ptr = p
<1> DEFINE g == Glyphs(b, w.start, w.ptr)
<1>1. w.start \in Nat /\ w.ptr \in Nat /\ w.x \in Nat /\ w.y \in Nat
      /\ w.drawn \in SUBSET (Nat \X Nat \X Nat)
  BY DEF Walks
<1>2. ASSUME NEW r \in g
      PROVE  <<r, w.x + Cardinality({i \in g : i < r}), w.y>> \in Nat \X Nat \X Nat
  <2>1. r \in Nat /\ Cardinality({i \in g : i < r}) \in Nat
    BY <1>1, GlyphsAre
  <2> HIDE DEF g
  <2>2. QED
    BY <1>1, <2>1
<1>3. Piece(b, w) \in SUBSET (Nat \X Nat \X Nat)
  BY <1>2 DEF Piece
<1>4. QED
  BY <1>1, <1>3 DEF NewPiece, Walks

\* Each turn of the loop goes forward, if the gap has room: at an empty gap it
\* would jump to where it is.
LEMMA StepGoesOn ==
    ASSUME NEW b, IsGapBuffer(b), Gap(b) > 0, NEW w \in Walks, w.ptr < Off(b)
    PROVE  /\ Step(b, w) \in Walks
           /\ w.ptr < Step(b, w).ptr
<1>1. w.start \in Nat /\ w.ptr \in Nat /\ w.x \in Nat /\ w.y \in Nat
  BY DEF Walks
<1>2. /\ b.gap_start \in Nat
      /\ b.gap_end \in Nat
      /\ b.gap_start < b.gap_end
  BY Fields
<1>3. Advance(b, w) \in Nat /\ TabAdvance(b, w) \in Nat
  BY <1>1, GlyphsAre, WalkAssumption DEF Advance, TabAdvance
<1>4. /\ Seek(b, w.ptr) \in Nat /\ w.ptr < Seek(b, w.ptr)
      /\ NextChar(b, w.ptr) \in Nat /\ w.ptr < NextChar(b, w.ptr)
  BY <1>1, SeekIs, NextCharIs
<1>5. CASE w.ptr = b.gap_start
  <2>1. w.x + Advance(b, w) \in Nat
    BY <1>1, <1>3
  <2>2. Step(b, w) = NewPiece(b, w, b.gap_end, w.x + Advance(b, w), w.y)
    BY <1>5 DEF Step
  <2>3. QED
    BY <1>1, <1>2, <1>5, <2>1, <2>2, NewPieceIs
<1>6. CASE w.ptr # b.gap_start /\ b.text[w.ptr] = Tab
  <2>1. w.x + TabAdvance(b, w) \in Nat
    BY <1>1, <1>3
  <2>2. Tab \notin Newlines
    BY WalkAssumption
  <2>3. Step(b, w) = NewPiece(b, w, Seek(b, w.ptr), w.x + TabAdvance(b, w), w.y)
    BY <1>6, <2>2 DEF Step, EndsRow
  <2>4. QED
    BY <1>1, <1>4, <2>1, <2>3, NewPieceIs
<1>7. CASE w.ptr # b.gap_start /\ b.text[w.ptr] # Tab /\ EndsRow(b, w.ptr)
  <2>1. w.y + 1 \in Nat /\ 0 \in Nat
    BY <1>1
  <2>2. Step(b, w) = NewPiece(b, w, Seek(b, w.ptr), 0, w.y + 1)
    BY <1>7 DEF Step
  <2>3. QED
    BY <1>1, <1>4, <2>1, <2>2, NewPieceIs
<1>8. CASE w.ptr # b.gap_start /\ b.text[w.ptr] # Tab /\ ~EndsRow(b, w.ptr)
  <2>1. Step(b, w) = [w EXCEPT !.ptr = NextChar(b, @)]
    BY <1>8 DEF Step
  <2>2. QED
    BY <1>4, <2>1 DEF Walks
<1>9. QED
  BY <1>5, <1>6, <1>7, <1>8

\* One turn, or none if the walk has come to the offset end.
RenderTurn(b, end, w) == IF w.ptr < end THEN Step(b, w) ELSE w

\* What the loop over the text begins with.
FirstWalk(b) ==
    [ptr |-> LineStart(b, 0), start |-> LineStart(b, 0), x |-> 0, y |-> 0, drawn |-> {}]

\* The function in the definition of Loop is there: the walks in their order,
\* each one turn after the one before.
LEMMA LoopTurns ==
    ASSUME NEW b, IsGapBuffer(b), Gap(b) > 0, NEW rows
    PROVE  /\ Off(b) \in Nat
           /\ LineStart(b, rows) \in Nat /\ LineStart(b, rows) <= Off(b)
           /\ \E f : /\ Loop(b, rows) = f[Off(b)]
                     /\ f[0] = FirstWalk(b)
                     /\ \A n \in 1..Off(b) :
                           f[n] = RenderTurn(b, LineStart(b, rows), f[n - 1])
                     /\ \A n \in 0..Off(b) : f[n] \in Walks
<1> DEFINE end == LineStart(b, rows)
           m == Off(b)
           F == [n \in 1..Off(b) |-> [w \in Walks |-> RenderTurn(b, end, w)]]
           first == [ptr |-> LineStart(b, 0), start |-> LineStart(b, 0),
                     x |-> 0, y |-> 0, drawn |-> {}]
           Is(f) == f = [n \in 0..Off(b) |->
                      IF n = 0
                      THEN [ptr |-> LineStart(b, 0), start |-> LineStart(b, 0),
                            x |-> 0, y |-> 0, drawn |-> {}]
                      ELSE LET w == f[n - 1]
                           IN  IF w.ptr < end THEN Step(b, w) ELSE w]
           after == CHOOSE f : Is(f)
<1>1. m \in Nat
  BY Fields DEF Off, End
<1>2. \A r : LineStart(b, r) \in Nat /\ LineStart(b, r) <= m
  BY <1>1, LineStartIs, VisitedIs
<1>3. end \in Nat /\ end <= m
  BY <1>2
<1>4. first \in Walks
  BY <1>2 DEF Walks
<1>5. ASSUME NEW w \in Walks
      PROVE  RenderTurn(b, end, w) \in Walks
  <2>1. w.ptr \in Nat
    BY DEF Walks
  <2>2. w.ptr < end => w.ptr < Off(b)
    BY <1>1, <1>3, <2>1
  <2> HIDE DEF end
  <2>3. QED
    BY <2>2, StepGoesOn DEF RenderTurn
<1> HIDE DEF first
<1>6. F \in [1..m -> [Walks -> Walks]]
  BY <1>5
<1>7. PICK g : AreTurns(g, Walks, F, first, m)
  <2> HIDE DEF F, m
  <2>1. QED
    BY <1>1, <1>4, <1>6, TurnsExist
<1>8. Is(g)
  <2>1. ASSUME NEW n \in 0..m, n # 0
        PROVE  g[n] = RenderTurn(b, end, g[n - 1])
    <3>1. n - 1 \in 0..m /\ n \in 1..m
      BY <1>1, <2>1
    <3>2. QED
      BY <1>7, <3>1 DEF AreTurns
  <2>2. g = [n \in 0..m |-> IF n = 0 THEN first ELSE RenderTurn(b, end, g[n - 1])]
    BY <1>7, <2>1 DEF AreTurns
  <2>3. QED
    BY <2>2 DEF RenderTurn, first, m
<1>9. Is(after)
  BY <1>8
<1>10. Loop(b, rows) = after[m]
  BY DEF Loop, m
<1> HIDE DEF after
<1>11. after = [n \in 0..m |-> IF n = 0 THEN first ELSE RenderTurn(b, end, after[n - 1])]
  BY <1>9 DEF RenderTurn, first, m
<1> HIDE DEF Is, end, m, F
<1>12. /\ after[0] = first
       /\ \A n \in 1..m : after[n] = RenderTurn(b, end, after[n - 1])
  BY <1>1, <1>11
<1>13. \A n \in 0..m : after[n] \in Walks
  <2> DEFINE T == {n \in 0..m : after[n] \in Walks}
  <2>1. 0 \in T
    BY <1>1, <1>4, <1>12
  <2>2. \A n \in 1..m : n - 1 \in T => n \in T
    <3>1. ASSUME NEW n \in 1..m, n - 1 \in T
          PROVE  n \in T
      BY <1>5, <1>12, <3>1
    <3>2. QED
      BY <3>1
  <2> HIDE DEF T
  <2>3. \A n \in 0..m : n \in T
    BY <1>1, <2>1, <2>2, EveryTurn
  <2>4. QED
    BY <2>3 DEF T
<1>14. first = FirstWalk(b)
  BY DEF first, FirstWalk
<1>15. QED
  BY <1>1, <1>3, <1>10, <1>12, <1>13, <1>14 DEF end, m

\* The loop comes to the end of the view in as many turns as there are offsets.
LEMMA LoopEnds ==
    ASSUME NEW b, IsGapBuffer(b), Gap(b) > 0, NEW rows
    PROVE  Ends(b, rows)
<1> DEFINE end == LineStart(b, rows)
           m == Off(b)
<1>1. m \in Nat /\ end \in Nat /\ end <= m
  BY LoopTurns
<1>2. PICK after : /\ Loop(b, rows) = after[m]
                   /\ \A n \in 1..m : after[n] = RenderTurn(b, end, after[n - 1])
                   /\ \A n \in 0..m : after[n] \in Walks
  BY LoopTurns
<1>3. \A n \in 0..m : after[n].ptr \in Nat
  BY <1>2 DEF Walks
<1>4. m = Off(b)
  OBVIOUS
<1> HIDE DEF end, m
<1> DEFINE T == {n \in 0..m : after[n].ptr >= n \/ after[n].ptr >= end}
<1>5. 0 \in T
  BY <1>1, <1>3
<1>6. ASSUME NEW n \in 1..m, n - 1 \in T
      PROVE  n \in T
  <2>1. /\ n - 1 \in 0..m /\ n \in 0..m
        /\ after[n - 1].ptr >= n - 1 \/ after[n - 1].ptr >= end
        /\ after[n] = RenderTurn(b, end, after[n - 1])
    BY <1>1, <1>2, <1>6
  <2>2. after[n].ptr \in Nat /\ after[n - 1].ptr \in Nat /\ after[n - 1] \in Walks
    BY <1>2, <1>3, <2>1
  <2>3. CASE after[n - 1].ptr < end
    <3>1. after[n - 1].ptr < Off(b)
      BY <1>1, <1>4, <2>2, <2>3
    <3>2. after[n - 1].ptr < after[n].ptr
      BY <2>1, <2>2, <2>3, <3>1, StepGoesOn DEF RenderTurn
    <3>3. after[n].ptr >= n \/ after[n].ptr >= end
      BY <1>1, <2>1, <2>2, <2>3, <3>2
    <3>4. QED
      BY <2>1, <3>3
  <2>4. CASE ~(after[n - 1].ptr < end)
    <3>1. after[n] = after[n - 1]
      BY <2>1, <2>4 DEF RenderTurn
    <3>2. after[n].ptr >= end
      BY <1>1, <2>2, <2>4, <3>1
    <3>3. QED
      BY <2>1, <3>2
  <2>5. QED
    BY <2>3, <2>4
<1>7. m \in T
  <2> HIDE DEF T
  <2>1. \A n \in 0..m : n \in T
    BY <1>1, <1>5, <1>6, EveryTurn
  <2>2. QED
    BY <1>1, <2>1
<1>8. after[m].ptr >= end
  <2>1. after[m].ptr >= m \/ after[m].ptr >= end
    BY <1>7
  <2>2. after[m].ptr \in Nat
    BY <1>1, <1>3
  <2>3. QED
    BY <1>1, <2>1, <2>2
<1>9. QED
  BY <1>2, <1>8 DEF Ends, end

\* As long as memory is granted a frame of what the commands leave can always
\* be drawn: no insertion fills the gap, so the renderer never meets the empty
\* one at which it would stay for ever (render.c:157, buffers.c:361).
THEOREM RenderAlwaysEnds ==
    ASSUME FALSE \notin MmapOutcomes
    PROVE  EditorSpec => []RenderEnds
<1>1. EditorInit => EditorInv /\ HasRoom
  BY EditorStarts
<1>2. EditorInv /\ HasRoom /\ [EditorNext]_evars => (EditorInv /\ HasRoom)'
  BY StepKeeps, StutterKeeps
<1>3. EditorInv /\ HasRoom => RenderEnds
  BY BufIs, LoopEnds DEF HasRoom, RenderEnds
<1>4. QED
  BY <1>1, <1>2, <1>3, PTL DEF EditorSpec

-----------------------------------------------------------------------------
(* What a walk finds *)

\* Nothing misleads a walk over b: the byte at the start of the gap does not
\* look like a continuation, the one behind the gap and the first are none,
\* and the terminator is there.
Plain(b) ==
    /\ IsGapBuffer(b)
    /\ Clean(b)
    /\ OnCharBoundary(b)
    /\ b.text[End(b)] = NUL

\* The offsets a pointer of a walk should take.
Stops(b) == CharStarts(b) \cup {End(b)}

LEMMA StopsAre ==
    ASSUME NEW b, IsGapBuffer(b), NEW p \in Stops(b)
    PROVE  /\ p \in TextOffsets(b) \cup {MaxText(b.size)}
           /\ p \in Nat /\ p <= End(b)
           /\ p < b.gap_start \/ b.gap_end <= p
           /\ p < End(b) => p \in CharStarts(b) /\ p \in TextOffsets(b)
           /\ p < End(b) => b.text[p] \notin Cont
<1>1. /\ MaxText(b.size) \in Nat /\ b.gap_start \in Nat /\ b.gap_end \in Nat
      /\ b.gap_start <= b.gap_end /\ b.gap_end <= MaxText(b.size)
  BY Fields
<1>2. End(b) = MaxText(b.size)
  BY DEF End
<1>3. CASE p = End(b)
  BY <1>1, <1>2, <1>3
<1>4. CASE p \in CharStarts(b)
  <2>1. /\ p \in (0..b.gap_start - 1) \cup (b.gap_end..MaxText(b.size) - 1)
        /\ b.text[p] \notin Cont
    BY <1>4 DEF CharStarts
  <2>2. p \in TextOffsets(b)
    BY <2>1 DEF TextOffsets
  <2>3. /\ p \in Nat /\ p <= MaxText(b.size)
        /\ p < b.gap_start \/ b.gap_end <= p
    BY <1>1, <2>1
  <2>4. QED
    BY <1>2, <1>4, <2>1, <2>2, <2>3
<1>5. QED
  BY <1>3, <1>4 DEF Stops

\* And an offset that is one of them.
LEMMA IsStop ==
    ASSUME NEW b, IsGapBuffer(b), NEW p \in Nat,
           p < b.gap_start \/ b.gap_end <= p, p <= End(b),
           p < End(b) => b.text[p] \notin Cont
    PROVE  p \in Stops(b)
<1>1. /\ MaxText(b.size) \in Nat /\ b.gap_start \in Nat /\ b.gap_end \in Nat
      /\ b.gap_start <= b.gap_end /\ b.gap_end <= MaxText(b.size)
  BY Fields
<1>2. End(b) = MaxText(b.size)
  BY DEF End
<1>3. CASE p = End(b)
  BY <1>3 DEF Stops
<1>4. CASE p # End(b)
  <2>1. p < End(b)
    BY <1>1, <1>2, <1>4
  <2>2. p \in (0..b.gap_start - 1) \cup (b.gap_end..MaxText(b.size) - 1)
    BY <1>1, <1>2, <2>1
  <2>3. QED
    BY <2>1, <2>2 DEF Stops, CharStarts
<1>5. QED
  BY <1>3, <1>4

\* A turn goes to the next of them.
LEMMA SeekFinds ==
    ASSUME NEW b, Plain(b), NEW p \in Stops(b), p < End(b)
    PROVE  /\ Seek(b, p) \in Stops(b)
           /\ p < Seek(b, p)
           /\ \A r \in Stops(b) : p < r => Seek(b, p) <= r
<1> DEFINE S == {r \in (p + 1)..End(b) : b.text[r] \notin Cont} \cup {Off(b)}
           q == NextChar(b, p)
<1>1. /\ IsGapBuffer(b)
      /\ End(b) \in Nat /\ Off(b) = End(b) + 1
      /\ b.gap_start \in Nat /\ b.gap_end \in Nat
      /\ b.gap_start <= b.gap_end /\ b.gap_end <= End(b)
      /\ b.gap_start > 0 => b.text[b.gap_start] \notin Cont
      /\ b.gap_end < End(b) => b.text[b.gap_end] \notin Cont
      /\ b.text[End(b)] \notin Cont
  BY Fields, ByteAssumption DEF Plain, End, Off, Clean, OnCharBoundary
<1>2. p \in Nat /\ (p < b.gap_start \/ b.gap_end <= p)
  BY <1>1, StopsAre
<1>3. S \in SUBSET Nat /\ S # {}
  BY <1>1, <1>2
<1>4. q = Min(S)
  BY DEF NextChar
<1>5. q \in S /\ \A r \in S : q <= r
  <2> HIDE DEF S, q
  <2>1. QED
    BY <1>3, <1>4, MinIs
<1>6. End(b) \in S
  BY <1>1, <1>2
<1>7. /\ q \in Nat /\ p < q /\ q <= End(b)
      /\ b.text[q] \notin Cont
  <2>1. q <= End(b)
    BY <1>5, <1>6
  <2>2. q # Off(b)
    BY <1>1, <1>3, <1>5, <2>1
  <2>3. q \in (p + 1)..End(b) /\ b.text[q] \notin Cont
    BY <1>5, <2>2
  <2> HIDE DEF q, S
  <2>4. QED
    BY <1>1, <1>2, <2>3
<1>8. ASSUME NEW r \in Stops(b), p < r
      PROVE  r \in Nat /\ r <= End(b) /\ (r < b.gap_start \/ b.gap_end <= r) /\ q <= r
  <2>1. /\ r \in Nat /\ r <= End(b) /\ (r < b.gap_start \/ b.gap_end <= r)
        /\ r < End(b) => b.text[r] \notin Cont
    BY <1>1, StopsAre
  <2>2. r \in (p + 1)..End(b) /\ b.text[r] \notin Cont
    BY <1>1, <1>2, <1>8, <2>1
  <2>3. q <= r
    BY <1>5, <2>2
  <2>4. QED
    BY <2>1, <2>3
<1>9. Seek(b, p) = IF q = b.gap_start THEN b.gap_end ELSE q
  BY DEF Seek
<1>10. p < b.gap_start => q <= b.gap_start
  <2>1. ASSUME p < b.gap_start
        PROVE  b.gap_start \in S
    BY <1>1, <1>2, <2>1
  <2>2. QED
    BY <1>5, <2>1
<1> HIDE DEF S, q
<1>11. CASE q = b.gap_start
  <2>1. b.gap_end \in Stops(b)
    BY <1>1, IsStop
  <2>2. p < b.gap_end
    BY <1>1, <1>2, <1>7, <1>11
  <2>3. ASSUME NEW r \in Stops(b), p < r
        PROVE  b.gap_end <= r
    BY <1>1, <1>8, <1>11, <2>3
  <2>4. QED
    BY <1>9, <1>11, <2>1, <2>2, <2>3
<1>12. CASE q # b.gap_start
  <2>1. q < b.gap_start \/ b.gap_end <= q
    BY <1>1, <1>2, <1>7, <1>10, <1>12
  <2>2. q \in Stops(b)
    BY <1>1, <1>7, <2>1, IsStop
  <2>3. QED
    BY <1>7, <1>8, <1>9, <1>12, <2>2
<1>13. QED
  BY <1>11, <1>12

\* A walk begins at the first of them.
LEMMA StartFinds ==
    ASSUME NEW b, Plain(b)
    PROVE  /\ Start(b) \in Stops(b)
           /\ \A r \in Stops(b) : Start(b) <= r
<1>1. /\ IsGapBuffer(b)
      /\ End(b) \in Nat
      /\ b.gap_start \in Nat /\ b.gap_end \in Nat
      /\ b.gap_start <= b.gap_end /\ b.gap_end <= End(b)
      /\ b.gap_start > 0 => b.text[0] \notin Cont
      /\ b.gap_end < End(b) => b.text[b.gap_end] \notin Cont
  BY Fields DEF Plain, End, OnCharBoundary
<1>2. \A r \in Stops(b) : r \in Nat /\ (r < b.gap_start \/ b.gap_end <= r)
  BY <1>1, StopsAre
<1>3. CASE b.gap_start = 0
  <2>1. Start(b) = b.gap_end
    BY <1>3 DEF Start
  <2>2. b.gap_end \in Stops(b)
    BY <1>1, IsStop
  <2>3. \A r \in Stops(b) : b.gap_end <= r
    BY <1>2, <1>3
  <2>4. QED
    BY <2>1, <2>2, <2>3
<1>4. CASE b.gap_start # 0
  <2>1. Start(b) = 0
    BY <1>4 DEF Start
  <2>2. 0 \in Stops(b)
    BY <1>1, <1>4, IsStop
  <2>3. \A r \in Stops(b) : 0 <= r
    BY <1>2
  <2>4. QED
    BY <2>1, <2>2, <2>3
<1>5. QED
  BY <1>3, <1>4

\* A walk that nothing misleads takes all of them and no other.
LEMMA WalkTakesStops ==
    ASSUME NEW b, Plain(b)
    PROVE  Visited(b) = Stops(b)
<1>1. /\ IsGapBuffer(b)
      /\ End(b) \in Nat
  BY Fields DEF Plain, End
<1>2. PICK f \in [0..End(b) -> 0..Off(b)] :
         /\ Visited(b) = {f[n] : n \in 0..End(b)}
         /\ f[0] = Start(b)
         /\ \A n \in 1..End(b) : f[n] = Turn(b, f[n - 1])
  BY <1>1, WalkExists
<1> DEFINE Good(n) == /\ f[n] \in Stops(b)
                      /\ \A r \in Stops(b) : r < f[n] => r \in Visited(b)
           T == {n \in 0..End(b) : Good(n)}
<1>3. 0 \in T
  <2>1. f[0] \in Stops(b)
    BY <1>2, StartFinds
  <2>2. ASSUME NEW r \in Stops(b), r < f[0]
        PROVE  FALSE
    <3>1. f[0] <= r /\ r \in Nat /\ f[0] \in Nat
      BY <1>1, <1>2, <2>1, StartFinds, StopsAre
    <3>2. QED
      BY <2>2, <3>1
  <2>3. QED
    BY <1>1, <2>1, <2>2
<1>4. ASSUME NEW n \in 1..End(b), n - 1 \in T
      PROVE  n \in T
  <2> DEFINE p == f[n - 1]
  <2>1. /\ n \in 0..End(b) /\ n - 1 \in 0..End(b)
        /\ f[n] = Turn(b, p)
    BY <1>1, <1>2
  <2>2. p \in Stops(b) /\ \A r \in Stops(b) : r < p => r \in Visited(b)
    BY <1>4
  <2>3. p \in Visited(b)
    BY <1>2, <2>1
  <2> HIDE DEF p
  <2>4. CASE p < End(b)
    <3>1. f[n] = Seek(b, p)
      BY <2>1, <2>4 DEF Turn
    <3>2. /\ f[n] \in Stops(b)
          /\ \A r \in Stops(b) : p < r => f[n] <= r
      BY <2>2, <2>4, <3>1, SeekFinds
    <3>3. ASSUME NEW r \in Stops(b), r < f[n]
          PROVE  r \in Visited(b)
      <4>1. r \in Nat /\ p \in Nat /\ f[n] \in Nat
        BY <1>1, <2>2, <3>2, StopsAre
      <4>2. r < p \/ r = p
        BY <3>2, <3>3, <4>1
      <4>3. QED
        BY <2>2, <2>3, <4>2
    <3>4. QED
      BY <2>1, <3>2, <3>3
  <2>5. CASE ~(p < End(b))
    <3>1. f[n] = p
      BY <2>1, <2>5 DEF Turn
    <3>2. QED
      BY <2>1, <2>2, <3>1
  <2>6. QED
    BY <2>4, <2>5
<1>5. \A n \in 0..End(b) : Good(n)
  <2> HIDE DEF Good
  <2>1. \A n \in 0..End(b) : n \in T
    <3> HIDE DEF T
    <3>1. QED
      BY <1>1, <1>3, <1>4, EveryTurn
  <2>2. QED
    BY <2>1
<1>6. Visited(b) \in SUBSET Stops(b)
  BY <1>2, <1>5
<1>7. PICK n \in 0..End(b) : f[n] >= End(b)
  BY <1>1, <1>2, VisitedIs
<1>8. ASSUME NEW r \in Stops(b)
      PROVE  r \in Visited(b)
  <2>1. f[n] \in Stops(b) /\ (r < f[n] => r \in Visited(b))
    BY <1>5
  <2>2. /\ r \in Nat /\ r <= End(b)
        /\ f[n] \in Nat /\ f[n] <= End(b)
    BY <1>1, <2>1, StopsAre
  <2>3. r < f[n] \/ r = f[n]
    BY <1>1, <1>7, <2>2
  <2>4. QED
    BY <1>2, <2>1, <2>3
<1>9. QED
  BY <1>6, <1>8

-----------------------------------------------------------------------------
(* Offsets and places *)

\* An offset of a walk stands for a place between two characters,
LEMMA StopIsBoundary ==
    ASSUME NEW b, IsGapBuffer(b), NEW p \in Stops(b)
    PROVE  /\ Logical(b, p) \in Boundaries(Content(b))
           /\ Logical(b, p) \in 0..TextLen(b)
           /\ Logical(b, End(b)) = TextLen(b)
           /\ p < End(b) => /\ Logical(b, p) < TextLen(b)
                            /\ Content(b)[Logical(b, p) + 1] = b.text[p]
                            /\ Content(b)[Logical(b, p) + 1] \notin Cont
<1>1. /\ p \in TextOffsets(b) \cup {MaxText(b.size)}
      /\ p \in Nat /\ p <= End(b)
      /\ p < End(b) => p \in TextOffsets(b) /\ b.text[p] \notin Cont
  BY StopsAre
<1>2. End(b) = MaxText(b.size) /\ End(b) \in Nat /\ TextLen(b) \in Nat
  BY GapIs DEF End
<1>3. Len(Content(b)) = TextLen(b)
  BY ContentIsSeq
<1>4. Logical(b, p) \in 0..TextLen(b) /\ Logical(b, End(b)) = TextLen(b)
  BY <1>1, <1>2, LogicalKeepsOrder
<1>5. ASSUME p < End(b)
      PROVE  /\ Logical(b, p) < TextLen(b)
             /\ Content(b)[Logical(b, p) + 1] = b.text[p]
             /\ Content(b)[Logical(b, p) + 1] \notin Cont
  <2>1. /\ Logical(b, p) \in 0..(TextLen(b) - 1)
        /\ Content(b)[Logical(b, p) + 1] = b.text[p]
    BY <1>1, <1>5, ByteOfText
  <2>2. QED
    BY <1>1, <1>2, <1>5, <2>1
<1>6. p < End(b) \/ p = End(b)
  BY <1>1, <1>2
<1>7. Logical(b, p) \in Boundaries(Content(b))
  BY <1>2, <1>3, <1>4, <1>5, <1>6 DEF Boundaries
<1>8. QED
  BY <1>4, <1>5, <1>7

\* and each such place has its offset.
LEMMA BoundaryIsStop ==
    ASSUME NEW b, IsGapBuffer(b), NEW k \in Boundaries(Content(b))
    PROVE  \E p \in Stops(b) : Logical(b, p) = k
<1>1. Len(Content(b)) = TextLen(b) /\ TextLen(b) \in Nat /\ End(b) \in Nat
  BY ContentIsSeq, GapIs DEF End
<1>2. /\ k \in 0..TextLen(b)
      /\ k < TextLen(b) => Content(b)[k + 1] \notin Cont
  BY <1>1 DEF Boundaries
<1>3. CASE k = TextLen(b)
  <2>1. End(b) \in Stops(b)
    BY DEF Stops
  <2>2. QED
    BY <1>3, <2>1, StopIsBoundary
<1>4. CASE k # TextLen(b)
  <2>1. k \in 0..(TextLen(b) - 1)
    BY <1>1, <1>2, <1>4
  <2>2. PICK p \in TextOffsets(b) : Logical(b, p) = k
    BY <2>1, OffsetOfByte
  <2>3. b.text[p] \notin Cont
    BY <1>1, <1>2, <2>1, <2>2, ByteOfText
  <2>4. p \in Stops(b)
    BY <2>3 DEF TextOffsets, CharStarts, Stops
  <2>5. QED
    BY <2>2, <2>4
<1>5. QED
  BY <1>3, <1>4

\* They are in the same order.
LEMMA StopsKeepOrder ==
    ASSUME NEW b, IsGapBuffer(b), NEW p \in Stops(b), NEW q \in Stops(b)
    PROVE  /\ p \in Nat /\ q \in Nat
           /\ Logical(b, p) \in Nat /\ Logical(b, q) \in Nat
           /\ Logical(b, p) < Logical(b, q) <=> p < q
           /\ Logical(b, p) <= Logical(b, q) <=> p <= q
           /\ Logical(b, p) = Logical(b, q) <=> p = q
<1>1. /\ p \in TextOffsets(b) \cup {MaxText(b.size)}
      /\ q \in TextOffsets(b) \cup {MaxText(b.size)}
  BY StopsAre
<1>2. TextLen(b) \in Nat
  BY GapIs
<1>3. /\ p \in Nat /\ q \in Nat
      /\ Logical(b, p) \in 0..TextLen(b) /\ Logical(b, q) \in 0..TextLen(b)
      /\ Logical(b, p) < Logical(b, q) <=> p < q
      /\ Logical(b, p) = Logical(b, q) <=> p = q
  BY <1>1, LogicalKeepsOrder
<1>4. QED
  BY <1>2, <1>3

\* The columns of a text behind its first j bytes, up to the k-th.
Printed == Bytes \ (Cont \cup {Tab})

Cols(s, j, k) ==
    Cardinality(InText(s, j, k, Printed))
    + TabSpaces * Cardinality(InText(s, j, k, {Tab}))

\* What a walk counts between two offsets is what the text has there.
LEMMA RowsAgree ==
    ASSUME NEW b, Plain(b), NEW q \in Stops(b)
    PROVE  Rows(b, Visited(b), 0, q) = RowAt(Content(b), Logical(b, q))
<1>1. IsGapBuffer(b) /\ Visited(b) = Stops(b)
  BY WalkTakesStops DEF Plain
<1>2. PICK p \in TextOffsets(b) \cup {MaxText(b.size)} :
         /\ Logical(b, p) = 0
         /\ \A r \in TextOffsets(b) : p <= r
  BY <1>1, FirstOffset
<1>3. q \in TextOffsets(b) \cup {MaxText(b.size)} /\ q \in Nat /\ q <= End(b)
  BY <1>1, StopsAre
<1>4. Cardinality(InText(Content(b), 0, Logical(b, q), Newlines))
         = Cardinality(InBuffer(b, p, q, Newlines))
  BY <1>1, <1>2, <1>3, CountsAgree
<1>5. {r \in Stops(b) : 0 <= r /\ r < q /\ EndsRow(b, r)}
         = InBuffer(b, p, q, Newlines)
  <2>1. ASSUME NEW r \in Stops(b), r < q
        PROVE  r \in TextOffsets(b) /\ p <= r
    <3>1. r \in Nat /\ (r < End(b) => r \in TextOffsets(b))
      BY <1>1, StopsAre
    <3>2. r < End(b)
      BY <1>1, <1>3, <2>1, <3>1, GapIs DEF End
    <3>3. QED
      BY <1>2, <3>1, <3>2
  <2>2. ASSUME NEW r \in TextOffsets(b), b.text[r] \in Newlines
        PROVE  r \in Stops(b) /\ 0 <= r
    <3>1. b.text[r] \notin Cont
      BY <2>2, WalkAssumption
    <3>2. r \in Stops(b)
      BY <3>1 DEF TextOffsets, CharStarts, Stops
    <3>3. QED
      BY <1>1, <3>2, StopsAre
  <2>3. QED
    BY <2>1, <2>2 DEF InBuffer, EndsRow
<1>6. InText(Content(b), 0, Logical(b, q), Newlines)
         = {i \in 1..Logical(b, q) : Content(b)[i] \in Newlines}
  BY DEF InText
<1>7. QED
  BY <1>1, <1>4, <1>5, <1>6 DEF Rows, RowAt

LEMMA ColumnsAgree ==
    ASSUME NEW b, Plain(b), NEW p \in Stops(b), NEW q \in Stops(b)
    PROVE  Columns(b, Visited(b), p, q)
              = Cols(Content(b), Logical(b, p), Logical(b, q))
<1>1. IsGapBuffer(b) /\ Visited(b) = Stops(b)
  BY WalkTakesStops DEF Plain
<1>2. /\ p \in TextOffsets(b) \cup {MaxText(b.size)}
      /\ q \in TextOffsets(b) \cup {MaxText(b.size)}
      /\ p \in Nat /\ q \in Nat /\ q <= End(b) /\ End(b) \in Nat
  BY <1>1, StopsAre, GapIs DEF End
<1> DEFINE chars == {r \in Stops(b) : p <= r /\ r < q}
           tabs == {r \in chars : b.text[r] = Tab}
<1>3. ASSUME NEW r \in chars
      PROVE  r \in TextOffsets(b) /\ b.text[r] \in Bytes \ Cont
  <2>1. /\ r \in Nat
        /\ r < End(b) => r \in TextOffsets(b) /\ b.text[r] \notin Cont
    BY <1>1, StopsAre
  <2>2. r < End(b)
    BY <1>2, <2>1
  <2>3. b.text \in [0..MaxText(b.size) -> Bytes] /\ MaxText(b.size) = End(b)
    BY <1>1, Fields DEF End
  <2>4. r \in 0..MaxText(b.size)
    BY <1>2, <2>1, <2>2, <2>3
  <2>5. QED
    BY <2>1, <2>2, <2>3, <2>4
<1>4. ASSUME NEW r \in TextOffsets(b), b.text[r] \notin Cont
      PROVE  r \in Stops(b)
  BY <1>4 DEF TextOffsets, CharStarts, Stops
<1>5. tabs = InBuffer(b, p, q, {Tab})
  <2>1. Tab \notin Cont
    BY WalkAssumption
  <2>2. QED
    BY <1>3, <1>4, <2>1 DEF InBuffer
<1>6. chars \ tabs = InBuffer(b, p, q, Printed)
  BY <1>3, <1>4 DEF InBuffer, Printed
<1>7. Columns(b, Visited(b), p, q)
         = Cardinality(chars \ tabs) + TabSpaces * Cardinality(tabs)
  BY <1>1 DEF Columns
<1>8. /\ Cardinality(chars \ tabs)
            = Cardinality(InText(Content(b), Logical(b, p), Logical(b, q), Printed))
      /\ Cardinality(tabs)
            = Cardinality(InText(Content(b), Logical(b, p), Logical(b, q), {Tab}))
  <2> HIDE DEF chars, tabs
  <2>1. QED
    BY <1>1, <1>2, <1>5, <1>6, CountsAgree
<1>9. QED
  BY <1>7, <1>8 DEF Cols

-----------------------------------------------------------------------------
(* Rows and columns of a text *)

LEMMA InTextIs ==
    ASSUME NEW s, NEW j \in Nat, NEW k \in Nat, NEW X
    PROVE  /\ IsFiniteSet(InText(s, j, k, X))
           /\ Cardinality(InText(s, j, k, X)) \in Nat
<1>1. InText(s, j, k, X) \in SUBSET ((j + 1)..k)
  BY DEF InText
<1>2. IsFiniteSet((j + 1)..k)
  BY FS_Interval
<1>3. QED
  BY <1>1, <1>2, FS_Subset, FS_CardinalityType

LEMMA InTextGrows ==
    ASSUME NEW s, NEW j \in Nat, NEW k \in Nat, NEW l \in Nat, k <= l, NEW X
    PROVE  /\ Cardinality(InText(s, j, k, X)) <= Cardinality(InText(s, j, l, X))
           /\ \A i \in (j + 1)..l :
                 k < i /\ s[i] \in X =>
                    Cardinality(InText(s, j, k, X)) < Cardinality(InText(s, j, l, X))
<1>1. InText(s, j, k, X) \in SUBSET InText(s, j, l, X)
  BY DEF InText
<1>2. /\ IsFiniteSet(InText(s, j, l, X))
      /\ Cardinality(InText(s, j, k, X)) \in Nat
      /\ Cardinality(InText(s, j, l, X)) \in Nat
  BY InTextIs
<1>3. Cardinality(InText(s, j, k, X)) <= Cardinality(InText(s, j, l, X))
  BY <1>1, <1>2, FS_Subset
<1>4. ASSUME NEW i \in (j + 1)..l, k < i, s[i] \in X
      PROVE  Cardinality(InText(s, j, k, X)) < Cardinality(InText(s, j, l, X))
  <2>1. i \in InText(s, j, l, X) /\ i \notin InText(s, j, k, X)
    BY <1>4 DEF InText
  <2>2. InText(s, j, k, X) # InText(s, j, l, X)
    BY <2>1
  <2>3. QED
    BY <1>1, <1>2, <1>3, <2>2, FS_Subset
<1>5. QED
  BY <1>3, <1>4

\* Rows are counted on the way through the text.
LEMMA RowsGrow ==
    ASSUME NEW s, NEW k \in Nat, NEW l \in Nat, k <= l
    PROVE  /\ RowAt(s, k) \in Nat /\ RowAt(s, l) \in Nat
           /\ RowAt(s, k) <= RowAt(s, l)
           /\ \A i \in 1..l : k < i /\ s[i] \in Newlines => RowAt(s, k) < RowAt(s, l)
           /\ RowAt(s, k) # RowAt(s, l) => \E i \in (k + 1)..l : s[i] \in Newlines
<1>1. \A n \in Nat : RowAt(s, n) = Cardinality(InText(s, 0, n, Newlines))
  BY DEF RowAt, InText
<1>2. 0 \in Nat /\ 0 + 1 = 1
  OBVIOUS
<1>3. RowAt(s, k) \in Nat /\ RowAt(s, l) \in Nat
  BY <1>1, <1>2, InTextIs
<1>4. /\ RowAt(s, k) <= RowAt(s, l)
      /\ \A i \in 1..l : k < i /\ s[i] \in Newlines => RowAt(s, k) < RowAt(s, l)
  BY <1>1, <1>2, InTextGrows
<1>5. ASSUME ~ \E i \in (k + 1)..l : s[i] \in Newlines
      PROVE  RowAt(s, k) = RowAt(s, l)
  <2>1. {i \in 1..k : s[i] \in Newlines} = {i \in 1..l : s[i] \in Newlines}
    <3>1. ASSUME NEW i \in 1..l, s[i] \in Newlines
          PROVE  i \in 1..k
      BY <1>5, <3>1
    <3>2. QED
      BY <3>1
  <2>2. QED
    BY <2>1 DEF RowAt
<1>6. QED
  BY <1>3, <1>4, <1>5

\* So are columns.
LEMMA ColsGrow ==
    ASSUME NEW s \in Seq(Bytes), NEW j \in Nat, NEW k \in Nat, NEW l \in Nat,
           k <= l, l <= Len(s)
    PROVE  /\ Cols(s, j, k) \in Nat /\ Cols(s, j, l) \in Nat
           /\ Cols(s, j, k) <= Cols(s, j, l)
           /\ \A i \in (j + 1)..l :
                 k < i /\ s[i] \notin Cont => Cols(s, j, k) < Cols(s, j, l)
<1> DEFINE a == Cardinality(InText(s, j, k, Printed))
           c == Cardinality(InText(s, j, l, Printed))
           d == Cardinality(InText(s, j, k, {Tab}))
           e == Cardinality(InText(s, j, l, {Tab}))
<1>1. /\ a \in Nat /\ c \in Nat /\ d \in Nat /\ e \in Nat
      /\ a <= c /\ d <= e
  BY InTextIs, InTextGrows
<1>2. TabSpaces \in Nat /\ TabSpaces > 0
  BY WalkAssumption
<1>3. ASSUME NEW i \in (j + 1)..l, k < i, s[i] \notin Cont
      PROVE  a < c \/ d < e
  <2>1. i \in 1..Len(s)
    OBVIOUS
  <2>2. s[i] \in Bytes
    BY <2>1, ElementOfSeq
  <2>3. s[i] \in Printed \/ s[i] \in {Tab}
    BY <1>3, <2>2 DEF Printed
  <2>4. QED
    BY <1>3, <2>3, InTextGrows
<1>4. Cols(s, j, k) = a + TabSpaces * d /\ Cols(s, j, l) = c + TabSpaces * e
  BY DEF Cols
<1> HIDE DEF a, c, d, e
<1>5. TabSpaces * d <= TabSpaces * e /\ TabSpaces * d \in Nat /\ TabSpaces * e \in Nat
  BY <1>1, <1>2
<1>6. d < e => TabSpaces * d < TabSpaces * e
  BY <1>1, <1>2
<1>7. a < c \/ d < e => Cols(s, j, k) < Cols(s, j, l)
  BY <1>1, <1>4, <1>5, <1>6
<1>8. QED
  BY <1>1, <1>3, <1>4, <1>5, <1>7

\* Place j is where row r of the text s begins.
StartsRow(s, j, r) ==
    /\ j \in Boundaries(s)
    /\ RowAt(s, j) = r
    /\ \A i \in Boundaries(s) : RowAt(s, i) = r => j <= i

LEMMA BoundariesAre ==
    ASSUME NEW s \in Seq(Bytes), NEW k \in Boundaries(s)
    PROVE  k \in Nat /\ k <= Len(s) /\ k \in 0..Len(s) /\ Len(s) \in Nat
<1>1. Len(s) \in Nat
  BY LenProperties
<1>2. QED
  BY <1>1 DEF Boundaries

\* Between two places of a row no byte ends a row.
LEMMA NoRowEnds ==
    ASSUME NEW s \in Seq(Bytes), NEW j \in Nat, NEW k \in Nat, j <= k,
           RowAt(s, j) = RowAt(s, k), NEW i \in (j + 1)..k
    PROVE  /\ s[i] \notin Newlines
           /\ RowAt(s, i) = RowAt(s, k)
<1>1. i \in Nat /\ j < i /\ i <= k /\ i \in 1..k
  OBVIOUS
<1>2. RowAt(s, j) \in Nat /\ ~(RowAt(s, j) < RowAt(s, k))
  BY RowsGrow
<1>3. s[i] \notin Newlines
  BY <1>1, <1>2, RowsGrow
<1>4. /\ RowAt(s, j) <= RowAt(s, i) /\ RowAt(s, i) <= RowAt(s, k)
      /\ RowAt(s, i) \in Nat
  BY <1>1, RowsGrow
<1>5. QED
  BY <1>2, <1>3, <1>4

\* The column of a place is what is counted from the start of its row.
LEMMA ColIs ==
    ASSUME NEW s \in Seq(Bytes), NEW j, NEW k \in Boundaries(s),
           StartsRow(s, j, RowAt(s, k))
    PROVE  /\ j \in Nat /\ k \in Nat /\ j <= k /\ k <= Len(s)
           /\ ColAt(s, k) = Cols(s, j, k)
<1>1. /\ j \in Nat /\ k \in Nat /\ j <= k /\ k <= Len(s)
      /\ RowAt(s, j) = RowAt(s, k)
  BY BoundariesAre DEF StartsRow
<1> DEFINE line == {i \in 1..k : s[i] \notin Cont /\ RowAt(s, i) = RowAt(s, k)}
           tabs == {i \in line : s[i] = Tab}
           ends == {i \in line : s[i] \in Newlines}
<1>2. ASSUME NEW i \in 1..k
      PROVE  s[i] \in Bytes /\ i \in Nat /\ i - 1 \in Nat
  <2>1. i \in 1..Len(s)
    BY <1>1
  <2>2. QED
    BY <2>1, ElementOfSeq
<1>3. ASSUME NEW i \in line, s[i] \notin Newlines
      PROVE  i \in (j + 1)..k
  <2>1. /\ i \in 1..k /\ s[i] \notin Cont /\ RowAt(s, i) = RowAt(s, k)
        /\ i - 1 \in Nat /\ i \in Nat /\ i - 1 <= i
    BY <1>2
  <2>2. RowAt(s, i - 1) = RowAt(s, i)
    <3>1. ASSUME NEW n \in (i - 1 + 1)..i
          PROVE  n = i
      BY <2>1
    <3>2. ~ \E n \in (i - 1 + 1)..i : s[n] \in Newlines
      BY <1>3, <3>1
    <3>3. QED
      BY <2>1, <3>2, RowsGrow
  <2>3. i - 1 \in Boundaries(s)
    <3>1. i - 1 + 1 = i /\ i - 1 \in 0..Len(s)
      BY <1>1, <2>1
    <3>2. QED
      BY <2>1, <3>1 DEF Boundaries
  <2>4. j <= i - 1
    BY <2>1, <2>2, <2>3 DEF StartsRow
  <2>5. QED
    BY <1>1, <2>1, <2>4
<1>4. ASSUME NEW i \in (j + 1)..k
      PROVE  i \in 1..k /\ s[i] \notin Newlines /\ RowAt(s, i) = RowAt(s, k)
  BY <1>1, NoRowEnds
<1>5. Tab \notin Cont /\ Tab \notin Newlines
  BY WalkAssumption
<1>6. tabs = InText(s, j, k, {Tab})
  <2>1. ASSUME NEW i \in tabs
        PROVE  i \in InText(s, j, k, {Tab})
    BY <1>3, <1>5 DEF InText
  <2>2. ASSUME NEW i \in InText(s, j, k, {Tab})
        PROVE  i \in tabs
    BY <1>4, <1>5 DEF InText
  <2>3. QED
    BY <2>1, <2>2
<1>7. line \ (tabs \cup ends) = InText(s, j, k, Printed)
  <2>1. ASSUME NEW i \in line \ (tabs \cup ends)
        PROVE  i \in InText(s, j, k, Printed)
    <3>1. i \in line /\ s[i] # Tab /\ s[i] \notin Newlines /\ s[i] \notin Cont
      OBVIOUS
    <3>2. s[i] \in Printed
      BY <1>2, <3>1 DEF Printed
    <3>3. i \in (j + 1)..k
      BY <1>3, <3>1
    <3>4. QED
      BY <3>2, <3>3 DEF InText
  <2>2. ASSUME NEW i \in InText(s, j, k, Printed)
        PROVE  i \in line \ (tabs \cup ends)
    <3>1. i \in (j + 1)..k /\ s[i] \notin Cont /\ s[i] # Tab
      BY DEF InText, Printed
    <3>2. i \in 1..k /\ s[i] \notin Newlines /\ RowAt(s, i) = RowAt(s, k)
      BY <1>4, <3>1
    <3>3. QED
      BY <3>1, <3>2
  <2>3. QED
    BY <2>1, <2>2
<1>8. ColAt(s, k) = Cardinality(line \ (tabs \cup ends)) + TabSpaces * Cardinality(tabs)
  BY DEF ColAt
<1>9. ColAt(s, k) = Cols(s, j, k)
  BY <1>6, <1>7, <1>8 DEF Cols
<1>10. QED
  BY <1>1, <1>9

\* A row that is there has a start.
LEMMA RowHasStart ==
    ASSUME NEW s \in Seq(Bytes), NEW k \in Boundaries(s)
    PROVE  \E j : StartsRow(s, j, RowAt(s, k))
<1> DEFINE S == {i \in Boundaries(s) : RowAt(s, i) = RowAt(s, k)}
<1>1. S \in SUBSET Nat /\ S # {}
  BY BoundariesAre
<1>2. PICK j \in S : \A i \in S : j <= i
  BY <1>1, LeastNatural
<1>3. QED
  BY <1>2 DEF StartsRow

-----------------------------------------------------------------------------
(* What the loops find *)

LEMMA LeastIs ==
    ASSUME NEW S \in SUBSET Nat, NEW x \in S, \A y \in S : x <= y
    PROVE  Min(S) = x
<1>1. Min(S) \in S /\ Min(S) <= x
  BY MinIs
<1>2. x <= Min(S) /\ x \in Nat /\ Min(S) \in Nat
  BY <1>1
<1>3. QED
  BY <1>1, <1>2

\* The numbers of a buffer and its text.
LEMMA TextIs ==
    ASSUME NEW b, Plain(b)
    PROVE  /\ IsGapBuffer(b)
           /\ Visited(b) = Stops(b)
           /\ Content(b) \in Seq(Bytes)
           /\ Len(Content(b)) = TextLen(b)
           /\ TextLen(b) \in Nat
           /\ End(b) \in Nat /\ Off(b) = End(b) + 1 /\ Off(b) \in Nat
           /\ End(b) \in Stops(b)
           /\ Logical(b, End(b)) = TextLen(b)
<1>1. IsGapBuffer(b)
  BY DEF Plain
<1>2. End(b) \in Stops(b)
  BY DEF Stops
<1>3. End(b) \in Nat /\ Off(b) = End(b) + 1 /\ TextLen(b) \in Nat
  BY <1>1, GapIs DEF End, Off
<1>4. QED
  BY <1>1, <1>2, <1>3, WalkTakesStops, ContentIsSeq, StopIsBoundary

\* The walks that look for a row find its start.
LEMMA RowFound ==
    ASSUME NEW b, Plain(b), NEW r, NEW p \in Stops(b),
           StartsRow(Content(b), Logical(b, p), r)
    PROVE  /\ LineStart(b, r) = p
           /\ Min({q \in Visited(b) : Rows(b, Visited(b), 0, q) = r} \cup {Off(b)}) = p
<1> DEFINE S == {q \in Stops(b) : Rows(b, Visited(b), 0, q) = r}
<1>1. /\ IsGapBuffer(b)
      /\ Visited(b) = Stops(b)
      /\ End(b) \in Nat /\ Off(b) = End(b) + 1 /\ Off(b) \in Nat
      /\ End(b) \in Stops(b)
  BY TextIs
<1>2. p \in S
  BY RowsAgree DEF StartsRow
<1>3. \A q \in Stops(b) : q \in Nat /\ q <= End(b)
  BY <1>1, StopsAre
<1>4. ASSUME NEW q \in S
      PROVE  p <= q
  <2>1. RowAt(Content(b), Logical(b, q)) = r
    BY RowsAgree
  <2>2. Logical(b, q) \in Boundaries(Content(b))
    BY <1>1, StopIsBoundary
  <2>3. Logical(b, p) <= Logical(b, q)
    BY <2>1, <2>2 DEF StartsRow
  <2>4. QED
    BY <1>1, <2>3, StopsKeepOrder
<1>5. Min(S \cup {Off(b)}) = p
  <2>1. S \cup {Off(b)} \in SUBSET Nat
    BY <1>1, <1>3
  <2>2. p <= Off(b)
    BY <1>1, <1>3
  <2> HIDE DEF S
  <2>3. QED
    BY <1>2, <1>4, <2>1, <2>2, LeastIs
<1> DEFINE T == {q \in Stops(b) : Rows(b, Visited(b), 0, q) = r \/ q >= End(b)}
<1>6. Min(T) = p
  <2>1. T \in SUBSET Nat /\ p \in T
    BY <1>2, <1>3
  <2>2. ASSUME NEW q \in T
        PROVE  p <= q
    <3>1. CASE q \in S
      BY <1>4, <3>1
    <3>2. CASE q \notin S
      <4>1. q >= End(b) /\ q \in Nat /\ p <= End(b) /\ p \in Nat
        BY <1>3, <3>2
      <4>2. QED
        BY <1>1, <4>1
    <3>3. QED
      BY <3>1, <3>2
  <2> HIDE DEF T
  <2>3. QED
    BY <2>1, <2>2, LeastIs
<1>7. QED
  BY <1>1, <1>5, <1>6 DEF LineStart

\* A row of which p is the start is there.
LEMMA RowIsThere ==
    ASSUME NEW b, Plain(b), NEW k \in Boundaries(Content(b))
    PROVE  \E p \in Stops(b) :
              StartsRow(Content(b), Logical(b, p), RowAt(Content(b), k))
<1>1. PICK j : StartsRow(Content(b), j, RowAt(Content(b), k))
  BY TextIs, RowHasStart
<1>2. PICK p \in Stops(b) : Logical(b, p) = j
  BY <1>1, TextIs, BoundaryIsStop DEF StartsRow
<1>3. QED
  BY <1>1, <1>2

\* Before a place of its row no byte ends the row.
LEMMA NoEndBefore ==
    ASSUME NEW b, Plain(b), NEW p \in Stops(b), NEW q \in Stops(b), p <= q,
           RowAt(Content(b), Logical(b, p)) = RowAt(Content(b), Logical(b, q)),
           NEW t \in Stops(b), p <= t, t < q
    PROVE  /\ ~EndsRow(b, t)
           /\ Content(b)[Logical(b, t) + 1] \notin Cont
           /\ Logical(b, p) <= Logical(b, t)
           /\ Logical(b, t) < Logical(b, q)
<1>1. /\ IsGapBuffer(b) /\ Content(b) \in Seq(Bytes)
      /\ Len(Content(b)) = TextLen(b)
      /\ End(b) \in Nat
  BY TextIs
<1>2. /\ Logical(b, p) <= Logical(b, t) /\ Logical(b, t) < Logical(b, q)
      /\ Logical(b, p) \in Nat /\ Logical(b, t) \in Nat /\ Logical(b, q) \in Nat
      /\ Logical(b, p) <= Logical(b, q)
      /\ t \in Nat /\ q \in Nat
  BY <1>1, StopsKeepOrder
<1>3. t < End(b)
  BY <1>1, <1>2, StopsAre
<1>4. /\ Content(b)[Logical(b, t) + 1] = b.text[t]
      /\ Content(b)[Logical(b, t) + 1] \notin Cont
  BY <1>1, <1>3, StopIsBoundary
<1>5. Logical(b, t) + 1 \in (Logical(b, p) + 1)..Logical(b, q)
  BY <1>2
<1>6. Content(b)[Logical(b, t) + 1] \notin Newlines
  BY <1>1, <1>2, <1>5, NoRowEnds
<1>7. QED
  BY <1>2, <1>4, <1>6 DEF EndsRow

\* The walk to the row and column of a place comes to its offset.
LEMMA StopFound ==
    ASSUME NEW b, Plain(b), NEW q \in Stops(b)
    PROVE  StopAt(b, RowAt(Content(b), Logical(b, q)), ColAt(Content(b), Logical(b, q))) = q
<1> DEFINE s == Content(b)
           k == Logical(b, q)
           r == RowAt(s, k)
           c == ColAt(s, k)
<1>1. /\ IsGapBuffer(b) /\ Visited(b) = Stops(b) /\ s \in Seq(Bytes)
      /\ Len(s) = TextLen(b) /\ TextLen(b) \in Nat
      /\ End(b) \in Nat /\ Off(b) = End(b) + 1 /\ Off(b) \in Nat
  BY TextIs
<1>2. k \in Boundaries(s)
  BY <1>1, StopIsBoundary
<1>3. PICK p \in Stops(b) : StartsRow(s, Logical(b, p), r)
  BY <1>2, RowIsThere
<1>4. Min({t \in Visited(b) : Rows(b, Visited(b), 0, t) = r} \cup {Off(b)}) = p
  BY <1>3, RowFound
<1>5. c = Cols(s, Logical(b, p), k) /\ k <= Len(s)
  BY <1>1, <1>2, <1>3, ColIs
<1>6. RowAt(s, Logical(b, p)) = r /\ Logical(b, p) <= k
  BY <1>2, <1>3 DEF StartsRow
<1>7. p \in Nat /\ q \in Nat /\ p <= q
      /\ Logical(b, p) \in Nat /\ k \in Nat
  BY <1>1, <1>6, StopsKeepOrder
<1> HIDE DEF s, k, r, c
<1> DEFINE S == {t \in Visited(b) :
                   p <= t /\ (EndsRow(b, t) \/ Columns(b, Visited(b), p, t) = c)}
<1>8. q \in S
  BY <1>1, <1>5, <1>7, ColumnsAgree DEF s, k
<1>9. ASSUME NEW t \in S
      PROVE  t \in Nat /\ t <= End(b) /\ q <= t
  <2>1. t \in Stops(b) /\ p <= t
    BY <1>1
  <2>2. t \in Nat /\ t <= End(b)
    BY <1>1, <2>1, StopsAre
  <2>3. SUFFICES ASSUME t < q PROVE FALSE
    BY <1>7, <2>2
  <2>4. /\ ~EndsRow(b, t)
        /\ s[Logical(b, t) + 1] \notin Cont
        /\ Logical(b, p) <= Logical(b, t)
        /\ Logical(b, t) < k
    BY <1>6, <1>7, <2>1, <2>3, NoEndBefore DEF s, k, r
  <2>5. Logical(b, t) \in Nat
    BY <1>1, <2>1, StopsKeepOrder
  <2>6. Cols(s, Logical(b, p), Logical(b, t)) = c
    BY <2>1, <2>4, ColumnsAgree DEF s
  <2>7. Logical(b, t) + 1 \in (Logical(b, p) + 1)..k /\ Logical(b, t) < Logical(b, t) + 1
    BY <1>7, <2>4, <2>5
  <2>8. /\ Cols(s, Logical(b, p), Logical(b, t)) < Cols(s, Logical(b, p), k)
        /\ Cols(s, Logical(b, p), k) \in Nat
    <3>1. Logical(b, t) <= k
      BY <1>7, <2>4, <2>5
    <3>2. QED
      BY <1>1, <1>5, <1>7, <2>4, <2>5, <2>7, <3>1, ColsGrow
  <2>9. QED
    BY <1>5, <2>6, <2>8
<1>10. Min(S \cup {Off(b)}) = q
  <2>1. S \cup {Off(b)} \in SUBSET Nat
    BY <1>1, <1>9
  <2>2. q <= Off(b)
    BY <1>1, <1>8, <1>9
  <2> HIDE DEF S
  <2>3. QED
    BY <1>8, <1>9, <2>1, <2>2, LeastIs
<1>11. StopAt(b, r, c) = q
  BY <1>4, <1>10 DEF StopAt
<1>12. QED
  BY <1>11 DEF s, k, r, c

\* The walk to the end of a row comes to its last place, and the length of the
\* row is the column of that.
LEMMA RowEndFound ==
    ASSUME NEW b, Plain(b), NEW r, NEW p \in Stops(b),
           StartsRow(Content(b), Logical(b, p), r)
    PROVE  /\ LineEnd(b, p) \in Stops(b)
           /\ p <= LineEnd(b, p)
           /\ LineEnd(b, p) = End(b) \/ EndsRow(b, LineEnd(b, p))
           /\ RowAt(Content(b), Logical(b, LineEnd(b, p))) = r
           /\ RowLength(b, r) = ColAt(Content(b), Logical(b, LineEnd(b, p)))
           /\ RowLength(b, r)
                 = Cols(Content(b), Logical(b, p), Logical(b, LineEnd(b, p)))
<1> DEFINE s == Content(b)
           e == LineEnd(b, p)
           S == {t \in Visited(b) : p <= t /\ (EndsRow(b, t) \/ t >= End(b))}
<1>1. /\ IsGapBuffer(b) /\ Visited(b) = Stops(b) /\ s \in Seq(Bytes)
      /\ Len(s) = TextLen(b) /\ TextLen(b) \in Nat
      /\ End(b) \in Nat /\ End(b) \in Stops(b)
  BY TextIs
<1>2. \A t \in Stops(b) : t \in Nat /\ t <= End(b)
  BY <1>1, StopsAre
<1>3. S \in SUBSET Nat /\ End(b) \in S
  BY <1>1, <1>2
<1>4. e \in S /\ \A t \in S : e <= t
  <2>1. e = Min(S)
    BY DEF LineEnd
  <2> HIDE DEF S, e
  <2>2. QED
    BY <1>3, <2>1, MinIs
<1>5. /\ e \in Stops(b) /\ p <= e
      /\ e = End(b) \/ EndsRow(b, e)
  <2>1. e \in Stops(b) /\ p <= e /\ (EndsRow(b, e) \/ e >= End(b))
    BY <1>1, <1>4
  <2> HIDE DEF e, S
  <2>2. e \in Nat /\ e <= End(b)
    BY <1>2, <2>1
  <2>3. QED
    BY <1>1, <2>1, <2>2
<1>6. ASSUME NEW t \in Stops(b), p <= t, t < e
      PROVE  ~EndsRow(b, t)
  <2> HIDE DEF e
  <2>1. EndsRow(b, t) => t \in S
    BY <1>1, <1>6
  <2>2. t \in Nat /\ e \in Nat
    BY <1>2, <1>5
  <2> HIDE DEF S
  <2>3. QED
    BY <1>4, <1>6, <2>1, <2>2
<1> HIDE DEF S, e, s
<1>7. /\ Logical(b, p) <= Logical(b, e)
      /\ Logical(b, p) \in Nat /\ Logical(b, e) \in Nat
  BY <1>1, <1>5, StopsKeepOrder
<1>8. Logical(b, e) <= TextLen(b)
  BY <1>1, <1>5, StopIsBoundary
<1>9. RowAt(s, Logical(b, p)) = r
  BY DEF StartsRow, s
<1>10. RowAt(s, Logical(b, e)) = r
  <2>1. SUFFICES ASSUME RowAt(s, Logical(b, p)) # RowAt(s, Logical(b, e))
                 PROVE  FALSE
    BY <1>9
  <2>2. PICK i \in (Logical(b, p) + 1)..Logical(b, e) : s[i] \in Newlines
    BY <1>7, <2>1, RowsGrow
  <2>3. i - 1 \in 0..(TextLen(b) - 1) /\ i - 1 + 1 = i
    BY <1>1, <1>7, <1>8
  <2>4. PICK t \in TextOffsets(b) : Logical(b, t) = i - 1
    BY <1>1, <2>3, OffsetOfByte
  <2>5. s[i] = b.text[t]
    BY <1>1, <2>3, <2>4, ByteOfText DEF s
  <2>6. t \in Stops(b)
    <3>1. b.text[t] \notin Cont
      BY <2>2, <2>5, WalkAssumption
    <3>2. QED
      BY <3>1 DEF TextOffsets, CharStarts, Stops
  <2>7. p <= t /\ t < e
    <3>1. Logical(b, p) <= Logical(b, t) /\ Logical(b, t) < Logical(b, e)
      BY <1>7, <2>4
    <3>2. QED
      BY <1>1, <1>5, <2>6, <3>1, StopsKeepOrder
  <2>8. QED
    BY <1>6, <2>2, <2>5, <2>6, <2>7 DEF EndsRow
<1>11. RowLength(b, r) = Columns(b, Visited(b), p, e)
  BY RowFound DEF RowLength, e
<1>12. RowLength(b, r) = Cols(s, Logical(b, p), Logical(b, e))
  BY <1>5, <1>11, ColumnsAgree DEF s
<1>13. Logical(b, e) \in Boundaries(s)
  BY <1>1, <1>5, StopIsBoundary DEF s
<1>14. ColAt(s, Logical(b, e)) = Cols(s, Logical(b, p), Logical(b, e))
  BY <1>1, <1>10, <1>13, ColIs DEF s
<1>15. QED
  BY <1>5, <1>10, <1>12, <1>14 DEF e, s

\* No place of the row is behind its end, none has a larger column.
LEMMA RowEndIsLast ==
    ASSUME NEW b, Plain(b), NEW r, NEW p \in Stops(b),
           StartsRow(Content(b), Logical(b, p), r),
           NEW q \in Stops(b), RowAt(Content(b), Logical(b, q)) = r
    PROVE  /\ p <= q
           /\ q <= LineEnd(b, p)
           /\ Logical(b, q) <= Logical(b, LineEnd(b, p))
           /\ ColAt(Content(b), Logical(b, q)) \in Nat
           /\ ColAt(Content(b), Logical(b, q)) = Cols(Content(b), Logical(b, p), Logical(b, q))
           /\ ColAt(Content(b), Logical(b, q)) <= RowLength(b, r)
<1> DEFINE s == Content(b)
           e == LineEnd(b, p)
<1>1. /\ IsGapBuffer(b) /\ s \in Seq(Bytes)
      /\ Len(s) = TextLen(b) /\ TextLen(b) \in Nat
      /\ End(b) \in Nat
  BY TextIs
<1>2. /\ e \in Stops(b) /\ p <= e
      /\ e = End(b) \/ EndsRow(b, e)
      /\ RowAt(s, Logical(b, e)) = r
      /\ RowLength(b, r) = Cols(s, Logical(b, p), Logical(b, e))
  BY RowEndFound
<1> HIDE DEF s, e
<1>3. Logical(b, q) \in Boundaries(s)
  BY <1>1, StopIsBoundary DEF s
<1>4. Logical(b, p) <= Logical(b, q) /\ RowAt(s, Logical(b, p)) = r
      /\ RowAt(s, Logical(b, q)) = r
  BY <1>3 DEF StartsRow, s
<1>5. /\ p <= q /\ p \in Nat /\ q \in Nat
      /\ Logical(b, p) \in Nat /\ Logical(b, q) \in Nat
  BY <1>1, <1>4, StopsKeepOrder
<1>6. e \in Nat /\ Logical(b, e) \in Nat /\ Logical(b, e) <= TextLen(b)
      /\ q <= End(b)
  BY <1>1, <1>2, StopsKeepOrder, StopIsBoundary, StopsAre
<1>7. q <= e
  <2>1. SUFFICES ASSUME e < q PROVE FALSE
    BY <1>5, <1>6
  <2>2. e # End(b)
    BY <1>1, <1>5, <1>6, <2>1
  <2>3. ~EndsRow(b, e)
    BY <1>2, <1>4, <1>5, <2>1, NoEndBefore DEF s
  <2>4. QED
    BY <1>2, <2>2, <2>3
<1>8. Logical(b, q) <= Logical(b, e)
  BY <1>1, <1>2, <1>7, StopsKeepOrder
<1>9. ColAt(s, Logical(b, q)) = Cols(s, Logical(b, p), Logical(b, q))
  BY <1>1, <1>3, <1>4, ColIs DEF s
<1>10. /\ Cols(s, Logical(b, p), Logical(b, q)) \in Nat
       /\ Cols(s, Logical(b, p), Logical(b, q)) <= Cols(s, Logical(b, p), Logical(b, e))
  BY <1>1, <1>5, <1>6, <1>8, ColsGrow
<1>11. QED
  BY <1>2, <1>5, <1>7, <1>8, <1>9, <1>10 DEF s, e

\* The position that belongs to an offset of the walk.
LEMMA PointIsPlace ==
    ASSUME NEW b, IsGapBuffer(b), NEW p \in Stops(b)
    PROVE  PointFor(b, p) = Logical(b, p)
<1>1. /\ b.gap_start \in Nat /\ Gap(b) \in Nat
      /\ b.gap_end = b.gap_start + Gap(b)
  BY GapIs
<1>2. p \in Nat /\ (p < b.gap_start \/ b.gap_end <= p)
  BY StopsAre
<1>3. QED
  BY <1>1, <1>2 DEF PointFor, Logical

\* On a buffer on which nothing misleads them the walks find what is there.
LEMMA WalksFind ==
    ASSUME NEW b, Plain(b)
    PROVE  /\ MaxRow(b) = RowAt(Content(b), Len(Content(b)))
           /\ \A k \in Boundaries(Content(b)) :
                 LET r == RowAt(Content(b), k)
                     c == ColAt(Content(b), k)
                 IN  /\ PointFor(b, StopAt(b, r, c)) = k
                     /\ c <= RowLength(b, r)
                     /\ \E j \in Boundaries(Content(b)) :
                           /\ RowAt(Content(b), j) = r
                           /\ ColAt(Content(b), j) = RowLength(b, r)
<1>1. /\ IsGapBuffer(b)
      /\ Len(Content(b)) = TextLen(b)
      /\ End(b) \in Stops(b)
      /\ Logical(b, End(b)) = TextLen(b)
  BY TextIs
<1>2. MaxRow(b) = RowAt(Content(b), Len(Content(b)))
  BY <1>1, RowsAgree DEF MaxRow
<1>3. ASSUME NEW k \in Boundaries(Content(b)), NEW r, NEW c,
             r = RowAt(Content(b), k), c = ColAt(Content(b), k)
      PROVE  /\ PointFor(b, StopAt(b, r, c)) = k
             /\ c <= RowLength(b, r)
             /\ \E j \in Boundaries(Content(b)) :
                   /\ RowAt(Content(b), j) = r
                   /\ ColAt(Content(b), j) = RowLength(b, r)
  <2>1. PICK q \in Stops(b) : Logical(b, q) = k
    BY <1>1, BoundaryIsStop
  <2>2. PointFor(b, StopAt(b, r, c)) = k
    BY <1>1, <1>3, <2>1, StopFound, PointIsPlace
  <2>3. PICK p \in Stops(b) : StartsRow(Content(b), Logical(b, p), r)
    BY <1>3, RowIsThere
  <2>4. c <= RowLength(b, r)
    BY <1>3, <2>1, <2>3, RowEndIsLast
  <2>5. /\ LineEnd(b, p) \in Stops(b)
        /\ RowAt(Content(b), Logical(b, LineEnd(b, p))) = r
        /\ RowLength(b, r) = ColAt(Content(b), Logical(b, LineEnd(b, p)))
    BY <2>3, RowEndFound
  <2>6. Logical(b, LineEnd(b, p)) \in Boundaries(Content(b))
    BY <1>1, <2>5, StopIsBoundary
  <2>7. QED
    BY <2>2, <2>4, <2>5, <2>6
<1>4. QED
  BY <1>2, <1>3

-----------------------------------------------------------------------------
(* The walks of the editor *)

\* What a command does to the table of buffers.
BufferStep ==
    \/ \E g \in Nat : Put(0, MoveGap(buf, g))
    \/ \E s \in Inputs : s # <<>> /\ Len(s) <= Gap(buf) /\ Put(0, Store(buf, s))
    \/ StartsBefore(buf) # {} /\ Put(0, CutBack(buf, LastStart(buf)))
    \/ \E causes : \E outcome \in Procs \ {"running"} : Fail(outcome, causes)

LEMMA GoToSteps ==
    ASSUME EditorInv, NEW r, NEW c, GoTo(r, c)
    PROVE  \/ \E g \in Nat : Put(0, MoveGap(buf, g))
           \/ Fail("segv", {})
<1>1. PointFor(buf, StopAt(buf, r, c)) \in Nat /\ TextLen(buf) \in Nat
  BY BufIs, AnswersAre, PointIs, Fields
<1>2. QED
  BY <1>1 DEF GoTo

LEMMA EveryStep ==
    ASSUME EditorInv, EditorNext
    PROVE  BufferStep
<1>1. ASSUME NEW r, NEW c, GoTo(r, c)
      PROVE  BufferStep
  BY <1>1, GoToSteps DEF BufferStep, Procs
<1>2. ASSUME NEW s \in Inputs, TextInput(s)
      PROVE  BufferStep
  <2>1. s # <<>> /\ InsertUtf8(0, s) /\ buf = buffers[0]
    BY <1>2 DEF TextInput, buf
  <2>2. s \in Seq(Bytes) /\ Len(s) \in Nat /\ Gap(buf) \in Nat
    BY BufIs, InputAssumption, Fields
  <2>3. ~Fills(buf, s) => Len(s) <= Gap(buf)
    BY <2>2 DEF Fills
  <2>4. Len(s) = Gap(buf) => Len(s) <= Gap(buf)
    BY <2>2
  <2>5. \/ Len(s) <= Gap(buf) /\ Put(0, Store(buf, s))
        \/ Fail("segv", {"terminator"})
        \/ Fail("segv", {"terminator", "stale"})
        \/ Fail("corrupt", {"overrun"})
    BY <2>1, <2>3, <2>4, Zenon DEF InsertUtf8
  <2>6. QED
    BY <2>1, <2>5 DEF BufferStep, Procs
<1>3. ASSUME DeleteUtf8(0)
      PROVE  BufferStep
  BY <1>3 DEF DeleteUtf8, BufferStep, Procs, buf
<1>4. QED
  BY <1>1, <1>2, <1>3
     DEF EditorNext, Up, Down, Left, Right, Click, Backspace

\* The editor keeps the one page it began with, since it does not survive the
\* growth of the gap; the byte behind the text stays '\0'.
PageInv ==
    /\ EditorInv
    /\ buf.size = PageSize
    /\ buf.text[End(buf)] = NUL
    /\ proc = "running" => stray = {}

LEMMA PageStarts ==
    ASSUME EditorInit
    PROVE  PageInv
<1>1. EditorInv
  BY EditorStarts
<1>2. 0 \in Slots /\ PageSize \in Nat /\ PageSize > 0
  BY EditorAssumption, SizeAssumption
<1>3. RoundUp(PageSize) = PageSize
  <2>1. (PageSize + PageSize - 1) \div PageSize = 1
    BY <1>2
  <2>2. QED
    BY <1>2, <2>1 DEF RoundUp
<1>4. buf = Blank(PageSize)
  BY <1>2, <1>3 DEF EditorInit, buf
<1>5. buf.size = PageSize /\ buf.text = [p \in 0..MaxText(PageSize) |-> NUL]
  BY <1>4 DEF Blank
<1>6. MaxText(PageSize) \in Nat
  BY <1>1, <1>5, BufIs, Fields
<1>7. buf.text[End(buf)] = NUL
  BY <1>5, <1>6 DEF End
<1>8. QED
  BY <1>1, <1>5, <1>7 DEF PageInv, EditorInit

LEMMA PageStays ==
    ASSUME PageInv, [EditorNext]_evars
    PROVE  PageInv'
<1>1. EditorInv'
  BY StepKeeps, StutterKeeps DEF PageInv
<1>2. /\ IsGapBuffer(buf)
      /\ MaxText(buf.size) \in Nat
      /\ End(buf) = MaxText(buf.size)
      /\ 0 \in Slots
      /\ DOMAIN buffers = Slots
      /\ buf.size = PageSize /\ buf.text[MaxText(buf.size)] = NUL
      /\ proc = "running" => stray = {}
  BY BufIs, Fields DEF PageInv, End, TypeOK
<1>3. ASSUME NEW m, Put(0, m), m.size = buf.size, m.text[MaxText(buf.size)] = NUL
      PROVE  PageInv'
  <2>1. buf' = m /\ proc' = proc /\ stray' = stray
    BY <1>2, <1>3 DEF Put, buf
  <2>2. buf'.size = PageSize /\ buf'.text[End(buf')] = NUL
    BY <1>2, <1>3, <2>1 DEF End
  <2>3. QED
    BY <1>1, <1>2, <2>1, <2>2 DEF PageInv
<1>4. CASE UNCHANGED evars
  <2>1. buf' = buf /\ proc' = proc /\ stray' = stray
    BY <1>4 DEF evars, buf
  <2>2. QED
    BY <1>1, <1>2, <2>1 DEF PageInv, End
<1>5. CASE EditorNext
  <2>1. ASSUME NEW g \in Nat, Put(0, MoveGap(buf, g))
        PROVE  PageInv'
    BY <1>2, <1>3, <2>1, MoveGapKeepsContent
  <2>2. ASSUME NEW s \in Inputs, Len(s) <= Gap(buf), Put(0, Store(buf, s))
        PROVE  PageInv'
    <3>1. s \in Seq(Bytes)
      BY InputAssumption
    <3>2. /\ MaxText(buf.size) \in 0..MaxText(buf.size)
          /\ MaxText(buf.size) \notin buf.gap_start..(buf.gap_end - 1)
      BY <1>2, NotInGap
    <3>3. /\ Store(buf, s).size = buf.size
          /\ Store(buf, s).text[MaxText(buf.size)] = buf.text[MaxText(buf.size)]
      BY <1>2, <2>2, <3>1, <3>2, StoreSplices
    <3>4. QED
      BY <1>2, <1>3, <2>2, <3>3
  <2>3. ASSUME StartsBefore(buf) # {}, Put(0, CutBack(buf, LastStart(buf)))
        PROVE  PageInv'
    <3>1. LastStart(buf) \in Nat /\ LastStart(buf) <= buf.gap_start
      BY <1>2, <2>3, LastStartIsStart, Fields
    <3>2. /\ CutBack(buf, LastStart(buf)).size = buf.size
          /\ CutBack(buf, LastStart(buf)).text = buf.text
      BY <1>2, <3>1, CutBackCuts
    <3>3. QED
      BY <1>2, <1>3, <2>3, <3>2
  <2>4. ASSUME NEW outcome \in Procs \ {"running"}, NEW causes, Fail(outcome, causes)
        PROVE  PageInv'
    <3>1. buf' = buf /\ proc' # "running"
      BY <2>4 DEF Fail, buf
    <3>2. QED
      BY <1>1, <1>2, <3>1 DEF PageInv, End
  <2>5. BufferStep
    BY <1>5, EveryStep DEF PageInv
  <2>6. QED
    BY <2>1, <2>2, <2>3, <2>4, <2>5 DEF BufferStep
<1>6. QED
  BY <1>4, <1>5

LEMMA PageInvariant == EditorSpec => []PageInv
BY PageStarts, PageStays, PTL DEF EditorSpec

LEMMA SoundIsPlain ==
    ASSUME PageInv, Sound
    PROVE  Plain(buf)
BY BufIs DEF PageInv, Sound, Plain

\* Whatever the gap went through, where nothing misleads a walk it finds the
\* number of rows, the length of each, and for the row and column of each
\* place the offset that brings the gap there (buffers.c:182, 437, 474).
THEOREM WalksAlwaysFind == EditorSpec => []WalksFindText
<1>1. PageInv => WalksFindText
  <2> SUFFICES ASSUME PageInv PROVE WalksFindText
    OBVIOUS
  <2>1. Sound => Plain(buf)
    BY SoundIsPlain
  <2>2. QED
    BY <2>1, WalksFind DEF WalksFindText, Text
<1>2. QED
  BY <1>1, PageInvariant, PTL

-----------------------------------------------------------------------------
(* Where commands go *)

\* Rows are numbered without a gap: every row up to the last one is there.
LEMMA RowExists ==
    ASSUME NEW s \in Seq(Bytes), NEW n \in Nat, n <= RowAt(s, Len(s))
    PROVE  \E k \in Boundaries(s) : RowAt(s, k) = n
<1>1. Len(s) \in Nat
  BY LenProperties
<1>2. \A k \in Nat : RowAt(s, k) \in Nat
  BY RowsGrow
<1> DEFINE S == {k \in 0..Len(s) : RowAt(s, k) >= n}
<1>3. Len(s) \in S /\ S \in SUBSET Nat
  BY <1>1, <1>2
<1>4. PICK k \in S : \A j \in S : k <= j
  BY <1>3, LeastNatural
<1>5. k \in Nat /\ k <= Len(s) /\ RowAt(s, k) >= n
  BY <1>1
<1>6. RowAt(s, k) = n
  <2>1. CASE k = 0
    <3>1. {i \in 1..0 : s[i] \in Newlines} = {}
      OBVIOUS
    <3>2. RowAt(s, 0) = 0
      BY <3>1, FS_EmptySet DEF RowAt
    <3>3. QED
      BY <1>5, <2>1, <3>2
  <2>2. CASE k # 0
    <3>1. k - 1 \in Nat /\ k - 1 \in 0..Len(s) /\ ~(k <= k - 1)
      BY <1>1, <1>5, <2>2
    <3>2. RowAt(s, k - 1) < n
      <4>1. k - 1 \notin S
        BY <1>4, <3>1
      <4>2. ~(RowAt(s, k - 1) >= n) /\ RowAt(s, k - 1) \in Nat
        BY <1>2, <3>1, <4>1
      <4>3. QED
        BY <4>2
    <3> DEFINE A == {i \in 1..(k - 1) : s[i] \in Newlines}
               B == {i \in 1..k : s[i] \in Newlines}
    <3>3. B \in SUBSET (A \cup {k})
      BY <1>5, <2>2
    <3>4. IsFiniteSet(A)
      <4>1. IsFiniteSet(1..(k - 1))
        BY <3>1, FS_Interval
      <4>2. QED
        BY <4>1, FS_Subset
    <3>5. k \notin A
      BY <1>5
    <3> HIDE DEF A, B
    <3>6. /\ Cardinality(A \cup {k}) = Cardinality(A) + 1
          /\ Cardinality(B) <= Cardinality(A \cup {k})
      BY <3>3, <3>4, <3>5, FS_AddElement, FS_Subset
    <3>7. RowAt(s, k) = Cardinality(B) /\ RowAt(s, k - 1) = Cardinality(A)
      BY DEF RowAt, A, B
    <3>8. RowAt(s, k) \in Nat /\ RowAt(s, k - 1) \in Nat
      BY <1>2, <1>5, <3>1
    <3>9. QED
      BY <1>5, <3>2, <3>6, <3>7, <3>8
  <2>3. QED
    BY <2>1, <2>2
<1> DEFINE T == {j \in Boundaries(s) : k <= j}
<1>7. Len(s) \in T /\ T \in SUBSET Nat
  <2>1. Len(s) \in Boundaries(s)
    BY <1>1 DEF Boundaries
  <2>2. QED
    BY <1>5, <2>1, BoundariesAre
<1>8. PICK j \in T : \A i \in T : j <= i
  BY <1>7, LeastNatural
<1>9. j \in Boundaries(s) /\ j \in Nat /\ j <= Len(s) /\ k <= j
  BY BoundariesAre
<1>10. ASSUME NEW i \in (k + 1)..j, s[i] \in Newlines
       PROVE  FALSE
  <2>1. i - 1 \in 0..Len(s) /\ i - 1 + 1 = i /\ k <= i - 1 /\ ~(j <= i - 1)
    BY <1>1, <1>5, <1>9
  <2>2. s[i] \notin Cont
    BY <1>10, WalkAssumption
  <2>3. i - 1 \in T
    BY <2>1, <2>2 DEF Boundaries
  <2>4. QED
    BY <1>8, <2>1, <2>3
<1>11. RowAt(s, k) = RowAt(s, j)
  BY <1>5, <1>9, <1>10, RowsGrow
<1>12. QED
  BY <1>6, <1>9, <1>11

\* A walk to a column that the row is long enough for only leaves the mapping
\* in the last row, where the column is one inside a tab.
LEMMA OnlyTabsAreMissed ==
    ASSUME NEW b, Plain(b), NEW k \in Boundaries(Content(b)), NEW c \in Nat,
           c <= RowLength(b, RowAt(Content(b), k)),
           StopAt(b, RowAt(Content(b), k), c) = Off(b)
    PROVE  /\ RowAt(Content(b), k) = RowAt(Content(b), Len(Content(b)))
           /\ PositionsAt(Content(b), RowAt(Content(b), k), c) = {}
           /\ \E j \in Boundaries(Content(b)) :
                 /\ RowAt(Content(b), j) = RowAt(Content(b), k)
                 /\ ColAt(Content(b), j) > c
<1> DEFINE s == Content(b)
           r == RowAt(s, k)
<1>1. /\ IsGapBuffer(b) /\ Visited(b) = Stops(b)
      /\ Len(s) = TextLen(b) /\ Logical(b, End(b)) = TextLen(b)
      /\ End(b) \in Nat /\ Off(b) = End(b) + 1 /\ Off(b) \in Nat
  BY TextIs
<1>2. PICK p \in Stops(b) : StartsRow(s, Logical(b, p), r)
  BY RowIsThere
<1> DEFINE e == LineEnd(b, p)
<1>3. /\ e \in Stops(b) /\ p <= e
      /\ e = End(b) \/ EndsRow(b, e)
      /\ RowAt(s, Logical(b, e)) = r
      /\ RowLength(b, r) = ColAt(s, Logical(b, e))
  BY <1>2, RowEndFound
<1>4. Min({t \in Visited(b) : Rows(b, Visited(b), 0, t) = r} \cup {Off(b)}) = p
  BY <1>2, RowFound
<1> HIDE DEF s, r, e
<1>5. PositionsAt(s, r, c) = {}
  <2>1. SUFFICES ASSUME NEW j \in PositionsAt(s, r, c) PROVE FALSE
    OBVIOUS
  <2>2. j \in Boundaries(s) /\ RowAt(s, j) = r /\ ColAt(s, j) = c
    BY DEF PositionsAt
  <2>3. PICK q \in Stops(b) : Logical(b, q) = j
    BY <1>1, <2>2, BoundaryIsStop DEF s
  <2>4. StopAt(b, r, c) = q
    BY <2>2, <2>3, StopFound DEF s
  <2>5. q \in Nat /\ q <= End(b)
    BY <1>1, StopsAre
  <2>6. QED
    BY <1>1, <2>4, <2>5 DEF r, s
<1>6. Logical(b, e) \in Boundaries(s)
  BY <1>1, <1>3, StopIsBoundary DEF s
<1>7. c < RowLength(b, r)
  <2>1. c # RowLength(b, r)
    BY <1>3, <1>5, <1>6 DEF PositionsAt
  <2>2. c <= RowLength(b, r) /\ RowLength(b, r) \in Nat
    BY <1>1, AnswersAre DEF r, s
  <2>3. QED
    BY <2>1, <2>2
<1>8. e = End(b)
  <2>1. SUFFICES ASSUME EndsRow(b, e) PROVE FALSE
    BY <1>3
  <2> DEFINE S == {q \in Visited(b) :
                     p <= q /\ (EndsRow(b, q) \/ Columns(b, Visited(b), p, q) = c)}
                  \cup {Off(b)}
  <2>2. S \in SUBSET Nat /\ e \in S
    BY <1>1, <1>3, <2>1, StopsAre
  <2>3. StopAt(b, r, c) = Min(S)
    BY <1>4 DEF StopAt
  <2> HIDE DEF S
  <2>4. Min(S) <= e /\ Min(S) \in S
    BY <2>2, MinIs
  <2>5. e \in Nat /\ e <= End(b)
    BY <1>1, <1>3, StopsAre
  <2>6. QED
    BY <1>1, <2>3, <2>4, <2>5 DEF r, s
<1>9. r = RowAt(s, Len(s))
  BY <1>1, <1>3, <1>8
<1>10. ColAt(s, Logical(b, e)) > c
  <2>1. RowLength(b, r) > c
    <3>1. RowLength(b, r) \in Nat
      BY <1>1, AnswersAre
    <3>2. QED
      BY <1>7, <3>1
  <2>2. QED
    BY <1>3, <2>1
<1>11. QED
  BY <1>3, <1>5, <1>6, <1>9, <1>10 DEF s, r

\* The widths are numbers, and no character has none.
LEMMA WidthIs ==
    ASSUME NEW c
    PROVE  Width(c) \in Nat /\ Width(c) >= 1
BY WalkAssumption DEF Width

\* Columns are numbers.
LEMMA ColIsNat ==
    ASSUME NEW s, NEW k \in Nat
    PROVE  ColAt(s, k) \in Nat
<1> DEFINE line == {i \in 1..k : s[i] \notin Cont /\ RowAt(s, i) = RowAt(s, k)}
           tabs == {i \in line : s[i] = Tab}
           ends == {i \in line : s[i] \in Newlines}
<1>1. IsFiniteSet(1..k)
  BY FS_Interval
<1>2. \A S \in SUBSET (1..k) : Cardinality(S) \in Nat
  BY <1>1, FS_Subset, FS_CardinalityType
<1>3. Cardinality(line \ (tabs \cup ends)) \in Nat /\ Cardinality(tabs) \in Nat
  BY <1>2
<1>4. ColAt(s, k) = Cardinality(line \ (tabs \cup ends)) + TabSpaces * Cardinality(tabs)
  BY DEF ColAt
<1> HIDE DEF line, tabs, ends
<1>5. QED
  BY <1>3, <1>4, WalkAssumption

\* What one character, from place m to place k, adds to the row and the column.
LEMMA OneChar ==
    ASSUME NEW s, NEW m \in Nat, NEW k \in Nat, m < k,
           s[m + 1] \notin Cont, \A i \in (m + 2)..k : s[i] \in Cont
    PROVE  /\ s[m + 1] \in Newlines =>
                 RowAt(s, k) = RowAt(s, m) + 1 /\ ColAt(s, k) = 0
           /\ s[m + 1] \notin Newlines =>
                 /\ RowAt(s, k) = RowAt(s, m)
                 /\ ColAt(s, k) = ColAt(s, m) + Width(s[m + 1])
<1>1. \A i \in 1..k : i \in 1..m \/ i = m + 1 \/ s[i] \in Cont
  <2>1. ASSUME NEW i \in 1..k PROVE i \in 1..m \/ i = m + 1 \/ i \in (m + 2)..k
    OBVIOUS
  <2>2. QED
    BY <2>1
<1>2. /\ \A i \in 1..m : i \in 1..k /\ i # m + 1 /\ i \in Nat /\ i <= m
      /\ m + 1 \in 1..k /\ m + 1 \in Nat /\ m <= m + 1 /\ m + 1 <= k /\ m <= k
  OBVIOUS
<1>3. /\ \A x \in Newlines : x \notin Cont /\ x # Tab
      /\ Tab \notin Cont
  BY WalkAssumption
<1>4. ASSUME NEW n \in Nat
      PROVE  /\ IsFiniteSet(1..n)
             /\ \A S \in SUBSET (1..n) : IsFiniteSet(S) /\ Cardinality(S) \in Nat
  <2>1. IsFiniteSet(1..n)
    BY FS_Interval
  <2>2. QED
    BY <2>1, FS_Subset, FS_CardinalityType
<1>5. ASSUME NEW S \in SUBSET (1..m)
      PROVE  Cardinality(S \cup {m + 1}) = Cardinality(S) + 1
  <2>1. m + 1 \notin S /\ IsFiniteSet(S)
    BY <1>2, <1>4
  <2>2. QED
    BY <2>1, FS_AddElement
<1> DEFINE A == {i \in 1..m : s[i] \in Newlines}
           B == {i \in 1..k : s[i] \in Newlines}
<1>6. RowAt(s, m) = Cardinality(A) /\ RowAt(s, k) = Cardinality(B)
  BY DEF RowAt
<1>7. A \in SUBSET (1..m)
  OBVIOUS
<1>8. s[m + 1] \in Newlines => B = A \cup {m + 1}
  BY <1>1, <1>2, <1>3
<1>9. s[m + 1] \notin Newlines => B = A
  BY <1>1, <1>2, <1>3
<1> HIDE DEF A, B
<1>10. /\ RowAt(s, m) \in Nat /\ RowAt(s, k) \in Nat
       /\ s[m + 1] \in Newlines => RowAt(s, k) = RowAt(s, m) + 1
       /\ s[m + 1] \notin Newlines => RowAt(s, k) = RowAt(s, m)
  <2>1. Cardinality(A) \in Nat /\ Cardinality(A \cup {m + 1}) = Cardinality(A) + 1
    BY <1>4, <1>5, <1>7
  <2>2. CASE s[m + 1] \in Newlines
    <3>1. Cardinality(B) = Cardinality(A) + 1
      BY <1>8, <2>1, <2>2
    <3>2. QED
      BY <1>6, <2>1, <2>2, <3>1
  <2>3. CASE s[m + 1] \notin Newlines
    <3>1. Cardinality(B) = Cardinality(A)
      BY <1>9, <2>3
    <3>2. QED
      BY <1>6, <2>1, <2>3, <3>1
  <2>4. QED
    BY <2>2, <2>3
<1> DEFINE line(n) == {i \in 1..n : s[i] \notin Cont /\ RowAt(s, i) = RowAt(s, n)}
           tabs(n) == {i \in line(n) : s[i] = Tab}
           rest(n) == line(n) \ (tabs(n) \cup {i \in line(n) : s[i] \in Newlines})
<1>11. \A n : ColAt(s, n) = Cardinality(rest(n)) + TabSpaces * Cardinality(tabs(n))
  BY DEF ColAt
<1>12. CASE s[m + 1] \in Newlines
  <2>1. ASSUME NEW i \in line(k)
        PROVE  i = m + 1
    <3>1. i \in 1..m => RowAt(s, i) <= RowAt(s, m) /\ RowAt(s, i) \in Nat
      BY <1>2, RowsGrow
    <3>2. i \notin 1..m
      BY <1>10, <1>12, <3>1
    <3>3. QED
      BY <1>1, <3>2
  <2>2. rest(k) = {} /\ tabs(k) = {}
    BY <1>3, <1>12, <2>1
  <2> HIDE DEF rest, tabs, line
  <2>3. ColAt(s, k) = 0 + TabSpaces * 0
    BY <1>11, <2>2, FS_EmptySet
  <2>4. ColAt(s, k) = 0
    BY <2>3, WalkAssumption
  <2>5. QED
    BY <1>10, <1>12, <2>4
<1>13. CASE s[m + 1] \notin Newlines
  <2>1. RowAt(s, m + 1) = RowAt(s, m)
    <3>1. /\ RowAt(s, m) <= RowAt(s, m + 1) /\ RowAt(s, m + 1) <= RowAt(s, k)
          /\ RowAt(s, m + 1) \in Nat
      BY <1>2, RowsGrow
    <3>2. QED
      BY <1>10, <1>13, <3>1
  <2>2. line(k) = line(m) \cup {m + 1}
    BY <1>1, <1>2, <1>10, <1>13, <2>1
  <2>3. line(m) \in SUBSET (1..m) /\ m + 1 \notin line(m)
    BY <1>2
  <2> HIDE DEF line
  <2>4. tabs(m) \in SUBSET (1..m) /\ rest(m) \in SUBSET (1..m)
    BY <2>3
  <2>5. CASE s[m + 1] = Tab
    <3>1. tabs(k) = tabs(m) \cup {m + 1} /\ rest(k) = rest(m)
      BY <1>13, <2>2, <2>3, <2>5
    <3> HIDE DEF tabs, rest
    <3>2. /\ Cardinality(tabs(k)) = Cardinality(tabs(m)) + 1
          /\ Cardinality(tabs(m)) \in Nat /\ Cardinality(rest(m)) \in Nat
      BY <1>4, <1>5, <2>4, <3>1
    <3>3. /\ ColAt(s, k) = Cardinality(rest(m)) + TabSpaces * (Cardinality(tabs(m)) + 1)
          /\ ColAt(s, m) = Cardinality(rest(m)) + TabSpaces * Cardinality(tabs(m))
      BY <1>11, <3>1, <3>2
    <3>4. Width(s[m + 1]) = TabSpaces /\ TabSpaces \in Nat
      BY <2>5, WalkAssumption DEF Width
    <3>5. ColAt(s, k) = ColAt(s, m) + TabSpaces
      BY <3>2, <3>3, <3>4
    <3>6. QED
      BY <1>10, <1>13, <3>4, <3>5
  <2>6. CASE s[m + 1] # Tab
    <3>1. rest(k) = rest(m) \cup {m + 1} /\ tabs(k) = tabs(m)
      BY <1>13, <2>2, <2>3, <2>6
    <3> HIDE DEF tabs, rest
    <3>2. /\ Cardinality(rest(k)) = Cardinality(rest(m)) + 1
          /\ Cardinality(tabs(m)) \in Nat /\ Cardinality(rest(m)) \in Nat
      BY <1>4, <1>5, <2>4, <3>1
    <3>3. /\ ColAt(s, k) = (Cardinality(rest(m)) + 1) + TabSpaces * Cardinality(tabs(m))
          /\ ColAt(s, m) = Cardinality(rest(m)) + TabSpaces * Cardinality(tabs(m))
      BY <1>11, <3>1, <3>2
    <3>4. Width(s[m + 1]) = 1 /\ TabSpaces * Cardinality(tabs(m)) \in Nat
      BY <2>6, <3>2, WalkAssumption DEF Width
    <3>5. ColAt(s, k) = ColAt(s, m) + 1
      BY <3>2, <3>3, <3>4
    <3>6. QED
      BY <1>10, <1>13, <3>4, <3>5
  <2>7. QED
    BY <2>5, <2>6
<1>14. QED
  BY <1>12, <1>13

\* A character counts with its width.
LEMMA ColsGrowBy ==
    ASSUME NEW s \in Seq(Bytes), NEW j \in Nat, NEW k \in Nat, NEW l \in Nat,
           j <= k, k < l, l <= Len(s), s[k + 1] \notin Cont
    PROVE  Cols(s, j, k) + Width(s[k + 1]) <= Cols(s, j, l)
<1> DEFINE a == Cardinality(InText(s, j, k, Printed))
           c == Cardinality(InText(s, j, l, Printed))
           d == Cardinality(InText(s, j, k, {Tab}))
           e == Cardinality(InText(s, j, l, {Tab}))
<1>1. k <= l /\ k + 1 \in (j + 1)..l /\ k < k + 1 /\ k + 1 \in 1..Len(s)
  OBVIOUS
<1>2. /\ a \in Nat /\ c \in Nat /\ d \in Nat /\ e \in Nat
      /\ a <= c /\ d <= e
  BY <1>1, InTextIs, InTextGrows
<1>3. TabSpaces \in Nat
  BY WalkAssumption
<1>4. Cols(s, j, k) = a + TabSpaces * d /\ Cols(s, j, l) = c + TabSpaces * e
  BY DEF Cols
<1>5. s[k + 1] \in Bytes
  BY <1>1, ElementOfSeq
<1>6. CASE s[k + 1] = Tab
  <2>1. d < e
    BY <1>1, <1>6, InTextGrows
  <2>2. Width(s[k + 1]) = TabSpaces
    BY <1>6 DEF Width
  <2> HIDE DEF a, c, d, e
  <2>3. d + 1 <= e
    BY <1>2, <2>1
  <2>4. TabSpaces * (d + 1) <= TabSpaces * e
    BY <1>2, <1>3, <2>3
  <2>5. TabSpaces * (d + 1) = TabSpaces * d + TabSpaces
    BY <1>2, <1>3
  <2>6. TabSpaces * d \in Nat /\ TabSpaces * e \in Nat
    BY <1>2, <1>3
  <2>7. QED
    BY <1>2, <1>3, <1>4, <2>2, <2>4, <2>5, <2>6
<1>7. CASE s[k + 1] # Tab
  <2>1. a < c
    <3>1. s[k + 1] \in Printed
      BY <1>5, <1>7 DEF Printed
    <3>2. QED
      BY <1>1, <3>1, InTextGrows
  <2>2. Width(s[k + 1]) = 1
    BY <1>7 DEF Width
  <2> HIDE DEF a, c, d, e
  <2>3. TabSpaces * d <= TabSpaces * e
    BY <1>2, <1>3
  <2>4. TabSpaces * d \in Nat /\ TabSpaces * e \in Nat
    BY <1>2, <1>3
  <2>5. QED
    BY <1>2, <1>4, <2>1, <2>2, <2>3, <2>4
<1>8. QED
  BY <1>6, <1>7

\* What becomes of a coordinate in 16 bits.
LEMMA NarrowIs ==
    ASSUME NEW n \in Nat
    PROVE  /\ Narrow(n) \in 0..(CoordRange - 1)
           /\ Narrow(n) <= n
           /\ n < CoordRange => Narrow(n) = n
           /\ \A w \in Nat :
                 w <= n /\ n < CoordRange => Narrow(n + CoordRange - w) = n - w
<1>1. CoordRange \in Nat \ {0}
  BY EditorAssumption
<1>2. ASSUME NEW w \in Nat, w <= n, n < CoordRange
      PROVE  (n + CoordRange - w) % CoordRange = n - w
  <2>1. n - w \in Nat /\ n - w < CoordRange
    BY <1>1, <1>2
  <2>2. n + CoordRange - w = (n - w) + CoordRange
    BY <1>1
  <2>3. ((n - w) + CoordRange) % CoordRange = n - w
    BY <1>1, <2>1
  <2>4. QED
    BY <2>2, <2>3
<1>3. n % CoordRange \in 0..(CoordRange - 1) /\ n % CoordRange <= n
  BY <1>1
<1>4. n < CoordRange => n % CoordRange = n
  BY <1>1
<1>5. QED
  BY <1>2, <1>3, <1>4 DEF Narrow

\* What Agrees and Sound say of the cursor: it is where the gap is, in a row of
\* which p is the start.
LEMMA CursorPlace ==
    ASSUME PageInv, Agrees, Sound
    PROVE  /\ Plain(buf) /\ Text = Content(buf) /\ Text \in Seq(Bytes)
           /\ buf.gap_start \in Boundaries(Text)
           /\ row = RowAt(Text, buf.gap_start) /\ col = ColAt(Text, buf.gap_start)
           /\ buf.gap_end \in Stops(buf)
           /\ Logical(buf, buf.gap_end) = buf.gap_start
           /\ row \in 0..(CoordRange - 1) /\ col \in 0..(CoordRange - 1)
           /\ col <= RowLength(buf, row)
<1>1. Plain(buf) /\ IsGapBuffer(buf)
  BY SoundIsPlain DEF Plain
<1>2. Text = Content(buf) /\ Text \in Seq(Bytes)
  BY <1>1, TextIs DEF Text
<1>3. /\ buf.gap_start \in Boundaries(Text)
      /\ row = RowAt(Text, buf.gap_start) /\ col = ColAt(Text, buf.gap_start)
  BY DEF Agrees, PositionsAt
<1>4. /\ buf.gap_start \in Nat /\ buf.gap_end \in Nat
      /\ buf.gap_start <= buf.gap_end /\ buf.gap_end <= End(buf)
      /\ buf.gap_end < End(buf) => buf.text[buf.gap_end] \notin Cont
  BY <1>1, Fields DEF End, Plain, OnCharBoundary
<1>5. buf.gap_end \in Stops(buf)
  BY <1>1, <1>4, IsStop
<1>6. Logical(buf, buf.gap_end) = buf.gap_start
  BY <1>4 DEF Logical, Gap
<1>7. row \in 0..(CoordRange - 1) /\ col \in 0..(CoordRange - 1)
  BY DEF PageInv, EditorInv, EditorTypeOK
<1>8. col <= RowLength(buf, row)
  <2>1. PICK p \in Stops(buf) : StartsRow(Content(buf), Logical(buf, p), row)
    BY <1>1, <1>2, <1>3, RowIsThere
  <2>2. QED
    BY <1>1, <1>2, <1>3, <1>5, <1>6, <2>1, RowEndIsLast
<1>9. QED
  BY <1>1, <1>2, <1>3, <1>5, <1>6, <1>7, <1>8

\* A command of the cursor goes to a row that is there, and not beyond its end.
GoesInText(r, c) ==
    /\ r \in 0..(CoordRange - 1)
    /\ c \in 0..(CoordRange - 1)
    /\ \E k \in Boundaries(Text) : RowAt(Text, k) = r
    /\ c <= RowLength(buf, r)
    /\ GoTo(r, c)

LEMMA ClipIs ==
    ASSUME PageInv, NEW r
    PROVE  /\ Clip(r, col) \in 0..(CoordRange - 1)
           /\ Clip(r, col) <= RowLength(buf, r)
<1>1. RowLength(buf, r) \in Nat
  BY BufIs, AnswersAre DEF PageInv
<1>2. col \in 0..(CoordRange - 1) /\ col \in Int
  BY EditorAssumption DEF PageInv, EditorInv, EditorTypeOK
<1>3. /\ Narrow(RowLength(buf, r)) \in 0..(CoordRange - 1)
      /\ Narrow(RowLength(buf, r)) <= RowLength(buf, r)
  BY <1>1, NarrowIs
<1>4. CASE RowLength(buf, r) < col
  BY <1>3, <1>4 DEF Clip
<1>5. CASE ~(RowLength(buf, r) < col)
  BY <1>1, <1>2, <1>5 DEF Clip
<1>6. QED
  BY <1>4, <1>5

\* The rows from 0 to the last one.
LEMMA RowsOfText ==
    ASSUME PageInv, Sound, NEW n \in Nat, n <= MaxRow(buf)
    PROVE  \E k \in Boundaries(Text) : RowAt(Text, k) = n
<1>1. Plain(buf)
  BY SoundIsPlain
<1>2. MaxRow(buf) = RowAt(Text, Len(Text)) /\ Text \in Seq(Bytes)
  BY <1>1, WalksFind, TextIs DEF Text
<1>3. QED
  BY <1>2, RowExists

LEMMA UpGoes ==
    ASSUME PageInv, Agrees, Sound, Up
    PROVE  \E r, c : GoesInText(r, c)
<1>1. /\ Text \in Seq(Bytes) /\ buf.gap_start \in Boundaries(Text)
      /\ row = RowAt(Text, buf.gap_start) /\ row \in 0..(CoordRange - 1)
  BY CursorPlace
<1>2. row > 0 /\ GoTo(row - 1, Clip(row - 1, col)) /\ CoordRange \in Nat \ {0}
  BY EditorAssumption DEF Up
<1>3. row - 1 \in 0..(CoordRange - 1) /\ row - 1 \in Nat /\ row - 1 <= row
  BY <1>1, <1>2
<1>4. buf.gap_start \in Nat /\ buf.gap_start <= Len(Text) /\ Len(Text) \in Nat
  BY <1>1, BoundariesAre
<1>5. row <= RowAt(Text, Len(Text)) /\ RowAt(Text, Len(Text)) \in Nat
  BY <1>1, <1>4, RowsGrow
<1>6. row - 1 <= RowAt(Text, Len(Text))
  BY <1>1, <1>3, <1>5
<1>7. \E k \in Boundaries(Text) : RowAt(Text, k) = row - 1
  BY <1>1, <1>3, <1>6, RowExists
<1>8. QED
  BY <1>2, <1>3, <1>7, ClipIs DEF GoesInText

LEMMA DownGoes ==
    ASSUME PageInv, Agrees, Sound, Down
    PROVE  \E r, c : GoesInText(r, c)
<1>1. row \in 0..(CoordRange - 1) /\ CoordRange \in Nat \ {0} /\ MaxRow(buf) \in Nat
  BY CursorPlace, EditorAssumption, BufIs, AnswersAre DEF PageInv
<1> DEFINE r == Narrow(row + 1)
<1>2. row < MaxRow(buf) /\ GoTo(r, Clip(r, col))
  BY DEF Down
<1>3. row + 1 \in Nat /\ row + 1 <= MaxRow(buf)
  BY <1>1, <1>2
<1>4. r \in 0..(CoordRange - 1) /\ r <= row + 1
  BY <1>3, NarrowIs
<1> HIDE DEF r
<1>5. r \in Nat /\ r <= MaxRow(buf)
  BY <1>1, <1>3, <1>4
<1>6. \E k \in Boundaries(Text) : RowAt(Text, k) = r
  BY <1>5, RowsOfText
<1>7. QED
  BY <1>2, <1>4, <1>6, ClipIs DEF GoesInText

\* The byte before the gap is a tab, with its columns before the cursor, or
\* the cursor goes back by one.
LEMMA LeftGoes ==
    ASSUME PageInv, Agrees, Sound, Left
    PROVE  \E r, c : GoesInText(r, c)
<1> DEFINE k == buf.gap_start
           w == IF k > 0 THEN Width(buf.text[k - 1]) ELSE 1
<1>1. /\ Plain(buf) /\ Text = Content(buf) /\ Text \in Seq(Bytes)
      /\ k \in Boundaries(Text)
      /\ row = RowAt(Text, k) /\ col = ColAt(Text, k)
      /\ row \in 0..(CoordRange - 1) /\ col \in 0..(CoordRange - 1)
      /\ col <= RowLength(buf, row)
  BY CursorPlace
<1>2. col > 0 /\ GoTo(row, Narrow(col + CoordRange - w))
  BY DEF Left
<1>3. /\ IsGapBuffer(buf) /\ k \in Nat /\ k <= TextLen(buf)
      /\ TextLen(buf) \in Nat
      /\ MaxText(buf.size) \in Nat
  BY <1>1, GapIs DEF Plain
<1>4. w \in Nat /\ w <= col
  <2>1. CASE k > 0 /\ buf.text[k - 1] = Tab
    <3>1. k - 1 \in TextOffsets(buf) /\ k - 1 < k /\ k - 1 \in Nat
      BY <1>3, <2>1 DEF TextOffsets
    <3>2. Logical(buf, k - 1) = k - 1
      BY <3>1 DEF Logical
    <3>3. Text[(k - 1) + 1] = Tab
      BY <1>1, <1>3, <2>1, <3>1, <3>2, ByteOfText
    <3>4. Tab \notin Cont /\ Tab \notin Newlines
      BY WalkAssumption
    <3>5. \A i \in ((k - 1) + 2)..k : Text[i] \in Cont
      BY <1>3
    <3>6. ColAt(Text, k) = ColAt(Text, k - 1) + Width(Tab)
      BY <1>3, <3>1, <3>3, <3>4, <3>5, OneChar
    <3>7. ColAt(Text, k - 1) \in Nat /\ Width(Tab) \in Nat
      BY <3>1, ColIsNat, WidthIs
    <3>8. w = Width(Tab)
      BY <2>1
    <3>9. QED
      BY <1>1, <3>6, <3>7, <3>8
  <2>2. CASE ~(k > 0 /\ buf.text[k - 1] = Tab)
    <3>1. w = 1
      BY <2>2 DEF Width
    <3>2. QED
      BY <1>1, <1>2, <3>1
  <2>3. QED
    BY <2>1, <2>2
<1> HIDE DEF w, k
<1>5. col \in Nat /\ col < CoordRange
  BY <1>1, EditorAssumption
<1>6. Narrow(col + CoordRange - w) = col - w
  BY <1>4, <1>5, NarrowIs
<1>7. RowLength(buf, row) \in Nat
  BY <1>3, AnswersAre
<1>8. col - w \in 0..(CoordRange - 1) /\ col - w <= RowLength(buf, row)
  BY <1>1, <1>4, <1>5, <1>7, EditorAssumption
<1>9. QED
  BY <1>1, <1>2, <1>6, <1>8 DEF GoesInText

\* The character behind the gap is still in the row.
LEMMA RightGoes ==
    ASSUME PageInv, Agrees, Sound, Right
    PROVE  \E r, c : GoesInText(r, c)
<1> DEFINE k == buf.gap_start
           q == buf.gap_end
           w == IF q < End(buf) THEN Width(buf.text[q]) ELSE 1
<1>1. /\ Plain(buf) /\ Text = Content(buf) /\ Text \in Seq(Bytes)
      /\ k \in Boundaries(Text)
      /\ row = RowAt(Text, k) /\ col = ColAt(Text, k)
      /\ q \in Stops(buf) /\ Logical(buf, q) = k
      /\ row \in 0..(CoordRange - 1) /\ col \in 0..(CoordRange - 1)
  BY CursorPlace
<1>2. col < RowLength(buf, row) /\ GoTo(row, Narrow(col + w))
  BY DEF Right
<1>3. /\ IsGapBuffer(buf) /\ Len(Text) = TextLen(buf) /\ TextLen(buf) \in Nat
      /\ End(buf) \in Nat
  BY <1>1, TextIs
<1> HIDE DEF k, q
<1>4. PICK p \in Stops(buf) : StartsRow(Text, Logical(buf, p), row)
  BY <1>1, RowIsThere
<1> DEFINE e == LineEnd(buf, p)
<1>5. /\ e \in Stops(buf)
      /\ RowAt(Text, Logical(buf, e)) = row
      /\ RowLength(buf, row) = Cols(Text, Logical(buf, p), Logical(buf, e))
      /\ RowLength(buf, row) = ColAt(Text, Logical(buf, e))
  BY <1>1, <1>4, RowEndFound
<1>6. /\ p <= q /\ q <= e
      /\ col = Cols(Text, Logical(buf, p), k)
  BY <1>1, <1>4, RowEndIsLast
<1> HIDE DEF e
<1>7. /\ p \in Nat /\ q \in Nat /\ e \in Nat
      /\ Logical(buf, p) \in Nat /\ k \in Nat /\ Logical(buf, e) \in Nat
      /\ Logical(buf, p) <= k
      /\ q < e <=> k < Logical(buf, e)
      /\ q = e <=> k = Logical(buf, e)
  BY <1>1, <1>3, <1>4, <1>5, <1>6, StopsKeepOrder
<1>8. RowLength(buf, row) \in Nat /\ col \in Nat /\ col < CoordRange
  BY <1>1, <1>3, AnswersAre, EditorAssumption
<1>9. q < e
  <2>1. q # e
    BY <1>1, <1>2, <1>5, <1>7, <1>8
  <2>2. QED
    BY <1>6, <1>7, <2>1
<1>10. e <= End(buf) /\ Logical(buf, e) <= Len(Text)
  BY <1>3, <1>5, StopsAre, StopIsBoundary
<1>11. q < End(buf)
  BY <1>3, <1>7, <1>9, <1>10
<1>12. Text[k + 1] = buf.text[q] /\ Text[k + 1] \notin Cont
  BY <1>1, <1>3, <1>11, StopIsBoundary
<1>13. w = Width(Text[k + 1]) /\ w \in Nat
  BY <1>11, <1>12, WidthIs
<1> HIDE DEF w
<1>14. col + w <= RowLength(buf, row)
  <2>1. k < Logical(buf, e)
    BY <1>7, <1>9
  <2>2. Cols(Text, Logical(buf, p), k) + Width(Text[k + 1])
           <= Cols(Text, Logical(buf, p), Logical(buf, e))
    BY <1>1, <1>7, <1>10, <1>12, <2>1, ColsGrowBy
  <2>3. QED
    BY <1>5, <1>6, <1>13, <2>2
<1>15. /\ Narrow(col + w) \in 0..(CoordRange - 1)
       /\ Narrow(col + w) <= col + w
  <2>1. col + w \in Nat
    BY <1>8, <1>13
  <2>2. QED
    BY <2>1, NarrowIs
<1>16. Narrow(col + w) <= RowLength(buf, row)
  BY <1>8, <1>13, <1>14, <1>15, EditorAssumption
<1>17. QED
  BY <1>1, <1>2, <1>15, <1>16 DEF GoesInText

\* A row has no more characters than columns.
LEMMA CharsFitColumns ==
    ASSUME NEW b, IsGapBuffer(b), NEW p, NEW q
    PROVE  /\ Cardinality({r \in Visited(b) : p <= r /\ r < q}) \in Nat
           /\ Cardinality({r \in Visited(b) : p <= r /\ r < q})
                 <= Columns(b, Visited(b), p, q)
<1> DEFINE chars == {r \in Visited(b) : p <= r /\ r < q}
           tabs == {r \in chars : b.text[r] = Tab}
<1>1. \A S \in SUBSET Visited(b) : IsFiniteSet(S) /\ Cardinality(S) \in Nat
  BY VisitedIs, FS_Subset, FS_CardinalityType
<1>2. /\ IsFiniteSet(tabs) /\ IsFiniteSet(chars \ tabs)
      /\ Cardinality(chars) \in Nat /\ Cardinality(tabs) \in Nat
      /\ Cardinality(chars \ tabs) \in Nat
  BY <1>1
<1>3. chars = (chars \ tabs) \cup tabs /\ (chars \ tabs) \cap tabs = {}
  OBVIOUS
<1>4. Columns(b, Visited(b), p, q)
         = Cardinality(chars \ tabs) + TabSpaces * Cardinality(tabs)
  BY DEF Columns
<1> HIDE DEF chars, tabs
<1>5. Cardinality(chars) = Cardinality(chars \ tabs) + Cardinality(tabs)
  <2>1. Cardinality((chars \ tabs) \cup tabs)
           = Cardinality(chars \ tabs) + Cardinality(tabs)
                - Cardinality((chars \ tabs) \cap tabs)
    BY <1>2, FS_Union
  <2>2. Cardinality((chars \ tabs) \cap tabs) = 0
    BY <1>3, FS_EmptySet
  <2>3. QED
    BY <1>2, <1>3, <2>1, <2>2
<1>6. Cardinality(tabs) <= TabSpaces * Cardinality(tabs)
  BY <1>2, WalkAssumption
<1>7. TabSpaces * Cardinality(tabs) \in Nat
  BY <1>2, WalkAssumption
<1>8. Cardinality(chars) \in Nat /\ Cardinality(chars) <= Columns(b, Visited(b), p, q)
  BY <1>2, <1>4, <1>5, <1>6, <1>7
<1>9. QED
  BY <1>8 DEF chars

LEMMA ClickGoes ==
    ASSUME PageInv, Sound, NEW r0 \in MouseRows, NEW c0 \in MouseCols, Click(r0, c0)
    PROVE  \E r, c : GoesInText(r, c)
<1> DEFINE r == IF r0 > MaxRow(buf) THEN Narrow(MaxRow(buf)) ELSE r0
           p == LineStart(buf, r)
           n == Cardinality({q \in Visited(buf) : p <= q /\ q < LineEnd(buf, p)})
           c == IF c0 > n THEN Narrow(n) ELSE c0
<1>1. /\ r0 \in 0..(CoordRange - 1) /\ c0 \in 0..(CoordRange - 1)
      /\ CoordRange \in Nat \ {0}
  BY EditorAssumption
<1>2. IsGapBuffer(buf) /\ MaxRow(buf) \in Nat
  BY BufIs, AnswersAre DEF PageInv
<1>3. GoTo(r, c)
  BY DEF Click
<1>4. r \in 0..(CoordRange - 1) /\ r \in Nat /\ r <= MaxRow(buf)
  <2>1. /\ Narrow(MaxRow(buf)) \in 0..(CoordRange - 1)
        /\ Narrow(MaxRow(buf)) <= MaxRow(buf)
    BY <1>2, NarrowIs
  <2>2. CASE r0 > MaxRow(buf)
    <3>1. r = Narrow(MaxRow(buf))
      BY <2>2
    <3> HIDE DEF r
    <3>2. QED
      BY <1>1, <2>1, <3>1
  <2>3. CASE ~(r0 > MaxRow(buf))
    <3>1. r = r0
      BY <2>3
    <3> HIDE DEF r
    <3>2. QED
      BY <1>1, <1>2, <2>3, <3>1
  <2>4. QED
    BY <2>2, <2>3
<1>5. RowLength(buf, r) = Columns(buf, Visited(buf), p, LineEnd(buf, p))
  BY DEF RowLength
<1> HIDE DEF r, p
<1>6. n \in Nat /\ n <= RowLength(buf, r) /\ RowLength(buf, r) \in Nat
  BY <1>2, <1>5, CharsFitColumns, AnswersAre
<1> HIDE DEF n
<1>7. c \in 0..(CoordRange - 1) /\ c <= RowLength(buf, r)
  <2>1. Narrow(n) \in 0..(CoordRange - 1) /\ Narrow(n) <= n
    BY <1>6, NarrowIs
  <2>2. CASE c0 > n
    <3>1. c = Narrow(n)
      BY <2>2
    <3> HIDE DEF c
    <3>2. QED
      BY <1>1, <1>6, <2>1, <3>1
  <2>3. CASE ~(c0 > n)
    <3>1. c = c0
      BY <2>3
    <3> HIDE DEF c
    <3>2. QED
      BY <1>1, <1>6, <2>3, <3>1
  <2>4. QED
    BY <2>2, <2>3
<1> HIDE DEF c
<1>8. \E k \in Boundaries(Text) : RowAt(Text, k) = r
  BY <1>4, RowsOfText
<1>9. QED
  BY <1>3, <1>4, <1>7, <1>8 DEF GoesInText

LEMMA CommandsGo ==
    ASSUME PageInv, Agrees, Sound, EditorNext
    PROVE  \/ \E r, c : GoesInText(r, c)
           \/ Backspace
           \/ \E s \in Inputs : TextInput(s)
BY UpGoes, DownGoes, LeftGoes, RightGoes, ClickGoes DEF EditorNext

\* A command that finds cursor and gap together, on a text that misleads no
\* walk, stays in the mapping, unless it goes to a column inside a tab of the
\* last row: every row it goes to is there and long enough, through all the
\* arithmetic of 16 bits (binds.c:3-210, buffers.c:193-211).
THEOREM OnlyLostWalks == EditorSpec => OnlyLostWalksLeave
<1> DEFINE Leave == LeavesMapping =>
                       \/ ~Agrees
                       \/ ~Sound
                       \/ InsideTab(row', col') /\ row' = RowAt(Text, Len(Text))
<1>1. ASSUME PageInv, EditorNext, Agrees, Sound, LeavesMapping
      PROVE  InsideTab(row', col') /\ row' = RowAt(Text, Len(Text))
  <2>1. /\ proc' = "segv" /\ stray' = stray /\ proc = "running" /\ stray = {}
    BY <1>1 DEF LeavesMapping, EditorNext, PageInv
  <2>2. ASSUME NEW r, NEW c, GoesInText(r, c)
        PROVE  InsideTab(row', col') /\ row' = RowAt(Text, Len(Text))
    <3>1. /\ r \in 0..(CoordRange - 1) /\ c \in 0..(CoordRange - 1)
          /\ c <= RowLength(buf, r) /\ GoTo(r, c)
      BY <2>2 DEF GoesInText
    <3>2. PICK k \in Boundaries(Text) : RowAt(Text, k) = r
      BY <2>2 DEF GoesInText
    <3>3. StopAt(buf, r, c) = Off(buf)
      BY <2>1, <3>1 DEF GoTo, Put
    <3>4. SetCursor(r, c)
      BY <3>1 DEF GoTo
    <3>5. r \in Nat /\ c \in Nat /\ r < CoordRange /\ c < CoordRange
      BY <3>1, EditorAssumption
    <3>6. row' = r /\ col' = c
      BY <3>4, <3>5, EditorAssumption DEF SetCursor
    <3>7. Plain(buf) /\ Text = Content(buf)
      BY <1>1, CursorPlace
    <3>8. /\ r = RowAt(Text, Len(Text))
          /\ PositionsAt(Text, r, c) = {}
          /\ \E j \in Boundaries(Text) : RowAt(Text, j) = r /\ ColAt(Text, j) > c
      BY <3>1, <3>2, <3>3, <3>5, <3>7, OnlyTabsAreMissed
    <3>9. QED
      BY <3>6, <3>8 DEF InsideTab
  <2>3. ~Backspace
    BY <2>1 DEF Backspace, DeleteUtf8, Put, Fail
  <2>4. ASSUME NEW s \in Inputs, TextInput(s)
        PROVE  FALSE
    <3>1. InsertUtf8(0, s) /\ s # <<>>
      BY <2>4 DEF TextInput
    <3>2. \/ Fail("segv", {"terminator"})
          \/ Fail("segv", {"terminator", "stale"})
      BY <2>1, <3>1 DEF InsertUtf8, Put, Fail
    <3>3. "terminator" \in stray'
      BY <3>2 DEF Fail
    <3>4. QED
      BY <2>1, <3>3
  <2>5. QED
    BY <1>1, <2>2, <2>3, <2>4, CommandsGo
<1>2. PageInv /\ [EditorNext]_evars => [Leave]_evars
  BY <1>1
<1>3. QED
  BY <1>2, PageInvariant, PTL DEF EditorSpec, OnlyLostWalksLeave

-----------------------------------------------------------------------------
(* The cursor with the gap *)

\* Rows and columns depend on no byte behind them.
LEMMA SamePrefix ==
    ASSUME NEW s, NEW t, NEW n \in Nat, \A i \in 1..n : s[i] = t[i]
    PROVE  RowAt(s, n) = RowAt(t, n) /\ ColAt(s, n) = ColAt(t, n)
<1>1. ASSUME NEW k \in 1..n
      PROVE  RowAt(s, k) = RowAt(t, k)
  <2>1. \A i \in 1..k : s[i] = t[i]
    OBVIOUS
  <2>2. {i \in 1..k : s[i] \in Newlines} = {i \in 1..k : t[i] \in Newlines}
    BY <2>1
  <2>3. QED
    BY <2>2 DEF RowAt
<1>2. RowAt(s, n) = RowAt(t, n)
  <2>1. {i \in 1..n : s[i] \in Newlines} = {i \in 1..n : t[i] \in Newlines}
    OBVIOUS
  <2>2. QED
    BY <2>1 DEF RowAt
<1> DEFINE line(x) == {i \in 1..n : x[i] \notin Cont /\ RowAt(x, i) = RowAt(x, n)}
           tabs(x) == {i \in line(x) : x[i] = Tab}
           ends(x) == {i \in line(x) : x[i] \in Newlines}
<1>3. line(s) = line(t)
  BY <1>1, <1>2
<1>4. \A i \in line(s) : s[i] = t[i]
  OBVIOUS
<1>5. \A x : ColAt(x, n) = Cardinality(line(x) \ (tabs(x) \cup ends(x)))
                              + TabSpaces * Cardinality(tabs(x))
  BY DEF ColAt
<1> HIDE DEF line
<1>6. tabs(s) = tabs(t) /\ ends(s) = ends(t)
  BY <1>3, <1>4
<1> HIDE DEF tabs, ends
<1>7. QED
  BY <1>2, <1>3, <1>5, <1>6

\* No place has more rows before it than bytes, or more columns than all tabs
\* would make.
LEMMA CoordsFit ==
    ASSUME NEW s, NEW k \in Nat, NEW n \in Nat, k <= n, TabSpaces * n < CoordRange
    PROVE  /\ RowAt(s, k) \in Nat /\ RowAt(s, k) < CoordRange
           /\ ColAt(s, k) \in Nat /\ ColAt(s, k) < CoordRange
<1> DEFINE line == {i \in 1..k : s[i] \notin Cont /\ RowAt(s, i) = RowAt(s, k)}
           tabs == {i \in line : s[i] = Tab}
           rest == line \ (tabs \cup {i \in line : s[i] \in Newlines})
           ends == {i \in 1..k : s[i] \in Newlines}
<1>1. IsFiniteSet(1..k) /\ Cardinality(1..k) = k
  BY FS_Interval
<1>2. ASSUME NEW S \in SUBSET (1..k)
      PROVE  IsFiniteSet(S) /\ Cardinality(S) \in Nat /\ Cardinality(S) <= k
  BY <1>1, FS_Subset, FS_CardinalityType
<1>3. ColAt(s, k) = Cardinality(rest) + TabSpaces * Cardinality(tabs)
  BY DEF ColAt
<1>4. RowAt(s, k) = Cardinality(ends)
  BY DEF RowAt
<1>5. /\ tabs \in SUBSET (1..k) /\ rest \in SUBSET (1..k) /\ ends \in SUBSET (1..k)
      /\ rest \cup tabs \in SUBSET (1..k) /\ rest \cap tabs = {}
  OBVIOUS
<1> HIDE DEF line, tabs, rest, ends
<1>6. /\ IsFiniteSet(tabs) /\ IsFiniteSet(rest)
      /\ Cardinality(tabs) \in Nat /\ Cardinality(rest) \in Nat
      /\ Cardinality(ends) \in Nat /\ Cardinality(ends) <= k
      /\ Cardinality(rest \cup tabs) <= k
  BY <1>2, <1>5
<1>7. Cardinality(rest) + Cardinality(tabs) <= k
  <2>1. Cardinality(rest \cup tabs)
           = Cardinality(rest) + Cardinality(tabs) - Cardinality(rest \cap tabs)
    BY <1>6, FS_Union
  <2>2. Cardinality(rest \cap tabs) = 0
    BY <1>5, FS_EmptySet
  <2>3. QED
    BY <1>6, <2>1, <2>2
<1>8. TabSpaces \in Nat /\ TabSpaces >= 1 /\ CoordRange \in Nat
  BY WalkAssumption, EditorAssumption
<1>9. n <= TabSpaces * n
  BY <1>8
<1>10. Cardinality(rest) + TabSpaces * Cardinality(tabs) <= TabSpaces * n
  <2> DEFINE a == Cardinality(rest)
             c == Cardinality(tabs)
  <2>1. a \in Nat /\ c \in Nat /\ a + c <= n
    BY <1>6, <1>7
  <2> HIDE DEF a, c
  <2>2. TabSpaces * (a + c) <= TabSpaces * n
    BY <1>8, <2>1
  <2>3. TabSpaces * (a + c) = TabSpaces * a + TabSpaces * c
    BY <1>8, <2>1
  <2>4. a <= TabSpaces * a
    BY <1>8, <2>1
  <2>5. TabSpaces * a \in Nat /\ TabSpaces * c \in Nat
    BY <1>8, <2>1
  <2>6. a + TabSpaces * c <= TabSpaces * n
    BY <1>8, <2>1, <2>2, <2>3, <2>4, <2>5
  <2>7. QED
    BY <2>6 DEF a, c
<1>11. TabSpaces * Cardinality(tabs) \in Nat
  BY <1>6, <1>8
<1>12. QED
  BY <1>3, <1>4, <1>6, <1>8, <1>9, <1>10, <1>11

\* A command of the cursor takes the gap to the place that the text has at the
\* row and column it goes to.
LEMMA GoingTogether ==
    ASSUME PageInv, Sound, NEW r, NEW c, GoesInText(r, c), proc' = "running",
           Text' = Text => PositionsAt(Text, row', col') # {}
    PROVE  Agrees'
<1>1. /\ r \in 0..(CoordRange - 1) /\ c \in 0..(CoordRange - 1) /\ GoTo(r, c)
  BY DEF GoesInText
<1>2. r \in Nat /\ c \in Nat /\ r < CoordRange /\ c < CoordRange
  BY <1>1, EditorAssumption
<1>3. row' = r /\ col' = c
  BY <1>1, <1>2, EditorAssumption DEF GoTo, SetCursor
<1>4. /\ Plain(buf) /\ IsGapBuffer(buf) /\ 0 \in Slots /\ DOMAIN buffers = Slots
  BY SoundIsPlain, BufIs DEF PageInv, Plain, TypeOK
<1>5. /\ Len(Content(buf)) = TextLen(buf) /\ TextLen(buf) \in Nat
      /\ End(buf) \in Nat /\ Off(buf) = End(buf) + 1
  BY <1>4, TextIs
<1>6. PointFor(buf, StopAt(buf, r, c)) \in Nat
  BY <1>4, AnswersAre, PointIs, Fields
<1>7. ASSUME NEW g \in Nat, Put(0, MoveGap(buf, g))
      PROVE  /\ Text' = Text
             /\ buf'.gap_start = IF g > TextLen(buf) THEN TextLen(buf) ELSE g
  <2>1. buf' = MoveGap(buf, g)
    BY <1>4, <1>7 DEF Put, buf
  <2>2. QED
    BY <1>4, <2>1, MoveGapKeepsContent DEF Text
<1>8. Text' = Text
  BY <1>1, <1>5, <1>6, <1>7 DEF GoTo, Fail
<1>9. PICK k \in PositionsAt(Text, r, c) : TRUE
  BY <1>3, <1>8
<1>10. k \in Boundaries(Content(buf)) /\ RowAt(Text, k) = r /\ ColAt(Text, k) = c
  BY DEF PositionsAt, Text
<1>11. PICK q \in Stops(buf) : Logical(buf, q) = k
  BY <1>4, <1>10, BoundaryIsStop
<1>12. StopAt(buf, r, c) = q
  BY <1>4, <1>10, <1>11, StopFound DEF Text
<1>13. q < Off(buf) /\ PointFor(buf, q) = k
  BY <1>4, <1>5, <1>11, StopsAre, PointIsPlace
<1>14. Put(0, MoveGap(buf, k))
  <2>1. q # Off(buf)
    BY <1>5, <1>13
  <2>2. QED
    BY <1>1, <1>12, <1>13, <2>1 DEF GoTo
<1>15. k \in Nat /\ k <= TextLen(buf)
  BY <1>5, <1>10 DEF Boundaries
<1>16. buf'.gap_start = k
  BY <1>5, <1>7, <1>14, <1>15
<1>17. k \in PositionsAt(Text', row', col')
  BY <1>3, <1>8
<1>18. QED
  BY <1>16, <1>17 DEF Agrees

\* An input is one character.
OneCharInputs ==
    \A s \in Inputs : s # <<>> => /\ s[1] \notin Cont
                                  /\ \A i \in 2..Len(s) : s[i] \in Cont

\* Typing one character takes the cursor as far as the gap.
LEMMA TypingTogether ==
    ASSUME PageInv, Agrees, Sound, OneCharInputs,
           TabSpaces * MaxText(PageSize) < CoordRange,
           NEW s \in Inputs, TextInput(s), proc = "running", proc' = "running"
    PROVE  Agrees'
<1> DEFINE n == buf.gap_start
           k == n + Len(s)
           T == Splice(Text, n, s)
           b == Store(buf, s)
<1>1. /\ Text = Content(buf) /\ Text \in Seq(Bytes) /\ IsGapBuffer(buf)
      /\ n \in Boundaries(Text)
      /\ row = RowAt(Text, n) /\ col = ColAt(Text, n)
  BY CursorPlace DEF Plain
<1>2. /\ 0 \in Slots /\ DOMAIN buffers = Slots /\ buf.size = PageSize
      /\ Len(Text) = TextLen(buf)
  BY <1>1, BufIs, ContentIsSeq DEF PageInv, TypeOK
<1>3. /\ s # <<>> /\ InsertUtf8(0, s)
      /\ IF s[1] \in Newlines THEN SetCursor(row + 1, 0)
                              ELSE SetCursor(row, col + Width(s[1]))
  BY DEF TextInput
<1>4. s \in Seq(Bytes) /\ Len(s) \in Nat /\ Len(s) >= 1
  BY <1>3, InputAssumption, LenProperties, EmptySeq
<1>5. s[1] \notin Cont /\ \A i \in 2..Len(s) : s[i] \in Cont
  BY <1>3 DEF OneCharInputs
<1>6. /\ n \in Nat /\ TextLen(buf) \in Nat /\ Gap(buf) \in Nat
      /\ n <= TextLen(buf) /\ TextLen(buf) = MaxText(PageSize) - Gap(buf)
      /\ MaxText(PageSize) \in Nat
  BY <1>1, <1>2, GapIs
<1>7. Put(0, b) /\ Len(s) <= Gap(buf)
  <2>1. ~Fills(buf, s) => Len(s) <= Gap(buf)
    BY <1>4, <1>6 DEF Fills
  <2>2. Len(s) = Gap(buf) => Len(s) <= Gap(buf)
    BY <1>4, <1>6
  <2>3. ~Fail("segv", {"terminator"}) /\ ~Fail("segv", {"terminator", "stale"})
        /\ ~Fail("corrupt", {"overrun"})
    BY DEF Fail
  <2>4. buf = buffers[0]
    BY DEF buf
  <2> HIDE DEF b
  <2>5. QED
    BY <1>3, <2>1, <2>2, <2>3, <2>4 DEF InsertUtf8, b
<1>8. /\ buf' = b /\ Text' = T /\ b.gap_start = k
  <2>1. buf' = b
    BY <1>2, <1>7 DEF Put, buf
  <2>2. Content(b) = Splice(Content(buf), n, s) /\ b.gap_start = k
    BY <1>1, <1>4, <1>7, StoreSplices
  <2>3. Text' = Content(b)
    BY <2>1 DEF Text
  <2>4. QED
    BY <1>1, <2>1, <2>2, <2>3
<1>9. /\ k \in Nat /\ n < k /\ k <= Len(Text) + Len(s) /\ k <= MaxText(PageSize)
      /\ k = n + Len(s)
  BY <1>2, <1>4, <1>6, <1>7
<1> HIDE DEF n, b
<1>10. T = [i \in 1..(Len(Text) + Len(s)) |->
              IF i <= n THEN Text[i]
              ELSE IF i <= k THEN s[i - n]
              ELSE Text[i - Len(s)]]
  BY DEF Splice
<1> HIDE DEF T, k
<1>11. Len(T) = Len(Text) + Len(s)
  BY <1>2, <1>4, <1>6, <1>10
<1>12. \A i \in 1..n : T[i] = Text[i]
  BY <1>2, <1>4, <1>6, <1>10
<1>13. T[n + 1] = s[1] /\ \A i \in (n + 2)..k : T[i] \in Cont
  <2>1. ASSUME NEW i \in (n + 1)..k
        PROVE  T[i] = s[i - n]
    BY <1>2, <1>4, <1>6, <1>9, <1>10
  <2>2. PICK i \in (n + 1)..k : i = n + 1 /\ i - n = 1
    BY <1>4, <1>6, <1>9
  <2>3. T[n + 1] = s[1]
    <3>1. T[i] = s[i - n]
      BY <2>1
    <3>2. QED
      BY <2>2, <3>1
  <2>4. ASSUME NEW j \in (n + 2)..k
        PROVE  T[j] \in Cont
    <3>1. j \in (n + 1)..k /\ j - n \in 2..Len(s)
      BY <1>4, <1>6, <1>9
    <3>2. QED
      BY <1>5, <2>1, <3>1
  <2>5. QED
    BY <2>3, <2>4
<1>14. ASSUME k < Len(T)
       PROVE  T[k + 1] \notin Cont
  <2>1. PICK i \in 1..(Len(Text) + Len(s)) :
           i = k + 1 /\ ~(i <= n) /\ ~(i <= k) /\ i - Len(s) = n + 1
    BY <1>2, <1>4, <1>6, <1>9, <1>11, <1>14
  <2>2. T[k + 1] = Text[n + 1]
    <3>1. T[i] = Text[i - Len(s)]
      BY <1>10, <2>1
    <3>2. QED
      BY <2>1, <3>1
  <2>3. n < Len(Text)
    BY <1>2, <1>4, <1>6, <1>9, <1>11, <1>14
  <2>4. QED
    BY <1>1, <2>2, <2>3 DEF Boundaries
<1>15. k \in Boundaries(T)
  <2>1. k \in 0..Len(T)
    BY <1>2, <1>4, <1>6, <1>9, <1>11
  <2>2. QED
    BY <1>14, <2>1 DEF Boundaries
<1>16. row = RowAt(T, n) /\ col = ColAt(T, n)
  BY <1>1, <1>6, <1>12, SamePrefix
<1>17. /\ s[1] \in Newlines => RowAt(T, k) = row + 1 /\ ColAt(T, k) = 0
       /\ s[1] \notin Newlines =>
             RowAt(T, k) = row /\ ColAt(T, k) = col + Width(s[1])
  BY <1>5, <1>6, <1>9, <1>13, <1>16, OneChar
<1>18. /\ RowAt(T, k) \in Nat /\ RowAt(T, k) < CoordRange
       /\ ColAt(T, k) \in Nat /\ ColAt(T, k) < CoordRange
  BY <1>6, <1>9, CoordsFit
<1>19. SetCursor(RowAt(T, k), ColAt(T, k))
  BY <1>3, <1>17
<1>20. row' = RowAt(T, k) /\ col' = ColAt(T, k)
  BY <1>18, <1>19, EditorAssumption DEF SetCursor
<1>21. k \in PositionsAt(Text', row', col') /\ buf'.gap_start = k
  BY <1>8, <1>15, <1>20 DEF PositionsAt
<1>22. QED
  BY <1>21 DEF Agrees

\* The character before the gap, and what cutting it leaves.
LEMMA CutOneChar ==
    ASSUME NEW b, Plain(b), b.gap_start \in Boundaries(Content(b)),
           StartsBefore(b) # {},
           NEW m, m = LastStart(b), NEW s, s = Content(b),
           NEW t, t = Content(CutBack(b, m)), NEW k, k = b.gap_start
    PROVE  /\ m \in Nat /\ m < k /\ k \in Nat /\ k <= TextLen(b)
           /\ s[m + 1] = b.text[m] /\ b.text[m] \notin Cont
           /\ \A i \in (m + 2)..k : s[i] \in Cont
           /\ m \in Boundaries(t)
           /\ \A i \in 1..m : t[i] = s[i]
           /\ Plain(CutBack(b, m))
<1>1. /\ IsGapBuffer(b) /\ s \in Seq(Bytes)
      /\ Len(s) = TextLen(b) /\ TextLen(b) \in Nat
      /\ End(b) \in Nat
  BY TextIs
<1>2. /\ m \in StartsBefore(b)
      /\ \A q \in StartsBefore(b) : q <= m
      /\ m \in 0..(k - 1)
      /\ b.text[m] \notin Cont
  BY <1>1, LastStartIsStart
<1>3. k \in Nat /\ k <= TextLen(b)
  BY <1>1, GapIs
<1>4. m \in Nat /\ m < k
  BY <1>2, <1>3
<1>5. ASSUME NEW i \in 0..(k - 1)
      PROVE  s[i + 1] = b.text[i] /\ i \in TextOffsets(b)
  <2>1. i \in TextOffsets(b)
    BY <1>5 DEF TextOffsets
  <2>2. Logical(b, i) = i
    BY <1>3 DEF Logical
  <2>3. QED
    BY <1>1, <2>1, <2>2, ByteOfText
<1>6. s[m + 1] = b.text[m]
  BY <1>2, <1>5
<1>7. ASSUME NEW i \in (m + 2)..k
      PROVE  s[i] \in Cont
  <2>1. i - 1 \in 0..(k - 1) /\ i - 1 + 1 = i /\ ~(i - 1 <= m) /\ i - 1 < k
    BY <1>3, <1>4
  <2>2. s[i] = b.text[i - 1] /\ i - 1 \in TextOffsets(b)
    BY <1>5, <2>1
  <2>3. i - 1 \notin StartsBefore(b)
    BY <1>2, <2>1
  <2>4. QED
    BY <2>1, <2>2, <2>3 DEF StartsBefore, CharStarts, TextOffsets
<1>8. t = Cut(s, m, k)
  BY <1>1, <1>3, <1>4, CutBackCuts
<1>9. t = [i \in 1..(Len(s) - (k - m)) |->
             IF i <= m THEN s[i] ELSE s[i + (k - m)]]
  BY <1>8 DEF Cut
<1>10. Len(t) = Len(s) - (k - m)
  BY <1>1, <1>3, <1>4, <1>9
<1>11. \A i \in 1..m : t[i] = s[i]
  BY <1>1, <1>3, <1>4, <1>9
<1>12. m \in Boundaries(t)
  <2>1. m \in 0..Len(t)
    BY <1>1, <1>3, <1>4, <1>10
  <2>2. ASSUME m < Len(t)
        PROVE  t[m + 1] \notin Cont
    <3>1. /\ m + 1 \in 1..(Len(s) - (k - m)) /\ ~(m + 1 <= m)
          /\ m + 1 + (k - m) = k + 1 /\ k < Len(s)
      <4>1. m < Len(s) - (k - m) /\ Len(s) \in Nat
        BY <1>1, <1>10, <2>2
      <4>2. QED
        BY <1>3, <1>4, <4>1
    <3>2. t[m + 1] = s[k + 1]
      BY <1>9, <3>1
    <3>3. QED
      BY <3>1, <3>2 DEF Boundaries
  <2>3. QED
    BY <2>1, <2>2 DEF Boundaries
<1>13. Plain(CutBack(b, m))
  <2>1. /\ IsGapBuffer(CutBack(b, m))
        /\ CutBack(b, m).size = b.size
        /\ CutBack(b, m).gap_start = m
        /\ CutBack(b, m).text = b.text
    BY <1>1, <1>3, <1>4, CutBackCuts
  <2>2. OnCharBoundary(CutBack(b, m))
    BY <1>1, <1>3, <1>4, CutKeepsBoundary DEF Plain
  <2>3. QED
    BY <1>2, <2>1, <2>2 DEF Plain, Clean, End
<1>14. QED
  BY <1>2, <1>3, <1>4, <1>6, <1>7, <1>11, <1>12, <1>13

\* A row that ends at the gap is as long as the column of the gap.
LEMMA RowEndsAtGap ==
    ASSUME NEW b, Plain(b), b.gap_end = End(b) \/ EndsRow(b, b.gap_end)
    PROVE  RowLength(b, RowAt(Content(b), b.gap_start)) = ColAt(Content(b), b.gap_start)
<1> DEFINE s == Content(b)
           g == b.gap_end
           k == b.gap_start
           r == RowAt(s, k)
<1>1. IsGapBuffer(b) /\ End(b) \in Nat
  BY TextIs
<1>2. /\ k \in Nat /\ g \in Nat /\ k <= g /\ g <= End(b)
      /\ g < End(b) => b.text[g] \notin Cont
  BY <1>1, Fields DEF End, Plain, OnCharBoundary
<1>3. g \in Stops(b)
  BY <1>1, <1>2, IsStop
<1>4. Logical(b, g) = k
  BY <1>2 DEF Logical, Gap
<1> HIDE DEF g, k
<1>5. k \in Boundaries(s)
  BY <1>1, <1>3, <1>4, StopIsBoundary
<1>6. PICK p \in Stops(b) : StartsRow(s, Logical(b, p), r)
  BY <1>5, RowIsThere
<1> DEFINE e == LineEnd(b, p)
<1>7. /\ e \in Stops(b)
      /\ RowAt(s, Logical(b, e)) = r
      /\ RowLength(b, r) = ColAt(s, Logical(b, e))
  BY <1>6, RowEndFound
<1>8. p <= g /\ g <= e
  BY <1>3, <1>4, <1>6, RowEndIsLast
<1> HIDE DEF e
<1>9. e \in Nat /\ e <= End(b)
  BY <1>1, <1>7, StopsAre
<1>10. e = g
  <2>1. SUFFICES ASSUME e # g PROVE FALSE
    OBVIOUS
  <2>2. g < e
    BY <1>2, <1>8, <1>9, <2>1
  <2>3. ~EndsRow(b, g)
    <3>1. RowAt(s, Logical(b, p)) = RowAt(s, Logical(b, e))
      BY <1>6, <1>7 DEF StartsRow
    <3>2. p \in Nat /\ p <= e
      BY <1>1, <1>2, <1>6, <1>8, <1>9, StopsAre
    <3>3. QED
      BY <1>3, <1>7, <1>8, <2>2, <3>1, <3>2, NoEndBefore
  <2>4. g # End(b)
    BY <1>1, <1>2, <1>9, <2>2
  <2>5. QED
    BY <2>3, <2>4 DEF g
<1>11. QED
  BY <1>4, <1>7, <1>10 DEF s, k, r

\* Taking back one character takes the cursor back to the gap, unless two rows
\* are joined with text behind the gap.
LEMMA ErasingTogether ==
    ASSUME PageInv, Agrees, Sound, ~JoinsRows,
           TabSpaces * MaxText(PageSize) < CoordRange,
           Backspace, proc = "running", proc' = "running"
    PROVE  Agrees'
<1> DEFINE k == buf.gap_start
           m == LastStart(buf)
           b == CutBack(buf, m)
           s == Content(buf)
           t == Content(b)
           c == buf.text[m]
<1>1. /\ Plain(buf) /\ Text = s /\ k \in Boundaries(s) /\ IsGapBuffer(buf)
      /\ row = RowAt(s, k) /\ col = ColAt(s, k)
      /\ row \in 0..(CoordRange - 1) /\ col \in 0..(CoordRange - 1)
  BY CursorPlace DEF Plain
<1>2. /\ 0 \in Slots /\ DOMAIN buffers = Slots /\ buf.size = PageSize
  BY <1>1, BufIs DEF PageInv, TypeOK
<1>3. StartsBefore(buf) # {} /\ buf' = b
  <2>1. StartsBefore(buf) # {} /\ Put(0, b)
    BY DEF Backspace, DeleteUtf8, Fail, buf
  <2>2. QED
    BY <1>2, <2>1 DEF Put, buf
<1>4. /\ m \in Nat /\ m < k /\ k \in Nat /\ k <= TextLen(buf)
      /\ s[m + 1] = c /\ c \notin Cont
      /\ \A i \in (m + 2)..k : s[i] \in Cont
      /\ m \in Boundaries(t)
      /\ \A i \in 1..m : t[i] = s[i]
      /\ Plain(b)
  BY <1>1, <1>3, CutOneChar
<1>5. /\ b.gap_start = m /\ b.gap_end = buf.gap_end /\ b.text = buf.text
      /\ b.size = buf.size
  BY <1>1, <1>4, CutBackCuts
<1>6. /\ buf'.gap_start = m /\ buf'.gap_end = buf.gap_end
      /\ buf'.text[buf'.gap_start] = c /\ Text' = t
  BY <1>3, <1>5 DEF Text
<1>7. m <= MaxText(PageSize) /\ MaxText(PageSize) \in Nat
  BY <1>1, <1>2, <1>4, GapIs
<1>8. RowAt(t, m) = RowAt(s, m) /\ ColAt(t, m) = ColAt(s, m)
  BY <1>4, SamePrefix
<1>9. /\ RowAt(t, m) \in Nat /\ RowAt(t, m) < CoordRange
      /\ ColAt(t, m) \in Nat /\ ColAt(t, m) < CoordRange
  BY <1>4, <1>7, CoordsFit
<1>10. /\ c \in Newlines => row = RowAt(t, m) + 1 /\ col = 0
       /\ c \notin Newlines => row = RowAt(t, m) /\ col = ColAt(t, m) + Width(c)
  BY <1>1, <1>4, <1>8, OneChar
<1>11. Width(c) \in Nat /\ Width(c) >= 1
  BY WidthIs
<1>12. /\ row \in Nat /\ col \in Nat /\ row < CoordRange /\ col < CoordRange
       /\ CoordRange \in Nat \ {0}
  BY <1>1, EditorAssumption
<1>13. \/ col = 0 /\ row > 0 /\ SetCursor(row - 1, RowLength(buf', row - 1))
       \/ col = 0 /\ row = 0
       \/ col > 0 /\ SetCursor(row, col + CoordRange - Width(c))
  BY <1>6 DEF Backspace
<1>a. Text' # Text
  <2>1. IsGapBuffer(b)
    BY <1>4 DEF Plain
  <2>2. Len(s) = TextLen(buf) /\ Len(t) = TextLen(b)
    BY <1>1, <2>1, ContentIsSeq
  <2>3. TextLen(buf) = MaxText(buf.size) - (buf.gap_end - k)
    BY <1>1, Fields
  <2>4. TextLen(b) = MaxText(buf.size) - (buf.gap_end - m)
    BY <1>5, <2>1, Fields
  <2>5. MaxText(buf.size) \in Nat /\ buf.gap_end \in Nat
    BY <1>1, Fields
  <2>6. TextLen(b) # TextLen(buf)
    BY <1>4, <2>3, <2>4, <2>5
  <2>7. QED
    BY <1>1, <1>6, <2>2, <2>6
<1>14. JoinsRows <=> /\ col = 0
                     /\ buf.gap_end < End(buf)
                     /\ buf.text[buf.gap_end] \notin Newlines
  BY <1>4, <1>6, <1>a DEF JoinsRows
<1>15. b.gap_end = End(b) \/ (col = 0 => EndsRow(b, b.gap_end))
  <2>1. buf.gap_end \in Nat /\ buf.gap_end <= End(buf) /\ End(buf) \in Nat
    BY <1>1, Fields DEF End
  <2>2. buf.gap_end < End(buf) \/ buf.gap_end = End(buf)
    BY <2>1
  <2>3. End(b) = End(buf)
    BY <1>5 DEF End
  <2>4. QED
    BY <1>5, <1>14, <2>2, <2>3 DEF EndsRow
<1>16. col = 0 => RowLength(b, RowAt(t, b.gap_start)) = ColAt(t, b.gap_start)
  BY <1>4, <1>15, RowEndsAtGap
<1> HIDE DEF k, m, b, s, t, c
<1>17. row' = RowAt(t, m) /\ col' = ColAt(t, m)
  <2>1. CASE col = 0 /\ row > 0 /\ SetCursor(row - 1, RowLength(buf', row - 1))
    <3>1. c \in Newlines
      BY <1>9, <1>10, <1>11, <2>1
    <3>2. row - 1 = RowAt(t, m)
      BY <1>9, <1>10, <3>1
    <3>3. RowLength(buf', row - 1) = ColAt(t, m)
      BY <1>3, <1>5, <1>16, <2>1, <3>2
    <3>4. SetCursor(RowAt(t, m), ColAt(t, m))
      BY <2>1, <3>2, <3>3
    <3>5. QED
      BY <1>9, <1>12, <3>4 DEF SetCursor
  <2>2. CASE col = 0 /\ row = 0
    BY <1>9, <1>10, <1>11, <2>2
  <2>3. CASE col > 0 /\ SetCursor(row, col + CoordRange - Width(c))
    <3>1. c \notin Newlines /\ row = RowAt(t, m) /\ col = ColAt(t, m) + Width(c)
      BY <1>10, <1>12, <2>3
    <3>2. Narrow(col + CoordRange - Width(c)) = col - Width(c)
      <4>1. Width(c) <= col
        BY <1>9, <1>11, <3>1
      <4>2. QED
        BY <1>11, <1>12, <4>1, NarrowIs
    <3>3. col - Width(c) = ColAt(t, m)
      BY <1>9, <1>11, <3>1
    <3>4. row' = row % CoordRange /\ col' = Narrow(col + CoordRange - Width(c))
      BY <2>3 DEF SetCursor, Narrow
    <3>5. row % CoordRange = row
      BY <1>12
    <3>6. QED
      BY <3>1, <3>2, <3>3, <3>4, <3>5
  <2>4. QED
    BY <1>13, <2>1, <2>2, <2>3
<1>18. m \in PositionsAt(Text', row', col') /\ buf'.gap_start = m
  BY <1>4, <1>6, <1>17 DEF PositionsAt
<1>19. QED
  BY <1>18 DEF Agrees

\* Where inputs are single characters and no text is too long for coordinates
\* of 16 bits, a command that finds the cursor with the gap brings both to the
\* same place: a move, from any column, when the text has the place it goes
\* to, and typing and backspace always, but for a backspace that joins two
\* rows (binds.c:3-210, editor.c:35-75).
THEOREM CursorStaysWithGap ==
    ASSUME OneCharInputs, TabSpaces * MaxText(PageSize) < CoordRange
    PROVE  EditorSpec => StaysTogether
<1> DEFINE Stay == (/\ Agrees /\ Sound /\ ~JoinsRows
                    /\ proc' = "running"
                    /\ Text' = Text => PositionsAt(Text, row', col') # {})
                   => Agrees'
<1>1. ASSUME PageInv, EditorNext, Agrees, Sound, ~JoinsRows, proc' = "running",
             Text' = Text => PositionsAt(Text, row', col') # {}
      PROVE  Agrees'
  <2>1. proc = "running"
    BY <1>1 DEF EditorNext
  <2>2. CASE \E r, c : GoesInText(r, c)
    BY <1>1, <2>2, GoingTogether
  <2>3. CASE Backspace
    BY <1>1, <2>1, <2>3, ErasingTogether
  <2>4. CASE \E s \in Inputs : TextInput(s)
    BY <1>1, <2>1, <2>4, TypingTogether
  <2>5. QED
    BY <1>1, <2>2, <2>3, <2>4, CommandsGo
<1>2. UNCHANGED evars => (Agrees => Agrees')
  BY DEF evars, Agrees, Text, buf
<1>3. PageInv /\ [EditorNext]_evars => [Stay]_evars
  BY <1>1, <1>2
<1>4. QED
  BY <1>3, PageInvariant, PTL DEF EditorSpec, StaysTogether

-----------------------------------------------------------------------------
(* What is drawn *)

\* Where the text goes on for a walk that may have come to the gap.
Over(b, p) == IF p = b.gap_start THEN b.gap_end ELSE p

\* The step to the next character, with a stop at the gap.
LEMMA NextCharStops ==
    ASSUME NEW b, Plain(b), NEW p \in Stops(b), p < End(b)
    PROVE  /\ Seek(b, p) = Over(b, NextChar(b, p))
           /\ NextChar(b, p) \in Nat
           /\ p < NextChar(b, p)
           /\ p < b.gap_start => NextChar(b, p) <= b.gap_start
<1> DEFINE S == {r \in (p + 1)..End(b) : b.text[r] \notin Cont} \cup {Off(b)}
<1>1. /\ IsGapBuffer(b)
      /\ End(b) \in Nat /\ Off(b) = End(b) + 1
      /\ b.gap_start \in Nat /\ b.gap_end \in Nat
      /\ b.gap_start <= b.gap_end /\ b.gap_end <= End(b)
      /\ b.gap_start > 0 => b.text[b.gap_start] \notin Cont
  BY Fields DEF Plain, End, Off, Clean
<1>2. p \in Nat
  BY <1>1, StopsAre
<1>3. Seek(b, p) = Over(b, NextChar(b, p))
  BY DEF Seek, Over
<1>4. /\ NextChar(b, p) \in Nat /\ p < NextChar(b, p)
  BY <1>1, <1>2, NextCharIs
<1>5. ASSUME p < b.gap_start
      PROVE  NextChar(b, p) <= b.gap_start
  <2>1. b.gap_start \in S
    BY <1>1, <1>2, <1>5
  <2>2. S \in SUBSET Nat
    BY <1>1, <1>2
  <2>3. NextChar(b, p) = Min(S)
    BY DEF NextChar
  <2> HIDE DEF S
  <2>4. \A r \in S : Min(S) <= r
    <3>1. S # {}
      BY <2>1
    <3>2. QED
      BY <2>2, <3>1, MinIs
  <2>5. QED
    BY <2>1, <2>3, <2>4
<1>6. QED
  BY <1>3, <1>4, <1>5

\* What the character at an offset adds to the row and the column.
LEMMA NextPlace ==
    ASSUME NEW b, Plain(b), NEW p \in Stops(b), p < End(b),
           NEW n, n = Seek(b, p), NEW s, s = Content(b)
    PROVE  /\ b.text[p] \in Newlines =>
                 /\ RowAt(s, Logical(b, n)) = RowAt(s, Logical(b, p)) + 1
                 /\ ColAt(s, Logical(b, n)) = 0
           /\ b.text[p] \notin Newlines =>
                 /\ RowAt(s, Logical(b, n)) = RowAt(s, Logical(b, p))
                 /\ ColAt(s, Logical(b, n)) = ColAt(s, Logical(b, p)) + Width(b.text[p])
<1>1. /\ IsGapBuffer(b) /\ s \in Seq(Bytes)
      /\ Len(s) = TextLen(b) /\ TextLen(b) \in Nat
  BY TextIs
<1>2. n \in Stops(b) /\ p < n /\ \A r \in Stops(b) : p < r => n <= r
  BY SeekFinds
<1> DEFINE m == Logical(b, p)
           k == Logical(b, n)
<1>3. m \in Nat /\ k \in Nat /\ m < k
  BY <1>1, <1>2, StopsKeepOrder
<1>4. s[m + 1] = b.text[p] /\ s[m + 1] \notin Cont
  BY <1>1, StopIsBoundary
<1>5. k <= TextLen(b)
  BY <1>1, <1>2, StopIsBoundary
<1> HIDE DEF m, k
<1>6. ASSUME NEW i \in (m + 2)..k
      PROVE  s[i] \in Cont
  <2>1. SUFFICES ASSUME s[i] \notin Cont PROVE FALSE
    OBVIOUS
  <2>2. /\ i - 1 \in 0..Len(s) /\ i - 1 + 1 = i /\ m < i - 1 /\ i - 1 < k
        /\ i - 1 \in Nat
    BY <1>1, <1>3, <1>5
  <2>3. i - 1 \in Boundaries(s)
    BY <2>1, <2>2 DEF Boundaries
  <2>4. PICK r \in Stops(b) : Logical(b, r) = i - 1
    BY <1>1, <2>3, BoundaryIsStop
  <2>5. p < r /\ r < n /\ r \in Nat /\ n \in Nat
    BY <1>1, <1>2, <2>2, <2>4, StopsKeepOrder DEF m, k
  <2>6. n <= r
    BY <1>2, <2>5
  <2>7. QED
    BY <2>5, <2>6
<1>7. QED
  BY <1>3, <1>4, <1>6, OneChar DEF m, k

\* Characters of one column each, from place j to place k of a row.
LEMMA StretchIs ==
    ASSUME NEW s \in Seq(Bytes), NEW j \in Nat, NEW k \in Nat, j <= k, k <= Len(s),
           \A i \in (j + 1)..k : s[i] \notin Newlines \cup {Tab}
    PROVE  /\ RowAt(s, k) = RowAt(s, j)
           /\ ColAt(s, k) = ColAt(s, j) + Cardinality(InText(s, j, k, Bytes \ Cont))
<1> DEFINE A == InText(s, j, k, Bytes \ Cont)
           line(n) == {i \in 1..n : s[i] \notin Cont /\ RowAt(s, i) = RowAt(s, n)}
           tabs(n) == {i \in line(n) : s[i] = Tab}
           rest(n) == line(n) \ (tabs(n) \cup {i \in line(n) : s[i] \in Newlines})
<1>1. RowAt(s, k) = RowAt(s, j)
  BY RowsGrow
<1>2. \A i \in (j + 1)..k : RowAt(s, i) = RowAt(s, k)
  BY <1>1, NoRowEnds
<1>3. /\ \A i \in 1..j : i \in 1..k /\ i \notin (j + 1)..k
      /\ \A i \in 1..k : i \in 1..j \/ i \in (j + 1)..k
      /\ \A i \in (j + 1)..k : i \in 1..k
  OBVIOUS
<1>4. \A i \in (j + 1)..k : s[i] \in Bytes
  <2>1. \A i \in (j + 1)..k : i \in 1..Len(s)
    OBVIOUS
  <2>2. QED
    BY <2>1, ElementOfSeq
<1>5. A = {i \in (j + 1)..k : s[i] \notin Cont}
  BY <1>4 DEF InText
<1>6. line(k) = line(j) \cup A
  BY <1>1, <1>2, <1>3, <1>5
<1>7. /\ A \cap line(j) = {}
      /\ \A i \in A : s[i] \notin Newlines /\ s[i] # Tab
  BY <1>3, <1>5
<1>8. line(j) \in SUBSET (1..j)
  OBVIOUS
<1> HIDE DEF A, line
<1>9. tabs(k) = tabs(j)
  BY <1>6, <1>7
<1>10. rest(k) = rest(j) \cup A /\ rest(j) \cap A = {}
  BY <1>6, <1>7
<1>11. \A n : ColAt(s, n) = Cardinality(rest(n)) + TabSpaces * Cardinality(tabs(n))
  BY DEF ColAt, line
<1>12. IsFiniteSet(1..j)
  BY FS_Interval
<1>13. /\ IsFiniteSet(rest(j)) /\ Cardinality(rest(j)) \in Nat
       /\ Cardinality(tabs(j)) \in Nat
  <2>1. rest(j) \in SUBSET (1..j) /\ tabs(j) \in SUBSET (1..j)
    BY <1>8
  <2> HIDE DEF rest, tabs
  <2>2. QED
    BY <1>12, <2>1, FS_Subset, FS_CardinalityType
<1>14. IsFiniteSet(A) /\ Cardinality(A) \in Nat
  BY InTextIs DEF A
<1> HIDE DEF rest, tabs
<1>15. Cardinality(rest(k)) = Cardinality(rest(j)) + Cardinality(A)
  <2>1. Cardinality(rest(j) \cup A)
           = Cardinality(rest(j)) + Cardinality(A) - Cardinality(rest(j) \cap A)
    BY <1>13, <1>14, FS_Union
  <2>2. Cardinality(rest(j) \cap A) = 0
    BY <1>10, FS_EmptySet
  <2>3. QED
    BY <1>10, <1>13, <1>14, <2>1, <2>2
<1>16. TabSpaces * Cardinality(tabs(j)) \in Nat
  BY <1>13, WalkAssumption
<1>17. ColAt(s, k) = ColAt(s, j) + Cardinality(A)
  BY <1>9, <1>11, <1>13, <1>14, <1>15, <1>16
<1>18. QED
  BY <1>1, <1>17 DEF A

\* The offsets of the characters that are drawn as themselves.
Shown(b) == {r \in CharStarts(b) : b.text[r] \notin Newlines \cup {Tab}}

\* The place of the character at an offset, and what is drawn before one.
Place(b, r) ==
    <<r, ColAt(Content(b), Logical(b, r)), RowAt(Content(b), Logical(b, r))>>

DrawnTo(b, p) == {Place(b, r) : r \in {q \in Shown(b) : q < p}}

\* What is true of a walk of the renderer: what it has drawn is right up to
\* the start of its piece, which has no tab in it and no end of a row and is on
\* one side of the gap; x and y are the place of that start.
Draws(b, end, w) ==
    /\ w.start \in Stops(b)
    /\ w.ptr \in Nat
    /\ Over(b, w.ptr) \in Stops(b)
    /\ Over(b, w.ptr) <= end
    /\ w.start <= w.ptr
    /\ w.ptr <= b.gap_start \/ b.gap_end <= w.start
    /\ \A r \in Stops(b) :
          w.start <= r /\ r < Over(b, w.ptr) => b.text[r] \notin Newlines \cup {Tab}
    /\ w.x = ColAt(Content(b), Logical(b, w.start))
    /\ w.y = RowAt(Content(b), Logical(b, w.start))
    /\ w.drawn = DrawnTo(b, w.start)

\* No '\0' of the text ends a piece before its time.
NoNul(s) == \A i \in 1..Len(s) : s[i] # NUL

\* The characters of the piece are those of the text.
LEMMA GlyphsOfText ==
    ASSUME NEW b, Plain(b), Gap(b) > 0, NoNul(Content(b)), NEW end, NEW w, Draws(b, end, w)
    PROVE  /\ Glyphs(b, w.start, w.ptr)
                 = InBuffer(b, w.start, Over(b, w.ptr), Bytes \ Cont)
           /\ w.start <= Over(b, w.ptr)
<1> DEFINE p == w.start
           q == w.ptr
           o == Over(b, q)
           g == Glyphs(b, p, q)
<1>1. /\ IsGapBuffer(b)
      /\ b.gap_start \in Nat /\ b.gap_end \in Nat
      /\ b.gap_start < b.gap_end /\ b.gap_end <= End(b)
      /\ End(b) \in Nat /\ End(b) = MaxText(b.size)
      /\ b.text \in [0..End(b) -> Bytes]
      /\ Len(Content(b)) = TextLen(b) /\ TextLen(b) \in Nat
  BY TextIs, Fields DEF End
<1>2. /\ p \in Stops(b) /\ q \in Nat /\ o \in Stops(b)
      /\ p <= q /\ (q <= b.gap_start \/ b.gap_end <= p)
      /\ q = b.gap_start => o = b.gap_end
      /\ q # b.gap_start => o = q
  BY DEF Draws, Over
<1>3. p \in Nat /\ o \in Nat /\ o <= End(b)
  BY <1>1, <1>2, StopsAre
<1> HIDE DEF p, q, o
<1>4. q <= o /\ p <= o
  BY <1>1, <1>2, <1>3
<1>5. ASSUME NEW r \in p..(q - 1)
      PROVE  r \in TextOffsets(b) /\ r < o /\ b.text[r] \in Bytes /\ b.text[r] # NUL
  <2>1. r \in (0..b.gap_start - 1) \cup (b.gap_end..End(b) - 1)
    BY <1>1, <1>2, <1>3, <1>4
  <2>2. r \in TextOffsets(b)
    BY <1>1, <2>1 DEF TextOffsets
  <2>3. r < o
    BY <1>2, <1>3, <1>4
  <2>4. b.text[r] \in Bytes
    BY <1>1, <2>1
  <2>5. Logical(b, r) \in 0..(TextLen(b) - 1) /\ Content(b)[Logical(b, r) + 1] = b.text[r]
    BY <1>1, <2>2, ByteOfText
  <2>6. Logical(b, r) + 1 \in 1..Len(Content(b))
    BY <1>1, <2>5
  <2>7. b.text[r] # NUL
    BY <2>5, <2>6 DEF NoNul
  <2>8. QED
    BY <2>2, <2>3, <2>4, <2>7
<1>6. ASSUME NEW r \in TextOffsets(b), p <= r, r < o
      PROVE  r \in p..(q - 1)
  <2>1. r \in (0..b.gap_start - 1) \cup (b.gap_end..End(b) - 1)
    BY <1>1 DEF TextOffsets
  <2>2. r < q
    BY <1>1, <1>2, <1>6, <2>1
  <2>3. QED
    BY <1>1, <1>2, <1>3, <1>6, <2>1, <2>2
<1>7. \A r \in p..(q - 1) : \A i \in p..r : i \in p..(q - 1)
  BY <1>2, <1>3
<1>8. g = {r \in p..(q - 1) : b.text[r] \notin Cont}
  BY <1>5, <1>7 DEF Glyphs
<1>9. g = InBuffer(b, p, o, Bytes \ Cont)
  <2>1. ASSUME NEW r \in g
        PROVE  r \in InBuffer(b, p, o, Bytes \ Cont)
    <3>1. r \in p..(q - 1) /\ b.text[r] \notin Cont /\ p <= r
      BY <1>2, <1>3, <1>8
    <3>2. QED
      BY <1>5, <3>1 DEF InBuffer
  <2>2. ASSUME NEW r \in InBuffer(b, p, o, Bytes \ Cont)
        PROVE  r \in g
    <3>1. r \in TextOffsets(b) /\ p <= r /\ r < o /\ b.text[r] \notin Cont
      BY DEF InBuffer
    <3>2. QED
      BY <1>6, <1>8, <3>1
  <2> HIDE DEF g
  <2>3. QED
    BY <2>1, <2>2
<1>10. QED
  BY <1>4, <1>9 DEF g, p, q, o

\* From the start of the piece to one of its characters, or to its end, the
\* columns are the characters between.
LEMMA PiecePlaces ==
    ASSUME NEW b, Plain(b), NEW end, NEW w, Draws(b, end, w),
           NEW r \in Stops(b), w.start <= r, r <= Over(b, w.ptr)
    PROVE  /\ RowAt(Content(b), Logical(b, r)) = w.y
           /\ ColAt(Content(b), Logical(b, r))
                 = w.x + Cardinality(InBuffer(b, w.start, r, Bytes \ Cont))
<1> DEFINE s == Content(b)
           p == w.start
           o == Over(b, w.ptr)
           j == Logical(b, p)
           k == Logical(b, r)
<1>1. /\ IsGapBuffer(b) /\ s \in Seq(Bytes)
      /\ Len(s) = TextLen(b) /\ TextLen(b) \in Nat
  BY TextIs
<1>2. /\ p \in Stops(b) /\ o \in Stops(b)
      /\ \A t \in Stops(b) : p <= t /\ t < o => b.text[t] \notin Newlines \cup {Tab}
      /\ w.x = ColAt(s, j) /\ w.y = RowAt(s, j)
  BY DEF Draws
<1>3. p \in Nat /\ o \in Nat /\ r \in Nat
  BY <1>1, <1>2, StopsAre
<1> HIDE DEF o
<1>4. /\ j \in Nat /\ k \in Nat /\ j <= k /\ k <= Len(s)
  BY <1>1, <1>2, StopsKeepOrder, StopIsBoundary
<1>5. ASSUME NEW i \in (j + 1)..k
      PROVE  s[i] \notin Newlines \cup {Tab}
  <2>1. SUFFICES ASSUME s[i] \in Newlines \cup {Tab} PROVE FALSE
    OBVIOUS
  <2> HIDE DEF j, k
  <2>2. i - 1 \in 0..(TextLen(b) - 1) /\ i - 1 + 1 = i /\ j <= i - 1 /\ i - 1 < k
    BY <1>1, <1>4
  <2>3. PICK t \in TextOffsets(b) : Logical(b, t) = i - 1
    BY <1>1, <2>2, OffsetOfByte
  <2>4. s[i] = b.text[t]
    BY <1>1, <2>2, <2>3, ByteOfText
  <2>5. t \in Stops(b)
    <3>1. b.text[t] \notin Cont
      BY <2>1, <2>4, WalkAssumption
    <3>2. QED
      BY <3>1 DEF TextOffsets, CharStarts, Stops
  <2>6. p <= t /\ t < r
    BY <1>1, <1>2, <2>2, <2>3, <2>5, StopsKeepOrder DEF j, k
  <2>7. t \in Nat
    BY <1>1, <2>5, StopsAre
  <2>8. t < o
    BY <1>3, <2>6, <2>7 DEF o
  <2>9. QED
    BY <1>2, <2>1, <2>4, <2>5, <2>6, <2>8
<1>6. /\ RowAt(s, k) = RowAt(s, j)
      /\ ColAt(s, k) = ColAt(s, j) + Cardinality(InText(s, j, k, Bytes \ Cont))
  <2> HIDE DEF s, j, k
  <2>1. QED
    BY <1>1, <1>4, <1>5, StretchIs
<1>7. Cardinality(InText(s, j, k, Bytes \ Cont))
         = Cardinality(InBuffer(b, p, r, Bytes \ Cont))
  <2>1. /\ p \in TextOffsets(b) \cup {MaxText(b.size)}
        /\ r \in TextOffsets(b) \cup {MaxText(b.size)}
    BY <1>1, <1>2, StopsAre
  <2>2. QED
    BY <1>1, <2>1, CountsAgree
<1>8. QED
  BY <1>2, <1>6, <1>7

\* The piece is drawn where the text has it, and its length is its columns.
LEMMA PieceIs ==
    ASSUME NEW b, Plain(b), Gap(b) > 0, NoNul(Content(b)), NEW end, NEW w, Draws(b, end, w)
    PROVE  /\ RowAt(Content(b), Logical(b, Over(b, w.ptr))) = w.y
           /\ ColAt(Content(b), Logical(b, Over(b, w.ptr))) = w.x + Advance(b, w)
           /\ w.drawn \cup Piece(b, w) = DrawnTo(b, Over(b, w.ptr))
<1> DEFINE p == w.start
           o == Over(b, w.ptr)
           g == Glyphs(b, p, w.ptr)
           X == Bytes \ Cont
<1>1. IsGapBuffer(b) /\ p \in Stops(b) /\ o \in Stops(b)
  BY DEF Plain, Draws
<1>2. g = InBuffer(b, p, o, X) /\ p <= o
  BY GlyphsOfText
<1>3. p \in Nat /\ o \in Nat /\ o <= End(b) /\ End(b) \in Nat /\ End(b) = MaxText(b.size)
  BY <1>1, StopsAre, Fields DEF End
<1>4. /\ RowAt(Content(b), Logical(b, o)) = w.y
      /\ ColAt(Content(b), Logical(b, o)) = w.x + Advance(b, w)
  <2>1. o <= o
    BY <1>3
  <2>2. Cardinality(InBuffer(b, p, o, X)) = Advance(b, w)
    BY <1>2 DEF Advance
  <2>3. QED
    BY <1>1, <1>2, <2>1, <2>2, PiecePlaces
<1>5. b.text \in [0..MaxText(b.size) -> Bytes]
  BY <1>1, Fields
<1>6. /\ g = {r \in CharStarts(b) : p <= r /\ r < o}
      /\ g \in SUBSET Nat
  <2>1. CharStarts(b) = {r \in TextOffsets(b) : b.text[r] \notin Cont}
    BY DEF CharStarts, TextOffsets
  <2>2. \A r \in TextOffsets(b) : r \in 0..MaxText(b.size)
    BY <1>1, Fields DEF TextOffsets
  <2>3. \A r \in TextOffsets(b) : b.text[r] \in Bytes /\ r \in Nat
    BY <1>3, <1>5, <2>2
  <2>4. QED
    BY <1>2, <2>1, <2>3 DEF InBuffer
<1>7. ASSUME NEW r \in g
      PROVE  <<r, w.x + Cardinality({i \in g : i < r}), w.y>> = Place(b, r)
  <2>1. r \in Stops(b) /\ p <= r /\ r <= o /\ r \in Nat /\ r < o
    BY <1>3, <1>6 DEF Stops
  <2>2. {i \in g : i < r} = InBuffer(b, p, r, X)
    <3>1. \A i \in TextOffsets(b) : i < r => i < o
      <4>1. \A i \in TextOffsets(b) : i \in Nat
        BY <1>1, Fields DEF TextOffsets
      <4>2. QED
        BY <1>3, <2>1, <4>1
    <3>2. QED
      BY <1>2, <3>1 DEF InBuffer
  <2> HIDE DEF g
  <2>3. QED
    BY <2>1, <2>2, PiecePlaces DEF Place
<1>8. Piece(b, w) = {Place(b, r) : r \in g}
  <2>1. Piece(b, w) = {<<r, w.x + Cardinality({i \in g : i < r}), w.y>> : r \in g}
    BY DEF Piece
  <2> HIDE DEF g
  <2>2. QED
    BY <1>7, <2>1
<1>9. \A r \in g : b.text[r] \notin Newlines \cup {Tab}
  <2>1. \A r \in Stops(b) : p <= r /\ r < o => b.text[r] \notin Newlines \cup {Tab}
    BY DEF Draws
  <2>2. QED
    BY <1>6, <2>1 DEF Stops
<1>10. {q \in Shown(b) : q < o} = {q \in Shown(b) : q < p} \cup g
  <2>1. \A q \in CharStarts(b) : q \in Nat
    BY <1>1, StopsAre DEF Stops
  <2>2. ASSUME NEW q \in Shown(b), q < o
        PROVE  q < p \/ q \in g
    BY <1>3, <1>6, <2>1, <2>2 DEF Shown
  <2>3. ASSUME NEW q \in Shown(b), q < p
        PROVE  q < o
    BY <1>2, <1>3, <2>1, <2>3 DEF Shown
  <2>4. \A q \in g : q \in Shown(b) /\ q < o
    BY <1>6, <1>9 DEF Shown
  <2> HIDE DEF g, o, p
  <2>5. QED
    BY <2>2, <2>3, <2>4
<1>11. w.drawn = {Place(b, r) : r \in {q \in Shown(b) : q < p}}
  BY DEF Draws, DrawnTo
<1> HIDE DEF g
<1>12. w.drawn \cup Piece(b, w) = DrawnTo(b, o)
  BY <1>8, <1>10, <1>11 DEF DrawnTo
<1>13. QED
  BY <1>4, <1>12

\* A step of the renderer goes on so.
LEMMA StepDraws ==
    ASSUME NEW b, Plain(b), Gap(b) > 0, NoNul(Content(b)), NEW end \in Stops(b),
           NEW w \in Walks, Draws(b, end, w), w.ptr < end
    PROVE  Draws(b, end, Step(b, w))
<1> DEFINE s == Content(b)
           p == w.start
           q == w.ptr
           o == Over(b, q)
           n == Seek(b, q)
<1>0. SUFFICES ASSUME NEW v, v = Step(b, w)
               PROVE  Draws(b, end, v)
  OBVIOUS
<1>1. /\ IsGapBuffer(b)
      /\ b.gap_start \in Nat /\ b.gap_end \in Nat
      /\ b.gap_start < b.gap_end /\ b.gap_end <= End(b)
      /\ End(b) \in Nat /\ end \in Nat /\ end <= End(b)
  BY TextIs, Fields, StopsAre DEF End
<1>2. /\ p \in Stops(b) /\ q \in Nat /\ o \in Stops(b) /\ p \in Nat
      /\ o <= end /\ p <= q /\ (q <= b.gap_start \/ b.gap_end <= p)
      /\ \A r \in Stops(b) : p <= r /\ r < o => b.text[r] \notin Newlines \cup {Tab}
  BY <1>1, StopsAre DEF Draws
<1>3. /\ RowAt(s, Logical(b, o)) = w.y
      /\ ColAt(s, Logical(b, o)) = w.x + Advance(b, w)
      /\ w.drawn \cup Piece(b, w) = DrawnTo(b, o)
  BY PieceIs
<1>4. \A r \in Stops(b) : /\ r \in Nat
                          /\ r < b.gap_start \/ b.gap_end <= r
                          /\ Over(b, r) = r
  <2>1. \A r \in Stops(b) : r \in Nat /\ (r < b.gap_start \/ b.gap_end <= r)
    BY <1>1, StopsAre
  <2>2. \A r \in Stops(b) : r # b.gap_start
    BY <1>1, <2>1
  <2>3. QED
    BY <2>1, <2>2 DEF Over
\* A new piece at a stop where everything before is drawn.
<1>5. ASSUME NEW r \in Stops(b), r <= end, NEW x, NEW y,
             v = NewPiece(b, w, r, x, y),
             x = ColAt(s, Logical(b, r)), y = RowAt(s, Logical(b, r)),
             w.drawn \cup Piece(b, w) = DrawnTo(b, r)
      PROVE  Draws(b, end, v)
  <2>1. /\ v.start = r /\ v.ptr = r /\ v.x = x /\ v.y = y
        /\ v.drawn = DrawnTo(b, r)
    BY <1>5 DEF NewPiece
  <2>2. r \in Nat /\ (r < b.gap_start \/ b.gap_end <= r) /\ Over(b, r) = r
    BY <1>4
  <2>3. /\ r <= b.gap_start \/ b.gap_end <= r
        /\ r <= r
        /\ \A t \in Stops(b) : ~(r <= t /\ t < r)
    BY <1>1, <1>4, <2>2
  <2>4. QED
    BY <1>5, <2>1, <2>2, <2>3 DEF Draws
<1>6. CASE q = b.gap_start
  <2>1. o = b.gap_end
    BY <1>6 DEF Over
  <2>2. v = NewPiece(b, w, o, w.x + Advance(b, w), w.y)
    BY <1>0, <1>6, <2>1 DEF Step
  <2> HIDE DEF o
  <2>3. QED
    BY <1>2, <1>3, <1>5, <2>2
<1>7. ASSUME q # b.gap_start
      PROVE  /\ o = q /\ q \in Stops(b) /\ q < End(b)
             /\ n \in Stops(b) /\ q < n /\ n <= end /\ n \in Nat
             /\ \A r \in Stops(b) : q < r => n <= r
             /\ b.text[q] \in Newlines \cup {Tab} => DrawnTo(b, n) = DrawnTo(b, o)
  <2>1. o = q /\ q \in Stops(b) /\ q < End(b)
    BY <1>1, <1>2, <1>7 DEF Over
  <2>2. /\ n \in Stops(b) /\ q < n
        /\ \A r \in Stops(b) : q < r => n <= r
    BY <2>1, SeekFinds
  <2>3. n <= end /\ n \in Nat
    BY <1>4, <2>2
  <2> HIDE DEF n, o
  <2>4. ASSUME b.text[q] \in Newlines \cup {Tab}
        PROVE  DrawnTo(b, n) = DrawnTo(b, o)
    <3>1. ASSUME NEW r \in Shown(b)
          PROVE  r < n <=> r < q
      <4>1. r \in Stops(b) /\ r # q
        BY <2>4 DEF Shown, Stops
      <4>2. r \in Nat /\ (q < r => n <= r)
        BY <1>4, <2>2, <4>1
      <4>3. QED
        BY <1>2, <2>2, <2>3, <4>1, <4>2
    <3>2. {r \in Shown(b) : r < n} = {r \in Shown(b) : r < q}
      BY <3>1
    <3>3. QED
      BY <2>1, <3>2 DEF DrawnTo
  <2>5. QED
    BY <2>1, <2>2, <2>3, <2>4
<1>8. CASE q # b.gap_start /\ b.text[q] = Tab
  <2>1. Tab \notin Newlines
    BY WalkAssumption
  <2>2. v = NewPiece(b, w, n, w.x + TabAdvance(b, w), w.y)
    BY <1>0, <1>8, <2>1 DEF Step, EndsRow
  <2>3. /\ RowAt(s, Logical(b, n)) = w.y
        /\ ColAt(s, Logical(b, n)) = w.x + Advance(b, w) + TabSpaces
    <3>1. /\ RowAt(s, Logical(b, n)) = RowAt(s, Logical(b, q))
          /\ ColAt(s, Logical(b, n)) = ColAt(s, Logical(b, q)) + Width(b.text[q])
      BY <1>7, <1>8, <2>1, NextPlace
    <3>2. Width(b.text[q]) = TabSpaces
      BY <1>8 DEF Width
    <3>3. QED
      BY <1>3, <1>7, <1>8, <3>1, <3>2
  <2>4. w.x + TabAdvance(b, w) = w.x + Advance(b, w) + TabSpaces
    <3>1. w.x \in Nat /\ Advance(b, w) \in Nat /\ TabSpaces \in Nat
      BY GlyphsAre, WalkAssumption DEF Walks, Advance
    <3>2. QED
      BY <3>1 DEF TabAdvance
  <2> HIDE DEF o, n
  <2>5. QED
    BY <1>3, <1>5, <1>7, <1>8, <2>2, <2>3, <2>4
<1>9. CASE q # b.gap_start /\ b.text[q] # Tab /\ EndsRow(b, q)
  <2>1. v = NewPiece(b, w, n, 0, w.y + 1)
    BY <1>0, <1>9 DEF Step
  <2>2. /\ RowAt(s, Logical(b, n)) = w.y + 1
        /\ ColAt(s, Logical(b, n)) = 0
    <3>1. b.text[q] \in Newlines
      BY <1>9 DEF EndsRow
    <3>2. /\ RowAt(s, Logical(b, n)) = RowAt(s, Logical(b, q)) + 1
          /\ ColAt(s, Logical(b, n)) = 0
      BY <1>7, <1>9, <3>1, NextPlace
    <3>3. QED
      BY <1>3, <1>7, <1>9, <3>2
  <2> HIDE DEF o, n
  <2>3. QED
    BY <1>3, <1>5, <1>7, <1>9, <2>1, <2>2 DEF EndsRow
<1>10. CASE q # b.gap_start /\ b.text[q] # Tab /\ ~EndsRow(b, q)
  <2> DEFINE t == NextChar(b, q)
  <2>1. v = [w EXCEPT !.ptr = t]
    BY <1>0, <1>10 DEF Step
  <2>2. /\ v.ptr = t /\ v.start = p /\ v.x = w.x /\ v.y = w.y /\ v.drawn = w.drawn
    BY <2>1 DEF Walks
  <2>3. /\ n = Over(b, t) /\ t \in Nat /\ q < t
        /\ q < b.gap_start => t <= b.gap_start
    BY <1>7, <1>10, NextCharStops
  <2> HIDE DEF n, t
  <2>4. p <= t /\ (t <= b.gap_start \/ b.gap_end <= p)
    BY <1>1, <1>2, <1>10, <2>3
  <2>5. ASSUME NEW r \in Stops(b), p <= r, r < n
        PROVE  b.text[r] \notin Newlines \cup {Tab}
    <3>1. r \in Nat /\ r <= q
      BY <1>2, <1>4, <1>7, <1>10, <2>5
    <3>2. CASE r = q
      BY <1>10, <3>2 DEF EndsRow
    <3>3. CASE r # q
      <4>1. r < o
        BY <1>2, <1>7, <1>10, <3>1, <3>3
      <4>2. QED
        BY <1>2, <2>5, <4>1
    <3>4. QED
      BY <3>2, <3>3
  <2>6. /\ w.x = ColAt(s, Logical(b, p)) /\ w.y = RowAt(s, Logical(b, p))
        /\ w.drawn = DrawnTo(b, p)
    BY DEF Draws
  <2> HIDE DEF p, q, o
  <2>7. QED
    BY <1>2, <1>7, <1>10, <2>2, <2>3, <2>4, <2>5, <2>6 DEF Draws
<1>11. QED
  BY <1>6, <1>8, <1>9, <1>10

\* The walk begins at the first place.
LEMMA FirstDraws ==
    ASSUME NEW b, Plain(b), Gap(b) > 0, NEW end \in Stops(b)
    PROVE  Draws(b, end, FirstWalk(b))
<1> DEFINE s == Content(b)
           p == Start(b)
<1>1. /\ IsGapBuffer(b) /\ s \in Seq(Bytes)
      /\ b.gap_start \in Nat /\ b.gap_end \in Nat
      /\ Gap(b) = b.gap_end - b.gap_start /\ b.gap_start < b.gap_end
  BY TextIs, Fields
<1>2. p \in Stops(b) /\ \A r \in Stops(b) : p <= r
  BY StartFinds
<1>3. Logical(b, p) = 0
  BY <1>1 DEF Logical, Start
<1>4. \A r \in Stops(b) : r \in Nat /\ (r < b.gap_start \/ b.gap_end <= r)
  BY <1>1, StopsAre
<1>5. RowAt(s, 0) = 0 /\ ColAt(s, 0) = 0
  <2>1. 1..0 = {}
    OBVIOUS
  <2>2. RowAt(s, 0) = 0
    BY <2>1, FS_EmptySet DEF RowAt
  <2>3. ColAt(s, 0) = 0 + TabSpaces * 0
    BY <2>1, FS_EmptySet DEF ColAt
  <2>4. QED
    BY <2>2, <2>3, WalkAssumption
<1>6. 0 \in Boundaries(s)
  BY <1>1, <1>2, <1>3, StopIsBoundary
<1>7. \A i \in Boundaries(s) : 0 <= i
  BY <1>1, BoundariesAre
<1>8. StartsRow(s, Logical(b, p), 0)
  BY <1>3, <1>5, <1>6, <1>7 DEF StartsRow
<1> HIDE DEF p
<1>9. LineStart(b, 0) = p
  BY <1>2, <1>8, RowFound
<1>10. FirstWalk(b) = [ptr |-> p, start |-> p, x |-> 0, y |-> 0, drawn |-> {}]
  BY <1>9 DEF FirstWalk
<1>11. /\ p \in Nat /\ (p < b.gap_start \/ b.gap_end <= p) /\ p # b.gap_start
       /\ p <= end /\ p <= p
  BY <1>1, <1>2, <1>4
<1>12. Over(b, p) = p
  BY <1>11 DEF Over
<1>13. DrawnTo(b, p) = {}
  <2>1. \A r \in Shown(b) : ~(r < p)
    BY <1>2, <1>4 DEF Shown, Stops
  <2>2. QED
    BY <2>1 DEF DrawnTo
<1>14. \A r \in Stops(b) : ~(p <= r /\ r < p)
  BY <1>2, <1>4
<1>15. p <= b.gap_start \/ b.gap_end <= p
  BY <1>1, <1>11
<1>16. QED
  BY <1>2, <1>3, <1>5, <1>10, <1>11, <1>12, <1>13, <1>14, <1>15 DEF Draws

\* What the loop has drawn when it ends.
LEMMA LoopDraws ==
    ASSUME NEW b, Plain(b), Gap(b) > 0, NoNul(Content(b)), NEW rows
    PROVE  /\ LineStart(b, rows) \in Stops(b)
           /\ Draws(b, LineStart(b, rows), Loop(b, rows))
<1> DEFINE end == LineStart(b, rows)
           m == Off(b)
<1>1. IsGapBuffer(b) /\ Visited(b) = Stops(b)
  BY TextIs
<1>2. end \in Stops(b)
  BY <1>1, LineStartIs
<1>3. PICK f : /\ Loop(b, rows) = f[m]
               /\ f[0] = FirstWalk(b)
               /\ \A n \in 1..m : f[n] = RenderTurn(b, end, f[n - 1])
               /\ \A n \in 0..m : f[n] \in Walks
  BY <1>1, LoopTurns
<1>4. m \in Nat
  BY <1>1, LoopTurns
<1> HIDE DEF m, end
<1> DEFINE T == {n \in 0..m : Draws(b, end, f[n])}
<1>5. 0 \in T
  BY <1>2, <1>3, <1>4, FirstDraws
<1>6. ASSUME NEW n \in 1..m, n - 1 \in T
      PROVE  n \in T
  <2>1. /\ n \in 0..m /\ n - 1 \in 0..m /\ Draws(b, end, f[n - 1])
        /\ f[n - 1] \in Walks
        /\ f[n] = RenderTurn(b, end, f[n - 1])
    BY <1>3, <1>4, <1>6
  <2>2. CASE f[n - 1].ptr < end
    <3>1. f[n] = Step(b, f[n - 1])
      BY <2>1, <2>2 DEF RenderTurn
    <3>2. Draws(b, end, f[n])
      BY <1>2, <2>1, <2>2, <3>1, StepDraws
    <3>3. QED
      BY <2>1, <3>2
  <2>3. CASE ~(f[n - 1].ptr < end)
    <3>1. f[n] = f[n - 1]
      BY <2>1, <2>3 DEF RenderTurn
    <3>2. QED
      BY <2>1, <3>1
  <2>4. QED
    BY <2>2, <2>3
<1>7. m \in T
  <2> HIDE DEF T
  <2>1. \A n \in 0..m : n \in T
    BY <1>4, <1>5, <1>6, EveryTurn
  <2>2. QED
    BY <1>4, <2>1
<1>8. QED
  BY <1>2, <1>3, <1>7 DEF end

\* The view ends behind the characters of its rows.
LEMMA ViewEnd ==
    ASSUME NEW b, Plain(b), NEW rows \in Nat, NEW r \in Stops(b), r < End(b)
    PROVE  r < LineStart(b, rows) <=> RowAt(Content(b), Logical(b, r)) < rows
<1> DEFINE s == Content(b)
           end == LineStart(b, rows)
           k == Logical(b, r)
           S == {p \in Visited(b) : Rows(b, Visited(b), 0, p) = rows \/ p >= End(b)}
<1>1. /\ IsGapBuffer(b) /\ Visited(b) = Stops(b) /\ s \in Seq(Bytes)
      /\ Len(s) = TextLen(b) /\ TextLen(b) \in Nat /\ End(b) \in Nat
  BY TextIs
<1>2. S \in SUBSET Nat /\ End(b) \in S
  <2>1. End(b) \in Stops(b)
    BY DEF Stops
  <2>2. QED
    BY <1>1, <2>1, StopsAre
<1>3. end \in S /\ \A p \in S : end <= p
  <2>1. end = Min(S)
    BY DEF LineStart
  <2> HIDE DEF S, end
  <2>2. QED
    BY <1>2, <2>1, MinIs
<1>4. \A p \in Stops(b) : /\ p \in Nat
                          /\ Rows(b, Visited(b), 0, p) = RowAt(s, Logical(b, p))
                          /\ Logical(b, p) \in Nat /\ Logical(b, p) <= TextLen(b)
                          /\ Logical(b, p) \in Boundaries(s)
                          /\ RowAt(s, Logical(b, p)) \in Nat
  <2>1. ASSUME NEW p \in Stops(b)
        PROVE  /\ p \in Nat
               /\ Rows(b, Visited(b), 0, p) = RowAt(s, Logical(b, p))
               /\ Logical(b, p) \in Nat /\ Logical(b, p) <= TextLen(b)
               /\ Logical(b, p) \in Boundaries(s)
    BY <1>1, StopsAre, RowsAgree, StopIsBoundary
  <2>2. \A n \in Nat : RowAt(s, n) \in Nat
    <3>1. \A n \in Nat : n <= n
      OBVIOUS
    <3>2. QED
      BY <3>1, RowsGrow
  <2> HIDE DEF s
  <2>3. QED
    BY <2>1, <2>2
<1>5. end \in Stops(b) /\ (RowAt(s, Logical(b, end)) = rows \/ end >= End(b)) /\ end \in Nat
  BY <1>1, <1>3, <1>4
<1>6. \A p \in Stops(b) : RowAt(s, Logical(b, p)) = rows => end <= p
  BY <1>1, <1>3, <1>4
<1> HIDE DEF S, end, s
<1>7. ASSUME r < end
      PROVE  RowAt(s, k) < rows
  <2>1. RowAt(s, k) # rows
    BY <1>4, <1>5, <1>6, <1>7
  <2>2. SUFFICES ASSUME RowAt(s, k) > rows PROVE FALSE
    BY <1>4, <2>1
  <2>3. RowAt(s, k) <= RowAt(s, Len(s)) /\ RowAt(s, Len(s)) \in Nat
    BY <1>1, <1>4, RowsGrow
  <2>4. rows <= RowAt(s, Len(s))
    BY <1>4, <2>2, <2>3
  <2>5. PICK i \in Boundaries(s) : RowAt(s, i) = rows
    BY <1>1, <2>4, RowExists
  <2>6. PICK p \in Stops(b) : Logical(b, p) = i
    BY <1>1, BoundaryIsStop DEF s
  <2>7. end <= p
    BY <1>6, <2>5, <2>6
  <2>8. r < p
    BY <1>4, <1>5, <1>7, <2>7
  <2>9. k <= i /\ k \in Nat /\ i \in Nat
    BY <1>1, <1>4, <2>6, <2>8, StopsKeepOrder
  <2>10. RowAt(s, k) <= RowAt(s, i)
    BY <2>9, RowsGrow
  <2>11. QED
    BY <1>4, <2>2, <2>5, <2>10
<1>8. ASSUME RowAt(s, k) < rows
      PROVE  r < end
  <2>1. CASE end >= End(b)
    BY <1>1, <1>4, <1>5, <2>1
  <2>2. CASE RowAt(s, Logical(b, end)) = rows
    <3>1. SUFFICES ASSUME end <= r PROVE FALSE
      BY <1>4, <1>5
    <3>2. Logical(b, end) <= k
      BY <1>1, <1>5, <3>1, StopsKeepOrder
    <3>3. RowAt(s, Logical(b, end)) <= RowAt(s, k)
      BY <1>4, <1>5, <3>2, RowsGrow
    <3>4. QED
      BY <1>4, <1>8, <2>2, <3>3
  <2>3. QED
    BY <1>5, <2>1, <2>2
<1>9. QED
  BY <1>7, <1>8 DEF s, end, k

\* The picture is what is drawn up to the end of the view.
LEMMA PictureIs ==
    ASSUME NEW b, Plain(b), NEW rows \in Nat
    PROVE  DrawnTo(b, LineStart(b, rows)) = Picture(b, rows)
<1> DEFINE s == Content(b)
           end == LineStart(b, rows)
           shown == {k \in Boundaries(s) \ {Len(s)} :
                        /\ s[k + 1] \notin Newlines \cup {Tab}
                        /\ RowAt(s, k) < rows}
           At(k) == <<IF k < b.gap_start THEN k ELSE k + Gap(b), ColAt(s, k), RowAt(s, k)>>
<1>1. /\ IsGapBuffer(b) /\ s \in Seq(Bytes)
      /\ Len(s) = TextLen(b) /\ TextLen(b) \in Nat /\ End(b) \in Nat
      /\ b.gap_start \in Nat /\ b.gap_end = b.gap_start + Gap(b) /\ Gap(b) \in Nat
  BY TextIs, GapIs
<1>2. Picture(b, rows) = {At(k) : k \in shown}
  BY DEF Picture
<1>3. ASSUME NEW r \in Stops(b)
      PROVE  At(Logical(b, r)) = Place(b, r)
  <2>1. r \in Nat /\ (r < b.gap_start \/ b.gap_end <= r)
    BY <1>1, StopsAre
  <2>2. (IF Logical(b, r) < b.gap_start THEN Logical(b, r) ELSE Logical(b, r) + Gap(b)) = r
    BY <1>1, <2>1 DEF Logical
  <2>3. QED
    BY <2>2 DEF Place
<1>4. ASSUME NEW r \in Shown(b), r < end
      PROVE  Logical(b, r) \in shown /\ r \in Stops(b)
  <2>1. r \in CharStarts(b) /\ r \in Stops(b) /\ b.text[r] \notin Newlines \cup {Tab}
    BY DEF Shown, Stops
  <2>2. r < End(b)
    BY <1>1, <2>1, Fields DEF CharStarts, End
  <2>3. /\ Logical(b, r) \in Boundaries(s) /\ Logical(b, r) < TextLen(b)
        /\ s[Logical(b, r) + 1] = b.text[r] /\ Logical(b, r) \in Nat
    BY <1>1, <2>1, <2>2, StopIsBoundary
  <2>4. RowAt(s, Logical(b, r)) < rows
    BY <1>4, <2>1, <2>2, ViewEnd
  <2> HIDE DEF s
  <2>5. QED
    BY <1>1, <2>1, <2>3, <2>4
<1>5. ASSUME NEW k \in shown
      PROVE  \E r \in Shown(b) : r < end /\ r \in Stops(b) /\ Logical(b, r) = k
  <2>1. /\ k \in Boundaries(s) /\ k # Len(s)
        /\ s[k + 1] \notin Newlines \cup {Tab} /\ RowAt(s, k) < rows
    OBVIOUS
  <2>2. PICK r \in Stops(b) : Logical(b, r) = k
    BY <1>1, <2>1, BoundaryIsStop
  <2>3. r # End(b)
    BY <1>1, <2>1, <2>2, StopIsBoundary
  <2>4. r \in Nat /\ r <= End(b) /\ (r < End(b) => r \in CharStarts(b))
    BY <1>1, StopsAre
  <2>5. r < End(b) /\ r \in CharStarts(b)
    BY <1>1, <2>3, <2>4
  <2>6. b.text[r] = s[k + 1]
    BY <1>1, <2>2, <2>5, StopIsBoundary
  <2>7. r < end
    BY <2>1, <2>2, <2>5, ViewEnd
  <2>8. QED
    BY <2>1, <2>2, <2>5, <2>6, <2>7 DEF Shown
<1>6. DrawnTo(b, end) = {Place(b, r) : r \in {q \in Shown(b) : q < end}}
  BY DEF DrawnTo
<1> HIDE DEF shown, At, end, s
<1>7. ASSUME NEW z \in DrawnTo(b, end)
      PROVE  z \in Picture(b, rows)
  <2>1. PICK r \in Shown(b) : r < end /\ z = Place(b, r)
    BY <1>6
  <2>2. Logical(b, r) \in shown /\ z = At(Logical(b, r))
    BY <1>3, <1>4, <2>1
  <2>3. QED
    BY <1>2, <2>2
<1>8. ASSUME NEW z \in Picture(b, rows)
      PROVE  z \in DrawnTo(b, end)
  <2>1. PICK k \in shown : z = At(k)
    BY <1>2
  <2>2. PICK r \in Shown(b) : r < end /\ r \in Stops(b) /\ Logical(b, r) = k
    BY <1>5
  <2>3. z = Place(b, r)
    BY <1>3, <2>1, <2>2
  <2>4. QED
    BY <1>6, <2>2, <2>3
<1>9. QED
  BY <1>7, <1>8 DEF end

\* The renderer draws the text.
LEMMA DrawnIs ==
    ASSUME NEW b, Plain(b), Gap(b) > 0, NoNul(Content(b)), NEW rows \in Nat
    PROVE  Drawn(b, rows) = Picture(b, rows)
<1> DEFINE end == LineStart(b, rows)
           w == Loop(b, rows)
<1>1. /\ IsGapBuffer(b) /\ b.gap_start \in Nat /\ b.gap_end \in Nat
      /\ Gap(b) = b.gap_end - b.gap_start /\ b.gap_start < b.gap_end
  BY TextIs, Fields
<1>2. end \in Stops(b) /\ Draws(b, end, w)
  BY LoopDraws
<1>3. w.ptr >= end
  BY <1>1, LoopEnds DEF Ends
<1>4. Drawn(b, rows) = IF w.start < end THEN w.drawn \cup Piece(b, w) ELSE w.drawn
  BY DEF Drawn
<1> HIDE DEF w, end
<1>5. /\ end \in Nat /\ end # b.gap_start /\ w.start \in Nat
      /\ w.start \in Stops(b)
      /\ w.ptr \in Nat /\ Over(b, w.ptr) <= end /\ w.start <= w.ptr
      /\ w.drawn = DrawnTo(b, w.start)
  <2>1. \A r \in Stops(b) : r \in Nat /\ r # b.gap_start
    BY <1>1, StopsAre
  <2>2. QED
    BY <1>2, <2>1 DEF Draws
<1>6. w.ptr = end /\ Over(b, w.ptr) = end
  <2>1. CASE w.ptr = b.gap_start
    BY <1>1, <1>3, <1>5, <2>1 DEF Over
  <2>2. CASE w.ptr # b.gap_start
    BY <1>1, <1>3, <1>5, <2>2 DEF Over
  <2>3. QED
    BY <2>1, <2>2
<1>7. CASE w.start < end
  <2>1. w.drawn \cup Piece(b, w) = DrawnTo(b, end)
    BY <1>2, <1>6, PieceIs
  <2>2. QED
    BY <1>4, <1>7, <2>1, PictureIs DEF end
<1>8. CASE ~(w.start < end)
  <2>1. w.start = end
    BY <1>5, <1>6, <1>8
  <2>2. QED
    BY <1>4, <1>5, <1>8, <2>1, PictureIs DEF end
<1>9. QED
  BY <1>7, <1>8

-----------------------------------------------------------------------------
(* The screen of the editor *)

\* The text has no '\0' of its own, and the gap is never used up.
DrawInv ==
    /\ PageInv
    /\ HasRoom
    /\ Gap(buf) > 0
    /\ NoNul(Content(buf))

\* A text that is put together from texts without '\0' has none.
LEMMA NoNulSpliced ==
    ASSUME NEW t \in Seq(Bytes), NoNul(t), NEW s \in Seq(Bytes), NoNul(s),
           NEW n \in 0..Len(t)
    PROVE  NoNul(Splice(t, n, s))
<1>1. Len(t) \in Nat /\ Len(s) \in Nat
  OBVIOUS
<1>2. QED
  BY <1>1 DEF NoNul, Splice

LEMMA NoNulCut ==
    ASSUME NEW t \in Seq(Bytes), NoNul(t), NEW m \in Nat, NEW n \in 0..Len(t), m <= n
    PROVE  NoNul(Cut(t, m, n))
<1>1. Len(t) \in Nat
  OBVIOUS
<1>2. QED
  BY <1>1 DEF NoNul, Cut

LEMMA DrawStarts ==
    ASSUME EditorInit
    PROVE  DrawInv
<1>1. PageInv /\ HasRoom
  BY PageStarts, EditorStarts
<1>2. Gap(buf) > 0
  BY <1>1 DEF HasRoom, EditorInit
<1>3. IsGapBuffer(buf) /\ TextLen(buf) \in Nat /\ Len(Content(buf)) = TextLen(buf)
  BY <1>1, BufIs, ContentIsSeq, GapIs DEF PageInv
<1>4. TextLen(buf) = 0
  <2>1. RoundUp(PageSize) = PageSize
    <3>1. PageSize \in Nat /\ PageSize > 0
      BY EditorAssumption, SizeAssumption
    <3>2. (PageSize + PageSize - 1) \div PageSize = 1
      BY <3>1
    <3>3. QED
      BY <3>1, <3>2 DEF RoundUp
  <2>2. buf = Blank(PageSize)
    BY <2>1, EditorAssumption DEF EditorInit, buf
  <2>3. MaxText(buf.size) \in Nat
    BY <1>3, Fields
  <2>4. QED
    BY <2>2, <2>3 DEF Blank, TextLen, Gap
<1>5. NoNul(Content(buf))
  BY <1>3, <1>4 DEF NoNul
<1>6. QED
  BY <1>1, <1>2, <1>5 DEF DrawInv

LEMMA DrawStays ==
    ASSUME FALSE \notin MmapOutcomes, \A s \in Inputs : NoNul(s),
           DrawInv, [EditorNext]_evars
    PROVE  DrawInv'
<1>1. PageInv' /\ HasRoom'
  BY PageStays, StepKeeps, StutterKeeps DEF DrawInv, PageInv
<1>2. /\ IsGapBuffer(buf) /\ DOMAIN buffers = Slots /\ 0 \in Slots
      /\ Gap(buf) > 0 /\ NoNul(Content(buf))
      /\ Content(buf) \in Seq(Bytes) /\ Len(Content(buf)) = TextLen(buf)
      /\ buf.gap_start \in Nat /\ buf.gap_start <= TextLen(buf)
      /\ TextLen(buf) \in Nat
  BY BufIs, TextIs, ContentIsSeq, GapIs DEF DrawInv, PageInv, TypeOK
<1>3. ASSUME buf' = buf
      PROVE  DrawInv'
  BY <1>1, <1>2, <1>3 DEF DrawInv
<1>4. ASSUME NEW m, proc = "running", Put(0, m), NoNul(Content(m))
      PROVE  DrawInv'
  <2>1. buf' = m /\ proc' = "running"
    BY <1>2, <1>4 DEF Put, buf
  <2>2. Gap(buf') > 0
    BY <1>1, <2>1 DEF HasRoom
  <2>3. QED
    BY <1>1, <1>4, <2>1, <2>2 DEF DrawInv
<1>5. CASE UNCHANGED evars
  BY <1>3, <1>5 DEF evars, buf
<1>6. CASE EditorNext
  <2> proc = "running"
    BY <1>6 DEF EditorNext
  <2>1. ASSUME NEW g \in Nat, Put(0, MoveGap(buf, g))
        PROVE  DrawInv'
    BY <1>2, <1>4, <2>1, MoveGapKeepsContent
  <2>2. ASSUME NEW s \in Inputs, Len(s) <= Gap(buf), Put(0, Store(buf, s))
        PROVE  DrawInv'
    <3>1. s \in Seq(Bytes) /\ NoNul(s)
      BY InputAssumption
    <3>2. Content(Store(buf, s)) = Splice(Content(buf), buf.gap_start, s)
      BY <1>2, <2>2, <3>1, StoreSplices
    <3>3. NoNul(Content(Store(buf, s)))
      BY <1>2, <3>1, <3>2, NoNulSpliced
    <3>4. QED
      BY <1>4, <2>2, <3>3
  <2>3. ASSUME StartsBefore(buf) # {}, Put(0, CutBack(buf, LastStart(buf)))
        PROVE  DrawInv'
    <3>1. LastStart(buf) \in Nat /\ LastStart(buf) <= buf.gap_start
      BY <1>2, <2>3, LastStartIsStart, Fields
    <3>2. Content(CutBack(buf, LastStart(buf)))
             = Cut(Content(buf), LastStart(buf), buf.gap_start)
      BY <1>2, <3>1, CutBackCuts
    <3>3. NoNul(Content(CutBack(buf, LastStart(buf))))
      BY <1>2, <3>1, <3>2, NoNulCut
    <3>4. QED
      BY <1>4, <2>3, <3>3
  <2>4. ASSUME NEW outcome \in Procs \ {"running"}, NEW causes, Fail(outcome, causes)
        PROVE  DrawInv'
    BY <1>3, <2>4 DEF Fail, buf
  <2>5. BufferStep
    BY <1>6, EveryStep DEF DrawInv, PageInv
  <2>6. QED
    BY <2>1, <2>2, <2>3, <2>4, <2>5 DEF BufferStep
<1>7. QED
  BY <1>5, <1>6

\* The block of the cursor is on the character behind the gap.
LEMMA BlockIsOnChar ==
    ASSUME PageInv, Sound, Agrees, NEW n \in Nat, row < n,
           buf.gap_end < End(buf),
           buf.text[buf.gap_end] \notin Newlines \cup {Tab}
    PROVE  <<buf.gap_end, col, row>> \in Picture(buf, n)
<1> DEFINE s == Content(buf)
           k == buf.gap_start
<1>1. /\ Plain(buf) /\ Text = s /\ k \in Boundaries(s) /\ IsGapBuffer(buf)
      /\ row = RowAt(s, k) /\ col = ColAt(s, k)
      /\ buf.gap_end \in Stops(buf) /\ Logical(buf, buf.gap_end) = k
  BY CursorPlace DEF Plain
<1>2. /\ k < TextLen(buf) /\ s[k + 1] = buf.text[buf.gap_end]
      /\ Len(s) = TextLen(buf) /\ TextLen(buf) \in Nat /\ k \in Nat
      /\ buf.gap_end \in Nat
  BY <1>1, StopIsBoundary, TextIs, Fields
<1>3. k + Gap(buf) = buf.gap_end /\ ~(k < buf.gap_start)
  BY <1>2 DEF Gap
<1>4. /\ k \in Boundaries(s) \ {Len(s)}
      /\ s[k + 1] \notin Newlines \cup {Tab}
      /\ RowAt(s, k) < n
  BY <1>1, <1>2
<1>5. <<IF k < buf.gap_start THEN k ELSE k + Gap(buf), ColAt(s, k), RowAt(s, k)>>
         \in Picture(buf, n)
  BY <1>4 DEF Picture
<1>6. QED
  BY <1>1, <1>3, <1>5

\* Where memory is granted and no '\0' is typed, a frame of a text on which
\* nothing misleads the walk shows each character of the rows in view at its
\* row and column and nothing else, and the block of a cursor that has the gap
\* with it lies on the character behind it (render.c:110-247).
THEOREM DrawsTheText ==
    ASSUME FALSE \notin MmapOutcomes, \A s \in Inputs : NoNul(s)
    PROVE  EditorSpec => []DrawsText
<1>1. DrawInv => DrawsText
  <2> SUFFICES ASSUME DrawInv, Sound, NEW n \in ViewRows
               PROVE  /\ Drawn(buf, n) = Picture(buf, n)
                      /\ (/\ Agrees
                          /\ row < n
                          /\ buf.gap_end < End(buf)
                          /\ buf.text[buf.gap_end] \notin Newlines \cup {Tab})
                         => <<buf.gap_end, col, row>> \in Drawn(buf, n)
    BY DEF DrawsText
  <2>1. n \in Nat
    BY EditorAssumption
  <2>2. Plain(buf) /\ PageInv
    BY SoundIsPlain DEF DrawInv
  <2>3. Drawn(buf, n) = Picture(buf, n)
    BY <2>1, <2>2, DrawnIs DEF DrawInv
  <2>4. QED
    BY <2>1, <2>2, <2>3, BlockIsOnChar
<1>2. EditorInit => DrawInv
  BY DrawStarts
<1>3. DrawInv /\ [EditorNext]_evars => DrawInv'
  BY DrawStays
<1>4. QED
  BY <1>1, <1>2, <1>3, PTL DEF EditorSpec

=============================================================================
