-------------------------- MODULE FrameClockProofs --------------------------
(***************************************************************************)
(* Proofs about FrameClock, for any length of a second, of a frame and of  *)
(* the delay.                                                              *)
(***************************************************************************)
EXTENDS FrameClock, TLAPS

-----------------------------------------------------------------------------
(* Seconds and nanoseconds *)

\* A product grows with its first factor.
LEMMA ProductGrows ==
    ASSUME NEW m \in Nat, NEW n \in Nat, NEW k \in Nat, m <= n
    PROVE  m * k <= n * k
  BY SMT

\* A time of fewer seconds is earlier by at least what its seconds lack.
LEMMA SecondsDecide ==
    ASSUME NEW a \in Times, NEW b \in Times, a.s < b.s
    PROVE  Ns(a) < Ns(b)
  <1>1. a.s \in Nat /\ b.s \in Nat /\ a.ns \in 0..(NsPerSec - 1) /\ b.ns \in Nat
    BY ClockAssumption DEF Times
  <1>2. (a.s + 1) * NsPerSec <= b.s * NsPerSec
    BY <1>1, ClockAssumption, ProductGrows
  <1>3. (a.s + 1) * NsPerSec = a.s * NsPerSec + NsPerSec
    BY <1>1, ClockAssumption, SMT
  <1> DEFINE p == a.s * NsPerSec
             q == b.s * NsPerSec
             r == (a.s + 1) * NsPerSec
  <1>4. p \in Nat /\ q \in Nat
    BY <1>1, ClockAssumption, SMT
  <1>5. p + a.ns < q + b.ns
    <2> HIDE DEF p, q, r
    <2>1. p + NsPerSec <= q
      BY <1>2, <1>3, <1>4, ClockAssumption DEF p, q
    <2> QED
      BY <2>1, <1>1, <1>4, ClockAssumption
  <1> QED
    BY <1>5 DEF Ns

\* What Ns gives is a number.
LEMMA NsIsNat ==
    ASSUME NEW t \in Times
    PROVE  Ns(t) \in Nat
  <1>1. t.s \in Nat /\ t.ns \in Nat
    BY ClockAssumption DEF Times
  <1>2. t.s * NsPerSec \in Nat
    BY <1>1, ClockAssumption, SMT
  <1> QED
    BY <1>1, <1>2 DEF Ns

\* time_greater_than_or_equal_to is the order of the instants
\* (posix/time.c:36-44).
LEMMA OrderIsOfInstants ==
    ASSUME NEW a \in Times, NEW b \in Times
    PROVE  time_greater_than_or_equal_to(a, b) <=> Ns(a) >= Ns(b)
  <1>1. a.s \in Nat /\ b.s \in Nat /\ a.ns \in Nat /\ b.ns \in Nat
    BY ClockAssumption DEF Times
  <1>2. Ns(a) \in Nat /\ Ns(b) \in Nat
    BY NsIsNat
  <1>3. CASE a.s < b.s
    BY <1>1, <1>2, <1>3, SecondsDecide DEF time_greater_than_or_equal_to
  <1>4. CASE a.s > b.s
    BY <1>1, <1>2, <1>4, SecondsDecide DEF time_greater_than_or_equal_to
  <1>5. CASE a.s = b.s
    <2>1. a.s * NsPerSec \in Nat
      BY <1>1, ClockAssumption, SMT
    <2>2. Ns(a) >= Ns(b) <=> a.ns >= b.ns
      BY <1>1, <2>1, <1>5 DEF Ns
    <2> QED
      BY <1>1, <1>5, <2>2 DEF time_greater_than_or_equal_to
  <1> QED
    BY <1>1, <1>3, <1>4, <1>5

\* time_get_delta gives the time between two instants, with less than a
\* second of nanoseconds, whether or not a second has to be borrowed
\* (posix/time.c:17-28).
LEMMA DeltaIsExact ==
    ASSUME NEW a \in Times, NEW b \in Times, Ns(a) <= Ns(b)
    PROVE  /\ time_get_delta(a, b) \in Times
           /\ Ns(time_get_delta(a, b)) = Ns(b) - Ns(a)
  <1> DEFINE d == time_get_delta(a, b)
  <1>1. /\ a.s \in Nat /\ b.s \in Nat
        /\ a.ns \in 0..(NsPerSec - 1) /\ b.ns \in 0..(NsPerSec - 1)
    BY DEF Times
  <1>2. Ns(a) \in Nat /\ Ns(b) \in Nat
    BY NsIsNat
  <1>3. a.s <= b.s
    BY <1>1, <1>2, SecondsDecide
  <1>4. a.s = b.s => a.ns <= b.ns
    <2>1. a.s * NsPerSec \in Nat
      BY <1>1, ClockAssumption, SMT
    <2> QED
      BY <1>1, <2>1, ClockAssumption DEF Ns
  <1>5. CASE b.ns >= a.ns
    <2>1. d = [s |-> b.s - a.s, ns |-> b.ns - a.ns]
      BY <1>5 DEF time_get_delta
    <2>2. (b.s - a.s) * NsPerSec = b.s * NsPerSec - a.s * NsPerSec
      BY <1>1, ClockAssumption, SMT
    <2>3. d \in Times
      <3>1. b.s - a.s \in Nat /\ b.ns - a.ns \in 0..(NsPerSec - 1)
        BY <1>1, <1>3, <1>5, ClockAssumption
      <3> QED
        BY <2>1, <3>1 DEF Times
    <2>4. Ns(d) = (b.s - a.s) * NsPerSec + (b.ns - a.ns)
      BY <2>1 DEF Ns
    <2>5. b.s * NsPerSec \in Nat /\ a.s * NsPerSec \in Nat
      BY <1>1, ClockAssumption, SMT
    <2>6. Ns(d) = Ns(b) - Ns(a)
      BY <2>2, <2>4, <2>5, <1>1, ClockAssumption DEF Ns
    <2> QED
      BY <2>3, <2>6
  <1>6. CASE b.ns < a.ns
    <2>1. d = [s |-> b.s - a.s - 1, ns |-> (b.ns + NsPerSec) - a.ns]
      BY <1>1, <1>6, ClockAssumption DEF time_get_delta
    <2>2. (b.s - a.s - 1) * NsPerSec = b.s * NsPerSec - a.s * NsPerSec - NsPerSec
      BY <1>1, ClockAssumption, SMT
    <2>3. d \in Times
      <3>1. /\ b.s - a.s - 1 \in Nat
            /\ (b.ns + NsPerSec) - a.ns \in 0..(NsPerSec - 1)
        BY <1>1, <1>3, <1>4, <1>6, ClockAssumption
      <3> QED
        BY <2>1, <3>1 DEF Times
    <2>4. Ns(d) = (b.s - a.s - 1) * NsPerSec + ((b.ns + NsPerSec) - a.ns)
      BY <2>1 DEF Ns
    <2>5. b.s * NsPerSec \in Nat /\ a.s * NsPerSec \in Nat
      BY <1>1, ClockAssumption, SMT
    <2>6. Ns(d) = Ns(b) - Ns(a)
      BY <2>2, <2>4, <2>5, <1>1, ClockAssumption DEF Ns
    <2> QED
      BY <2>3, <2>6
  <1> QED
    BY <1>1, <1>5, <1>6, ClockAssumption

\* editor_frame_end computes the same time without borrowing (editor.c:224).
LEMMA ElapsedIsExact ==
    ASSUME NEW a \in Times, NEW b \in Times
    PROVE  (b.s - a.s) * NsPerSec + b.ns - a.ns = Ns(b) - Ns(a)
  <1>1. a.s \in Nat /\ b.s \in Nat /\ a.ns \in Nat /\ b.ns \in Nat
    BY ClockAssumption DEF Times
  <1>2. (b.s - a.s) * NsPerSec = b.s * NsPerSec - a.s * NsPerSec
    BY <1>1, ClockAssumption, SMT
  <1>3. b.s * NsPerSec \in Nat /\ a.s * NsPerSec \in Nat
    BY <1>1, ClockAssumption, SMT
  <1> QED
    BY <1>1, <1>2, <1>3 DEF Ns

\* Rounding down to microseconds takes away less than one.
LEMMA RoundingIsSmall ==
    ASSUME NEW n \in Nat
    PROVE  /\ (n \div NsPerUsec) * NsPerUsec \in Nat
           /\ n < (n \div NsPerUsec) * NsPerUsec + NsPerUsec
  <1> DEFINE q == n \div NsPerUsec
             r == n % NsPerUsec
  <1>1. q \in Nat /\ r \in 0..(NsPerUsec - 1)
    BY ClockAssumption, SMT
  <1>2. n = q * NsPerUsec + r
    BY ClockAssumption, SMT
  <1>3. q * NsPerUsec \in Nat
    BY <1>1, ClockAssumption, SMT
  <1> QED
    BY <1>1, <1>2, <1>3, ClockAssumption

-----------------------------------------------------------------------------
(* The main loop *)

\* The instants are in order, a sleep is long enough, and so each frame.
ClockInv ==
    /\ TypeOK
    /\ Ns(toggle) <= Ns(tick)
    /\ Ns(tick) <= Ns(now)
    /\ step = "sleep" => wake + NsPerUsec > Ns(tick) + Target
    /\ FramesArePaced
    /\ TogglesInTime

\* The first instants are in order.
LEMMA ClockInit == Init => ClockInv
  <1> SUFFICES ASSUME Init
               PROVE  ClockInv
    OBVIOUS
  <1>1. now \in Times /\ Zero \in Times
    BY ClockAssumption DEF Init, Times, Zero
  <1>2. Ns(now) \in Nat
    BY <1>1, NsIsNat
  <1>3. Ns(Zero) = 0
    BY ClockAssumption, SMT DEF Ns, Zero
  <1>4. TypeOK
    BY <1>1 DEF Init, TypeOK, Steps
  <1> QED
    BY <1>2, <1>3, <1>4 DEF Init, ClockInv, FramesArePaced, TogglesInTime

\* Where the clock passes, it passes by one nanosecond.
LEMMA PassIsOne ==
    ASSUME TypeOK, Pass
    PROVE  now' \in Times /\ Ns(now') = Ns(now) + 1
  <1>1. now \in Times /\ now.s \in Nat /\ now.ns \in 0..(NsPerSec - 1)
    BY DEF TypeOK, Times
  <1>2. (now.s + 1) * NsPerSec = now.s * NsPerSec + NsPerSec
    BY <1>1, ClockAssumption, SMT
  <1>3. now.s * NsPerSec \in Nat
    BY <1>1, ClockAssumption, SMT
  <1>4. CASE now.ns + 1 = NsPerSec
    <2>1. now' = [s |-> now.s + 1, ns |-> 0]
      BY <1>4 DEF Pass
    <2>2. now' \in Times
      BY <2>1, <1>1, ClockAssumption DEF Times
    <2>3. Ns(now') = (now.s + 1) * NsPerSec + 0
      BY <2>1 DEF Ns
    <2> QED
      BY <2>2, <2>3, <1>1, <1>2, <1>3, <1>4, ClockAssumption DEF Ns
  <1>5. CASE now.ns + 1 # NsPerSec
    <2>1. now' = [now EXCEPT !.ns = @ + 1]
      BY <1>5 DEF Pass
    <2>2. now' = [s |-> now.s, ns |-> now.ns + 1]
      BY <2>1, <1>1 DEF Times
    <2>3. now' \in Times
      BY <2>2, <1>1, <1>5, ClockAssumption DEF Times
    <2>4. Ns(now') = now.s * NsPerSec + (now.ns + 1)
      BY <2>2 DEF Ns
    <2> QED
      BY <2>3, <2>4, <1>1, <1>3, ClockAssumption DEF Ns
  <1> QED
    BY <1>4, <1>5

\* Whether the blink is due is a matter of instants.
LEMMA DueIsOfInstants ==
    ASSUME ClockInv
    PROVE  time_greater_than_or_equal_to(time_get_delta(toggle, tick), Delay)
              <=> Ns(tick) >= Ns(toggle) + Ns(Delay)
  <1>1. /\ toggle \in Times /\ tick \in Times /\ Delay \in Times
        /\ Ns(toggle) <= Ns(tick)
    BY ClockAssumption DEF ClockInv, TypeOK
  <1> DEFINE d == time_get_delta(toggle, tick)
  <1>2. d \in Times /\ Ns(d) = Ns(tick) - Ns(toggle)
    BY <1>1, DeltaIsExact
  <1>3. time_greater_than_or_equal_to(d, Delay) <=> Ns(d) >= Ns(Delay)
    BY <1>1, <1>2, OrderIsOfInstants
  <1>4. Ns(tick) \in Nat /\ Ns(toggle) \in Nat /\ Ns(Delay) \in Nat
    BY <1>1, NsIsNat
  <1> HIDE DEF d
  <1>5. Ns(d) >= Ns(Delay) <=> Ns(tick) >= Ns(toggle) + Ns(Delay)
    BY <1>2, <1>4
  <1> QED
    BY <1>3, <1>5 DEF d

\* Each step of the loop keeps the order of the instants.
LEMMA ClockNext ==
    ASSUME ClockInv, Delay # Zero, [Next]_vars
    PROVE  ClockInv'
  <1> DEFINE n == Ns(now)
             t == Ns(tick)
             g == Ns(toggle)
  <1>1. /\ now \in Times /\ tick \in Times /\ toggle \in Times
        /\ visible \in BOOLEAN /\ wake \in Nat /\ step \in Steps
    BY DEF ClockInv, TypeOK
  <1>2. n \in Nat /\ t \in Nat /\ g \in Nat /\ Ns(Delay) \in Nat
    BY <1>1, NsIsNat, ClockAssumption
  <1>3. g <= t /\ t <= n
    BY DEF ClockInv
  <1>4. Ns(Delay) > 0
    <2>1. Delay.s \in Nat /\ Delay.ns \in Nat /\ Delay = [s |-> Delay.s, ns |-> Delay.ns]
      BY ClockAssumption DEF Times
    <2>2. Delay.s > 0 => Delay.s * NsPerSec > 0
      BY <2>1, ClockAssumption, SMT
    <2>3. Delay.s * NsPerSec \in Nat
      BY <2>1, ClockAssumption, SMT
    <2>4. Delay.s > 0 \/ Delay.ns > 0
      BY <2>1 DEF Zero
    <2> QED
      BY <2>1, <2>2, <2>3, <2>4 DEF Ns
  <1> HIDE DEF n, t, g
  <1>5. CASE Pass
    <2>1. now' \in Times /\ Ns(now') = n + 1
      BY <1>5, PassIsOne DEF ClockInv, n
    <2>2. UNCHANGED <<tick, toggle, visible, wake, step>>
      BY <1>5 DEF Pass
    <2>3. TypeOK'
      BY <2>1, <2>2, <1>1 DEF TypeOK
    <2>4. Ns(tick') = t /\ Ns(toggle') = g
      BY <2>2 DEF t, g
    <2>5. step = "start" => n + NsPerUsec > t + Target
      BY DEF ClockInv, FramesArePaced, n, t
    <2>6. step = "start" => (n + 1) + NsPerUsec > t + Target
      BY <2>5, <1>2, ClockAssumption
    <2> QED
      BY <2>1, <2>2, <2>3, <2>4, <2>6, <1>2, <1>3
      DEF ClockInv, FramesArePaced, TogglesInTime, t, g
  <1>6. CASE editor_frame_start
    <2>1. tick' = now /\ step' = "simulate" /\ UNCHANGED <<now, toggle, visible, wake>>
      BY <1>6 DEF editor_frame_start
    <2>2. TypeOK'
      BY <2>1, <1>1 DEF TypeOK, Steps
    <2>3. Ns(tick') = n /\ Ns(now') = n /\ Ns(toggle') = g
      BY <2>1 DEF n, g
    <2> QED
      BY <2>1, <2>2, <2>3, <1>2, <1>3 DEF ClockInv, FramesArePaced, TogglesInTime
  <1>7. CASE \E moved \in BOOLEAN : Blink(moved)
    <2>1. PICK moved \in BOOLEAN : Blink(moved)
      BY <1>7
    <2> DEFINE due == time_greater_than_or_equal_to(time_get_delta(toggle, tick), Delay)
    <2>2. /\ toggle' = IF due THEN tick ELSE toggle
          /\ step' = "end" /\ UNCHANGED <<now, tick, wake>>
      BY <2>1 DEF Blink
    <2>3. visible' \in BOOLEAN
      BY <2>1, <1>1 DEF Blink
    <2>4. TypeOK'
      BY <2>2, <2>3, <1>1 DEF TypeOK, Steps
    <2>5. due <=> t >= g + Ns(Delay)
      BY DueIsOfInstants DEF t, g
    <2>6. Ns(tick') = t /\ Ns(now') = n
      BY <2>2 DEF n, t
    <2> HIDE DEF due
    <2>7. Ns(toggle') = IF due THEN t ELSE g
      BY <2>2 DEF t, g
    <2>8. Ns(toggle') <= t /\ t < Ns(toggle') + Ns(Delay)
      BY <2>5, <2>7, <1>2, <1>3, <1>4
    <2> QED
      BY <2>2, <2>4, <2>6, <2>8, <1>2, <1>3
      DEF ClockInv, FramesArePaced, TogglesInTime
  <1>8. CASE editor_frame_end
    <2> DEFINE elapsed == (now.s - tick.s) * NsPerSec + now.ns - tick.ns
               rest == Target - elapsed
    <2>1. elapsed = n - t
      BY <1>1, ElapsedIsExact DEF n, t
    <2>2. step = "end" /\ UNCHANGED <<now, tick, toggle, visible>>
      BY <1>8 DEF editor_frame_end
    <2>3. Ns(now') = n /\ Ns(tick') = t /\ Ns(toggle') = g
      BY <2>2 DEF n, t, g
    <2>4. t < g + Ns(Delay)
      BY <2>2 DEF ClockInv, TogglesInTime, t, g
    <2>5. CASE elapsed < Target /\ step' = "sleep"
               /\ wake' = n + (rest \div NsPerUsec) * NsPerUsec
      <3>1. rest \in Nat /\ rest = Target - (n - t)
        BY <2>1, <2>5, <1>2, <1>3, ClockAssumption
      <3> DEFINE slept == (rest \div NsPerUsec) * NsPerUsec
      <3>2. slept \in Nat /\ rest < slept + NsPerUsec
        BY <3>1, RoundingIsSmall
      <3>3. wake' = n + slept
        BY <2>5
      <3> HIDE DEF slept, rest
      <3>4. wake' \in Nat /\ wake' + NsPerUsec > t + Target
        BY <3>1, <3>2, <3>3, <1>2, <1>3, ClockAssumption
      <3>5. TypeOK'
        BY <2>2, <2>5, <3>4, <1>1 DEF TypeOK, Steps
      <3> QED
        BY <2>3, <2>4, <2>5, <3>4, <3>5, <1>3
        DEF ClockInv, FramesArePaced, TogglesInTime
    <2>6. CASE elapsed >= Target /\ step' = "start" /\ UNCHANGED wake
      <3>1. n + NsPerUsec > t + Target
        BY <2>1, <2>6, <1>2, <1>3, ClockAssumption
      <3>2. TypeOK'
        BY <2>2, <2>6, <1>1 DEF TypeOK, Steps
      <3> QED
        BY <2>3, <2>4, <2>6, <3>1, <3>2, <1>3
        DEF ClockInv, FramesArePaced, TogglesInTime
    <2> QED
      BY <1>8, <2>5, <2>6 DEF editor_frame_end, n
  <1>9. CASE time_sleep_us
    <2>1. /\ step = "sleep" /\ n >= wake
          /\ step' = "start" /\ UNCHANGED <<now, tick, toggle, visible, wake>>
      BY <1>9 DEF time_sleep_us, n
    <2>2. TypeOK'
      BY <2>1, <1>1 DEF TypeOK, Steps
    <2>3. Ns(now') = n /\ Ns(tick') = t /\ Ns(toggle') = g
      BY <2>1 DEF n, t, g
    <2>4. wake + NsPerUsec > t + Target /\ t < g + Ns(Delay)
      BY <2>1 DEF ClockInv, TogglesInTime, t, g
    <2>5. n + NsPerUsec > t + Target
      BY <2>1, <2>4, <1>1, <1>2, ClockAssumption
    <2> QED
      BY <2>1, <2>2, <2>3, <2>4, <2>5, <1>3
      DEF ClockInv, FramesArePaced, TogglesInTime
  <1>10. CASE UNCHANGED vars
    BY <1>10 DEF vars, ClockInv, TypeOK, FramesArePaced, TogglesInTime
  <1> QED
    BY <1>5, <1>6, <1>7, <1>8, <1>9, <1>10 DEF Next

\* Every behaviour keeps the order of the instants.
LEMMA ClockInvariant == ASSUME Delay # Zero PROVE Spec => []ClockInv
  <1>1. ClockInv /\ [Next]_vars => ClockInv'
    BY ClockNext
  <1> QED
    BY <1>1, ClockInit, PTL DEF Spec

\* However long the frames' work takes and wherever the seconds change, no
\* frame that is over was shorter than its target but for the rounding
\* (editor.c:218-234).
THEOREM Paced == ASSUME Delay # Zero PROVE Spec => []FramesArePaced
  <1>1. ClockInv => FramesArePaced
    BY DEF ClockInv
  <1> QED
    BY <1>1, ClockInvariant, PTL

\* The cursor never stays as it is for longer than the delay and the frame in
\* which it ends (editor.c:8-22).
THEOREM InTime == ASSUME Delay # Zero PROVE Spec => []TogglesInTime
  <1>1. ClockInv => TogglesInTime
    BY DEF ClockInv
  <1> QED
    BY <1>1, ClockInvariant, PTL

\* And it is never toggled twice within the delay.
THEOREM Apart == ASSUME Delay # Zero PROVE Spec => TogglesApart
  <1>1. ASSUME ClockInv, [Next]_vars
        PROVE  toggle' # toggle => Ns(toggle') >= Ns(toggle) + Ns(Delay)
    <2> SUFFICES ASSUME toggle' # toggle
                 PROVE  Ns(toggle') >= Ns(toggle) + Ns(Delay)
      OBVIOUS
    <2>1. PICK moved \in BOOLEAN : Blink(moved)
      BY <1>1 DEF Next, vars, Pass, editor_frame_start, editor_frame_end,
                  time_sleep_us
    <2>2. /\ time_greater_than_or_equal_to(time_get_delta(toggle, tick), Delay)
          /\ toggle' = tick
      BY <2>1 DEF Blink
    <2> QED
      BY <1>1, <2>2, DueIsOfInstants
  <1>2. ClockInv /\ [Next]_vars =>
           [toggle' # toggle => Ns(toggle') >= Ns(toggle) + Ns(Delay)]_vars
    BY <1>1
  <1> QED
    BY <1>2, ClockInvariant, PTL DEF Spec, TogglesApart

=============================================================================
