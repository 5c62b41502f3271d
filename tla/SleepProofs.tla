----------------------------- MODULE SleepProofs -----------------------------
(***************************************************************************)
(* sleep does not return early and wakes in time, for every word size,     *)
(* every clock frequency and any number of ticks between the two words of  *)
(* a read.                                                                 *)
(*                                                                         *)
(* The argument is about one number, the wrapped difference between the    *)
(* counter and the value sleep began with: unless a read was torn it lies  *)
(* between the ticks since that value was complete and the ticks since the *)
(* call.                                                                   *)
(***************************************************************************)
EXTENDS Sleep, TLAPS

(* The counter's distance from ticks, in unsigned arithmetic.               *)
Since == (utimeticks - ticks) % M

Steps == {"call", "start1", "start2", "test1", "test2", "done"}

IInv ==
    /\ utimeticks \in 0 .. M - 1
    /\ seconds \in Int
    /\ elapsed \in Nat /\ lag \in Nat /\ seen \in Nat
    /\ pc \in Steps
    /\ pc \in {"call", "start1"} => elapsed = 0
    /\ pc \in {"call", "start1", "start2"} => ~torn
    /\ pc = "start2" => seen <= elapsed
    /\ pc = "test1" => lag <= elapsed
    /\ pc = "test2" => lag <= seen /\ seen <= elapsed
    /\ pc \in {"test1", "test2"} /\ ~torn =>
          /\ ticks \in 0 .. M - 1
          /\ Since \in elapsed - lag .. elapsed
    /\ SleptEnough

-----------------------------------------------------------------------------
(* A division by m leaves a remainder below m.                              *)
LEMMA DivMod ==
    ASSUME NEW m \in Nat \ {0}, NEW a \in Int
    PROVE  /\ a = (a \div m) * m + (a % m)
           /\ a % m \in 0 .. m - 1
           /\ a \div m \in Int
  <1>1. a = (a \div m) * m + (a % m)
    OBVIOUS
  <1>2. a % m \in 0 .. m - 1
    OBVIOUS
  <1>3. a \div m \in Int
    OBVIOUS
  <1> QED
    BY <1>1, <1>2, <1>3

(* A remainder is determined by any decomposition of the number.            *)
LEMMA ModIs ==
    ASSUME NEW m \in Nat \ {0}, NEW a \in Int, NEW q \in Int, NEW r \in 0 .. m - 1,
           a = q * m + r
    PROVE  a % m = r
  <1> DEFINE k == a \div m
             o == a % m
  <1>1. a = k * m + o /\ o \in 0 .. m - 1 /\ k \in Int
    BY DivMod
  <1> HIDE DEF k, o
  <1>2. m * (q - k) = o - r
    BY <1>1
  <1>3. ~ (q - k >= 1)
    <2> SUFFICES ASSUME q - k >= 1 PROVE FALSE
      OBVIOUS
    <2>1. m * (q - k) >= m
      BY <1>1
    <2> QED
      BY <1>1, <1>2, <2>1
  <1>4. ~ (q - k <= -1)
    <2> SUFFICES ASSUME q - k <= -1 PROVE FALSE
      OBVIOUS
    <2>1. m * (q - k) <= -m
      BY <1>1
    <2> QED
      BY <1>1, <1>2, <2>1
  <1>5. q = k
    BY <1>1, <1>3, <1>4
  <1> QED
    BY <1>1, <1>2, <1>5 DEF o

(* Wrapping a number before subtracting from it changes nothing.            *)
LEMMA ModMinus ==
    ASSUME NEW m \in Nat \ {0}, NEW a \in Int, NEW b \in Int
    PROVE  ((a % m) - b) % m = (a - b) % m
  <1>1. a = (a \div m) * m + (a % m) /\ a % m \in Int /\ a \div m \in Int
    BY DivMod
  <1> DEFINE x == a % m
             q == a \div m
             k == (a - b) \div m
             r == (a - b) % m
  <1>2. a - b \in Int
    OBVIOUS
  <1>3. a - b = k * m + r /\ r \in 0 .. m - 1 /\ k \in Int
    BY <1>2, DivMod
  <1> HIDE DEF x, q, k, r
  <1>4. a = q * m + x /\ x \in Int /\ q \in Int
    BY <1>1 DEF x, q
  <1>5. x - b = (k - q) * m + r /\ x - b \in Int /\ k - q \in Int
    BY <1>3, <1>4
  <1>6. (x - b) % m = r
    BY <1>3, <1>5, ModIs
  <1> QED
    BY <1>6 DEF x, r

(* Nor does wrapping what is subtracted.                                    *)
LEMMA MinusMod ==
    ASSUME NEW m \in Nat \ {0}, NEW a \in Int, NEW b \in Int
    PROVE  (a - (b % m)) % m = (a - b) % m
  <1>1. b = (b \div m) * m + (b % m) /\ b % m \in Int /\ b \div m \in Int
    BY DivMod
  <1> DEFINE x == b % m
             q == b \div m
             k == (a - b) \div m
             r == (a - b) % m
  <1>2. a - b \in Int
    OBVIOUS
  <1>3. a - b = k * m + r /\ r \in 0 .. m - 1 /\ k \in Int
    BY <1>2, DivMod
  <1> HIDE DEF x, q, k, r
  <1>4. b = q * m + x /\ x \in Int /\ q \in Int
    BY <1>1 DEF x, q
  <1>5. a - x = (k + q) * m + r /\ a - x \in Int /\ k + q \in Int
    BY <1>3, <1>4
  <1>6. (a - x) % m = r
    BY <1>3, <1>5, ModIs
  <1> QED
    BY <1>6 DEF x, r

(* A remainder of a natural number is not above it.                         *)
LEMMA ModBelow ==
    ASSUME NEW m \in Nat \ {0}, NEW a \in Nat
    PROVE  a % m <= a /\ a % m \in 0 .. m - 1
  <1> DEFINE q == a \div m
             r == a % m
  <1>1. a = q * m + r /\ r \in 0 .. m - 1 /\ q \in Int
    BY DivMod
  <1> HIDE DEF q, r
  <1>2. q >= 0
    <2> SUFFICES ASSUME q <= -1 PROVE FALSE
      BY <1>1
    <2>1. q * m <= -m
      BY <1>1
    <2> QED
      BY <1>1, <2>1
  <1>3. q * m >= 0
    BY <1>1, <1>2
  <1> QED
    BY <1>1, <1>3 DEF r

(* A number below m is its own remainder.                                   *)
LEMMA ModSelf ==
    ASSUME NEW m \in Nat \ {0}, NEW a \in 0 .. m - 1
    PROVE  a % m = a
  <1>1. a = 0 * m + a
    OBVIOUS
  <1> QED
    BY <1>1, ModIs

-----------------------------------------------------------------------------
(* A LONGWORD has more values than a word.                                  *)
LEMMA Longword == M \in Nat \ {0} /\ W <= M /\ W \in Nat \ {0}
  <1>1. W \in Nat /\ W >= 1
    BY SleepAssumption
  <1>2. W * W >= W
    BY <1>1
  <1> QED
    BY <1>1, <1>2 DEF M

(* A product that fits is the number of ticks to sleep.                     *)
LEMMA SticksOfFits ==
    ASSUME seconds \in Int, Fits
    PROVE  Sticks(seconds) = seconds * CLK_FREQ /\ seconds * CLK_FREQ \in Nat
  <1> DEFINE x == seconds * CLK_FREQ
  <1>1. CLK_FREQ \in Nat
    BY SleepAssumption
  <1>2. seconds >= 0
    BY DEF Fits
  <1>3. x \in Nat
    BY <1>1, <1>2
  <1>4. ToInt(x) = x
    BY DEF Fits
  <1> HIDE DEF x
  <1>5. x % W \in 0 .. W - 1
    BY <1>3, Longword, DivMod
  <1>6. x < W
    BY <1>3, <1>4, <1>5, Longword DEF ToInt
  <1>7. x \in 0 .. M - 1
    BY <1>3, <1>6, Longword
  <1>8. x % M = x
    BY <1>7, Longword, ModSelf
  <1> QED
    BY <1>3, <1>4, <1>8 DEF Sticks, x

(* A tick moves the counter one further from ticks, and never all the way   *)
(* round.                                                                   *)
LEMMA SinceTick ==
    ASSUME NEW u \in 0 .. M - 1, NEW b \in 0 .. M - 1, (u + 1) % M # b
    PROVE  (((u + 1) % M) - b) % M = ((u - b) % M) + 1
  <1>0. M \in Nat \ {0} /\ u \in Int /\ b \in Int /\ u - b \in Int /\ u + 1 \in Int
    BY Longword
  <1> DEFINE q == (u - b) \div M
             r == (u - b) % M
  <1>1. u - b = q * M + r /\ r \in 0 .. M - 1 /\ q \in Int
    BY <1>0, DivMod
  <1>2. (((u + 1) % M) - b) % M = ((u + 1) - b) % M
    BY <1>0, ModMinus
  <1> HIDE DEF q, r
  <1>3. CASE r + 1 <= M - 1
    <2>1. (u + 1) - b = q * M + (r + 1) /\ r + 1 \in 0 .. M - 1
      BY <1>0, <1>1, <1>3
    <2>2. ((u + 1) - b) % M = r + 1
      BY <1>0, <1>1, <2>1, ModIs
    <2> QED
      BY <1>2, <2>2 DEF r
  <1>4. CASE r = M - 1
    <2>1. u + 1 = (q + 1) * M + b
      BY <1>0, <1>1, <1>4
    <2>2. (u + 1) % M = b
      BY <1>0, <1>1, <2>1, ModIs
    <2> QED
      BY <2>2
  <1> QED
    BY <1>0, <1>1, <1>3, <1>4

(* A test that was not torn has read a value the counter had d ticks ago,   *)
(* and finds the difference d ticks smaller than it is now.                 *)
LEMMA TestReads ==
    ASSUME IInv, pc = "test2", ~torn, ~Torn
    PROVE  \E d \in 0 .. elapsed - seen :
              (Value - ticks) % M = Since - d /\ d <= Since
  <1>0. M \in Nat \ {0}
    BY Longword
  <1>1. /\ ticks \in 0 .. M - 1 /\ utimeticks \in 0 .. M - 1
        /\ Since \in elapsed - lag .. elapsed
        /\ lag <= seen /\ seen <= elapsed /\ elapsed \in Nat /\ lag \in Nat /\ seen \in Nat
    BY DEF IInv
  <1>2. PICK d \in 0 .. elapsed - seen : Value = (utimeticks - d) % M
    BY DEF Torn
  <1>3. d \in Nat /\ d <= Since /\ Since \in Int
    BY <1>1, <1>2
  <1> DEFINE a == utimeticks - ticks
  <1>4. (Value - ticks) % M = ((utimeticks - d) - ticks) % M
    <2>1. utimeticks - d \in Int /\ ticks \in Int
      BY <1>0, <1>1, <1>3
    <2> QED
      BY <1>0, <1>2, <2>1, ModMinus
  <1>5. (utimeticks - d) - ticks = a - d /\ a \in Int
    BY <1>1, <1>3
  <1>6. a % M = Since
    BY DEF Since
  <1> HIDE DEF a
  <1>7. (Since - d) % M = (a - d) % M
    <2>1. d \in Int /\ a \in Int
      BY <1>3, <1>5
    <2>2. ((a % M) - d) % M = (a - d) % M
      BY <1>0, <2>1, ModMinus
    <2> QED
      BY <1>6, <2>2, Zenon
  <1>8. Since \in 0 .. M - 1
    BY <1>0, <1>5, <1>6, DivMod
  <1>9. (Since - d) % M = Since - d
    <2>1. Since - d \in 0 .. M - 1
      BY <1>0, <1>3, <1>8
    <2> QED
      BY <1>0, <2>1, ModSelf
  <1> QED
    BY <1>3, <1>4, <1>5, <1>7, <1>9

-----------------------------------------------------------------------------
(* Before the call nothing has elapsed.                                     *)
LEMMA InvInit == Init => IInv
  BY DEF Init, IInv, Steps, Ints, SleptEnough

(* A tick.                                                                  *)
LEMMA TickStep == IInv /\ Tick => IInv'
  <1> SUFFICES ASSUME IInv, Tick PROVE IInv'
    OBVIOUS
  <1>1. /\ utimeticks' = (utimeticks + 1) % M /\ elapsed' = elapsed + 1
        /\ pc \notin {"call", "start1", "done"}
        /\ pc \in {"test1", "test2"} => (utimeticks + 1) % M # ticks
        /\ UNCHANGED <<pc, seconds, ticks, lag, seen, torn>>
    BY DEF Tick
  <1>2. utimeticks' \in 0 .. M - 1
    <2>1. utimeticks + 1 \in Int
      BY Longword DEF IInv
    <2> QED
      BY <1>1, <2>1, Longword, DivMod
  <1>3. ASSUME pc \in {"test1", "test2"}, ~torn
        PROVE  Since' \in elapsed' - lag .. elapsed'
    <2>1. utimeticks \in 0 .. M - 1 /\ ticks \in 0 .. M - 1
          /\ Since \in elapsed - lag .. elapsed
      BY <1>3 DEF IInv
    <2>2. Since' = Since + 1
      BY <1>1, <1>3, <2>1, SinceTick DEF Since
    <2> QED
      BY <1>1, <2>1, <2>2 DEF IInv
  <1>4. SleptEnough'
    BY <1>1 DEF SleptEnough
  <1> QED
    BY <1>1, <1>2, <1>3, <1>4 DEF IInv

(* The call and the first word of a read.                                   *)
LEMMA FirstStep == IInv /\ (Call \/ StartFirst \/ TestFirst) => IInv'
  <1> SUFFICES ASSUME IInv, Call \/ StartFirst \/ TestFirst PROVE IInv'
    OBVIOUS
  <1>1. CASE Call
    <2>1. SleptEnough'
      <3>1. pc' = "done" => seconds = 0 /\ elapsed = 0
        BY <1>1 DEF Call, IInv
      <3> QED
        BY <1>1, <3>1, SleepAssumption DEF Call, SleptEnough, IInv
    <2> QED
      BY <1>1, <2>1 DEF Call, IInv, Steps
  <1>2. CASE StartFirst
    <2>1. /\ pc = "start1" /\ pc' = "start2" /\ seen' = elapsed
          /\ UNCHANGED <<utimeticks, seconds, ticks, elapsed, lag, torn>>
      BY <1>2 DEF StartFirst, First
    <2> QED
      BY <2>1 DEF IInv, Steps, SleptEnough
  <1>3. CASE TestFirst
    <2>1. /\ pc = "test1" /\ pc' = "test2" /\ seen' = elapsed
          /\ UNCHANGED <<utimeticks, seconds, ticks, elapsed, lag, torn>>
      BY <1>3 DEF TestFirst, First
    <2> QED
      BY <2>1 DEF IInv, Steps, SleptEnough, Since
  <1> QED
    BY <1>1, <1>2, <1>3

(* ticks has been read: it is at most as old as the read.                   *)
LEMMA StartSecondStep == IInv /\ StartSecond => IInv'
  <1> SUFFICES ASSUME IInv, StartSecond PROVE IInv'
    OBVIOUS
  <1>1. /\ pc = "start2" /\ pc' = "test1" /\ ticks' = Value /\ torn' = Torn
        /\ lag' = elapsed /\ UNCHANGED <<utimeticks, seconds, elapsed, seen>>
    BY DEF StartSecond
  <1>2. /\ utimeticks \in 0 .. M - 1 /\ elapsed \in Nat /\ seen \in Nat
        /\ M \in Nat \ {0}
    BY Longword DEF IInv
  <1>3. ASSUME ~torn'
        PROVE  ticks' \in 0 .. M - 1 /\ Since' \in 0 .. elapsed
    <2>1. PICK d \in 0 .. elapsed - seen : Value = (utimeticks - d) % M
      BY <1>1, <1>3 DEF Torn
    <2>2. d \in Nat /\ utimeticks - d \in Int /\ d <= elapsed
      BY <1>2, <2>1
    <2>3. ticks' \in 0 .. M - 1
      BY <1>1, <1>2, <2>1, <2>2, DivMod
    <2>4. (utimeticks - ((utimeticks - d) % M)) % M = (utimeticks - (utimeticks - d)) % M
      <3>1. utimeticks \in Int
        BY <1>2
      <3> QED
        BY <1>2, <2>2, <3>1, MinusMod
    <2>5. utimeticks - (utimeticks - d) = d
      BY <1>2, <2>2
    <2>6. Since' = d % M
      BY <1>1, <2>1, <2>4, <2>5 DEF Since
    <2>7. d % M <= d /\ d % M \in 0 .. M - 1
      BY <1>2, <2>2, ModBelow
    <2>8. d % M \in 0 .. elapsed
      BY <1>2, <2>2, <2>7
    <2> QED
      BY <2>3, <2>6, <2>8, Zenon
  <1>4. elapsed' - lag' = 0
    BY <1>1, <1>2
  <1> QED
    BY <1>1, <1>2, <1>3, <1>4 DEF IInv, Steps, SleptEnough

(* The test.                                                                *)
LEMMA TestSecondStep == IInv /\ TestSecond => IInv'
  <1> SUFFICES ASSUME IInv, TestSecond PROVE IInv'
    OBVIOUS
  <1>1. /\ pc = "test2" /\ torn' = (torn \/ Torn)
        /\ pc' = IF Goes(Value) THEN "test1" ELSE "done"
        /\ UNCHANGED <<utimeticks, seconds, ticks, elapsed, lag, seen>>
    BY DEF TestSecond
  <1>2. SleptEnough'
    <2> SUFFICES ASSUME pc' = "done", Fits, ~torn, ~Torn
                 PROVE  elapsed >= seconds * CLK_FREQ
      BY <1>1 DEF SleptEnough, Fits
    <2>1. PICK d \in 0 .. elapsed - seen :
            (Value - ticks) % M = Since - d /\ d <= Since
      BY <1>1, TestReads
    <2>2. Sticks(seconds) = seconds * CLK_FREQ /\ seconds * CLK_FREQ \in Nat
      BY SticksOfFits DEF IInv
    <2>3. ~ ((Value - ticks) % M < Sticks(seconds))
      BY <1>1 DEF Goes
    <2>4. Since \in elapsed - lag .. elapsed /\ elapsed \in Nat /\ lag \in Nat
          /\ seen \in Nat
      BY <1>1 DEF IInv
    <2> HIDE DEF Since
    <2> QED
      BY <2>1, <2>2, <2>3, <2>4
  <1>3. pc' \in {"test1", "done"} /\ (~torn' => ~torn) /\ Since' = Since
    BY <1>1 DEF Since
  <1>4. pc' = "test1" /\ ~torn' =>
          ticks' \in 0 .. M - 1 /\ Since' \in elapsed' - lag' .. elapsed'
    <2> SUFFICES ASSUME pc' = "test1", ~torn'
                 PROVE  ticks \in 0 .. M - 1 /\ Since \in elapsed - lag .. elapsed
      BY <1>1, <1>3, Zenon
    <2> QED
      BY <1>1, <1>3 DEF IInv
  <1>5. lag <= elapsed
    BY <1>1 DEF IInv
  <1> HIDE DEF Since
  <1> QED
    BY <1>1, <1>2, <1>3, <1>4, <1>5 DEF IInv, Steps

(* The inductive invariant is kept by every step.                           *)
LEMMA InvStep == IInv /\ [Next]_vars => IInv'
  <1>1. IInv /\ UNCHANGED vars => IInv'
    BY DEF vars, IInv, Since, SleptEnough, Fits
  <1> QED
    BY <1>1, TickStep, FirstStep, StartSecondStep, TestSecondStep DEF Next

(* IInv holds in every state of every behaviour.                            *)
THEOREM InductiveInvariant == Spec => []IInv
  BY InvInit, InvStep, PTL DEF Spec

(* sleep does not return early: the unsigned difference is right across the *)
(* wrap of the counter, from every starting value, unless a read was torn.  *)
THEOREM NeverEarly == Spec => []SleptEnough
  <1>1. IInv => SleptEnough
    BY DEF IInv
  <1> QED
    BY <1>1, InductiveInvariant, PTL

(* A test that begins after the time has passed is the last one.            *)
THEOREM NeverLate == Spec => WakesInTime
  <1>1. IInv /\ [Next]_vars =>
          [TestSecond /\ ~torn' /\ seen - lag >= Sticks(seconds) => pc' = "done"]_vars
    <2> SUFFICES ASSUME IInv, TestSecond, ~torn', seen - lag >= Sticks(seconds)
                 PROVE  pc' = "done"
      OBVIOUS
    <2>1. /\ pc = "test2" /\ ~torn /\ ~Torn
          /\ pc' = IF Goes(Value) THEN "test1" ELSE "done"
      BY DEF TestSecond
    <2>2. PICK d \in 0 .. elapsed - seen :
            (Value - ticks) % M = Since - d /\ d <= Since
      BY <2>1, TestReads
    <2>3. Since \in elapsed - lag .. elapsed /\ elapsed \in Nat /\ lag \in Nat
          /\ seen \in Nat
      BY <2>1 DEF IInv
    <2>4. Sticks(seconds) \in Int
      <3>1. seconds * CLK_FREQ \in Int
        BY SleepAssumption DEF IInv
      <3>2. ToInt(seconds * CLK_FREQ) \in Int
        <4>1. (seconds * CLK_FREQ) % W \in Int /\ W \in Nat
          BY <3>1, Longword, DivMod
        <4> QED
          BY <4>1 DEF ToInt
      <3> QED
        BY <3>2, Longword, DivMod DEF Sticks
    <2> HIDE DEF Since
    <2>5. ~ ((Value - ticks) % M < Sticks(seconds))
      BY <2>2, <2>3, <2>4
    <2> QED
      BY <2>1, <2>5 DEF Goes
  <1> QED
    BY <1>1, InductiveInvariant, PTL DEF Spec, WakesInTime

=============================================================================
