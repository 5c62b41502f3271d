-------------------------------- MODULE Sleep --------------------------------
(***************************************************************************)
(* sleep of lib/gen/sleep.c against the clock handler.  The 32-bit counter *)
(* utimeticks is incremented by the handler at IPL 7; sleep runs in user   *)
(* mode and reads it in two words, in the order the compiler chose, with   *)
(* any number of ticks in between (the clock may also give the processor   *)
(* to other tasks there).                                                  *)
(*                                                                         *)
(* A word has W values instead of 65536.  The counter starts anywhere; one *)
(* sleep is followed, and while it lasts the counter does not come round   *)
(* to the same value (on the machine that takes more than two years).      *)
(***************************************************************************)
EXTENDS Integers

CONSTANTS
    W,            \* values of a word
    CLK_FREQ,     \* ticks in a second (h/CONFIG.s)
    MaxGap        \* bound on the ticks between the two words of a read

M == W * W        \* values of a LONGWORD
Ints == -(W \div 2) .. (W \div 2) - 1

ASSUME SleepAssumption ==
    /\ W \in Nat /\ W > 1 /\ W % 2 = 0
    /\ CLK_FREQ \in Nat \ {0}
    /\ MaxGap \in Nat

VARIABLES
    utimeticks,   \* the counter
    highFirst,    \* the order of the two reads
    pc,           \* where sleep stands
    seconds,      \* its parameter
    word,         \* the first word of the read in progress
    ticks,        \* the counter when sleep began, as read
    elapsed,      \* history: ticks since the call
    lag,          \* history: elapsed when ticks had been read
    seen,         \* history: elapsed when the read in progress began
    torn          \* history: some read returned a value the counter never had

vars == <<utimeticks, highFirst, pc, seconds, word, ticks, elapsed, lag, seen,
          torn>>

(* A C int in a word, and its conversion to an unsigned long.               *)
ToInt(x) == IF x % W < W \div 2 THEN x % W ELSE (x % W) - W

(* sticks = seconds * CLK_FREQ, an int product converted to a LONGWORD.     *)
Sticks(s) == ToInt(s * CLK_FREQ) % M

Init ==
    /\ utimeticks \in 0 .. M - 1
    /\ highFirst \in BOOLEAN
    /\ pc = "call"
    /\ seconds \in Ints
    /\ word = 0
    /\ ticks = 0
    /\ elapsed = 0
    /\ lag = 0
    /\ seen = 0
    /\ torn = FALSE

(* Mutant of Tick: the counter stops at its largest value.                  *)
Tick_Saturates ==
    /\ pc \notin {"call", "start1", "done"}
    /\ utimeticks < M - 1
    /\ pc \in {"start2", "test2"} => elapsed - seen < MaxGap
    /\ pc \in {"test1", "test2"} => (utimeticks + 1) % M # ticks
    /\ utimeticks' = (utimeticks + 1) % M
    /\ elapsed' = elapsed + 1
    /\ UNCHANGED <<highFirst, pc, seconds, word, ticks, lag, seen, torn>>

(* muxx_clock_handler: utimeticks++.  Before the first read and after the   *)
(* last the counter may be anywhere, so its ticks there are left out.       *)
Tick ==
    /\ pc \notin {"call", "start1", "done"}
    /\ pc \in {"start2", "test2"} => elapsed - seen < MaxGap
    /\ pc \in {"test1", "test2"} => (utimeticks + 1) % M # ticks
    /\ utimeticks' = (utimeticks + 1) % M
    /\ elapsed' = elapsed + 1
    /\ UNCHANGED <<highFirst, pc, seconds, word, ticks, lag, seen, torn>>

High(c) == c \div W
Low(c)  == c % W

(* sleep(0) returns at once.                                                *)
Call ==
    /\ pc = "call"
    /\ pc' = IF seconds = 0 THEN "done" ELSE "start1"
    /\ UNCHANGED <<utimeticks, highFirst, seconds, word, ticks, elapsed, lag,
                   seen, torn>>

(* The first word of a read.                                                *)
First(from, to) ==
    /\ pc = from
    /\ pc' = to
    /\ word' = IF highFirst THEN High(utimeticks) ELSE Low(utimeticks)
    /\ seen' = elapsed
    /\ UNCHANGED <<utimeticks, highFirst, seconds, ticks, elapsed, lag, torn>>

(* The second word, and the value read.                                     *)
Value == IF highFirst THEN word * W + Low(utimeticks)
                      ELSE High(utimeticks) * W + word

(* A read is torn when the counter has not had its value since it began.    *)
Torn == ~ \E d \in 0 .. elapsed - seen : Value = (utimeticks - d) % M

(* ticks = utimeticks.                                                      *)
StartFirst == First("start1", "start2")

StartSecond ==
    /\ pc = "start2"
    /\ ticks' = Value
    /\ torn' = Torn
    /\ lag' = elapsed
    /\ pc' = "test1"
    /\ UNCHANGED <<utimeticks, highFirst, seconds, word, elapsed, seen>>

(* Mutant of Goes: the end is computed once and compared with the counter.  *)
Goes_Compare(now) == now < (ticks + Sticks(seconds)) % M

(* Mutant of Goes: one tick too many.                                       *)
Goes_OneMore(now) == (now - ticks) % M <= Sticks(seconds)

(* The condition of the loop, in unsigned arithmetic.                       *)
Goes(now) == (now - ticks) % M < Sticks(seconds)

(* while (utimeticks - ticks < sticks) yield().                             *)
TestFirst == First("test1", "test2")

TestSecond ==
    /\ pc = "test2"
    /\ torn' = (torn \/ Torn)
    /\ pc' = IF Goes(Value) THEN "test1" ELSE "done"
    /\ UNCHANGED <<utimeticks, highFirst, seconds, word, ticks, elapsed, lag,
                   seen>>

Next ==
    \/ Tick
    \/ Call
    \/ StartFirst \/ StartSecond
    \/ TestFirst  \/ TestSecond

(* The clock ticks, and the scheduler does not starve the sleeper.          *)
Spec ==
    /\ Init
    /\ [][Next]_vars
    /\ WF_vars(Tick)
    /\ WF_vars(Call \/ StartFirst \/ StartSecond \/ TestFirst \/ TestSecond)

-----------------------------------------------------------------------------
(* The product fits in an int.                                              *)
Fits == ToInt(seconds * CLK_FREQ) = seconds * CLK_FREQ /\ seconds >= 0

(* sleep does not return early, wherever the counter stood, its wrap        *)
(* included, as long as the product fits and no read was torn.              *)
SleptEnough ==
    pc = "done" /\ Fits /\ ~torn => elapsed >= seconds * CLK_FREQ

(* A test that begins when the time has passed ends the sleep, provided no  *)
(* read was torn: the difference of two wrapped counters is the time spent. *)
WakesInTime ==
    [][ TestSecond /\ ~torn' /\ seen - lag >= Sticks(seconds) => pc' = "done" ]_vars

(* Every sleep ends, those whose product became negative included, and      *)
(* those whose reads are torn.                                              *)
SleepEnds == <>(pc = "done")

=============================================================================
