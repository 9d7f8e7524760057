------------------------------ MODULE BeatMemory ------------------------------
(* What the AXI bridge promises its masters: a memory of beats that serves    *)
(* one burst after the other, in which a write takes effect at once and a     *)
(* read answers with what was written last.  Partial writes of one beat that  *)
(* follow one another are collected; what such a run of writes never reached  *)
(* holds Zero ("LIMITATION" in the header of axi4_hbmc_bridge.sv).            *)
EXTENDS Integers

CONSTANTS NBeats, Word, Data, Zero, MaxLen, None

Beat == 0..NBeats - 1
Line == [Word -> Data]

VARIABLES
  held,    \* what each beat holds
  burst,   \* the burst under way: its kind, next beat and beats to follow, or None
  open,    \* the beat whose partial writes are being collected, or None
  answer   \* the beat that is being answered to a read, or None

memoryVars == <<held, burst, open, answer>>

Init == held \in [Beat -> Line] /\ burst = None /\ open = None /\ answer = None

Rest(b) == IF b.left = 0 THEN None
           ELSE [op |-> b.op, beat |-> (b.beat + 1) % NBeats, left |-> b.left - 1]

BeginWrite ==
  /\ burst = None /\ answer = None
  /\ \E b \in Beat, n \in 0..MaxLen : burst' = [op |-> "write", beat |-> b, left |-> n]
  /\ UNCHANGED <<held, open, answer>>

\* A read ends the collecting.
BeginRead ==
  /\ burst = None /\ answer = None
  /\ \E b \in Beat, n \in 0..MaxLen : burst' = [op |-> "read", beat |-> b, left |-> n]
  /\ open' = None
  /\ UNCHANGED <<held, answer>>

WriteFull ==
  /\ burst # None /\ burst.op = "write"
  /\ \E d \in Line : held' = [held EXCEPT ![burst.beat] = d]
  /\ burst' = Rest(burst)
  /\ open' = None
  /\ UNCHANGED answer

WritePartial ==
  /\ burst # None /\ burst.op = "write" /\ burst.left = 0
  /\ \E s \in SUBSET Word, d \in Line :
       held' = [held EXCEPT ![burst.beat] =
         [w \in Word |-> IF w \in s THEN d[w]
                         ELSE IF open = burst.beat THEN held[burst.beat][w] ELSE Zero]]
  /\ burst' = None
  /\ open' = burst.beat
  /\ UNCHANGED answer

Answer ==
  /\ burst # None /\ burst.op = "read" /\ answer = None
  /\ answer' = held[burst.beat]
  /\ burst' = Rest(burst)
  /\ UNCHANGED <<held, open>>

Answered == answer # None /\ answer' = None /\ UNCHANGED <<held, burst, open>>

Next == BeginWrite \/ BeginRead \/ WriteFull \/ WritePartial \/ Answer \/ Answered

Spec == Init /\ [][Next]_memoryVars
===============================================================================
