---------------------------- MODULE BoundedFifo ----------------------------
(***************************************************************************)
(* What the buffer between the ADC interrupt and detector() promises: a    *)
(* first-in first-out queue of samples that never refuses a sample.  When  *)
(* it is full the oldest sample makes room for the new one, and a consumer *)
(* that finds it empty is handed the default value 0.                      *)
(***************************************************************************)
EXTENDS Naturals, Sequences

CONSTANTS Capacity,  \* how many samples are kept at most
          Sample     \* the values a sample can have

VARIABLES fifo,      \* the samples kept, oldest first
          taken      \* what the consumer was last handed

vars == <<fifo, taken>>

Init == fifo = <<>> /\ taken = 0

Put(v) ==
  /\ fifo' = IF Len(fifo) < Capacity THEN Append(fifo, v)
                                     ELSE Append(Tail(fifo), v)
  /\ UNCHANGED taken

Take ==
  /\ fifo # <<>>
  /\ taken' = Head(fifo)
  /\ fifo' = Tail(fifo)

TakeNothing == fifo = <<>> /\ taken' = 0 /\ UNCHANGED fifo

Next == (\E v \in Sample : Put(v)) \/ Take \/ TakeNothing

Spec == Init /\ [][Next]_vars
=============================================================================
