----------------------------- MODULE FifoChannel -----------------------------
(***************************************************************************)
(* What a multiplexed channel promises of the payloads it carries: each is *)
(* accepted once, and the receiving application sees a growing prefix of   *)
(* what was accepted, in that order and without repetition.  One step may  *)
(* hand over several payloads, since one packet may fill a gap.            *)
(***************************************************************************)
EXTENDS Naturals, Sequences

CONSTANT Calls

VARIABLES accepted, received

fifoVars == << accepted, received >>

FifoInit ==
  /\ accepted = << >>
  /\ received = << >>

Accept ==
  /\ \E c \in Calls :
       /\ \A i \in DOMAIN accepted : accepted[i] # c
       /\ accepted' = Append(accepted, c)
  /\ UNCHANGED received

HandOver ==
  /\ \E n \in (Len(received) + 1) .. Len(accepted) :
       received' = SubSeq(accepted, 1, n)
  /\ UNCHANGED accepted

FifoNext == Accept \/ HandOver

FifoSpec == FifoInit /\ [][FifoNext]_fifoVars

=============================================================================
