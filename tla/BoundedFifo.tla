----------------------------- MODULE BoundedFifo -----------------------------
(***************************************************************************)
(* What the SPSC ring promises its two users: a first-in first-out channel *)
(* of at most Capacity unread items.  in is the sequence of items          *)
(* accepted by a successful try_push, out the sequence of items returned   *)
(* by try_pop.  A try_push that reports "full" and a try_pop that reports  *)
(* "empty" are stuttering steps.                                           *)
(***************************************************************************)
EXTENDS Naturals, Sequences

CONSTANTS Capacity,   \* the capacity given to spsc_ring
          Values      \* the items that can be sent

VARIABLES in, out

fifoVars == <<in, out>>

FifoInit == in = <<>> /\ out = <<>>

\* An accepted push: there was room for the item.
FifoPush(v) ==
    /\ Len(in) - Len(out) < Capacity
    /\ in' = Append(in, v)
    /\ UNCHANGED out

\* A pop returns the oldest unread item, and returns it whole.
FifoPop ==
    /\ Len(out) < Len(in)
    /\ out' = Append(out, in[Len(out) + 1])
    /\ UNCHANGED in

FifoNext == FifoPop \/ \E v \in Values : FifoPush(v)

FifoSpec == FifoInit /\ [][FifoNext]_fifoVars
=============================================================================
