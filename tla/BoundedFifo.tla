---------------------------- MODULE BoundedFifo ----------------------------
(***************************************************************************)
(* What the kernel's two message conduits (ipc/channel.rs, ipc/pipe.rs)    *)
(* promise: items come out in the order in which they went in, none lost,  *)
(* invented or repeated, never more than Capacity of them in between, and  *)
(* once a receiver has been told that the stream is over nothing goes in.  *)
(* IpcChannel and Pipe are shown to implement this specification.          *)
(***************************************************************************)
EXTENDS Naturals, Sequences, SequencesExt

CONSTANTS
    Item,       \* what is sent
    Capacity    \* how many items may be in flight

VARIABLES
    accepted,   \* everything that ever went in, in order
    delivered,  \* everything that ever came out, in order
    over        \* a receiver was told that nothing more will come

fifoVars == <<accepted, delivered, over>>

FifoTypeOK ==
    /\ accepted \in Seq(Item)
    /\ delivered \in Seq(Item)
    /\ over \in BOOLEAN

FifoInit ==
    /\ accepted = <<>>
    /\ delivered = <<>>
    /\ over = FALSE

\* Some items go in at once, as far as there is room.
Accept ==
    /\ ~over
    /\ \E k \in 1 .. Capacity - (Len(accepted) - Len(delivered)) :
          /\ Len(accepted') = Len(accepted) + k
          /\ IsPrefix(accepted, accepted')
    /\ UNCHANGED <<delivered, over>>

\* Some items come out at once: the oldest ones that have not come out yet.
Deliver ==
    /\ \E k \in 1 .. Len(accepted) - Len(delivered) :
          delivered' = SubSeq(accepted, 1, Len(delivered) + k)
    /\ UNCHANGED <<accepted, over>>

\* The end is announced only when everything that went in has come out.
EndOfStream ==
    /\ accepted = delivered
    /\ over' = TRUE
    /\ UNCHANGED <<accepted, delivered>>

FifoNext == Accept \/ Deliver \/ EndOfStream

FifoSpec == FifoInit /\ [][FifoNext]_fifoVars
=============================================================================
