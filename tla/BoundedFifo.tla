---------------------------- MODULE BoundedFifo -----------------------------
(***************************************************************************)
(* What every queue of wrapper/include promises its two users: items come  *)
(* out in the order they went in, none is lost or made up, and no more     *)
(* than Places are inside.                                                 *)
(***************************************************************************)
EXTENDS Naturals, Sequences

CONSTANTS Items, Places

VARIABLES content,   \* the items inside, oldest first
          offered,   \* the item the writer brought last
          out        \* the item the reader saw last

fifoVars == <<content, offered, out>>

FifoInit == content = <<>> /\ offered \in Items /\ out \in Items

Offer(item) == offered' = item /\ UNCHANGED <<content, out>>

Put(item) ==
  /\ Len(content) < Places
  /\ offered' = item
  /\ content' = Append(content, item)
  /\ UNCHANGED out

Peek ==
  /\ content # <<>>
  /\ out' = Head(content)
  /\ UNCHANGED <<content, offered>>

Get ==
  /\ content # <<>>
  /\ out' = Head(content)
  /\ content' = Tail(content)
  /\ UNCHANGED offered

\* An item that is put in without being offered anew is the one on offer.
FifoNext == \/ Peek \/ Get \/ Put(offered)
            \/ \E item \in Items : Offer(item) \/ Put(item)

FifoSpec == FifoInit /\ [][FifoNext]_fifoVars
=============================================================================
