---------------------------- MODULE BufferValues ----------------------------
(***************************************************************************)
(* What the buffer classes promise: every handle has a value of its own, a *)
(* sequence of bytes.  An operation changes the value of the handle it is  *)
(* called on, or of the two handles it moves or swaps, and of no other.    *)
(***************************************************************************)
EXTENDS Naturals, Sequences, SequencesExt

CONSTANT Handles

VARIABLE val

Init == val = [h \in Handles |-> <<>>]

Only(changed) == \A h \in Handles \ changed : val'[h] = val[h]

\* New memory or a literal
Fill(h) == val[h] = <<>>

Reset(h) == val'[h] = <<>>

\* Copies and slices: h gets a section of the value of o.
Take(h, o) ==
    \E beg, end \in 0..Len(val[o]) : val'[h] = SubSeq(val[o], beg + 1, end)

\* h becomes a longer or a shorter o (which can be h): what was there stays.
Resize(h, o) == IsPrefix(val[o], val'[h]) \/ IsPrefix(val'[h], val[o])

Move(h, o) == val'[h] = val[o] /\ val'[o] = <<>>

Swap(h, o) == val'[h] = val[o] /\ val'[o] = val[h]

Next ==
    \E h \in Handles :
        \/ /\ Only({h})
           /\ \/ Fill(h) \/ Reset(h)
              \/ \E o \in Handles : Take(h, o) \/ Resize(h, o)
        \/ \E o \in Handles : Only({h, o}) /\ (Move(h, o) \/ Swap(h, o))

Spec == Init /\ [][Next]_val

=============================================================================
