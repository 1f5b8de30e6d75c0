----------------------------- MODULE LayerLoan -----------------------------
(***************************************************************************)
(* What a staging source promises its consumer (get and release of         *)
(* src/src/souplite/utils/async_disk_source.py), with no slot, no reader   *)
(* and no queue in sight: a get ends by lending the bytes of the layer     *)
(* asked for, or by refusing; the bytes on loan, and those of every copy   *)
(* enqueued out of a loan, stay the ones that were lent.                   *)
(***************************************************************************)
EXTENDS Integers, Sequences

CONSTANTS Layer, NoLayer

VARIABLES
  asked,    \* the layer of the get in progress
  lent,     \* the layer whose bytes the consumer may read
  transit   \* the layers whose bytes the copies in flight are reading

loanVars == <<asked, lent, transit>>

Init == asked = NoLayer /\ lent = NoLayer /\ transit = <<>>

\* Asking may end the loan of the previous layer.
Ask(l) ==
  /\ asked = NoLayer
  /\ asked' = l
  /\ lent' \in {lent, NoLayer}
  /\ UNCHANGED transit

\* Never two loans at a time.
Lend ==
  /\ asked # NoLayer
  /\ lent \in {NoLayer, asked}
  /\ lent' = asked
  /\ asked' = NoLayer
  /\ UNCHANGED transit

Refuse ==
  /\ asked # NoLayer
  /\ asked' = NoLayer
  /\ UNCHANGED <<lent, transit>>

EnqueueCopy ==
  /\ asked = NoLayer
  /\ lent # NoLayer
  /\ transit' = Append(transit, lent)
  /\ UNCHANGED <<asked, lent>>

GiveBack ==
  /\ asked = NoLayer
  /\ lent # NoLayer
  /\ lent' = NoLayer
  /\ UNCHANGED <<asked, transit>>

CopyExecutes ==
  /\ transit # <<>>
  /\ transit' = Tail(transit)
  /\ UNCHANGED <<asked, lent>>

Next ==
  \/ \E l \in Layer : Ask(l)
  \/ Lend \/ Refuse \/ EnqueueCopy \/ GiveBack \/ CopyExecutes

Spec == Init /\ [][Next]_loanVars
=============================================================================
