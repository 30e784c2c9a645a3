------------------------------ MODULE Announcer ------------------------------
(***************************************************************************)
(* What the driver promises to NVDA, with no threads, no helper and no     *)
(* channel: utterances are delivered in the order they were spoken, item   *)
(* by item, each item once; a cancellation drops everything waiting; after *)
(* it at most one item of the cancelled utterance may still arrive, and    *)
(* only before anything that is spoken later.                              *)
(***************************************************************************)
EXTENDS Naturals, Sequences, FiniteSets

CONSTANTS
  Utterance,
  ItemsOf       \* what NVDA is to receive for each utterance

VARIABLES
  mayFail,      \* an utterance may be given up halfway
  waiting,      \* utterances spoken and not yet completed
  out,          \* what NVDA has received
  late          \* the item that may still arrive after a cancellation

vars == <<waiting, out, late>>

Received(u) == Cardinality({i \in 1..Len(out) : out[i].utt = u})
Unfinished(u) == Received(u) < Len(ItemsOf[u])
NextItem(u) == ItemsOf[u][Received(u) + 1]

Init == waiting = <<>> /\ out = <<>> /\ late = {}

Spoken(u) ==
  /\ waiting' = Append(waiting, u)
  /\ UNCHANGED <<out, late>>

\* An utterance is complete with its last item.
Deliver ==
  /\ waiting # <<>> /\ late = {}
  /\ LET u == Head(waiting) IN
       /\ Unfinished(u)
       /\ out' = Append(out, NextItem(u))
       /\ waiting' = IF Received(u) + 1 = Len(ItemsOf[u]) THEN Tail(waiting)
                                                          ELSE waiting
  /\ UNCHANGED late

Cancelled ==
  /\ waiting' = <<>>
  /\ \/ UNCHANGED late
     \/ /\ waiting # <<>> /\ Unfinished(Head(waiting)) /\ late = {}
        /\ late' = {NextItem(Head(waiting))}
  /\ UNCHANGED out

Late ==
  /\ \E item \in late : out' = Append(out, item)
  /\ late' = {}
  /\ UNCHANGED waiting

\* The late item is dropped after all.
Forget ==
  /\ late # {} /\ late' = {}
  /\ UNCHANGED <<waiting, out>>

GiveUp ==
  /\ mayFail'
  /\ waiting # <<>> /\ late = {}
  /\ waiting' = Tail(waiting)
  /\ UNCHANGED <<out, late>>

Next ==
  \/ \E u \in Utterance : Spoken(u)
  \/ Deliver \/ Cancelled \/ Late \/ Forget \/ GiveUp

Spec == Init /\ [][Next]_vars
==============================================================================
