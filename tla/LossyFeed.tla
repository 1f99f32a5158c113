------------------------------ MODULE LossyFeed ------------------------------
(***************************************************************************)
(* What a best-effort feed of pi4_AP promises its reader, whatever threads,*)
(* locks and queues it is made of: events come out in the order in which   *)
(* they went in, none twice, each is delivered, still waiting or counted   *)
(* as dropped, never more than Capacity of them wait, and making room      *)
(* never costs the event that is being offered.  WebSocketManager, whose   *)
(* feed is two queues in a row (ws_manager.py), implements it with Next;   *)
(* the one queue of each client of TcpBridge (tcp_bridge.py) the narrower  *)
(* OldestNext.                                                             *)
(***************************************************************************)
EXTENDS Naturals, Sequences

CONSTANTS Event,     \* what may be offered
          Capacity   \* how many events may wait

VARIABLES offered,   \* what was offered, oldest first
          waiting,   \* offered, and neither delivered nor dropped
          delivered, \* what the reader has got, oldest first
          dropped    \* how many were given up

feedVars == <<offered, waiting, delivered, dropped>>

\* t is s with some of its elements left out.
Thinned(s, t) ==
  \E at \in [1..Len(t) -> 1..Len(s)] :
    /\ \A i, j \in 1..Len(t) : i < j => at[i] < at[j]
    /\ \A i \in 1..Len(t) : t[i] = s[at[i]]

Init == offered = <<>> /\ waiting = <<>> /\ delivered = <<>> /\ dropped = 0

\* An event joins the feed, which may drop others to make room for it.
Offer ==
  /\ waiting' # <<>>
  /\ LET last == Len(waiting')
         kept == SubSeq(waiting', 1, last - 1)
     IN /\ waiting'[last] \in Event
        /\ offered' = Append(offered, waiting'[last])
        /\ last <= Capacity
        /\ Len(kept) <= Len(waiting)
        /\ dropped' = dropped + Len(waiting) - Len(kept)
        /\ Thinned(waiting, kept)
  /\ UNCHANGED delivered

\* Events that wait are given up and counted.
Lose ==
  /\ Len(waiting') < Len(waiting)
  /\ dropped' = dropped + Len(waiting) - Len(waiting')
  /\ Thinned(waiting, waiting')
  /\ UNCHANGED <<offered, delivered>>

\* The reader gets the oldest event.
Deliver ==
  /\ waiting # <<>>
  /\ delivered' = Append(delivered, Head(waiting))
  /\ waiting' = Tail(waiting)
  /\ UNCHANGED <<offered, dropped>>

Next == Offer \/ Lose \/ Deliver

Spec == Init /\ [][Next]_feedVars

-----------------------------------------------------------------------------
(* The promise of a feed that is one queue: the event that is offered joins *)
(* behind those that wait, all of which stay, and only the oldest is lost.  *)

OfferLast ==
  /\ Len(waiting) < Capacity
  /\ \E e \in Event : waiting' = Append(waiting, e) /\ offered' = Append(offered, e)
  /\ UNCHANGED <<delivered, dropped>>

LoseOldest ==
  /\ waiting # <<>>
  /\ waiting' = Tail(waiting) /\ dropped' = dropped + 1
  /\ UNCHANGED <<offered, delivered>>

OldestNext == OfferLast \/ LoseOldest \/ Deliver
=============================================================================
