--------------------------- MODULE TcpBridgeProofs ---------------------------
(* Proofs of properties of TcpBridge, for any number of clients and chunks *)
(* and every size of the queues.                                           *)
EXTENDS TcpBridge, SequenceTheorems, FiniteSetTheorems, WellFoundedInduction, TLAPS

-----------------------------------------------------------------------------
(* Types.                                                                   *)

(* A thread that has a client or a chunk in hand has a real one, and while *)
(* it is about to put a chunk again, there is room: nobody else puts.      *)
InHand ==
  /\ acceptor = "register" => accepted \in Clients
  /\ publisher \in {"evict", "again"} => serving \in Clients
  /\ publisher = "again" => Len(queue[serving]) < QueueMax
  /\ publisher # "idle" => published \in Chunks

TypeInv == TypeOK /\ InHand

LEMMA InitTyped == Init => TypeInv
<1> SUFFICES ASSUME Init PROVE TypeInv
  OBVIOUS
<1>1. <<>> \in Seq(Chunks) /\ Len(<<>>) = 0 /\ QueueMax \in Nat /\ MaxChunks \in Nat
  BY BridgeAssumption
<1>2. /\ queue \in [Clients -> Seq(Chunks)] /\ \A c \in Clients : Len(queue[c]) <= QueueMax
      /\ offered \in [Clients -> Seq(Chunks)] /\ taken \in [Clients -> Seq(Chunks)]
  BY <1>1 DEF Init
<1>3. InHand /\ evicted \in [Clients -> Nat]
  BY DEF Init, InHand
<1>4. TypeOK
  <2>1. /\ peer \in [Clients -> {"away", "here", "gone"}]
        /\ socket \in [Clients -> {"new", "open", "closed"}]
    BY DEF Init
  <2>2. /\ input \in [Clients -> {"none", "recv", "write", "done"}]
        /\ output \in [Clients -> {"none", "get", "send", "done"}]
    BY DEF Init
  <2>3. published \in 0..MaxChunks /\ dropped \in Nat /\ toServe \subseteq Clients
    BY <1>1 DEF Init
  <2>4. QED
    BY <1>2, <1>3, <2>1, <2>2, <2>3 DEF Init, TypeOK
<1>5. QED
  BY <1>3, <1>4 DEF TypeInv

(* TypeInv in parts, one for each group of variables that change together. *)
BridgeTypes ==
  /\ stop \in BOOLEAN /\ server \in BOOLEAN
  /\ closer \in {"none", "running", "server", "clear", "join", "closed"}

ClientTypes ==
  /\ clients \subseteq Clients /\ socket \in [Clients -> {"new", "open", "closed"}]
  /\ input \in [Clients -> {"none", "recv", "write", "done"}]
  /\ output \in [Clients -> {"none", "get", "send", "done"}]

PeerTypes == peer \in [Clients -> {"away", "here", "gone"}] /\ workerLock \in Clients \cup {None}

AcceptorTypes ==
  /\ acceptor \in {"none", "check", "accept", "register", "done"}
  /\ accepted \in Clients \cup {None}
  /\ acceptor = "register" => accepted \in Clients

PublisherTypes ==
  /\ dropped \in Nat /\ publisher \in {"idle", "next", "evict", "again"}
  /\ published \in 0..MaxChunks /\ toServe \subseteq Clients /\ serving \in Clients \cup {None}
  /\ publisher \in {"evict", "again"} => serving \in Clients
  /\ publisher # "idle" => published \in Chunks

FeedTypes ==
  /\ evicted \in [Clients -> Nat]
  /\ queue \in [Clients -> Seq(Chunks)] /\ \A c \in Clients : Len(queue[c]) <= QueueMax
  /\ offered \in [Clients -> Seq(Chunks)] /\ taken \in [Clients -> Seq(Chunks)]

RoomAgain == publisher = "again" => Len(queue[serving]) < QueueMax

LEMMA TypeParts ==
  TypeInv <=> /\ BridgeTypes /\ ClientTypes /\ PeerTypes /\ AcceptorTypes
              /\ PublisherTypes /\ FeedTypes /\ RoomAgain
<1>1. ASSUME TypeInv
      PROVE  /\ BridgeTypes /\ ClientTypes /\ PeerTypes /\ AcceptorTypes
             /\ PublisherTypes /\ FeedTypes /\ RoomAgain
  <2>1. TypeOK /\ InHand
    BY <1>1 DEF TypeInv
  <2>2. BridgeTypes /\ ClientTypes /\ PeerTypes
    BY <2>1 DEF BridgeTypes, ClientTypes, PeerTypes, TypeOK
  <2>3. AcceptorTypes
    BY <2>1 DEF AcceptorTypes, TypeOK, InHand
  <2>4. PublisherTypes
    BY <2>1 DEF PublisherTypes, TypeOK, InHand
  <2>5. FeedTypes /\ RoomAgain
    BY <2>1 DEF FeedTypes, RoomAgain, TypeOK, InHand
  <2>6. QED
    BY <2>2, <2>3, <2>4, <2>5
<1>2. ASSUME BridgeTypes, ClientTypes, PeerTypes, AcceptorTypes, PublisherTypes, FeedTypes, RoomAgain
      PROVE  TypeInv
  <2>1. InHand
    BY <1>2 DEF InHand, AcceptorTypes, PublisherTypes, RoomAgain
  <2>2. TypeOK
    BY <1>2 DEF TypeOK, BridgeTypes, ClientTypes, PeerTypes, AcceptorTypes, PublisherTypes, FeedTypes
  <2>3. QED
    BY <2>1, <2>2 DEF TypeInv
<1>3. QED
  BY <1>1, <1>2

(* A step keeps the parts whose variables it leaves alone.                 *)
LEMMA PartsKept ==
  ASSUME TypeInv
  PROVE  /\ UNCHANGED <<bridge, closer>> => BridgeTypes'
         /\ UNCHANGED <<registry, threads>> => ClientTypes'
         /\ UNCHANGED <<peer, workerLock>> => PeerTypes'
         /\ UNCHANGED accepting => AcceptorTypes'
         /\ UNCHANGED publishing => PublisherTypes'
         /\ UNCHANGED feeds => FeedTypes'
         /\ UNCHANGED <<publishing, feeds>> => RoomAgain'
<1>1. UNCHANGED <<bridge, closer>> => BridgeTypes'
  BY TypeParts DEF BridgeTypes, bridge
<1>2. UNCHANGED <<registry, threads>> => ClientTypes'
  BY TypeParts DEF ClientTypes, registry, threads
<1>3. UNCHANGED <<peer, workerLock>> => PeerTypes'
  BY TypeParts DEF PeerTypes
<1>4. UNCHANGED accepting => AcceptorTypes'
  BY TypeParts DEF AcceptorTypes, accepting
<1>5. UNCHANGED publishing => PublisherTypes'
  BY TypeParts DEF PublisherTypes, publishing
<1>6. UNCHANGED feeds => FeedTypes'
  BY TypeParts DEF FeedTypes, feeds
<1>7. UNCHANGED <<publishing, feeds>> => RoomAgain'
  BY TypeParts DEF RoomAgain, publishing, feeds
<1>8. QED
  BY <1>1, <1>2, <1>3, <1>4, <1>5, <1>6, <1>7

(* The types of the queues and the histories after one more chunk.         *)
LEMMA EnqueueTyped ==
  ASSUME TypeInv, NEW c \in Clients, Len(queue[c]) < QueueMax, published \in Chunks, Enqueue(c)
  PROVE  FeedTypes'
<1> FeedTypes
  BY TypeParts
<1>1. queue[c] \in Seq(Chunks) /\ offered[c] \in Seq(Chunks) /\ Len(queue[c]) \in Nat /\ QueueMax \in Nat
  BY BridgeAssumption DEF FeedTypes
<1>2. /\ Append(queue[c], published) \in Seq(Chunks) /\ Append(offered[c], published) \in Seq(Chunks)
      /\ Len(Append(queue[c], published)) = Len(queue[c]) + 1
  BY <1>1, AppendProperties
<1>3. queue' \in [Clients -> Seq(Chunks)] /\ offered' \in [Clients -> Seq(Chunks)]
  BY <1>2 DEF Enqueue, FeedTypes
<1>4. Len(Append(queue[c], published)) <= QueueMax
  BY <1>1, <1>2
<1>5. \A d \in Clients : Len(queue'[d]) <= QueueMax
  BY <1>4 DEF Enqueue, FeedTypes
<1>6. taken' \in [Clients -> Seq(Chunks)] /\ evicted' \in [Clients -> Nat]
  BY DEF Enqueue, FeedTypes
<1>7. QED
  BY <1>3, <1>5, <1>6 DEF FeedTypes

LEMMA TailTyped ==
  ASSUME TypeInv, NEW c \in Clients, queue[c] # <<>>
  PROVE  /\ Head(queue[c]) \in Chunks /\ Tail(queue[c]) \in Seq(Chunks)
         /\ Len(Tail(queue[c])) = Len(queue[c]) - 1
         /\ Len(queue[c]) \in Nat /\ Len(queue[c]) <= QueueMax /\ QueueMax \in Nat
<1>1. queue[c] \in Seq(Chunks) /\ Len(queue[c]) <= QueueMax /\ QueueMax \in Nat
  BY TypeParts, BridgeAssumption DEF FeedTypes
<1>2. QED
  BY <1>1, HeadTailProperties

LEMMA FeedTyped ==
  ASSUME TypeInv, NEW c \in Clients
  PROVE  /\ queue[c] \in Seq(Chunks) /\ offered[c] \in Seq(Chunks) /\ taken[c] \in Seq(Chunks)
         /\ Len(queue[c]) \in Nat /\ Len(offered[c]) \in Nat /\ Len(taken[c]) \in Nat
         /\ Len(queue[c]) <= QueueMax
<1>1. /\ queue[c] \in Seq(Chunks) /\ offered[c] \in Seq(Chunks) /\ taken[c] \in Seq(Chunks)
      /\ Len(queue[c]) <= QueueMax
  BY TypeParts DEF FeedTypes
<1>2. QED
  BY <1>1, LenProperties

LEMMA StepTyped == TypeInv /\ [Next]_vars => TypeInv'
<1> SUFFICES ASSUME TypeInv, [Next]_vars PROVE TypeInv'
  OBVIOUS
<1> DEFINE Parts == /\ BridgeTypes /\ ClientTypes /\ PeerTypes /\ AcceptorTypes
                    /\ PublisherTypes /\ FeedTypes /\ RoomAgain
<1>0. Parts /\ (Parts' => TypeInv')
  <2>1. Parts
    BY TypeParts
  <2>2. Parts' => TypeInv'
    BY TypeParts, PTL
  <2>3. QED
    BY <2>1, <2>2
<1>1. CASE Start
  <2>1. BridgeTypes'
    BY <1>0, <1>1 DEF Start, BridgeTypes
  <2>2. AcceptorTypes'
    BY <1>0, <1>1 DEF Start, AcceptorTypes
  <2>3. UNCHANGED <<registry, threads, peer, workerLock, publishing, feeds>>
    BY <1>1 DEF Start
  <2>4. QED
    BY <1>0, <2>1, <2>2, <2>3, PartsKept
<1>2. CASE CheckStop
  <2>1. AcceptorTypes'
    BY <1>0, <1>2 DEF CheckStop, AcceptorTypes
  <2>2. UNCHANGED <<bridge, closer, registry, threads, peer, workerLock, publishing, feeds>>
    BY <1>2 DEF CheckStop
  <2>3. QED
    BY <1>0, <2>1, <2>2, PartsKept
<1>3. ASSUME NEW c \in Clients, Accept(c) PROVE TypeInv'
  <2>1. AcceptorTypes'
    BY <1>0, <1>3 DEF Accept, AcceptorTypes
  <2>2. ClientTypes'
    BY <1>0, <1>3 DEF Accept, ClientTypes, threads
  <2>3. PeerTypes'
    BY <1>0, <1>3 DEF Accept, PeerTypes
  <2>4. UNCHANGED <<bridge, closer, publishing, feeds>>
    BY <1>3 DEF Accept
  <2>5. QED
    BY <1>0, <2>1, <2>2, <2>3, <2>4, PartsKept
<1>4. CASE Register
  <2>1. AcceptorTypes'
    BY <1>4 DEF Register, AcceptorTypes
  <2>2. accepted \in Clients
    BY <1>0, <1>4 DEF Register, AcceptorTypes
  <2>3. ClientTypes'
    BY <1>0, <1>4, <2>2 DEF Register, ClientTypes
  <2>4. UNCHANGED <<bridge, closer, publishing, feeds, peer, workerLock>>
    BY <1>4 DEF Register
  <2>5. QED
    BY <1>0, <2>1, <2>3, <2>4, PartsKept
<1>5. CASE AcceptTimesOut \/ AcceptFails
  <2>1. AcceptorTypes'
    BY <1>0, <1>5 DEF AcceptTimesOut, AcceptFails, AcceptorTypes
  <2>2. UNCHANGED <<bridge, closer, registry, threads, peer, workerLock, publishing, feeds>>
    BY <1>5 DEF AcceptTimesOut, AcceptFails
  <2>3. QED
    BY <1>0, <2>1, <2>2, PartsKept
<1>6. ASSUME NEW c \in Clients, Receive(c) PROVE TypeInv'
  <2>1. ClientTypes'
    BY <1>0, <1>6 DEF Receive, ClientTypes, registry
  <2>2. PeerTypes'
    BY <1>0, <1>6 DEF Receive, PeerTypes
  <2>3. UNCHANGED <<bridge, closer, accepting, publishing, feeds>>
    BY <1>6 DEF Receive
  <2>4. QED
    BY <1>0, <2>1, <2>2, <2>3, PartsKept
<1>7. ASSUME NEW c \in Clients, InputEnds(c) PROVE TypeInv'
  <2>1. ClientTypes'
    BY <1>0, <1>7 DEF InputEnds, Drop, ClientTypes
  <2>2. UNCHANGED <<bridge, closer, accepting, publishing, feeds, peer, workerLock>>
    BY <1>7 DEF InputEnds
  <2>3. QED
    BY <1>0, <2>1, <2>2, PartsKept
<1>8. ASSUME NEW c \in Clients, WriteEnds(c) PROVE TypeInv'
  <2>1. UNCHANGED registry \/ Drop(c)
    BY <1>8 DEF WriteEnds
  <2>2. clients' \subseteq Clients /\ socket' \in [Clients -> {"new", "open", "closed"}]
    BY <1>0, <2>1 DEF ClientTypes, Drop, registry
  <2>3. input' \in [Clients -> {"none", "recv", "write", "done"}] /\ output' = output
    BY <1>0, <1>8 DEF ClientTypes, WriteEnds
  <2>4. ClientTypes'
    BY <1>0, <2>2, <2>3 DEF ClientTypes
  <2>5. PeerTypes'
    BY <1>0, <1>8 DEF WriteEnds, LockAfterError, PeerTypes
  <2>6. UNCHANGED <<bridge, closer, accepting, publishing, feeds>>
    BY <1>8 DEF WriteEnds
  <2>7. QED
    BY <1>0, <2>4, <2>5, <2>6, PartsKept
<1>9. ASSUME NEW c \in Clients, Take(c) PROVE TypeInv'
  <2>1. taken[c] \in Seq(Chunks) /\ Append(taken[c], Head(queue[c])) \in Seq(Chunks)
    <3>1. taken[c] \in Seq(Chunks) /\ Head(queue[c]) \in Chunks
      BY <1>0, <1>9, TailTyped DEF Take, FeedTypes
    <3>2. QED
      BY <3>1, AppendProperties
  <2>2. /\ Tail(queue[c]) \in Seq(Chunks) /\ Len(Tail(queue[c])) <= QueueMax
        /\ Len(Tail(queue[c])) < Len(queue[c])
    <3>1. /\ Tail(queue[c]) \in Seq(Chunks) /\ Len(Tail(queue[c])) = Len(queue[c]) - 1
          /\ Len(queue[c]) \in Nat /\ Len(queue[c]) <= QueueMax /\ QueueMax \in Nat
      BY <1>9, TailTyped DEF Take
    <3>2. QED
      BY <3>1
  <2>3. FeedTypes'
    <3>1. queue' = [queue EXCEPT ![c] = Tail(queue[c])]
      BY <1>9 DEF Take
    <3>2. queue' \in [Clients -> Seq(Chunks)] /\ \A d \in Clients : Len(queue'[d]) <= QueueMax
      BY <1>0, <2>2, <3>1 DEF FeedTypes
    <3>3. offered' \in [Clients -> Seq(Chunks)] /\ taken' \in [Clients -> Seq(Chunks)]
      BY <1>0, <1>9, <2>1 DEF Take, FeedTypes
    <3>4. evicted' \in [Clients -> Nat]
      BY <1>0, <1>9 DEF Take, FeedTypes
    <3>5. QED
      BY <3>2, <3>3, <3>4 DEF FeedTypes
  <2>4. RoomAgain'
    <3>1. publisher' = publisher /\ serving' = serving
      BY <1>9 DEF Take, publishing
    <3>2. publisher = "again" => serving \in Clients
      BY <1>0 DEF PublisherTypes
    <3>3. ASSUME publisher = "again" PROVE Len(queue'[serving]) < QueueMax
      <4>1. Len(queue[serving]) < QueueMax /\ queue \in [Clients -> Seq(Chunks)]
        BY <1>0, <3>3 DEF RoomAgain, FeedTypes
      <4>2. CASE serving = c
        <5>1. queue'[serving] = Tail(queue[c])
          BY <1>9, <4>1, <4>2 DEF Take
        <5>2. /\ Len(Tail(queue[c])) \in Nat /\ Len(queue[c]) \in Nat /\ QueueMax \in Nat
              /\ Len(queue[c]) < QueueMax
          BY <2>2, <4>1, <4>2, BridgeAssumption
        <5>3. QED
          BY <2>2, <5>1, <5>2
      <4>3. CASE serving # c
        BY <1>9, <3>2, <3>3, <4>1, <4>3 DEF Take
      <4>4. QED
        BY <4>2, <4>3
    <3>4. QED
      BY <3>1, <3>3 DEF RoomAgain
  <2>5. ClientTypes'
    BY <1>0, <1>9 DEF Take, ClientTypes, registry
  <2>6. UNCHANGED <<bridge, closer, accepting, publishing, peer, workerLock>>
    BY <1>9 DEF Take
  <2>7. QED
    BY <1>0, <2>3, <2>4, <2>5, <2>6, PartsKept
<1>10. ASSUME NEW c \in Clients, Send(c) PROVE TypeInv'
  <2>1. UNCHANGED registry \/ Drop(c)
    BY <1>10 DEF Send
  <2>2. clients' \subseteq Clients /\ socket' \in [Clients -> {"new", "open", "closed"}]
    BY <1>0, <2>1 DEF ClientTypes, Drop, registry
  <2>3. output' \in [Clients -> {"none", "get", "send", "done"}] /\ input' = input
    BY <1>0, <1>10 DEF ClientTypes, Send
  <2>4. ClientTypes'
    BY <1>0, <2>2, <2>3 DEF ClientTypes
  <2>5. UNCHANGED <<bridge, closer, accepting, publishing, feeds, peer, workerLock>>
    BY <1>10 DEF Send
  <2>6. QED
    BY <1>0, <2>4, <2>5, PartsKept
<1>11. ASSUME NEW c \in Clients, OutputEnds(c) PROVE TypeInv'
  <2>1. ClientTypes'
    BY <1>0, <1>11 DEF OutputEnds, ClientTypes, registry
  <2>2. UNCHANGED <<bridge, closer, accepting, publishing, feeds, peer, workerLock>>
    BY <1>11 DEF OutputEnds
  <2>3. QED
    BY <1>0, <2>1, <2>2, PartsKept
<1>12. ASSUME NEW c \in Clients, HangUp(c) PROVE TypeInv'
  <2>1. PeerTypes'
    BY <1>0, <1>12 DEF HangUp, PeerTypes
  <2>2. UNCHANGED <<bridge, closer, registry, threads, accepting, publishing, feeds>>
    BY <1>12 DEF HangUp
  <2>3. QED
    BY <1>0, <2>1, <2>2, PartsKept
<1>13. CASE Log
  <2>1. published \in 0..MaxChunks /\ published < MaxChunks /\ MaxChunks \in Nat
    BY <1>0, <1>13, BridgeAssumption DEF Log, PublisherTypes
  <2>2. published + 1 \in 0..MaxChunks /\ published + 1 \in Chunks
    BY <2>1 DEF Chunks
  <2>3. /\ publisher' = "next" /\ published' = published + 1 /\ toServe' = clients
        /\ serving' = serving /\ dropped' = dropped
    BY <1>13 DEF Log
  <2>4. PublisherTypes'
    BY <1>0, <2>2, <2>3 DEF PublisherTypes, ClientTypes
  <2>5. RoomAgain'
    BY <2>3 DEF RoomAgain
  <2>6. UNCHANGED <<bridge, closer, registry, threads, accepting, feeds, peer, workerLock>>
    BY <1>13 DEF Log
  <2>7. QED
    BY <1>0, <2>4, <2>5, <2>6, PartsKept
<1>14. ASSUME NEW c \in Clients, Put(c) PROVE TypeInv'
  <2>1. UNCHANGED <<bridge, closer, registry, threads, accepting, peer, workerLock>>
    BY <1>14 DEF Put
  <2>2. CASE Full(c)
    <3>1. /\ publisher' = "evict" /\ serving' = c /\ toServe' = toServe \ {c} /\ UNCHANGED feeds
          /\ publisher = "next" /\ published' = published /\ dropped' = dropped
      BY <1>14, <2>2 DEF Put
    <3>2. PublisherTypes'
      BY <1>0, <3>1 DEF PublisherTypes
    <3>3. RoomAgain'
      BY <3>1 DEF RoomAgain
    <3>4. QED
      BY <1>0, <2>1, <3>1, <3>2, <3>3, PartsKept
  <2>3. CASE ~Full(c)
    <3>1. /\ publisher' = publisher /\ serving' = serving /\ toServe' = toServe \ {c} /\ Enqueue(c)
          /\ publisher = "next" /\ published' = published /\ dropped' = dropped
      BY <1>14, <2>3 DEF Put
    <3>2. PublisherTypes'
      BY <1>0, <3>1 DEF PublisherTypes
    <3>3. RoomAgain'
      BY <3>1 DEF RoomAgain
    <3>4. published \in Chunks
      BY <1>0, <3>1 DEF PublisherTypes
    <3>5. Len(queue[c]) < QueueMax
      <4>1. Len(queue[c]) <= QueueMax /\ Len(queue[c]) \in Nat /\ QueueMax \in Nat
        BY <1>0, BridgeAssumption DEF FeedTypes
      <4>2. QED
        BY <2>3, <4>1 DEF Full
    <3>6. FeedTypes'
      BY <3>1, <3>4, <3>5, EnqueueTyped
    <3>7. QED
      BY <1>0, <2>1, <3>2, <3>3, <3>6, PartsKept
  <2>4. QED
    BY <2>2, <2>3
<1>15. CASE PublishEnds
  <2>1. /\ publisher' = "idle" /\ published' = published /\ toServe' = toServe /\ serving' = serving
        /\ dropped' = dropped
    BY <1>15 DEF PublishEnds
  <2>2. PublisherTypes'
    BY <1>0, <2>1 DEF PublisherTypes
  <2>3. RoomAgain'
    BY <2>1 DEF RoomAgain
  <2>4. UNCHANGED <<bridge, closer, registry, threads, accepting, feeds, peer, workerLock>>
    BY <1>15 DEF PublishEnds
  <2>5. QED
    BY <1>0, <2>2, <2>3, <2>4, PartsKept
<1>16. CASE Evict
  <2>1. serving \in Clients /\ queue \in [Clients -> Seq(Chunks)]
    BY <1>0, <1>16 DEF Evict, PublisherTypes, FeedTypes
  <2>2. Rest(queue[serving]) \in Seq(Chunks) /\ Len(Rest(queue[serving])) < QueueMax
    <3>1. CASE queue[serving] = <<>>
      <4>1. <<>> \in Seq(Chunks) /\ Len(<<>>) = 0 /\ 0 < QueueMax
        BY BridgeAssumption
      <4>2. QED
        BY <3>1, <4>1 DEF Rest
    <3>2. CASE queue[serving] # <<>>
      <4>1. /\ Tail(queue[serving]) \in Seq(Chunks)
            /\ Len(Tail(queue[serving])) = Len(queue[serving]) - 1
            /\ Len(queue[serving]) \in Nat /\ Len(queue[serving]) <= QueueMax /\ QueueMax \in Nat
        BY <2>1, <3>2, TailTyped
      <4>2. Len(Tail(queue[serving])) < QueueMax
        BY <4>1
      <4>3. QED
        BY <3>2, <4>1, <4>2 DEF Rest
    <3>3. QED
      BY <3>1, <3>2
  <2>3. queue' = [queue EXCEPT ![serving] = Rest(queue[serving])] /\ offered' = offered /\ taken' = taken
    BY <1>16 DEF Evict
  <2>4. Len(Rest(queue[serving])) <= QueueMax
    BY <2>2, BridgeAssumption
  <2>5. evicted' \in [Clients -> Nat]
    BY <1>0, <1>16, <2>1 DEF Evict, FeedTypes
  <2>6. FeedTypes'
    BY <1>0, <2>1, <2>2, <2>3, <2>4, <2>5 DEF FeedTypes
  <2>7. /\ publisher = "evict" /\ publisher' = "again" /\ published' = published /\ toServe' = toServe
        /\ serving' = serving /\ dropped' = dropped
    BY <1>16 DEF Evict
  <2>8. PublisherTypes'
    BY <1>0, <2>1, <2>7 DEF PublisherTypes
  <2>9. queue'[serving] = Rest(queue[serving])
    BY <2>1, <2>3
  <2>10. RoomAgain'
    BY <2>2, <2>7, <2>9 DEF RoomAgain
  <2>11. UNCHANGED <<bridge, closer, registry, threads, accepting, peer, workerLock>>
    BY <1>16 DEF Evict
  <2>12. QED
    BY <1>0, <2>6, <2>8, <2>10, <2>11, PartsKept
<1>17. CASE PutAgain
  <2>1. serving \in Clients /\ Len(queue[serving]) < QueueMax /\ published \in Chunks
    BY <1>0, <1>17 DEF PutAgain, PublisherTypes, RoomAgain
  <2>2. /\ Enqueue(serving) /\ publisher' = "next" /\ serving' = None /\ dropped' = dropped + 1
        /\ published' = published /\ toServe' = toServe
    BY <1>17 DEF PutAgain, Counted
  <2>3. FeedTypes'
    BY <2>1, <2>2, EnqueueTyped
  <2>4. PublisherTypes'
    BY <1>0, <2>1, <2>2 DEF PublisherTypes
  <2>5. RoomAgain'
    BY <2>2 DEF RoomAgain
  <2>6. UNCHANGED <<bridge, closer, registry, threads, accepting, peer, workerLock>>
    BY <1>17 DEF PutAgain
  <2>7. QED
    BY <1>0, <2>3, <2>4, <2>5, <2>6, PartsKept
<1>18. CASE SetStop \/ CloseServer \/ Join
  <2>1. BridgeTypes'
    BY <1>0, <1>18 DEF SetStop, CloseServer, Join, BridgeTypes, bridge
  <2>2. UNCHANGED <<registry, threads, accepting, publishing, feeds, peer, workerLock>>
    BY <1>18 DEF SetStop, CloseServer, Join
  <2>3. QED
    BY <1>0, <2>1, <2>2, PartsKept
<1>19. CASE Clear
  <2>1. BridgeTypes'
    BY <1>0, <1>19 DEF Clear, BridgeTypes, bridge
  <2>2. ClientTypes'
    BY <1>0, <1>19 DEF Clear, ClientTypes, threads
  <2>3. UNCHANGED <<accepting, publishing, feeds, peer, workerLock>>
    BY <1>19 DEF Clear
  <2>4. QED
    BY <1>0, <2>1, <2>2, <2>3, PartsKept
<1>20. CASE UNCHANGED vars
  <2>1. UNCHANGED <<bridge, closer, registry, threads, accepting, publishing, feeds, peer, workerLock>>
    BY <1>20 DEF vars
  <2>2. QED
    BY <1>0, <2>1, PartsKept
<1>21. QED
  BY <1>1, <1>2, <1>3, <1>4, <1>5, <1>6, <1>7, <1>8, <1>9, <1>10, <1>11, <1>12, <1>13, <1>14,
     <1>15, <1>16, <1>17, <1>18, <1>19, <1>20
  DEF Next, Acceptor, Input, Output, Publish, Closer

(* Every variable keeps to its type, and no queue outgrows its size: the   *)
(* chunk that publish() puts again always finds room.                      *)
THEOREM BridgeTyped == Spec => []TypeOK
<1>1. TypeInv => TypeOK
  BY DEF TypeInv
<1>2. QED
  BY <1>1, InitTyped, StepTyped, PTL DEF Spec

-----------------------------------------------------------------------------
(* Every client's queue implements the one queue of LossyFeed.              *)

FeedStep(c) == Feed(c)!OldestNext \/ UNCHANGED Feed(c)!feedVars

LEMMA EnqueueOffers ==
  ASSUME TypeInv, NEW d \in Clients, Len(queue[d]) < QueueMax, published \in Chunks, Enqueue(d)
  PROVE  \A c \in Clients : FeedStep(c)
<1> SUFFICES ASSUME NEW c \in Clients PROVE FeedStep(c)
  OBVIOUS
<1>1. taken' = taken /\ evicted' = evicted
  BY DEF Enqueue
<1>2. CASE c = d
  <2>1. queue'[c] = Append(queue[c], published) /\ offered'[c] = Append(offered[c], published)
    BY <1>2 DEF Enqueue, TypeInv, TypeOK
  <2>2. Feed(c)!OfferLast
    BY <1>1, <1>2, <2>1 DEF Feed!OfferLast
  <2>3. QED
    BY <2>2 DEF FeedStep, Feed!OldestNext
<1>3. CASE c # d
  <2>1. queue'[c] = queue[c] /\ offered'[c] = offered[c]
    BY <1>3 DEF Enqueue, TypeInv, TypeOK
  <2>2. QED
    BY <1>1, <2>1 DEF FeedStep, Feed!feedVars
<1>4. QED
  BY <1>2, <1>3

LEMMA FeedsStand == UNCHANGED feeds => \A c \in Clients : FeedStep(c)
  BY DEF feeds, FeedStep, Feed!feedVars

LEMMA TakeDelivers ==
  ASSUME TypeInv, NEW d \in Clients, Take(d)
  PROVE  \A c \in Clients : FeedStep(c)
<1> SUFFICES ASSUME NEW c \in Clients PROVE FeedStep(c)
  OBVIOUS
<1>1. offered' = offered /\ evicted' = evicted
  BY DEF Take
<1>2. CASE c = d
  <2>1. /\ queue[c] # <<>> /\ queue'[c] = Tail(queue[c])
        /\ taken'[c] = Append(taken[c], Head(queue[c]))
    BY <1>2 DEF Take, TypeInv, TypeOK
  <2>2. QED
    BY <1>1, <2>1 DEF FeedStep, Feed!OldestNext, Feed!Deliver
<1>3. CASE c # d
  <2>1. queue'[c] = queue[c] /\ taken'[c] = taken[c]
    BY <1>3 DEF Take, TypeInv, TypeOK
  <2>2. QED
    BY <1>1, <2>1 DEF FeedStep, Feed!feedVars
<1>4. QED
  BY <1>2, <1>3

LEMMA EvictLoses ==
  ASSUME TypeInv, Evict
  PROVE  \A c \in Clients : FeedStep(c)
<1> SUFFICES ASSUME NEW c \in Clients PROVE FeedStep(c)
  OBVIOUS
<1>1. offered' = offered /\ taken' = taken
  BY DEF Evict
<1>2. CASE c = serving /\ queue[c] # <<>>
  <2>1. queue'[c] = Tail(queue[c]) /\ evicted'[c] = evicted[c] + 1
    BY <1>2 DEF Evict, Rest, TypeInv, TypeOK
  <2>2. QED
    BY <1>1, <1>2, <2>1 DEF FeedStep, Feed!OldestNext, Feed!LoseOldest
<1>3. CASE ~(c = serving /\ queue[c] # <<>>)
  <2>1. evicted[c] + 0 = evicted[c]
    BY DEF TypeInv, TypeOK
  <2>2. queue'[c] = queue[c] /\ evicted'[c] = evicted[c]
    BY <1>3, <2>1 DEF Evict, Rest, TypeInv, TypeOK
  <2>3. QED
    BY <1>1, <2>2 DEF FeedStep, Feed!feedVars
<1>4. QED
  BY <1>2, <1>3

LEMMA StepFeeds == TypeInv /\ [Next]_vars => \A c \in Clients : FeedStep(c)
<1> SUFFICES ASSUME TypeInv, [Next]_vars PROVE \A c \in Clients : FeedStep(c)
  OBVIOUS
<1>1. ASSUME NEW d \in Clients, Take(d) PROVE \A c \in Clients : FeedStep(c)
  BY <1>1, TakeDelivers
<1>2. ASSUME NEW d \in Clients, Put(d) PROVE \A c \in Clients : FeedStep(c)
  <2>1. CASE Full(d)
    BY <1>2, <2>1, FeedsStand DEF Put
  <2>2. CASE ~Full(d)
    <3>1. Len(queue[d]) < QueueMax /\ published \in Chunks /\ Enqueue(d)
      <4>1. Len(queue[d]) \in Nat /\ Len(queue[d]) <= QueueMax /\ QueueMax \in Nat
        BY BridgeAssumption DEF TypeInv, TypeOK
      <4>2. published \in Chunks
        BY <1>2 DEF Put, TypeInv, InHand
      <4>3. QED
        BY <1>2, <2>2, <4>1, <4>2 DEF Put, Full
    <3>2. QED
      BY <3>1, EnqueueOffers
  <2>3. QED
    BY <2>1, <2>2
<1>3. CASE Evict
  BY <1>3, EvictLoses
<1>4. CASE PutAgain
  <2>1. serving \in Clients /\ Len(queue[serving]) < QueueMax /\ published \in Chunks
    BY <1>4 DEF PutAgain, TypeInv, InHand
  <2>2. QED
    BY <1>4, <2>1, EnqueueOffers DEF PutAgain
<1>5. CASE Start \/ CheckStop \/ AcceptTimesOut \/ AcceptFails \/ Register \/ Log \/ PublishEnds
           \/ SetStop \/ CloseServer \/ Clear \/ Join \/ UNCHANGED vars
  <2>1. UNCHANGED feeds
    BY <1>5 DEF Start, CheckStop, AcceptTimesOut, AcceptFails, Register, Log, PublishEnds, SetStop,
                CloseServer, Clear, Join, vars
  <2>2. QED
    BY <2>1, FeedsStand
<1>6. ASSUME NEW d \in Clients,
             Accept(d) \/ Receive(d) \/ InputEnds(d) \/ WriteEnds(d) \/ Send(d) \/ OutputEnds(d) \/ HangUp(d)
      PROVE  \A c \in Clients : FeedStep(c)
  <2>1. UNCHANGED feeds
    BY <1>6 DEF Accept, Receive, InputEnds, WriteEnds, Send, OutputEnds, HangUp
  <2>2. QED
    BY <2>1, FeedsStand
<1>7. QED
  BY <1>1, <1>2, <1>3, <1>4, <1>5, <1>6 DEF Next, Acceptor, Input, Output, Publish, Closer

(* Whatever clients do and whenever close() comes, each client gets the    *)
(* chunks in the order in which they were logged, none twice, and what     *)
(* publish() takes to make room is the oldest that waits, never another    *)
(* and never the new one: each queue implements the one queue of LossyFeed *)
(* (publish(), _client_writer_loop()).                                     *)
THEOREM ClientsGetFeeds == Spec => FeedSpec
<1>1. Init => \A c \in Clients : Feed(c)!Init
  <2>1. ASSUME Init, NEW c \in Clients PROVE Feed(c)!Init
    <3>1. offered[c] = <<>> /\ taken[c] = <<>> /\ queue[c] = <<>>
      BY <2>1 DEF Init
    <3>2. evicted[c] = 0
      BY <2>1 DEF Init
    <3>3. QED
      BY <3>1, <3>2 DEF Feed!Init
  <2>2. QED
    BY <2>1
<1>2. TypeInv /\ [Next]_vars => [\A c \in Clients : Feed(c)!OldestNext \/ UNCHANGED Feed(c)!feedVars]_feeds
  BY StepFeeds DEF FeedStep
<1>3. QED
  BY <1>1, <1>2, InitTyped, StepTyped, PTL DEF Spec, FeedSpec

-----------------------------------------------------------------------------
(* The drops of all clients together: a client has a place for each chunk  *)
(* that it lost, and the sum counts the places.                            *)

Places(f, T) == UNION {{c} \X (1..f[c]) : c \in T}
Some(s) == CHOOSE x \in s : TRUE
Adds(f, g) == g = [s \in SUBSET Clients |-> IF s = {} THEN 0 ELSE f[Some(s)] + g[s \ {Some(s)}]]

Losses == [c \in Clients |-> Lost(c)]

LEMMA PlacesCount ==
  ASSUME NEW f \in [Clients -> Nat]
  PROVE  /\ \A s \in SUBSET Clients : IsFiniteSet(Places(f, s)) /\ Cardinality(Places(f, s)) \in Nat
         /\ Cardinality(Places(f, {})) = 0
         /\ \A s \in SUBSET Clients : \A x \in s :
               Cardinality(Places(f, s)) = f[x] + Cardinality(Places(f, s \ {x}))
<1>1. ASSUME NEW s \in SUBSET Clients PROVE IsFiniteSet(Places(f, s)) /\ Cardinality(Places(f, s)) \in Nat
  <2> DEFINE F == {{n} \X (1..f[n]) : n \in s}
  <2>1. IsFiniteSet(s)
    BY FS_Subset, BridgeAssumption
  <2>2. IsFiniteSet(F)
    <3> DEFINE h == [n \in s |-> {n} \X (1..f[n])]
    <3>1. h \in Surjection(s, F)
      BY Zenon DEF Surjection
    <3>2. QED
      BY <2>1, <3>1, FS_Surjection
  <2>3. \A n \in s : IsFiniteSet({n} \X (1..f[n]))
    <3>1. ASSUME NEW n \in s PROVE IsFiniteSet({n} \X (1..f[n]))
      <4>1. f[n] \in Int
        OBVIOUS
      <4>2. IsFiniteSet({n})
        BY FS_Singleton
      <4>3. IsFiniteSet(1..f[n])
        BY <4>1, FS_Interval
      <4>4. QED
        BY <4>2, <4>3, FS_Product
    <3>2. QED
      BY <3>1
  <2>4. \A x \in F : IsFiniteSet(x)
    BY <2>3
  <2>5. IsFiniteSet(UNION F)
    <3> HIDE DEF F
    <3>1. QED
      BY <2>2, <2>4, FS_UNION
  <2>6. QED
    BY <2>5, FS_CardinalityType DEF Places
<1>2. Places(f, {}) = {}
  BY DEF Places
<1>3. ASSUME NEW s \in SUBSET Clients, NEW x \in s
      PROVE  Cardinality(Places(f, s)) = f[x] + Cardinality(Places(f, s \ {x}))
  <2> DEFINE A == {x} \X (1..f[x])
             B == Places(f, s \ {x})
  <2>1. Places(f, s) = A \cup B
    <3>1. \A p : p \in Places(f, s) <=> \E n \in s : p \in {n} \X (1..f[n])
      BY DEF Places
    <3>2. \A p : p \in B <=> \E n \in s \ {x} : p \in {n} \X (1..f[n])
      BY DEF Places
    <3> HIDE DEF B
    <3>3. QED
      BY <3>1, <3>2
  <2>2. A \cap B = {}
    <3>1. \A p \in B : \E n \in s \ {x} : p[1] = n
      BY DEF Places
    <3>2. \A p \in A : p[1] = x
      OBVIOUS
    <3> HIDE DEF A, B
    <3>3. QED
      BY <3>1, <3>2
  <2>3. IsFiniteSet(A) /\ Cardinality(A) = f[x]
    <3>1. IsFiniteSet({x}) /\ Cardinality({x}) = 1
      BY FS_Singleton
    <3>2. f[x] \in Nat
      OBVIOUS
    <3>3. IsFiniteSet(1..f[x]) /\ Cardinality(1..f[x]) = f[x]
      <4>1. \A m \in Nat : IsFiniteSet(1..m) /\ Cardinality(1..m) = m
        <5>1. ASSUME NEW m \in Nat PROVE IsFiniteSet(1..m) /\ Cardinality(1..m) = m
          <6>1. IsFiniteSet(1..m) /\ Cardinality(1..m) = IF 1 > m THEN 0 ELSE m - 1 + 1
            BY FS_Interval
          <6>2. QED
            BY <6>1
        <5>2. QED
          BY <5>1
      <4>2. QED
        BY <3>2, <4>1
    <3>4. IsFiniteSet(A) /\ Cardinality(A) = Cardinality({x}) * Cardinality(1..f[x])
      BY <3>1, <3>3, FS_Product
    <3> HIDE DEF A
    <3>5. QED
      BY <3>1, <3>2, <3>3, <3>4
  <2>4. IsFiniteSet(B) /\ Cardinality(B) \in Nat
    BY <1>1
  <2> HIDE DEF A, B
  <2>5. Cardinality(A \cup B) = Cardinality(A) + Cardinality(B) - Cardinality(A \cap B)
    BY <2>3, <2>4, FS_Union
  <2>6. Cardinality(A \cap B) = 0
    BY <2>2, FS_EmptySet
  <2>7. QED
    BY <2>1, <2>3, <2>4, <2>5, <2>6 DEF B
<1>4. QED
  BY <1>1, <1>2, <1>3, FS_EmptySet

LEMMA SumCounts ==
  ASSUME NEW f \in [Clients -> Nat]
  PROVE  (CHOOSE g : Adds(f, g))[Clients] = Cardinality(Places(f, Clients))
<1> DEFINE c == [s \in SUBSET Clients |-> Cardinality(Places(f, s))]
           g == CHOOSE g : Adds(f, g)
<1>1. Adds(f, c)
  <2>1. ASSUME NEW s \in SUBSET Clients
        PROVE  c[s] = IF s = {} THEN 0 ELSE f[Some(s)] + c[s \ {Some(s)}]
    <3>1. CASE s = {}
      BY <3>1, PlacesCount
    <3>2. CASE s # {}
      <4>1. Some(s) \in s
        BY <3>2 DEF Some
      <4>2. s \ {Some(s)} \in SUBSET Clients
        OBVIOUS
      <4>3. QED
        BY <3>2, <4>1, <4>2, PlacesCount
    <3>3. QED
      BY <3>1, <3>2
  <2>2. c = [s \in SUBSET Clients |-> c[s]]
    OBVIOUS
  <2> HIDE DEF c
  <2>3. QED
    BY <2>1, <2>2, Zenon DEF Adds
<1>2. Adds(f, g)
  BY <1>1
<1> HIDE DEF g
<1>3. \A s \in SUBSET Clients : g[s] = IF s = {} THEN 0 ELSE f[Some(s)] + g[s \ {Some(s)}]
  BY <1>2 DEF Adds
<1>4. g[Clients] = c[Clients]
  <2> DEFINE T == {s \in SUBSET Clients : g[s] # c[s]}
             W == FiniteSubsetsOf(Clients)
  <2>1. IsWellFoundedOn(StrictSubsetOrdering(Clients), W)
    BY FS_StrictSubsetOrderingWellFounded
  <2>2. T \subseteq W
    BY FS_Subset, BridgeAssumption DEF FiniteSubsetsOf
  <2>3. SUFFICES ASSUME T # {} PROVE FALSE
    OBVIOUS
  <2>4. PICK s \in T : \A t \in T : ~(<<t, s>> \in StrictSubsetOrdering(Clients))
    <3> HIDE DEF T, W
    <3>1. QED
      BY <2>1, <2>2, <2>3, WFMin
  <2>5. s \in SUBSET Clients /\ g[s] # c[s]
    OBVIOUS
  <2>6. CASE s = {}
    BY <1>3, <2>5, <2>6, PlacesCount
  <2>7. CASE s # {}
    <3> DEFINE x == Some(s)
    <3>1. x \in s
      BY <2>7 DEF Some
    <3>2. s \ {x} \in SUBSET Clients /\ g[s] = f[x] + g[s \ {x}]
      BY <1>3, <2>5, <2>7
    <3>3. c[s] = f[x] + c[s \ {x}]
      BY <2>5, <3>1, <3>2, PlacesCount
    <3> HIDE DEF x, c
    <3>4. g[s \ {x}] # c[s \ {x}]
      BY <2>5, <3>2, <3>3
    <3>5. <<s \ {x}, s>> \in StrictSubsetOrdering(Clients)
      BY <2>5, <3>1 DEF StrictSubsetOrdering
    <3>6. QED
      BY <2>4, <3>2, <3>4, <3>5
  <2>8. QED
    BY <2>6, <2>7
<1>5. QED
  BY <1>4 DEF g

LEMMA LostIsSum == MapThenSumSet(Lost, Clients) = (CHOOSE g : Adds(Losses, g))[Clients]
<1>1. MapThenSumSet(Lost, Clients)
      = (CHOOSE g : g = [s \in SUBSET Clients |-> IF s = {} THEN 0 ELSE Lost(Some(s)) + g[s \ {Some(s)}]])[Clients]
  BY Zenon DEF MapThenSumSet, MapThenFoldSet, Some
<1>2. \A g : g = [s \in SUBSET Clients |-> IF s = {} THEN 0 ELSE Lost(Some(s)) + g[s \ {Some(s)}]]
             <=> Adds(Losses, g)
  <2>1. ASSUME NEW s \in SUBSET Clients, s # {} PROVE Losses[Some(s)] = Lost(Some(s))
    <3>1. Some(s) \in Clients
      BY <2>1 DEF Some
    <3>2. QED
      BY <3>1 DEF Losses
  <2>2. QED
    BY <2>1 DEF Adds
<1>3. QED
  BY <1>1, <1>2, Zenon

LEMMA LostIsCount ==
  Losses \in [Clients -> Nat] => MapThenSumSet(Lost, Clients) = Cardinality(Places(Losses, Clients))
  BY LostIsSum, SumCounts

LEMMA OneMore ==
  ASSUME NEW f \in [Clients -> Nat], NEW h \in [Clients -> Nat], NEW x \in Clients,
         h[x] = f[x] + 1, \A c \in Clients \ {x} : h[c] = f[c]
  PROVE  Cardinality(Places(h, Clients)) = Cardinality(Places(f, Clients)) + 1
<1>1. Places(h, Clients \ {x}) = Places(f, Clients \ {x})
  BY DEF Places
<1>2. /\ Cardinality(Places(h, Clients)) = h[x] + Cardinality(Places(h, Clients \ {x}))
      /\ Cardinality(Places(f, Clients)) = f[x] + Cardinality(Places(f, Clients \ {x}))
      /\ Cardinality(Places(f, Clients \ {x})) \in Nat
  BY PlacesCount
<1>3. f[x] \in Nat
  OBVIOUS
<1>4. QED
  BY <1>1, <1>2, <1>3

(* No client got or has more than it was offered, and what is not there    *)
(* any more is counted.                                                    *)
CountInv ==
  /\ Losses \in [Clients -> Nat]
  /\ Cardinality(Places(Losses, Clients)) <= dropped + (IF publisher = "again" THEN 1 ELSE 0)

LEMMA LossesAre ==
  /\ Losses = [c \in Clients |-> Lost(c)]
  /\ Losses' = [c \in Clients |-> Lost(c)']
  BY DEF Losses

LEMMA EnqueueKeeps ==
  ASSUME TypeInv, NEW d \in Clients, published \in Chunks, Enqueue(d)
  PROVE  Losses' = Losses
<1>1. ASSUME NEW c \in Clients PROVE Lost(c)' = Lost(c)
  <2>1. /\ queue[c] \in Seq(Chunks) /\ offered[c] \in Seq(Chunks) /\ taken' = taken
        /\ Len(queue[c]) \in Nat /\ Len(offered[c]) \in Nat /\ Len(taken[c]) \in Nat
    BY FeedTyped DEF Enqueue
  <2>2. CASE c = d
    <3>1. queue'[c] = Append(queue[c], published) /\ offered'[c] = Append(offered[c], published)
      BY <2>2 DEF Enqueue, TypeInv, TypeOK
    <3>2. Len(queue'[c]) = Len(queue[c]) + 1 /\ Len(offered'[c]) = Len(offered[c]) + 1
      BY <2>1, <3>1, AppendProperties
    <3>3. QED
      BY <2>1, <3>2 DEF Lost
  <2>3. CASE c # d
    <3>1. queue'[c] = queue[c] /\ offered'[c] = offered[c]
      BY <2>3 DEF Enqueue, TypeInv, TypeOK
    <3>2. QED
      BY <2>1, <3>1 DEF Lost
  <2>4. QED
    BY <2>2, <2>3
<1>2. QED
  BY <1>1, LossesAre

LEMMA FeedsKeep == UNCHANGED feeds => Losses' = Losses
  BY DEF feeds, Losses, Lost

LEMMA CountStep ==
  ASSUME TypeInv, CountInv, [Next]_vars
  PROVE  CountInv'
<1>1. dropped \in Nat /\ Losses \in [Clients -> Nat] /\ Cardinality(Places(Losses, Clients)) \in Nat
  BY PlacesCount DEF CountInv, TypeInv, TypeOK
<1>2. ASSUME Losses' = Losses, dropped' = dropped, publisher # "again" \/ publisher' = "again"
      PROVE  CountInv'
  BY <1>1, <1>2 DEF CountInv
<1>3. ASSUME NEW d \in Clients, Take(d) PROVE CountInv'
  <2>1. ASSUME NEW c \in Clients PROVE Lost(c)' = Lost(c)
    <3>1. /\ queue[c] \in Seq(Chunks) /\ taken[c] \in Seq(Chunks) /\ offered' = offered
          /\ Len(queue[c]) \in Nat /\ Len(offered[c]) \in Nat /\ Len(taken[c]) \in Nat
      BY <1>3, FeedTyped DEF Take
    <3>2. CASE c = d
      <4>1. queue[c] # <<>> /\ queue'[c] = Tail(queue[c]) /\ taken'[c] = Append(taken[c], Head(queue[c]))
        BY <1>3, <3>2 DEF Take, TypeInv, TypeOK
      <4>2. Len(queue'[c]) = Len(queue[c]) - 1 /\ Len(taken'[c]) = Len(taken[c]) + 1
        BY <3>1, <4>1, TailTyped, AppendProperties
      <4>3. QED
        BY <3>1, <4>2 DEF Lost
    <3>3. CASE c # d
      <4>1. queue'[c] = queue[c] /\ taken'[c] = taken[c]
        BY <1>3, <3>3 DEF Take, TypeInv, TypeOK
      <4>2. QED
        BY <3>1, <4>1 DEF Lost
    <3>4. QED
      BY <3>2, <3>3
  <2>2. Losses' = Losses
    BY <2>1, LossesAre
  <2>3. dropped' = dropped /\ publisher' = publisher
    BY <1>3 DEF Take, publishing
  <2>4. QED
    BY <1>2, <2>2, <2>3
<1>4. ASSUME NEW d \in Clients, Put(d) PROVE CountInv'
  <2>1. Losses' = Losses
    <3>1. CASE Full(d)
      BY <1>4, <3>1, FeedsKeep DEF Put
    <3>2. CASE ~Full(d)
      BY <1>4, <3>2, EnqueueKeeps DEF Put, TypeInv, InHand
    <3>3. QED
      BY <3>1, <3>2
  <2>2. dropped' = dropped /\ publisher # "again"
    BY <1>4 DEF Put
  <2>3. QED
    BY <1>2, <2>1, <2>2
<1>5. CASE Evict
  <2>0. PICK d \in Clients : d = serving
    BY <1>5 DEF Evict, TypeInv, InHand
  <2>1. publisher = "evict" /\ publisher' = "again" /\ dropped' = dropped
        /\ offered' = offered /\ taken' = taken
    BY <1>5 DEF Evict
  <2>2. \A c \in Clients \ {d} : Lost(c)' = Lost(c)
    <3>1. \A c \in Clients \ {d} : queue'[c] = queue[c]
      BY <1>5, <2>0 DEF Evict, TypeInv, TypeOK
    <3>2. QED
      BY <2>1, <3>1 DEF Lost
  <2>3. CASE queue[d] = <<>>
    <3>1. queue'[d] = queue[d]
      BY <1>5, <2>0, <2>3 DEF Evict, Rest, TypeInv, TypeOK
    <3>2. \A c \in Clients : Lost(c)' = Lost(c)
      BY <2>1, <2>2, <3>1 DEF Lost
    <3>3. QED
      BY <1>2, <2>1, <3>2, LossesAre
  <2>4. CASE queue[d] # <<>>
    <3>1. queue'[d] = Tail(queue[d]) /\ Len(queue'[d]) = Len(queue[d]) - 1
      BY <1>5, <2>0, <2>4, TailTyped DEF Evict, Rest, TypeInv, TypeOK
    <3>2. Len(offered[d]) \in Nat /\ Len(taken[d]) \in Nat /\ Len(queue[d]) \in Nat
      BY FeedTyped
    <3>3. Lost(d)' = Lost(d) + 1
      <4>1. Len(queue'[d]) = Len(queue[d]) - 1 /\ offered'[d] = offered[d] /\ taken'[d] = taken[d]
        BY <2>1, <3>1
      <4>2. \A o, l, q \in Nat : o - l - (q - 1) = (o - l - q) + 1
        OBVIOUS
      <4>3. Lost(d) = Len(offered[d]) - Len(taken[d]) - Len(queue[d])
        BY DEF Lost
      <4>4. Lost(d)' = Len(offered[d]) - Len(taken[d]) - (Len(queue[d]) - 1)
        BY <4>1 DEF Lost
      <4>5. QED
        BY <3>2, <4>2, <4>3, <4>4
    <3> DEFINE f == Losses
               h == Losses'
    <3>4. /\ f \in [Clients -> Nat] /\ h[d] = f[d] + 1
          /\ \A c \in Clients \ {d} : h[c] = f[c]
          /\ DOMAIN h = Clients /\ h = [c \in Clients |-> h[c]]
      BY <1>1, <2>1, <2>2, <3>3, LossesAre
    <3> HIDE DEF f, h
    <3>5. h \in [Clients -> Nat]
      BY <3>4
    <3>6. Cardinality(Places(h, Clients)) = Cardinality(Places(f, Clients)) + 1
      BY <2>1, <3>4, <3>5, OneMore
    <3>7. Cardinality(Places(f, Clients)) <= dropped
      BY <1>1, <2>1 DEF CountInv, f
    <3>8. Cardinality(Places(h, Clients)) <= dropped + 1
      BY <1>1, <3>6, <3>7 DEF f
    <3>9. QED
      BY <2>1, <3>5, <3>8 DEF CountInv, h
  <2>5. QED
    BY <2>3, <2>4
<1>6. CASE PutAgain
  <2>1. Losses' = Losses
    BY <1>6, EnqueueKeeps DEF PutAgain, TypeInv, InHand
  <2>2. publisher = "again" /\ publisher' = "next" /\ dropped' = dropped + 1
    BY <1>6 DEF PutAgain, Counted
  <2>3. QED
    BY <1>1, <2>1, <2>2 DEF CountInv
<1>7. CASE Log \/ PublishEnds
  <2>1. UNCHANGED feeds /\ dropped' = dropped /\ publisher # "again"
    BY <1>7 DEF Log, PublishEnds
  <2>2. QED
    BY <1>2, <2>1, FeedsKeep
<1>8. CASE Start \/ CheckStop \/ AcceptTimesOut \/ AcceptFails \/ Register
           \/ SetStop \/ CloseServer \/ Clear \/ Join \/ UNCHANGED vars
  <2>1. UNCHANGED feeds /\ UNCHANGED publishing
    BY <1>8 DEF Start, CheckStop, AcceptTimesOut, AcceptFails, Register, SetStop,
                CloseServer, Clear, Join, vars
  <2>2. QED
    BY <1>2, <2>1, FeedsKeep DEF publishing
<1>9. ASSUME NEW d \in Clients,
             Accept(d) \/ Receive(d) \/ InputEnds(d) \/ WriteEnds(d) \/ Send(d) \/ OutputEnds(d) \/ HangUp(d)
      PROVE  CountInv'
  <2>1. UNCHANGED feeds /\ UNCHANGED publishing
    BY <1>9 DEF Accept, Receive, InputEnds, WriteEnds, Send, OutputEnds, HangUp
  <2>2. QED
    BY <1>2, <2>1, FeedsKeep DEF publishing
<1>10. QED
  BY <1>3, <1>4, <1>5, <1>6, <1>7, <1>8, <1>9 DEF Next, Acceptor, Input, Output, Publish, Closer

(* status() reports every chunk that a client lost, but for the one that   *)
(* publish() is about to count (publish() and status(), tcp_bridge.py).    *)
THEOREM DropsAreCounted == Spec => []DropsCounted
<1>1. Init => CountInv
  <2> SUFFICES ASSUME Init PROVE CountInv
    OBVIOUS
  <2>1. \A c \in Clients : Lost(c) = 0
    <3>1. ASSUME NEW c \in Clients PROVE Lost(c) = 0
      <4>1. offered[c] = <<>> /\ taken[c] = <<>> /\ queue[c] = <<>>
        BY DEF Init
      <4>2. Len(offered[c]) = 0 /\ Len(taken[c]) = 0 /\ Len(queue[c]) = 0
        BY <4>1
      <4>3. QED
        BY <4>2 DEF Lost
    <3>2. QED
      BY <3>1
  <2> DEFINE f == Losses
  <2>2. f \in [Clients -> Nat] /\ \A c \in Clients : f[c] = 0
    BY <2>1 DEF Losses
  <2>3. Places(f, Clients) = {}
    <3> HIDE DEF f
    <3>1. QED
      BY <2>2 DEF Places
  <2>4. Cardinality(Places(f, Clients)) = 0
    BY <2>3, FS_EmptySet
  <2>5. dropped = 0 /\ publisher = "idle"
    BY DEF Init
  <2>6. QED
    BY <2>2, <2>4, <2>5 DEF CountInv
<1>2. CountInv => DropsCounted
  BY LostIsCount DEF CountInv, DropsCounted
<1>3. QED
  BY <1>1, <1>2, CountStep, InitTyped, StepTyped, PTL DEF Spec
=============================================================================
