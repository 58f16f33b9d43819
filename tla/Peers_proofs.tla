----------------------------- MODULE Peers_proofs -----------------------------
(***************************************************************************)
(* The life of a CNode and its messages, for any number of connections,    *)
(* openers, slots and messages: references are counted, a deleted node is  *)
(* out of use, slots are neither lost nor doubled, and messages are        *)
(* handled in order.                                                       *)
(***************************************************************************)
EXTENDS Peers, FiniteSetTheorems, TLAPS

\* The types of the variables.
CNode ==
    [at : {"none", "vNodes", "vNodesDisconnected", "deleted"}, addr : Addr \cup {None},
     nRefCount : Int, fInbound : BOOLEAN, fNetworkNode : BOOLEAN, fDisconnect : BOOLEAN,
     open : BOOLEAN, grant : BOOLEAN, got : 0 .. MaxMsg, vRecvMsg : Seq(Nat),
     nSendSize : 0 .. SendBuffer, handled : 0 .. MaxMsg, kept : BOOLEAN, shared : BOOLEAN]

SocketThread ==
    [pc : {"disconnect", "delete", "poll", "accept", "accepted", "service"},
     copy : SUBSET Node, todo : SUBSET Node, recv : SUBSET Node, send : SUBSET Node]

HandlerThread ==
    [pc : {"start", "poll", "receive", "send"}, copy : SUBSET Node, todo : SUBSET Node,
     node : Node \cup {None}, it : 0 .. MaxMsg]

OpenerThread ==
    [pc : {"idle", "look", "connect", "found", "loaded", "connected", "moved"},
     addr : Addr \cup {None}, node : Node \cup {None}, grant : BOOLEAN, read : Int]

TypeOK ==
    /\ node \in [Node -> CNode]
    /\ socket \in SocketThread /\ handler \in HandlerThread /\ opener \in [Opener -> OpenerThread]
    /\ semOutbound \in Int

\* Memory that is not allocated is as NewNode has it.
Unallocated == \A n \in Node : node[n].at = "none" => node[n] = NewNode

\* A thread works on its copy of vNodes, and has one only while it does.
Copies ==
    /\ socket.todo \subseteq socket.copy /\ (socket.pc # "service" => socket.copy = {})
    /\ handler.todo \subseteq handler.copy /\ (handler.pc = "start" => handler.copy = {})
    /\ handler.pc \in {"receive", "send"} => handler.node \in handler.copy
    /\ \A n \in socket.copy \cup handler.copy : node[n].at # "none"

\* The references that are out.
Refs(n) == (IF n \in socket.copy THEN 1 ELSE 0) + (IF n \in handler.copy THEN 1 ELSE 0)
             + (IF node[n].at = "vNodes" \/ node[n].kept THEN 1 ELSE 0)

Counted ==
    \A n \in Node : ~node[n].shared =>
      /\ node[n].at \in {"vNodes", "vNodesDisconnected"} => node[n].nRefCount = Refs(n)
      /\ node[n].at = "deleted" => n \notin socket.copy /\ n \notin handler.copy

\* A node its opener is not done with: when it leaves vNodes it keeps its first
\* reference.
Fresh(nd) == /\ ~nd.fInbound /\ ~nd.fNetworkNode
             /\ nd.at = "vNodes" \/ (nd.at = "vNodesDisconnected" /\ nd.kept)

\* What an opener points to: nothing, a node it met, or one it has made; and it has
\* no slot before it begins and none after it has given it to the node.
Pointer(op) ==
    /\ op.pc \in {"idle", "look", "connect"} => op.node = None
    /\ op.pc \in {"found", "loaded"} => op.node \in Node /\ node[op.node].shared
    /\ op.pc \in {"connected", "moved"} =>
         op.node \in Node /\ (node[op.node].shared \/ Fresh(node[op.node]))
    /\ op.node # None => node[op.node].at # "none"
    /\ op.pc \in {"idle", "moved"} => ~op.grant

\* ... which no other opener knows without having met it.
Openers ==
    /\ \A o \in Opener : Pointer(opener[o])
    /\ \A o, p \in Opener : o # p /\ opener[o].node = opener[p].node /\ opener[o].node # None
         => node[opener[o].node].shared

\* The slots, with the openers and with the nodes.
OpenerGrants == {o \in Opener : opener[o].grant}
NodeGrants   == {n \in Node : node[n].grant}

Slots ==
    /\ IsFiniteSet(OpenerGrants) /\ IsFiniteSet(NodeGrants)
    /\ semOutbound + Cardinality(OpenerGrants) + Cardinality(NodeGrants) = MaxOutbound
    /\ \A n \in Node : node[n].at = "vNodesDisconnected" /\ node[n].grant
                         => node[n].kept \/ node[n].shared

\* While nobody has disconnected it, a node has received the messages up to got,
\* handled those up to handled, and holds the rest, after the `it' messages that
\* the message thread has handled and not erased yet.
InOrder(nd, it) ==
    ~nd.fDisconnect =>
      /\ it <= nd.handled /\ nd.handled <= nd.got
      /\ Len(nd.vRecvMsg) = nd.got - nd.handled + it
      /\ \A i \in 1 .. Len(nd.vRecvMsg) : nd.vRecvMsg[i] = nd.handled - it + i

It(n) == IF Handling(n) THEN handler.it ELSE 0

Ordered == \A n \in Node : InOrder(node[n], It(n))

\* The inductive invariant.
Inv == TypeOK /\ Unallocated /\ Copies /\ Counted /\ Openers /\ Slots /\ Ordered
-----------------------------------------------------------------------------
(* What the operations on a CNode keep.                                    *)

\* All of a node's life but its messages.
SameLife(r, nd) ==
    /\ r.at = nd.at /\ r.nRefCount = nd.nRefCount /\ r.fInbound = nd.fInbound
    /\ r.fNetworkNode = nd.fNetworkNode /\ r.grant = nd.grant /\ r.kept = nd.kept
    /\ r.shared = nd.shared

\* CloseSocketDisconnect concerns the socket and the buffer alone.
LEMMA CloseKeeps ==
  ASSUME NEW nd \in CNode, NEW b \in BOOLEAN
  PROVE  LET r == CloseSocketDisconnect(nd, b)
         IN  r \in CNode /\ SameLife(r, nd) /\ r.fDisconnect /\ r.handled = nd.handled
<1>1. <<>> \in Seq(Nat)
  OBVIOUS
<1> QED BY <1>1 DEF CloseSocketDisconnect, CNode, SameLife

\* fDisconnect alone.
LEMMA DisconnectKeeps ==
  ASSUME NEW nd \in CNode
  PROVE  LET r == [nd EXCEPT !.fDisconnect = TRUE]
         IN  r \in CNode /\ SameLife(r, nd) /\ r.fDisconnect /\ r.handled = nd.handled
BY DEF CNode, SameLife

\* With nothing handled and not erased, the messages held are the next ones
\* (ProcessMessages finds the first one to handle at the front of vRecvMsg).
LEMMA NothingToErase ==
  ASSUME NEW nd \in CNode
  PROVE  InOrder(nd, 0) <=>
           (~nd.fDisconnect =>
              /\ nd.handled <= nd.got /\ Len(nd.vRecvMsg) = nd.got - nd.handled
              /\ \A i \in 1 .. Len(nd.vRecvMsg) : nd.vRecvMsg[i] = nd.handled + i)
<1>1. nd.got \in Nat /\ nd.handled \in Nat /\ nd.vRecvMsg \in Seq(Nat)
  BY DEF CNode
<1> QED BY <1>1 DEF InOrder

\* ReceiveMsgBytes appends the next messages.
LEMMA ReceiveKeeps ==
  ASSUME NEW nd \in CNode, NEW k \in 0 .. MaxMsg - nd.got
  PROVE  LET r == ReceiveMsgBytes(nd, k)
         IN  /\ r \in CNode /\ SameLife(r, nd) /\ r.handled = nd.handled
             /\ InOrder(nd, 0) => InOrder(r, 0)
<1> DEFINE more == [i \in 1 .. k |-> nd.got + i]
           r == ReceiveMsgBytes(nd, k)
<1>1. nd.got \in Nat /\ k \in Nat /\ nd.got + k \in 0 .. MaxMsg /\ nd.vRecvMsg \in Seq(Nat)
      /\ nd.handled \in Nat
  BY PeersAssumption DEF CNode
<1>2. more \in Seq(Nat) /\ Len(more) = k
  BY <1>1
<1>3. r = [nd EXCEPT !.got = nd.got + k, !.vRecvMsg = nd.vRecvMsg \o more]
  BY DEF ReceiveMsgBytes
<1>4. nd.vRecvMsg \o more \in Seq(Nat)
  BY <1>1, <1>2
<1>5. r \in CNode /\ SameLife(r, nd) /\ r.handled = nd.handled
  BY <1>1, <1>3, <1>4 DEF CNode, SameLife
<1>6. ASSUME InOrder(nd, 0), ~r.fDisconnect PROVE InOrder(r, 0)
  <2>1. r.fDisconnect = nd.fDisconnect /\ r.got = nd.got + k /\ r.vRecvMsg = nd.vRecvMsg \o more
    BY <1>3 DEF CNode
  <2>2. nd.handled <= nd.got /\ Len(nd.vRecvMsg) = nd.got - nd.handled
        /\ \A i \in 1 .. Len(nd.vRecvMsg) : nd.vRecvMsg[i] = nd.handled + i
    BY <1>6, <2>1, NothingToErase
  <2>3. Len(r.vRecvMsg) = Len(nd.vRecvMsg) + k
    BY <1>1, <1>2, <2>1
  <2>4. ASSUME NEW i \in 1 .. Len(r.vRecvMsg) PROVE r.vRecvMsg[i] = nd.handled + i
    <3>1. CASE i <= Len(nd.vRecvMsg)
      BY <1>1, <1>2, <2>1, <2>2, <2>3, <3>1
    <3>2. CASE i > Len(nd.vRecvMsg)
      <4>1. i - Len(nd.vRecvMsg) \in 1 .. k
        BY <1>1, <2>2, <2>3, <3>2
      <4>2. r.vRecvMsg[i] = more[i - Len(nd.vRecvMsg)]
        BY <1>1, <1>2, <2>1, <2>3, <3>2
      <4> QED BY SMTT(30), <1>1, <2>2, <4>1, <4>2
    <3> QED BY <1>1, <2>2, <2>3, <3>1, <3>2
  <2>5. r.handled <= r.got /\ Len(r.vRecvMsg) = r.got - r.handled
    BY <1>1, <1>5, <2>1, <2>2, <2>3
  <2> HIDE DEF r
  <2> QED BY <1>5, <2>4, <2>5, NothingToErase
<1> QED BY <1>5, <1>6 DEF InOrder

\* SocketSendData takes from what is to be sent.
LEMMA SendKeeps ==
  ASSUME NEW nd \in CNode, NEW k \in 0 .. nd.nSendSize
  PROVE  LET r == SocketSendData(nd, k)
         IN  /\ r \in CNode /\ SameLife(r, nd) /\ r.handled = nd.handled
             /\ \A it : InOrder(nd, it) => InOrder(r, it)
<1> DEFINE r == SocketSendData(nd, k)
<1>1. nd.nSendSize - k \in 0 .. SendBuffer
  BY PeersAssumption DEF CNode
<1>2. r = [nd EXCEPT !.nSendSize = nd.nSendSize - k]
  BY DEF SocketSendData
<1> QED BY <1>1, <1>2 DEF CNode, SameLife, InOrder

\* The end of ProcessMessages: what was handled is erased.
LEMMA EraseKeeps ==
  ASSUME NEW nd \in CNode, NEW it \in Nat, it <= Len(nd.vRecvMsg)
  PROVE  LET r == Erase(nd, it)
         IN  /\ r \in CNode /\ SameLife(r, nd) /\ r.handled = nd.handled
             /\ InOrder(nd, it) => InOrder(r, 0)
<1> DEFINE r == Erase(nd, it)
           rest == SubSeq(nd.vRecvMsg, it + 1, Len(nd.vRecvMsg))
<1>1. nd.vRecvMsg \in Seq(Nat) /\ nd.got \in Nat /\ nd.handled \in Nat /\ Len(nd.vRecvMsg) \in Nat
  BY DEF CNode
<1>2. CASE nd.fDisconnect
  BY <1>2 DEF Erase, SameLife, InOrder
<1>3. CASE ~nd.fDisconnect
  <2>1. /\ rest \in Seq(Nat) /\ Len(rest) = Len(nd.vRecvMsg) - it
        /\ \A i \in 1 .. Len(rest) : rest[i] = nd.vRecvMsg[it + i]
    BY <1>1
  <2>2. r = [nd EXCEPT !.vRecvMsg = rest]
    BY <1>3 DEF Erase
  <2> HIDE DEF rest
  <2>3. /\ r \in CNode /\ SameLife(r, nd) /\ r.handled = nd.handled /\ r.vRecvMsg = rest
        /\ r.got = nd.got /\ r.fDisconnect = nd.fDisconnect
    BY <2>1, <2>2 DEF CNode, SameLife
  <2>4. ASSUME InOrder(nd, it) PROVE InOrder(r, 0)
    <3>1. /\ nd.handled <= nd.got /\ Len(nd.vRecvMsg) = nd.got - nd.handled + it
          /\ \A i \in 1 .. Len(nd.vRecvMsg) : nd.vRecvMsg[i] = nd.handled - it + i
      BY <1>3, <2>4 DEF InOrder
    <3>2. \A i \in 1 .. Len(rest) : rest[i] = nd.handled + i
      <4> TAKE i \in 1 .. Len(rest)
      <4>1. it + i \in 1 .. Len(nd.vRecvMsg) /\ i \in Int
        BY <1>1, <2>1
      <4>2. nd.vRecvMsg[it + i] = nd.handled - it + (it + i)
        BY <3>1, <4>1
      <4> QED BY SMTT(30), <1>1, <2>1, <4>1, <4>2
    <3>3. r.handled <= r.got /\ Len(r.vRecvMsg) = r.got - r.handled
      BY <1>1, <2>1, <2>3, <3>1
    <3> HIDE DEF r
    <3> QED BY <2>3, <3>2, <3>3, NothingToErase
  <2> QED BY <2>3, <2>4
<1> QED BY <1>2, <1>3

\* A message handled: it is the one after the last, and comes before what is left.
\* It may be answered.
LEMMA HandleKeeps ==
  ASSUME NEW nd \in CNode, NEW it \in Nat, InOrder(nd, it), ~nd.fDisconnect,
         it < Len(nd.vRecvMsg), nd.nSendSize < SendBuffer
  PROVE  LET h == [nd EXCEPT !.handled = nd.vRecvMsg[it + 1]]
             r == [h EXCEPT !.nSendSize = @ + 1]
         IN  /\ h \in CNode /\ SameLife(h, nd) /\ InOrder(h, it + 1)
             /\ r \in CNode /\ SameLife(r, nd) /\ InOrder(r, it + 1) /\ r.handled = h.handled
             /\ h.handled = nd.handled + 1 /\ it + 1 \in 0 .. MaxMsg
<1> DEFINE h == [nd EXCEPT !.handled = nd.vRecvMsg[it + 1]]
           r == [h EXCEPT !.nSendSize = @ + 1]
<1>1. /\ nd.vRecvMsg \in Seq(Nat) /\ nd.got \in 0 .. MaxMsg /\ nd.handled \in 0 .. MaxMsg
      /\ nd.nSendSize \in 0 .. SendBuffer /\ MaxMsg \in Nat /\ SendBuffer \in Nat
  BY PeersAssumption DEF CNode
<1>2. /\ it <= nd.handled /\ nd.handled <= nd.got /\ Len(nd.vRecvMsg) = nd.got - nd.handled + it
      /\ \A i \in 1 .. Len(nd.vRecvMsg) : nd.vRecvMsg[i] = nd.handled - it + i
  BY DEF InOrder
<1>0. /\ nd.got \in Nat /\ nd.handled \in Nat /\ it + 1 <= Len(nd.vRecvMsg)
      /\ nd.got <= MaxMsg /\ nd.nSendSize \in Nat
  BY <1>1
<1>3. nd.vRecvMsg[it + 1] = nd.handled + 1 /\ nd.handled + 1 <= nd.got
  <2>1. it + 1 \in 1 .. Len(nd.vRecvMsg)
    BY <1>1
  <2>2. nd.vRecvMsg[it + 1] = nd.handled - it + (it + 1)
    BY <1>2, <2>1
  <2>3. nd.handled + 1 <= nd.got
    BY <1>0, <1>2
  <2>4. nd.handled - it + (it + 1) = nd.handled + 1
    BY <1>0
  <2> QED BY <2>2, <2>3, <2>4
<1>4. nd.handled + 1 \in 0 .. MaxMsg /\ it + 1 \in 0 .. MaxMsg /\ nd.nSendSize + 1 \in 0 .. SendBuffer
  <2>1. nd.handled + 1 <= MaxMsg /\ it + 1 <= MaxMsg
    <3>1. nd.handled + 1 <= nd.got /\ it <= nd.handled /\ MaxMsg \in Nat
      BY <1>1, <1>2, <1>3
    <3> QED BY <1>0, <3>1
  <2> QED BY SMTT(30), <1>0, <1>1, <2>1
<1>5. h = [nd EXCEPT !.handled = nd.handled + 1]
  BY <1>3
<1>6. /\ h \in CNode /\ SameLife(h, nd) /\ h.handled = nd.handled + 1 /\ h.nSendSize = nd.nSendSize
      /\ h.vRecvMsg = nd.vRecvMsg /\ h.got = nd.got
  BY <1>4, <1>5 DEF CNode, SameLife
<1>7. InOrder(h, it + 1)
  <2>1. \A i \in 1 .. Len(nd.vRecvMsg) : nd.vRecvMsg[i] = nd.handled + 1 - (it + 1) + i
    <3> TAKE i \in 1 .. Len(nd.vRecvMsg)
    <3>1. nd.vRecvMsg[i] = nd.handled - it + i /\ i \in Int
      BY <1>2
    <3> QED BY <1>0, <3>1
  <2>2. it + 1 <= h.handled /\ h.handled <= h.got /\ Len(h.vRecvMsg) = h.got - h.handled + (it + 1)
    <3>1. it <= nd.handled
      BY <1>2
    <3>2. it + 1 <= nd.handled + 1
      BY <1>0, <3>1
    <3>3. nd.got - nd.handled + it = nd.got - (nd.handled + 1) + (it + 1)
      BY <1>0
    <3> HIDE DEF h
    <3> QED BY <1>2, <1>3, <1>6, <3>2, <3>3
  <2> HIDE DEF h
  <2>3. \A i \in 1 .. Len(h.vRecvMsg) : h.vRecvMsg[i] = h.handled - (it + 1) + i
    <3>1. h.vRecvMsg = nd.vRecvMsg /\ h.handled = nd.handled + 1
      BY <1>6
    <3> QED BY <1>0, <2>1, <3>1
  <2> QED BY <2>2, <2>3 DEF InOrder
<1>8. /\ r \in CNode /\ SameLife(r, nd) /\ r.handled = h.handled
      /\ r.vRecvMsg = h.vRecvMsg /\ r.got = h.got /\ r.fDisconnect = h.fDisconnect
  <2> HIDE DEF h
  <2> QED BY <1>4, <1>6 DEF CNode, SameLife
<1>9. InOrder(r, it + 1)
  <2> HIDE DEF h, r
  <2> QED BY <1>7, <1>8 DEF InOrder
<1> QED BY <1>4, <1>6, <1>7, <1>8, <1>9

-----------------------------------------------------------------------------
(* Receiving, handling and sending: steps that concern messages alone.     *)

\* What a step does to the count of messages handled.
NextHandled ==
    \A n \in Node : node'[n].handled # node[n].handled => node'[n].handled = node[n].handled + 1

\* A step that leaves the life of every node and the copies as they are keeps what
\* is said of them: ThreadSocketHandler and ThreadMessageHandler between AddRef and
\* Release.
LEMMA TrafficKeeps ==
  ASSUME Inv, UNCHANGED <<opener, semOutbound>>,
         socket'.copy = socket.copy, handler'.copy = handler.copy,
         \A n \in Node : SameLife(node'[n], node[n]),
         \A n \in Node : node[n].at = "none" => node'[n] = node[n]
  PROVE  Unallocated' /\ Counted' /\ Openers' /\ Slots'
<1>1. Unallocated'
  BY DEF Inv, Unallocated, SameLife
<1>2. Counted'
  <2>1. \A n \in Node : Refs(n)' = Refs(n)
    BY DEF Refs, SameLife
  <2> QED BY <2>1 DEF Inv, Counted, SameLife
<1>3. Openers'
  <2>1. \A o \in Opener : opener[o].node \in Node \cup {None}
    BY DEF Inv, TypeOK, OpenerThread
  <2>2. \A n \in Node : Fresh(node[n]) => Fresh(node'[n])
    BY DEF SameLife, Fresh
  <2>3. ASSUME NEW o \in Opener PROVE Pointer(opener[o])'
    BY <2>1, <2>2, <2>3 DEF Inv, Openers, Pointer, SameLife
  <2>4. ASSUME NEW o \in Opener, NEW q \in Opener, o # q, opener[o].node = opener[q].node,
               opener[o].node # None
        PROVE  node'[opener[o].node].shared
    <3>1. node[opener[o].node].shared
      BY <2>4 DEF Inv, Openers
    <3> QED BY <2>1, <2>4, <3>1 DEF SameLife
  <2> QED BY <2>3, <2>4 DEF Openers
<1>4. Slots'
  <2>1. OpenerGrants' = OpenerGrants /\ NodeGrants' = NodeGrants
    BY DEF OpenerGrants, NodeGrants, SameLife
  <2> QED BY <2>1 DEF Inv, Slots, SameLife
<1> QED BY <1>1, <1>2, <1>3, <1>4

\* One node of a copy is given back changed in its messages alone (the body of both
\* threads' loops over vNodesCopy).
LEMMA OneNodeTraffic ==
  ASSUME Inv, NEW n \in Node, node[n].at # "none", NEW r \in CNode, SameLife(r, node[n]),
         node' = [node EXCEPT ![n] = r],
         UNCHANGED <<opener, semOutbound>>, socket' \in SocketThread, handler' \in HandlerThread,
         socket'.copy = socket.copy, handler'.copy = handler.copy,
         socket'.pc = socket.pc, socket'.todo \subseteq socket.todo,
         handler'.pc # "start" \/ UNCHANGED handler, handler'.todo \subseteq handler.todo,
         handler'.pc \in {"receive", "send"} => handler'.node \in handler.copy,
         InOrder(r, It(n)'), \A m \in Node \ {n} : It(m)' = It(m),
         r.handled # node[n].handled => r.handled = node[n].handled + 1
  PROVE  Inv' /\ NextHandled
<1>1. node \in [Node -> CNode] /\ node'[n] = r /\ \A m \in Node \ {n} : node'[m] = node[m]
  BY DEF Inv, TypeOK
<1>2. TypeOK'
  BY <1>1 DEF Inv, TypeOK
<1>3. \A m \in Node : SameLife(node'[m], node[m])
  BY <1>1 DEF SameLife
<1>4. Unallocated' /\ Counted' /\ Openers' /\ Slots'
  <2>1. \A m \in Node : node[m].at = "none" => node'[m] = node[m]
    BY <1>1
  <2> QED BY <1>3, <2>1, TrafficKeeps
<1>5. Copies'
  <2>1. socket.copy \subseteq Node /\ handler.copy \subseteq Node
    BY DEF Inv, TypeOK, SocketThread, HandlerThread
  <2> QED BY <1>3, <2>1 DEF Inv, Copies, SameLife
<1>6. Ordered'
  <2> SUFFICES ASSUME NEW m \in Node PROVE InOrder(node'[m], It(m)')
    BY DEF Ordered, InOrder
  <2> QED BY <1>1 DEF Inv, Ordered
<1>7. NextHandled
  BY <1>1 DEF NextHandled
<1> QED BY <1>2, <1>4, <1>5, <1>6, <1>7 DEF Inv

\* A step that leaves all nodes alone.
LEMMA NoNodeTraffic ==
  ASSUME Inv, UNCHANGED <<node, opener, semOutbound>>,
         socket' \in SocketThread, handler' \in HandlerThread,
         socket'.copy = socket.copy, handler'.copy = handler.copy,
         socket'.pc = "service" <=> socket.pc = "service", socket'.todo \subseteq socket.todo,
         handler'.pc # "start" \/ UNCHANGED handler, handler'.todo \subseteq handler.todo,
         handler'.pc \in {"receive", "send"} => handler'.node \in handler.copy,
         \A m \in Node : It(m)' = It(m)
  PROVE  Inv' /\ NextHandled
<1>1. TypeOK'
  BY DEF Inv, TypeOK
<1>2. Unallocated' /\ Counted' /\ Openers' /\ Slots'
  <2>1. \A m \in Node : SameLife(node'[m], node[m])
    BY DEF SameLife
  <2> QED BY <2>1, TrafficKeeps
<1>3. Copies'
  BY DEF Inv, Copies
<1>4. Ordered'
  <2> SUFFICES ASSUME NEW m \in Node PROVE InOrder(node'[m], It(m)')
    BY DEF Ordered, InOrder
  <2> QED BY DEF Inv, Ordered
<1> QED BY <1>1, <1>2, <1>3, <1>4 DEF Inv, NextHandled

\* One turn of ThreadSocketHandler's loop: it receives only while the message thread
\* does not hold the buffer.
LEMMA ServiceKeeps == ASSUME Inv, NEW n \in Node, Service(n) PROVE Inv' /\ NextHandled
<1> DEFINE nd == node[n]
<1>1. /\ UNCHANGED <<handler, opener, semOutbound>> /\ n \in socket.todo
      /\ socket' = [socket EXCEPT !.todo = @ \ {n}, !.recv = @ \ {n}, !.send = @ \ {n}]
  BY DEF Service
<1>2. /\ socket' \in SocketThread /\ handler' \in HandlerThread /\ socket'.copy = socket.copy
      /\ socket'.pc = socket.pc /\ socket'.todo \subseteq socket.todo
  BY <1>1 DEF Inv, TypeOK, SocketThread
<1>3. nd \in CNode /\ nd.at # "none" /\ InOrder(nd, It(n))
  BY <1>1 DEF Inv, TypeOK, Copies, Ordered
<1>4. \A m \in Node : It(m)' = It(m)
  BY <1>1 DEF It, Handling
<1>5. handler'.pc \in {"receive", "send"} => handler'.node \in handler.copy
  BY <1>1 DEF Inv, Copies
<1>6. CASE UNCHANGED node
  BY <1>1, <1>2, <1>4, <1>5, <1>6, NoNodeTraffic
<1>7. ASSUME NEW r \in Served(n), node' = [node EXCEPT ![n] = r] PROVE Inv' /\ NextHandled
  <2> DEFINE Good(x) == x \in CNode /\ SameLife(x, nd) /\ InOrder(x, It(n)) /\ x.handled = nd.handled
             received == IF n \in socket.recv /\ ~Handling(n)
                         THEN {ReceiveMsgBytes(nd, k) : k \in 0 .. MaxMsg - nd.got}
                                \cup {CloseSocketDisconnect(nd, TRUE)}
                         ELSE {nd}
             sent == IF n \in socket.send
                     THEN {SocketSendData(nd, k) : k \in 0 .. nd.nSendSize}
                            \cup {CloseSocketDisconnect(nd, ~Handling(n))}
                     ELSE {}
  <2>1. Good(nd)
    BY <1>3 DEF SameLife
  <2>2. \A b \in BOOLEAN : Good(CloseSocketDisconnect(nd, b))
    BY <1>3, CloseKeeps DEF InOrder
  <2>3. ASSUME ~Handling(n), NEW k \in 0 .. MaxMsg - nd.got PROVE Good(ReceiveMsgBytes(nd, k))
    <3>1. It(n) = 0
      BY <2>3 DEF It
    <3> QED BY <1>3, <3>1, ReceiveKeeps
  <2>4. \A k \in 0 .. nd.nSendSize : Good(SocketSendData(nd, k))
    BY <1>3, SendKeeps
  <2>5. ASSUME NEW x, Good(x) PROVE Good([x EXCEPT !.fDisconnect = TRUE])
    <3>1. /\ [x EXCEPT !.fDisconnect = TRUE] \in CNode /\ SameLife([x EXCEPT !.fDisconnect = TRUE], x)
          /\ [x EXCEPT !.fDisconnect = TRUE].fDisconnect
          /\ [x EXCEPT !.fDisconnect = TRUE].handled = x.handled
      BY <2>5, DisconnectKeeps
    <3> QED BY <2>5, <3>1 DEF SameLife, InOrder
  <2>6. \A x \in received : Good(x)
    <3> HIDE DEF Good
    <3> QED BY <2>1, <2>2, <2>3
  <2>7. \A x \in sent : Good(x)
    <3>1. (~Handling(n)) \in BOOLEAN
      BY DEF Handling
    <3> HIDE DEF Good
    <3> QED BY <2>2, <2>4, <3>1
  <2>8. r \in received \cup sent \cup {[x EXCEPT !.fDisconnect = TRUE] : x \in received \cup sent}
    BY <1>7 DEF Served
  <2>9. Good(r)
    <3> HIDE DEF Good, received, sent
    <3> QED BY <2>5, <2>6, <2>7, <2>8
  <2>10. InOrder(r, It(n)')
    BY <1>4, <2>9
  <2> QED BY <1>1, <1>2, <1>3, <1>4, <1>5, <1>7, <2>9, <2>10, OneNodeTraffic
<1> QED BY <1>6, <1>7 DEF Service

\* ThreadMessageHandler goes from node to node.
LEMMA TurnKeeps ==
  ASSUME Inv, NEW n \in Node, SkipNode(n) \/ LockRecv(n) \/ MissRecv(n)
  PROVE  Inv' /\ NextHandled
<1>1. /\ UNCHANGED <<node, socket, opener, semOutbound>> /\ handler.pc = "poll" /\ n \in handler.todo
      /\ handler.todo \subseteq handler.copy
  BY DEF SkipNode, LockRecv, MissRecv, Inv, Copies
<1>2. 0 \in 0 .. MaxMsg
  BY PeersAssumption
<1>3. handler' \in HandlerThread /\ handler'.copy = handler.copy /\ handler'.todo \subseteq handler.todo
      /\ handler'.pc # "start"
      /\ (handler'.pc \in {"receive", "send"} => handler'.node \in handler.copy)
      /\ (handler'.pc = "receive" => handler'.it = 0)
  BY ZenonT(60), <1>1, <1>2 DEF SkipNode, LockRecv, MissRecv, Inv, TypeOK, HandlerThread
<1>4. \A m \in Node : It(m) = 0 /\ It(m)' = 0
  BY <1>1, <1>3 DEF It, Handling
<1> QED BY <1>1, <1>3, <1>4, NoNodeTraffic DEF Inv, TypeOK

\* ThreadSocketHandler fills its sets.
LEMMA PollKeeps == Inv /\ Poll => Inv' /\ NextHandled
<1> SUFFICES ASSUME Inv, Poll PROVE Inv' /\ NextHandled
  OBVIOUS
<1>1. UNCHANGED <<node, handler, opener, semOutbound>> /\ socket.pc = "poll"
  BY DEF Poll
<1>2. /\ socket' \in SocketThread /\ socket'.copy = socket.copy /\ socket'.todo = socket.todo
      /\ socket'.pc = "accept"
  <2>1. PICK recv \in SUBSET Node, send \in SUBSET Node :
           socket' = [socket EXCEPT !.pc = "accept", !.recv = recv, !.send = send]
    BY DEF Poll, vNodes
  <2> QED BY <2>1 DEF Inv, TypeOK, SocketThread
<1>3. \A m \in Node : It(m)' = It(m)
  BY <1>1 DEF It, Handling
<1> QED BY <1>1, <1>2, <1>3, NoNodeTraffic DEF Inv, TypeOK, Copies

\* What ThreadMessageHandler's steps at one node have in common.
LEMMA AtNode ==
  ASSUME Inv, handler.pc \in {"receive", "send"}
  PROVE  /\ handler.node \in Node /\ handler.node \in handler.copy /\ handler.it \in Nat
         /\ node[handler.node] \in CNode /\ node[handler.node].at # "none"
         /\ InOrder(node[handler.node], It(handler.node))
         /\ \A m \in Node \ {handler.node} : It(m) = 0
BY DEF Inv, TypeOK, HandlerThread, Copies, Ordered, It, Handling

\* A turn of ProcessMessages' loop handles the message after the last one.
LEMMA ProcessMessageKeeps == Inv /\ ProcessMessage => Inv' /\ NextHandled
<1> SUFFICES ASSUME Inv, ProcessMessage PROVE Inv' /\ NextHandled
  OBVIOUS
<1> DEFINE n == handler.node
           nd == node[n]
           it == handler.it
           h == [nd EXCEPT !.handled = nd.vRecvMsg[it + 1]]
           a == [h EXCEPT !.nSendSize = @ + 1]
           d == [h EXCEPT !.fDisconnect = TRUE]
           c == CloseSocketDisconnect(h, TRUE)
<1>1. /\ UNCHANGED <<socket, opener, semOutbound>> /\ handler.pc = "receive"
      /\ ~nd.fDisconnect /\ it < Len(nd.vRecvMsg) /\ nd.nSendSize < SendBuffer
      /\ handler' = [handler EXCEPT !.it = it + 1]
  BY DEF ProcessMessage, HasNext
<1>2. /\ n \in Node /\ n \in handler.copy /\ it \in Nat /\ nd \in CNode /\ nd.at # "none"
      /\ InOrder(nd, it) /\ \A m \in Node \ {n} : It(m) = 0
  BY <1>1, AtNode DEF It, Handling
<1>3. PICK r \in {h, a, d, c} : node' = [node EXCEPT ![n] = r]
  BY DEF ProcessMessage
<1>4. /\ h \in CNode /\ SameLife(h, nd) /\ InOrder(h, it + 1)
      /\ a \in CNode /\ SameLife(a, nd) /\ InOrder(a, it + 1) /\ a.handled = h.handled
      /\ h.handled = nd.handled + 1 /\ it + 1 \in 0 .. MaxMsg
  <2> HIDE DEF n
  <2> QED BY <1>1, <1>2, HandleKeeps
<1>5. r \in CNode /\ SameLife(r, nd) /\ InOrder(r, it + 1) /\ r.handled = nd.handled + 1
  <2>1. d \in CNode /\ SameLife(d, h) /\ d.fDisconnect /\ d.handled = h.handled
    <3> HIDE DEF h
    <3> QED BY <1>4, DisconnectKeeps
  <2>2. c \in CNode /\ SameLife(c, h) /\ c.fDisconnect /\ c.handled = h.handled
    <3> HIDE DEF h
    <3> QED BY <1>4, CloseKeeps
  <2>3. SameLife(d, nd) /\ SameLife(c, nd)
    <3> HIDE DEF h, d, c
    <3> QED BY <1>4, <2>1, <2>2 DEF SameLife
  <2>4. InOrder(d, it + 1) /\ InOrder(c, it + 1)
    <3> HIDE DEF h, d, c
    <3> QED BY <2>1, <2>2 DEF InOrder
  <2> HIDE DEF h, a, d, c
  <2> QED BY <1>4, <2>1, <2>2, <2>3, <2>4
<1> HIDE DEF h, a, d, c
<1>6. /\ handler' \in HandlerThread /\ handler'.copy = handler.copy /\ handler'.todo = handler.todo
      /\ handler'.pc = "receive" /\ handler'.node = n /\ handler'.it = it + 1
  BY <1>1, <1>4 DEF Inv, TypeOK, HandlerThread
<1>7. It(n)' = it + 1 /\ \A m \in Node \ {n} : It(m)' = It(m)
  BY <1>2, <1>6 DEF It, Handling
<1>8. InOrder(r, It(n)')
  BY <1>5, <1>7
<1> QED BY <1>1, <1>2, <1>3, <1>5, <1>6, <1>7, <1>8, OneNodeTraffic DEF Inv, TypeOK

\* ProcessMessages returns: what it has handled is erased, or the buffer was wiped.
LEMMA EndReceiveKeeps == Inv /\ (EndReceive \/ BadStart) => Inv' /\ NextHandled
<1> SUFFICES ASSUME Inv, EndReceive \/ BadStart PROVE Inv' /\ NextHandled
  OBVIOUS
<1> DEFINE n == handler.node
           nd == node[n]
           it == handler.it
<1>1. /\ UNCHANGED <<socket, opener, semOutbound>> /\ handler.pc = "receive"
      /\ handler' = [handler EXCEPT !.pc = "send", !.it = 0]
  BY DEF EndReceive, BadStart, HasNext
<1>2. /\ n \in Node /\ n \in handler.copy /\ it \in Nat /\ nd \in CNode /\ nd.at # "none"
      /\ InOrder(nd, it) /\ \A m \in Node \ {n} : It(m) = 0
  BY <1>1, AtNode DEF It, Handling
<1>3. 0 \in 0 .. MaxMsg
  BY PeersAssumption
<1>4. /\ handler' \in HandlerThread /\ handler'.copy = handler.copy /\ handler'.todo = handler.todo
      /\ handler'.pc = "send" /\ handler'.node = n
  BY <1>1, <1>3 DEF Inv, TypeOK, HandlerThread
<1>5. It(n)' = 0 /\ \A m \in Node \ {n} : It(m)' = It(m)
  BY <1>2, <1>4 DEF It, Handling
<1>6. ASSUME NEW k \in Nat PROVE Erase(nd, k) \in CNode /\ SameLife(Erase(nd, k), nd)
                                 /\ Erase(nd, k).handled = nd.handled
  <2>1. CASE nd.fDisconnect
    BY <1>2, <2>1 DEF Erase, SameLife
  <2>2. CASE ~nd.fDisconnect
    <3>1. SubSeq(nd.vRecvMsg, k + 1, Len(nd.vRecvMsg)) \in Seq(Nat)
      BY SMTT(30), <1>2 DEF CNode
    <3>2. Erase(nd, k) = [nd EXCEPT !.vRecvMsg = SubSeq(nd.vRecvMsg, k + 1, Len(nd.vRecvMsg))]
      BY <2>2 DEF Erase
    <3> QED BY <1>2, <3>1, <3>2 DEF CNode, SameLife
  <2> QED BY <2>1, <2>2
<1>7. CASE EndReceive
  <2> DEFINE r == Erase(nd, it)
  <2>1. node' = [node EXCEPT ![n] = r]
    BY <1>7 DEF EndReceive
  <2>2. r \in CNode /\ SameLife(r, nd) /\ r.handled = nd.handled
    BY <1>2, <1>6
  <2>3. InOrder(r, 0)
    <3>1. CASE nd.fDisconnect
      BY <3>1 DEF Erase, InOrder
    <3>2. CASE ~nd.fDisconnect
      <4>1. it <= Len(nd.vRecvMsg)
        <5>1. nd.got \in Nat /\ nd.handled \in Nat
          BY <1>2 DEF CNode
        <5>2. nd.handled <= nd.got /\ Len(nd.vRecvMsg) = nd.got - nd.handled + it
          BY <1>2, <3>2 DEF InOrder
        <5> QED BY <1>2, <5>1, <5>2
      <4> HIDE DEF n
      <4> QED BY <1>2, <4>1, EraseKeeps
    <3> QED BY <3>1, <3>2
  <2> HIDE DEF r
  <2>4. InOrder(r, It(n)')
    BY <1>5, <2>3
  <2> QED BY <1>1, <1>2, <1>4, <1>5, <2>1, <2>2, <2>4, OneNodeTraffic DEF Inv, TypeOK
<1>8. CASE BadStart
  <2> DEFINE e == Erase(nd, it + 1)
             r == CloseSocketDisconnect(e, TRUE)
  <2>1. node' = [node EXCEPT ![n] = r]
    BY <1>8 DEF BadStart
  <2>2. e \in CNode /\ SameLife(e, nd) /\ e.handled = nd.handled
    BY <1>2, <1>6
  <2>3. r \in CNode /\ SameLife(r, e) /\ r.fDisconnect /\ r.handled = e.handled
    <3> HIDE DEF e
    <3> QED BY <2>2, CloseKeeps
  <2> HIDE DEF e, r
  <2>4. SameLife(r, nd) /\ r.handled = nd.handled
    BY <2>2, <2>3 DEF SameLife
  <2>5. InOrder(r, It(n)')
    BY <2>3 DEF InOrder
  <2> QED BY <1>1, <1>2, <1>4, <1>5, <2>1, <2>3, <2>4, <2>5, OneNodeTraffic DEF Inv, TypeOK
<1> QED BY <1>7, <1>8

\* SendMessages writes, or loses the connection.
LEMMA SendMessagesKeeps == Inv /\ SendMessages => Inv' /\ NextHandled
<1> SUFFICES ASSUME Inv, SendMessages PROVE Inv' /\ NextHandled
  OBVIOUS
<1>0. PICK n : n = handler.node
  OBVIOUS
<1> DEFINE nd == node[n]
           w == [nd EXCEPT !.nSendSize = @ + 1]
           c == CloseSocketDisconnect(nd, TRUE)
<1>1. /\ UNCHANGED <<socket, opener, semOutbound>> /\ handler.pc = "send"
      /\ handler' = [handler EXCEPT !.pc = "poll", !.node = None]
  BY DEF SendMessages
<1>2. n \in Node /\ nd \in CNode /\ nd.at # "none" /\ InOrder(nd, 0) /\ \A m \in Node : It(m) = 0
  BY <1>0, <1>1, AtNode DEF It, Handling
<1>3. /\ handler' \in HandlerThread /\ handler'.copy = handler.copy /\ handler'.todo = handler.todo
      /\ handler'.pc = "poll"
  BY <1>1 DEF Inv, TypeOK, HandlerThread
<1>4. \A m \in Node : It(m)' = 0
  BY <1>3 DEF It, Handling
<1>5. CASE UNCHANGED node
  BY <1>1, <1>2, <1>3, <1>4, <1>5, NoNodeTraffic DEF Inv, TypeOK
<1>6. ASSUME NEW r \in CNode, SameLife(r, nd), r.handled = nd.handled, InOrder(r, 0),
             node' = [node EXCEPT ![n] = r]
      PROVE  Inv' /\ NextHandled
  <2>1. InOrder(r, It(n)')
    BY <1>2, <1>4, <1>6
  <2> QED BY <1>1, <1>2, <1>3, <1>4, <1>6, <2>1, OneNodeTraffic DEF Inv, TypeOK
<1>7. CASE node' = [node EXCEPT ![n] = c]
  <2>1. c \in CNode /\ SameLife(c, nd) /\ c.fDisconnect /\ c.handled = nd.handled
    BY <1>2, CloseKeeps
  <2>2. InOrder(c, 0)
    BY <2>1 DEF InOrder
  <2> QED BY <1>6, <1>7, <2>1, <2>2
<1>8. CASE nd.nSendSize < SendBuffer /\ node' = [node EXCEPT ![n].nSendSize = @ + 1]
  <2>1. nd.nSendSize + 1 \in 0 .. SendBuffer
    BY <1>2, <1>8, PeersAssumption DEF CNode
  <2>2. w \in CNode /\ SameLife(w, nd) /\ w.handled = nd.handled /\ InOrder(w, 0)
    <3>1. w = [nd EXCEPT !.nSendSize = nd.nSendSize + 1]
      OBVIOUS
    <3>2. /\ w \in CNode /\ SameLife(w, nd) /\ w.handled = nd.handled /\ w.vRecvMsg = nd.vRecvMsg
          /\ w.got = nd.got /\ w.fDisconnect = nd.fDisconnect
      BY <1>2, <2>1 DEF CNode, SameLife
    <3> HIDE DEF w
    <3> QED BY <1>2, <3>2 DEF InOrder
  <2>3. node' = [node EXCEPT ![n] = w]
    BY <1>8
  <2> QED BY <1>6, <2>2, <2>3
<1> QED BY <1>0, <1>5, <1>7, <1>8 DEF SendMessages

-----------------------------------------------------------------------------
(* Connecting, counting and disconnecting: steps that leave messages alone. *)

SameMessages(r, nd) ==
    /\ r.handled = nd.handled
    /\ ~r.fDisconnect => /\ ~nd.fDisconnect
                         /\ r.got = nd.got /\ r.vRecvMsg = nd.vRecvMsg

\* AddRef, Release and the rest of a node's life do not touch its messages.
LEMMA LifeKeepsOrder ==
  ASSUME Inv, \A n \in Node : SameMessages(node'[n], node[n]), \A n \in Node : It(n)' = It(n)
  PROVE  Ordered' /\ NextHandled
<1>1. ASSUME NEW n \in Node PROVE InOrder(node'[n], It(n)')
  <2>1. InOrder(node[n], It(n)) /\ SameMessages(node'[n], node[n]) /\ It(n)' = It(n)
    BY <1>1 DEF Inv, Ordered
  <2> QED BY <2>1 DEF InOrder, SameMessages
<1>2. Ordered'
  BY <1>1 DEF Ordered, InOrder
<1> QED BY <1>2 DEF NextHandled, SameMessages

\* What Removed leaves of a node (Close, then the grant, then the first reference).
LEMMA RemovedIs ==
  ASSUME NEW nd \in CNode, NEW b \in BOOLEAN
  PROVE  LET r == Removed(nd, b)
         IN  /\ r \in CNode /\ r.fDisconnect /\ r.handled = nd.handled
             /\ r.at = "vNodesDisconnected" /\ ~r.grant /\ r.shared = nd.shared
             /\ r.fInbound = nd.fInbound /\ r.fNetworkNode = nd.fNetworkNode
             /\ r.kept <=> ~(nd.fNetworkNode \/ nd.fInbound)
             /\ r.nRefCount = nd.nRefCount - (IF r.kept THEN 0 ELSE 1)
<1> DEFINE kept == ~(nd.fNetworkNode \/ nd.fInbound)
           c == CloseSocketDisconnect(nd, b)
           closed == [c EXCEPT !.at = "vNodesDisconnected", !.grant = FALSE, !.kept = kept]
           r == Removed(nd, b)
<1>1. c \in CNode /\ SameLife(c, nd) /\ c.fDisconnect /\ c.handled = nd.handled
  BY CloseKeeps
<1>2. r = IF kept THEN closed ELSE Release(closed)
  BY DEF Removed
<1> HIDE DEF c
<1>3. kept \in BOOLEAN
  OBVIOUS
<1> HIDE DEF kept
<1>4. /\ closed \in CNode /\ closed.fDisconnect /\ closed.handled = nd.handled
      /\ closed.at = "vNodesDisconnected" /\ closed.grant = FALSE /\ closed.shared = nd.shared
      /\ closed.fInbound = nd.fInbound /\ closed.fNetworkNode = nd.fNetworkNode
      /\ closed.kept = kept /\ closed.nRefCount = nd.nRefCount
  BY <1>1, <1>3 DEF CNode, SameLife
<1>5. nd.nRefCount \in Int
  BY DEF CNode
<1> HIDE DEF closed, r
<1>6. /\ r \in CNode /\ r.fDisconnect /\ r.handled = nd.handled
      /\ r.at = "vNodesDisconnected" /\ r.grant = FALSE /\ r.shared = nd.shared
      /\ r.fInbound = nd.fInbound /\ r.fNetworkNode = nd.fNetworkNode
      /\ r.kept = kept /\ r.nRefCount = nd.nRefCount - (IF kept THEN 0 ELSE 1)
  <2>1. CASE kept
    <3>1. r = closed
      BY <1>2, <2>1
    <3>2. nd.nRefCount - (IF kept THEN 0 ELSE 1) = nd.nRefCount
      BY <1>5, <2>1
    <3> QED BY <1>4, <3>1, <3>2, Zenon
  <2>2. CASE ~kept
    <3>1. r = [closed EXCEPT !.nRefCount = nd.nRefCount - 1] /\ nd.nRefCount - 1 \in Int
      BY <1>2, <1>4, <1>5, <2>2 DEF Release
    <3>2. /\ r \in CNode /\ r.fDisconnect = closed.fDisconnect /\ r.handled = closed.handled
          /\ r.at = closed.at /\ r.grant = closed.grant /\ r.shared = closed.shared
          /\ r.fInbound = closed.fInbound /\ r.fNetworkNode = closed.fNetworkNode
          /\ r.kept = closed.kept /\ r.nRefCount = nd.nRefCount - 1
      BY <1>4, <3>1 DEF CNode
    <3> QED BY <1>4, <2>2, <3>2
  <2> QED BY <2>1, <2>2
<1> QED BY <1>6 DEF r, kept

\* What an opener may count on: a node it met stays one, and one it made stays fresh.
StillFresh(r, nd) ==
    /\ nd.shared => r.shared
    /\ nd.at # "none" => r.at # "none"
    /\ Fresh(nd) => Fresh(r) \/ r.shared

\* What openers point to goes on to be theirs while nodes are counted, disconnected
\* and deleted around them.
LEMMA PointersKept ==
  ASSUME Inv, UNCHANGED opener,
         \A n \in Node : StillFresh(node'[n], node[n])
  PROVE  Openers'
<1>1. \A o \in Opener : opener[o].node \in Node \cup {None}
  BY DEF Inv, TypeOK, OpenerThread
<1>2. ASSUME NEW o \in Opener PROVE Pointer(opener[o])'
  <2>1. Pointer(opener[o])
    BY <1>2 DEF Inv, Openers
  <2> QED BY <1>1, <1>2, <2>1 DEF Pointer, StillFresh
<1>3. ASSUME NEW o \in Opener, NEW q \in Opener, o # q, opener[o].node = opener[q].node,
             opener[o].node # None
      PROVE  node'[opener[o].node].shared
  BY <1>1, <1>3 DEF Inv, Openers, StillFresh
<1> QED BY <1>2, <1>3 DEF Openers

\* Posting the grants of the nodes of S gives back as many slots (CSemaphoreGrant::Release).
LEMMA PostKeeps ==
  ASSUME Inv, NEW S \in SUBSET Node, Post(S), UNCHANGED opener,
         \A n \in Node : node'[n].grant = (IF n \in S THEN FALSE ELSE node[n].grant)
  PROVE  /\ semOutbound' \in Int /\ IsFiniteSet(OpenerGrants') /\ IsFiniteSet(NodeGrants')
         /\ semOutbound' + Cardinality(OpenerGrants') + Cardinality(NodeGrants') = MaxOutbound
<1> DEFINE G == NodeGrants
<1>1. IsFiniteSet(G) /\ IsFiniteSet(OpenerGrants) /\ semOutbound \in Int
      /\ semOutbound + Cardinality(OpenerGrants) + Cardinality(G) = MaxOutbound
  BY DEF Inv, TypeOK, Slots
<1>2. OpenerGrants' = OpenerGrants /\ NodeGrants' = G \ S
  BY DEF OpenerGrants, NodeGrants
<1>3. semOutbound' = semOutbound + Cardinality(G \cap S)
  <2>1. {n \in S : node[n].grant} = G \cap S
    BY DEF NodeGrants
  <2> QED BY <2>1 DEF Post
<1> HIDE DEF G
<1>4. IsFiniteSet(G \ S) /\ Cardinality(G \ S) = Cardinality(G) - Cardinality(G \cap S)
  BY <1>1, FS_Difference
<1>5. IsFiniteSet(G \cap S)
  BY <1>1, FS_Intersection
<1>6. Cardinality(G) \in Nat /\ Cardinality(G \cap S) \in Nat /\ Cardinality(OpenerGrants) \in Nat
  BY <1>1, <1>5, FS_CardinalityType
<1> QED BY <1>1, <1>2, <1>3, <1>4, <1>6

\* "Disconnect unused nodes": the first reference goes with the node, or stays for good.
LEMMA DisconnectNodesKeeps == Inv /\ DisconnectNodes => Inv' /\ NextHandled
<1> SUFFICES ASSUME Inv, DisconnectNodes PROVE Inv' /\ NextHandled
  OBVIOUS
<1> DEFINE out == {n \in vNodes : node[n].fDisconnect \/ Unused(node[n])}
<1>1. /\ UNCHANGED <<handler, opener>> /\ socket.pc = "disconnect"
      /\ socket' = [socket EXCEPT !.pc = "delete"] /\ Post(out)
      /\ node' = [n \in Node |-> IF n \in out THEN Removed(node[n], ~Handling(n)) ELSE node[n]]
  BY DEF DisconnectNodes
<1>2. out \subseteq Node /\ \A n \in out : node[n].at = "vNodes"
  BY DEF vNodes
<1> HIDE DEF out
<1>3. \A n \in Node : node[n] \in CNode
  BY DEF Inv, TypeOK
<1>4. ASSUME NEW n \in out
      PROVE  /\ node'[n] \in CNode /\ node'[n].fDisconnect /\ node'[n].handled = node[n].handled
             /\ node'[n].at = "vNodesDisconnected" /\ ~node'[n].grant
             /\ node'[n].shared = node[n].shared
             /\ node'[n].fInbound = node[n].fInbound /\ node'[n].fNetworkNode = node[n].fNetworkNode
             /\ node'[n].kept <=> ~(node[n].fNetworkNode \/ node[n].fInbound)
             /\ node'[n].nRefCount = node[n].nRefCount - (IF node'[n].kept THEN 0 ELSE 1)
  <2>1. PICK b \in BOOLEAN : node'[n] = Removed(node[n], b)
    BY <1>1, <1>2
  <2>2. node[n] \in CNode
    BY <1>2, <1>3
  <2> QED BY <2>1, <2>2, RemovedIs
<1>5. \A n \in Node \ out : node'[n] = node[n]
  BY <1>1
<1>6. /\ socket' \in SocketThread /\ socket'.copy = socket.copy /\ socket'.todo = socket.todo
      /\ socket.copy = {} /\ socket.todo = {}
  BY <1>1 DEF Inv, TypeOK, Copies, SocketThread
<1>7. node' \in [Node -> CNode]
  <2>1. \A n \in Node : node'[n] \in CNode
    BY <1>3, <1>4, <1>5
  <2> QED BY <1>1, <2>1
<1>8. /\ semOutbound' \in Int /\ IsFiniteSet(OpenerGrants') /\ IsFiniteSet(NodeGrants')
      /\ semOutbound' + Cardinality(OpenerGrants') + Cardinality(NodeGrants') = MaxOutbound
  <2>1. \A n \in Node : node'[n].grant = (IF n \in out THEN FALSE ELSE node[n].grant)
    <3> TAKE n \in Node
    <3>1. CASE n \in out
      <4>1. node'[n].grant \in BOOLEAN /\ ~node'[n].grant
        BY <1>4, <3>1 DEF CNode
      <4> QED BY <3>1, <4>1
    <3>2. CASE n \notin out
      BY <1>5, <3>2
    <3> QED BY <3>1, <3>2
  <2> QED BY <1>1, <1>2, <2>1, PostKeeps
<1>9. TypeOK'
  BY <1>1, <1>6, <1>7, <1>8 DEF Inv, TypeOK
<1>10. Unallocated'
  BY <1>4, <1>5 DEF Inv, Unallocated
<1>11. Copies'
  <2>1. handler.copy \subseteq Node
    BY DEF Inv, TypeOK, HandlerThread
  <2> QED BY <1>1, <1>4, <1>5, <1>6, <2>1 DEF Inv, Copies
<1>12. Counted'
  <2> SUFFICES ASSUME NEW n \in Node, ~node'[n].shared
               PROVE  /\ node'[n].at \in {"vNodes", "vNodesDisconnected"} => node'[n].nRefCount = Refs(n)'
                      /\ node'[n].at = "deleted" => n \notin socket'.copy /\ n \notin handler'.copy
    BY DEF Counted
  <2>1. CASE n \in out
    <3>1. node[n].nRefCount = Refs(n) /\ node'[n].at = "vNodesDisconnected"
      BY <1>2, <1>4, <2>1 DEF Inv, Counted
    <3>2. Refs(n) = (IF n \in handler.copy THEN 1 ELSE 0) + 1
      BY <1>2, <1>6, <2>1 DEF Refs
    <3>3. Refs(n)' = (IF n \in handler.copy THEN 1 ELSE 0) + (IF node'[n].kept THEN 1 ELSE 0)
      BY <1>1, <1>6, <3>1 DEF Refs
    <3>4. node'[n].nRefCount = node[n].nRefCount - (IF node'[n].kept THEN 0 ELSE 1)
      BY <1>4, <2>1
    <3> QED BY <3>1, <3>2, <3>3, <3>4
  <2>2. CASE n \notin out
    <3>1. node'[n] = node[n] /\ Refs(n)' = Refs(n)
      BY <1>1, <1>5, <1>6, <2>2 DEF Refs
    <3> QED BY <1>1, <1>6, <3>1 DEF Inv, Counted
  <2> QED BY <2>1, <2>2
<1>13. Openers'
  <2>1. \A n \in Node : StillFresh(node'[n], node[n])
    BY <1>4, <1>5 DEF StillFresh, Fresh
  <2> QED BY <1>1, <2>1, PointersKept
<1>14. Slots'
  <2>1. ASSUME NEW n \in Node, node'[n].at = "vNodesDisconnected", node'[n].grant
        PROVE  node'[n].kept \/ node'[n].shared
    BY <1>4, <1>5, <2>1 DEF Inv, Slots
  <2> QED BY <1>8, <2>1, Zenon DEF Slots
<1>15. Ordered' /\ NextHandled
  <2>1. \A n \in Node : SameMessages(node'[n], node[n])
    BY <1>4, <1>5 DEF SameMessages
  <2>2. \A n \in Node : It(n)' = It(n)
    BY <1>1 DEF It, Handling
  <2> QED BY <2>1, <2>2, LifeKeepsOrder
<1> QED BY <1>9, <1>10, <1>11, <1>12, <1>13, <1>14, <1>15 DEF Inv

\* "wait until threads are done using it": a count of zero means that no thread has
\* it, not even the opener that made it.
LEMMA DeleteNodesKeeps == Inv /\ DeleteNodes => Inv' /\ NextHandled
<1> SUFFICES ASSUME Inv, DeleteNodes PROVE Inv' /\ NextHandled
  OBVIOUS
<1> DEFINE out == {n \in vNodesDisconnected : Deletable(n)}
<1>1. /\ UNCHANGED <<handler, opener>> /\ socket.pc = "delete"
      /\ socket' = [socket EXCEPT !.pc = "poll"] /\ Post(out)
      /\ node' = [n \in Node |-> IF n \in out THEN [node[n] EXCEPT !.at = "deleted", !.grant = FALSE]
                                              ELSE node[n]]
  BY DEF DeleteNodes
<1>2. out \subseteq Node /\ \A n \in out : node[n].at = "vNodesDisconnected" /\ node[n].nRefCount <= 0
  BY DEF vNodesDisconnected, Deletable
<1> HIDE DEF out
<1>3. \A n \in Node : node[n] \in CNode
  BY DEF Inv, TypeOK
<1>4. ASSUME NEW n \in out
      PROVE  /\ node'[n] \in CNode /\ node'[n].at = "deleted" /\ node'[n].grant = FALSE
             /\ node'[n].shared = node[n].shared /\ SameMessages(node'[n], node[n])
  <2>1. node'[n] = [node[n] EXCEPT !.at = "deleted", !.grant = FALSE] /\ node[n] \in CNode
    BY <1>1, <1>2, <1>3
  <2> QED BY <2>1 DEF CNode, SameMessages
<1>5. \A n \in Node \ out : node'[n] = node[n]
  BY <1>1
<1>6. /\ socket' \in SocketThread /\ socket'.copy = socket.copy /\ socket'.todo = socket.todo
      /\ socket.copy = {} /\ socket.todo = {}
  BY <1>1 DEF Inv, TypeOK, Copies, SocketThread
<1>7. ASSUME NEW n \in out, ~node[n].shared PROVE n \notin handler.copy /\ ~node[n].kept
  <2>1. node[n].nRefCount = Refs(n) /\ node[n].at # "vNodes" /\ node[n].nRefCount <= 0
    BY <1>2, <1>7 DEF Inv, Counted
  <2> QED BY <1>6, <2>1 DEF Refs
<1>8. node' \in [Node -> CNode]
  <2>1. \A n \in Node : node'[n] \in CNode
    BY <1>3, <1>4, <1>5
  <2> QED BY <1>1, <2>1
<1>9. /\ semOutbound' \in Int /\ IsFiniteSet(OpenerGrants') /\ IsFiniteSet(NodeGrants')
      /\ semOutbound' + Cardinality(OpenerGrants') + Cardinality(NodeGrants') = MaxOutbound
  <2>1. \A n \in Node : node'[n].grant = (IF n \in out THEN FALSE ELSE node[n].grant)
    BY <1>4, <1>5
  <2> QED BY <1>1, <1>2, <2>1, PostKeeps
<1>10. TypeOK'
  BY <1>1, <1>6, <1>8, <1>9 DEF Inv, TypeOK
<1>11. Unallocated'
  BY <1>4, <1>5 DEF Inv, Unallocated
<1>12. Copies'
  <2>1. handler.copy \subseteq Node
    BY DEF Inv, TypeOK, HandlerThread
  <2> QED BY <1>1, <1>4, <1>5, <1>6, <2>1 DEF Inv, Copies
<1>13. Counted'
  <2> SUFFICES ASSUME NEW n \in Node, ~node'[n].shared
               PROVE  /\ node'[n].at \in {"vNodes", "vNodesDisconnected"} => node'[n].nRefCount = Refs(n)'
                      /\ node'[n].at = "deleted" => n \notin socket'.copy /\ n \notin handler'.copy
    BY DEF Counted
  <2>1. CASE n \in out
    BY <1>1, <1>4, <1>6, <1>7, <2>1
  <2>2. CASE n \notin out
    <3>1. node'[n] = node[n] /\ Refs(n)' = Refs(n)
      BY <1>1, <1>5, <1>6, <2>2 DEF Refs
    <3> QED BY <1>1, <1>6, <3>1 DEF Inv, Counted
  <2> QED BY <2>1, <2>2
<1>14. Openers'
  <2>1. ASSUME NEW n \in Node PROVE StillFresh(node'[n], node[n])
    <3>1. CASE n \in out
      BY <1>2, <1>4, <1>7, <3>1 DEF StillFresh, Fresh
    <3>2. CASE n \notin out
      BY <1>5, <3>2 DEF StillFresh
    <3> QED BY <3>1, <3>2
  <2> QED BY <1>1, <2>1, PointersKept
<1>15. Slots'
  <2>1. ASSUME NEW n \in Node, node'[n].at = "vNodesDisconnected", node'[n].grant
        PROVE  node'[n].kept \/ node'[n].shared
    BY <1>4, <1>5, <2>1 DEF Inv, Slots
  <2> QED BY <1>9, <2>1, Zenon DEF Slots
<1>16. Ordered' /\ NextHandled
  <2>1. \A n \in Node : SameMessages(node'[n], node[n])
    BY <1>4, <1>5 DEF SameMessages
  <2>2. \A n \in Node : It(n)' = It(n)
    BY <1>1 DEF It, Handling
  <2> QED BY <2>1, <2>2, LifeKeepsOrder
<1> QED BY <1>10, <1>11, <1>12, <1>13, <1>14, <1>15, <1>16 DEF Inv

\* The count goes up or down, and all else stays.
Recounted(r, nd, d) == r = [nd EXCEPT !.nRefCount = nd.nRefCount + d]

\* AddRef and Release concern the count alone.
LEMMA RecountedIs ==
  ASSUME NEW nd \in CNode, NEW d \in Int, NEW r, Recounted(r, nd, d)
  PROVE  /\ r \in CNode /\ SameMessages(r, nd) /\ StillFresh(r, nd) /\ r.nRefCount = nd.nRefCount + d
         /\ r.at = nd.at /\ r.kept = nd.kept /\ r.shared = nd.shared /\ r.grant = nd.grant
<1>1. nd.nRefCount + d \in Int
  BY DEF CNode
<1>2. /\ r \in CNode /\ r.at = nd.at /\ r.kept = nd.kept /\ r.shared = nd.shared /\ r.grant = nd.grant
      /\ r.handled = nd.handled /\ r.fDisconnect = nd.fDisconnect /\ r.got = nd.got
      /\ r.vRecvMsg = nd.vRecvMsg /\ r.fInbound = nd.fInbound /\ r.fNetworkNode = nd.fNetworkNode
      /\ r.nRefCount = nd.nRefCount + d
  BY <1>1 DEF Recounted, CNode
<1> QED BY <1>2 DEF SameMessages, StillFresh, Fresh

\* A thread takes its copy with one reference for each node of it, and gives it back
\* with them (AddRef and Release in the loops of both threads).
LEMMA RecountKeeps ==
  ASSUME Inv, UNCHANGED <<opener, semOutbound>>, socket' \in SocketThread, handler' \in HandlerThread,
         NEW S \in SUBSET Node, NEW d \in {-1, 1}, \A n \in S : node[n].at # "none",
         node' = [n \in Node |-> IF n \in S THEN [node[n] EXCEPT !.nRefCount = node[n].nRefCount + d]
                                            ELSE node[n]],
         \/ /\ UNCHANGED handler
            /\ d = 1 => socket.copy = {} /\ socket'.copy = S
            /\ d = -1 => socket.copy = S /\ socket'.copy = {}
         \/ /\ UNCHANGED socket
            /\ d = 1 => handler.copy = {} /\ handler'.copy = S
            /\ d = -1 => handler.copy = S /\ handler'.copy = {},
         d = 1 => \A n \in S : node[n].at = "vNodes",
         \A n \in Node : It(n)' = It(n)
  PROVE  TypeOK' /\ Unallocated' /\ Counted' /\ Openers' /\ Slots' /\ Ordered' /\ NextHandled
         /\ \A n \in Node : node'[n].at = node[n].at
<1>1. \A n \in Node : node[n] \in CNode
  BY DEF Inv, TypeOK
<1>2. \A n \in Node : Recounted(node'[n], node[n], IF n \in S THEN d ELSE 0)
  <2> TAKE n \in Node
  <2>1. CASE n \in S
    BY <2>1 DEF Recounted
  <2>2. CASE n \notin S
    <3>1. node[n] = [node[n] EXCEPT !.nRefCount = node[n].nRefCount + 0]
      BY <1>1 DEF CNode
    <3> QED BY <2>2, <3>1 DEF Recounted
  <2> QED BY <2>1, <2>2
<1>3. \A n \in Node :
        /\ node'[n] \in CNode /\ SameMessages(node'[n], node[n]) /\ StillFresh(node'[n], node[n])
        /\ node'[n].nRefCount = node[n].nRefCount + (IF n \in S THEN d ELSE 0)
        /\ node'[n].at = node[n].at /\ node'[n].kept = node[n].kept /\ node'[n].shared = node[n].shared
        /\ node'[n].grant = node[n].grant
  <2>1. \A n \in Node : (IF n \in S THEN d ELSE 0) \in Int
    OBVIOUS
  <2> QED BY <1>1, <1>2, <2>1, RecountedIs
<1>4. TypeOK'
  <2>1. node' \in [Node -> CNode]
    BY <1>3
  <2> QED BY <2>1 DEF Inv, TypeOK
<1>5. Unallocated'
  BY <1>3 DEF Inv, Unallocated
<1>6. Counted'
  <2> SUFFICES ASSUME NEW n \in Node, ~node'[n].shared
               PROVE  /\ node'[n].at \in {"vNodes", "vNodesDisconnected"} => node'[n].nRefCount = Refs(n)'
                      /\ node'[n].at = "deleted" => n \notin socket'.copy /\ n \notin handler'.copy
    BY DEF Counted
  <2>1. Refs(n)' = Refs(n) + (IF n \in S THEN d ELSE 0)
    BY <1>3 DEF Refs
  <2>2. node[n].at \in {"vNodes", "vNodesDisconnected"} => node[n].nRefCount = Refs(n)
    BY <1>3 DEF Inv, Counted
  <2>3. node[n].at = "deleted" => n \notin socket.copy /\ n \notin handler.copy
    BY <1>3 DEF Inv, Counted
  <2> QED BY ZenonT(60), <1>3, <2>1, <2>2, <2>3
<1>7. Openers'
  BY <1>3, PointersKept
<1>8. Slots'
  <2>1. OpenerGrants' = OpenerGrants /\ NodeGrants' = NodeGrants
    BY <1>3 DEF OpenerGrants, NodeGrants
  <2> QED BY <1>3, <2>1 DEF Inv, Slots
<1>9. Ordered' /\ NextHandled
  BY <1>3, LifeKeepsOrder
<1> QED BY <1>3, <1>4, <1>5, <1>6, <1>7, <1>8, <1>9

\* ThreadSocketHandler takes its copy of vNodes, and gives it back.
LEMMA ServiceCopyKeeps == Inv /\ (StartService \/ EndService) => Inv' /\ NextHandled
<1> SUFFICES ASSUME Inv, StartService \/ EndService PROVE Inv' /\ NextHandled
  OBVIOUS
<1>1. UNCHANGED <<handler, opener, semOutbound>> /\ handler \in HandlerThread /\ socket \in SocketThread
      /\ \A n \in Node : node[n] \in CNode
  BY DEF StartService, EndService, Inv, TypeOK
<1>2. \A n \in Node : It(n)' = It(n)
  BY <1>1 DEF It, Handling
<1>3. handler.copy \subseteq Node
  BY <1>1 DEF HandlerThread
<1>4. CASE StartService
  <2> DEFINE S == vNodes
  <2>1. S \subseteq Node /\ \A n \in S : node[n].at = "vNodes"
    BY DEF vNodes
  <2>2. socket.copy = {}
    BY <1>4 DEF StartService, Inv, Copies
  <2>3. /\ socket' \in SocketThread /\ socket'.copy = S /\ socket'.todo = S /\ socket'.pc = "service"
    BY <1>1, <1>4, <2>1 DEF StartService, SocketThread
  <2>4. node' = [n \in Node |-> IF n \in S THEN [node[n] EXCEPT !.nRefCount = node[n].nRefCount + 1]
                                          ELSE node[n]]
    BY <1>4 DEF StartService, WithRefs, AddRef
  <2> HIDE DEF S
  <2>5. TypeOK' /\ Unallocated' /\ Counted' /\ Openers' /\ Slots' /\ Ordered' /\ NextHandled
        /\ \A n \in Node : node'[n].at = node[n].at
    BY <1>1, <1>2, <2>1, <2>2, <2>3, <2>4, RecountKeeps
  <2>6. Copies'
    BY <1>1, <1>3, <2>1, <2>3, <2>5 DEF Inv, Copies
  <2> QED BY <2>5, <2>6 DEF Inv
<1>5. CASE EndService
  <2> DEFINE S == socket.copy
  <2>1. S \subseteq Node /\ \A n \in S : node[n].at # "none"
    BY <1>1 DEF SocketThread, Inv, Copies
  <2>2. socket' \in SocketThread /\ socket'.copy = {} /\ socket'.todo = {}
    BY <1>1, <1>5 DEF EndService, SocketThread
  <2>3. node' = [n \in Node |-> IF n \in S THEN [node[n] EXCEPT !.nRefCount = node[n].nRefCount + (-1)]
                                          ELSE node[n]]
    <3>1. \A n \in Node : node[n].nRefCount - 1 = node[n].nRefCount + (-1)
      BY <1>1 DEF CNode
    <3> QED BY <1>5, <3>1 DEF EndService, WithoutRefs, Release
  <2>4. TypeOK' /\ Unallocated' /\ Counted' /\ Openers' /\ Slots' /\ Ordered' /\ NextHandled
        /\ \A n \in Node : node'[n].at = node[n].at
    BY <1>1, <1>2, <2>1, <2>2, <2>3, RecountKeeps
  <2>5. Copies'
    BY <1>1, <1>3, <2>2, <2>4 DEF Inv, Copies
  <2> QED BY <2>4, <2>5 DEF Inv
<1> QED BY <1>4, <1>5

\* ThreadMessageHandler does the same.
LEMMA HandlerCopyKeeps == Inv /\ (StartHandler \/ EndHandler) => Inv' /\ NextHandled
<1> SUFFICES ASSUME Inv, StartHandler \/ EndHandler PROVE Inv' /\ NextHandled
  OBVIOUS
<1>1. UNCHANGED <<socket, opener, semOutbound>> /\ handler \in HandlerThread /\ socket \in SocketThread
      /\ \A n \in Node : node[n] \in CNode
  BY DEF StartHandler, EndHandler, Inv, TypeOK
<1>2. socket.copy \subseteq Node
  BY <1>1 DEF SocketThread
<1>3. CASE StartHandler
  <2> DEFINE S == vNodes
  <2>1. S \subseteq Node /\ \A n \in S : node[n].at = "vNodes"
    BY DEF vNodes
  <2>2. handler.copy = {} /\ handler.pc = "start"
    BY <1>3 DEF StartHandler, Inv, Copies
  <2>3. /\ handler' \in HandlerThread /\ handler'.copy = S /\ handler'.todo = S /\ handler'.pc = "poll"
    BY <1>1, <1>3, <2>1 DEF StartHandler, HandlerThread
  <2>4. node' = [n \in Node |-> IF n \in S THEN [node[n] EXCEPT !.nRefCount = node[n].nRefCount + 1]
                                          ELSE node[n]]
    BY <1>3 DEF StartHandler, WithRefs, AddRef
  <2>5. \A n \in Node : It(n)' = It(n)
    BY <2>2, <2>3 DEF It, Handling
  <2> HIDE DEF S
  <2>6. TypeOK' /\ Unallocated' /\ Counted' /\ Openers' /\ Slots' /\ Ordered' /\ NextHandled
        /\ \A n \in Node : node'[n].at = node[n].at
    BY <1>1, <2>1, <2>2, <2>3, <2>4, <2>5, RecountKeeps
  <2>7. Copies'
    BY <1>1, <1>2, <2>1, <2>3, <2>6 DEF Inv, Copies
  <2> QED BY <2>6, <2>7 DEF Inv
<1>4. CASE EndHandler
  <2>0. PICK S : S = handler.copy
    OBVIOUS
  <2>1. S \subseteq Node /\ \A n \in S : node[n].at # "none"
    BY <1>1, <2>0 DEF HandlerThread, Inv, Copies
  <2>2. /\ handler' \in HandlerThread /\ handler'.copy = {} /\ handler'.todo = {} /\ handler'.pc = "start"
        /\ handler.pc = "poll"
    BY <1>1, <1>4 DEF EndHandler, HandlerThread
  <2>3. node' = [n \in Node |-> IF n \in S THEN [node[n] EXCEPT !.nRefCount = node[n].nRefCount + (-1)]
                                          ELSE node[n]]
    <3>1. \A n \in Node : node[n].nRefCount - 1 = node[n].nRefCount + (-1)
      BY <1>1 DEF CNode
    <3> QED BY <1>4, <2>0, <3>1 DEF EndHandler, WithoutRefs, Release
  <2>4. \A n \in Node : It(n)' = It(n)
    BY <2>2 DEF It, Handling
  <2>5. TypeOK' /\ Unallocated' /\ Counted' /\ Openers' /\ Slots' /\ Ordered' /\ NextHandled
        /\ \A n \in Node : node'[n].at = node[n].at
    <3>1. PICK d : d = -1
      OBVIOUS
    <3>2. d \in {-1, 1} /\ d # 1 /\ S \in SUBSET Node /\ socket' \in SocketThread
      BY <1>1, <2>1, <3>1
    <3>3. node' = [n \in Node |-> IF n \in S THEN [node[n] EXCEPT !.nRefCount = node[n].nRefCount + d]
                                            ELSE node[n]]
      BY <2>3, <3>1
    <3>4. /\ UNCHANGED socket
          /\ d = 1 => handler.copy = {} /\ handler'.copy = S
          /\ d = -1 => handler.copy = S /\ handler'.copy = {}
      BY <1>1, <2>0, <2>2, <3>2
    <3> QED BY <1>1, <2>1, <2>2, <2>4, <3>2, <3>3, <3>4, RecountKeeps
  <2>6. Copies'
    BY <1>1, <1>2, <2>2, <2>5 DEF Inv, Copies
  <2> QED BY <2>5, <2>6 DEF Inv
<1> QED BY <1>3, <1>4

\* A new CNode (accept() and ConnectNode): nobody has it yet.
LEMMA AllocateKeeps ==
  ASSUME Inv, CanAllocate, NEW a \in Addr \cup {None}, NEW b \in BOOLEAN,
         node' = [node EXCEPT ![NextNode] = Connected(a, b)],
         UNCHANGED handler, socket'.copy = socket.copy
  PROVE  /\ NextNode \in Node /\ node'[NextNode] = Connected(a, b)
         /\ node' \in [Node -> CNode] /\ Unallocated' /\ Counted' /\ Ordered' /\ NextHandled
         /\ \A n \in Node : StillFresh(node'[n], node[n]) /\ node'[n].grant = node[n].grant
         /\ \A n \in Node : node[n].at = "vNodesDisconnected" \/ node'[n].at = "vNodesDisconnected"
                              => node'[n] = node[n]
         /\ \A o \in Opener : opener[o].node # NextNode
         /\ \A n \in socket.copy \cup handler.copy : node'[n].at # "none"
<1>1. PICK n \in Node : n = NextNode /\ node[n].at = "none"
  BY DEF CanAllocate, NextNode
<1>2. node \in [Node -> CNode] /\ node[n] = NewNode
  BY <1>1 DEF Inv, TypeOK, Unallocated
<1> DEFINE r == Connected(a, b)
<1>3. NewNode \in CNode
  BY <1>1, <1>2
<1>4. r \in CNode
  <2>1. PICK nd \in CNode : nd = NewNode
    BY <1>3
  <2>2. PICK k \in Int : k = 1
    OBVIOUS
  <2>3. r = [nd EXCEPT !.at = "vNodes", !.addr = a, !.fInbound = b, !.open = TRUE, !.nRefCount = k]
    BY <2>1, <2>2 DEF Connected
  <2> QED BY <2>3 DEF CNode
<1>5. /\ r.at = "vNodes" /\ r.nRefCount = 1 /\ r.kept = FALSE /\ r.grant = FALSE /\ r.shared = FALSE
      /\ SameMessages(r, NewNode) /\ StillFresh(r, NewNode) /\ NewNode.grant = FALSE
  BY DEF Connected, NewNode, SameMessages, StillFresh, Fresh
<1>6. node'[n] = r /\ \A m \in Node \ {n} : node'[m] = node[m]
  BY <1>1, <1>2
<1> HIDE DEF r
<1>7. node' \in [Node -> CNode]
  <2>1. node' = [node EXCEPT ![n] = r]
    BY <1>1 DEF r
  <2> QED BY <1>2, <1>4, <2>1
<1>8. Unallocated'
  BY <1>5, <1>6 DEF Inv, Unallocated
<1>9. n \notin socket.copy /\ n \notin handler.copy
  BY <1>1 DEF Inv, Copies
<1>10. Counted'
  <2> SUFFICES ASSUME NEW m \in Node, ~node'[m].shared
               PROVE  /\ node'[m].at \in {"vNodes", "vNodesDisconnected"} => node'[m].nRefCount = Refs(m)'
                      /\ node'[m].at = "deleted" => m \notin socket'.copy /\ m \notin handler'.copy
    BY DEF Counted
  <2>1. CASE m = n
    BY <1>5, <1>6, <1>9, <2>1 DEF Refs
  <2>2. CASE m # n
    <3>1. node'[m] = node[m] /\ Refs(m)' = Refs(m)
      BY <1>6, <2>2 DEF Refs
    <3> QED BY <3>1 DEF Inv, Counted
  <2> QED BY <2>1, <2>2
<1>11. \A m \in Node : StillFresh(node'[m], node[m]) /\ SameMessages(node'[m], node[m])
                        /\ node'[m].grant = node[m].grant
  <2> TAKE m \in Node
  <2>1. CASE m = n
    BY <1>2, <1>5, <1>6, <2>1
  <2>2. CASE m # n
    BY <1>6, <2>2 DEF StillFresh, SameMessages
  <2> QED BY <2>1, <2>2
<1>12. Ordered' /\ NextHandled
  <2>1. \A m \in Node : It(m)' = It(m)
    BY DEF It, Handling
  <2> QED BY <1>11, <2>1, LifeKeepsOrder
<1>13. \A o \in Opener : opener[o].node # n
  <2>1. n # None
    BY PeersAssumption
  <2> QED BY <1>1, <2>1 DEF Inv, Openers, Pointer
<1>14. \A m \in socket.copy \cup handler.copy : node'[m].at # "none"
  <2>1. socket.copy \subseteq Node /\ handler.copy \subseteq Node
    BY DEF Inv, TypeOK, SocketThread, HandlerThread
  <2> QED BY <1>6, <1>9, <2>1 DEF Inv, Copies
<1>15. \A m \in Node : node[m].at = "vNodesDisconnected" \/ node'[m].at = "vNodesDisconnected"
                           => node'[m] = node[m]
  BY <1>1, <1>5, <1>6
<1> QED BY <1>1, <1>6, <1>7, <1>8, <1>10, <1>11, <1>12, <1>13, <1>14, <1>15 DEF r

\* A connection comes in.
LEMMA AcceptKeeps == ASSUME Inv, NEW a \in Addr, Accept(a) PROVE Inv' /\ NextHandled
<1>1. /\ UNCHANGED <<handler, opener, semOutbound>> /\ socket' = [socket EXCEPT !.pc = "accepted"]
      /\ CanAllocate /\ node' = [node EXCEPT ![NextNode] = Connected(a, TRUE)] /\ socket.pc = "accept"
  BY DEF Accept
<1>2. socket' \in SocketThread /\ socket'.copy = socket.copy /\ socket'.todo = socket.todo
      /\ socket'.pc = "accepted"
  BY <1>1 DEF Inv, TypeOK, SocketThread
<1>3. /\ node' \in [Node -> CNode] /\ Unallocated' /\ Counted' /\ Ordered' /\ NextHandled
      /\ \A n \in Node : StillFresh(node'[n], node[n]) /\ node'[n].grant = node[n].grant
      /\ \A n \in Node : node[n].at = "vNodesDisconnected" \/ node'[n].at = "vNodesDisconnected"
                           => node'[n] = node[n]
      /\ \A n \in socket.copy \cup handler.copy : node'[n].at # "none"
  BY <1>1, <1>2, AllocateKeeps
<1>4. TypeOK'
  BY <1>1, <1>2, <1>3 DEF Inv, TypeOK
<1>5. Copies'
  BY <1>1, <1>2, <1>3 DEF Inv, Copies
<1>6. Openers'
  BY <1>1, <1>3, PointersKept
<1>7. Slots'
  <2>1. OpenerGrants' = OpenerGrants /\ NodeGrants' = NodeGrants
    BY <1>1, <1>3 DEF OpenerGrants, NodeGrants
  <2> QED BY <1>1, <1>3, <2>1 DEF Inv, Slots
<1> QED BY <1>3, <1>4, <1>5, <1>6, <1>7 DEF Inv

-----------------------------------------------------------------------------
(* OpenNetworkConnection.                                                  *)

\* What an opener may do to a node: mark it as met, and then even miscount it.
Touched(r, nd) ==
    /\ r \in CNode /\ SameMessages(r, nd) /\ r.at = nd.at /\ r.kept = nd.kept
    /\ nd.shared => r.shared
    /\ r.shared \/ r.nRefCount = nd.nRefCount
    /\ nd.at = "none" => r = nd

\* That leaves the threads and their references as they are (OpenNetworkConnection
\* outside cs_vNodes).
LEMMA TouchedKeeps ==
  ASSUME Inv, UNCHANGED <<socket, handler>>, node' \in [Node -> CNode],
         \A n \in Node : Touched(node'[n], node[n])
  PROVE  Unallocated' /\ Copies' /\ Counted' /\ Ordered' /\ NextHandled
<1>1. Unallocated'
  BY DEF Inv, Unallocated, Touched
<1>2. Copies'
  <2>1. socket.copy \subseteq Node /\ handler.copy \subseteq Node
    BY DEF Inv, TypeOK, SocketThread, HandlerThread
  <2> QED BY <2>1 DEF Inv, Copies, Touched
<1>3. Counted'
  <2> SUFFICES ASSUME NEW n \in Node, ~node'[n].shared
               PROVE  /\ node'[n].at \in {"vNodes", "vNodesDisconnected"} => node'[n].nRefCount = Refs(n)'
                      /\ node'[n].at = "deleted" => n \notin socket'.copy /\ n \notin handler'.copy
    BY DEF Counted
  <2>1. /\ ~node[n].shared /\ node'[n].at = node[n].at /\ node'[n].kept = node[n].kept
        /\ node'[n].nRefCount = node[n].nRefCount
    BY DEF Touched
  <2>2. Refs(n)' = Refs(n)
    BY <2>1 DEF Refs
  <2> QED BY <2>1, <2>2 DEF Inv, Counted
<1>4. Ordered' /\ NextHandled
  <2>1. \A n \in Node : It(n)' = It(n)
    BY DEF It, Handling
  <2>2. \A n \in Node : SameMessages(node'[n], node[n])
    BY DEF Touched
  <2> QED BY <2>1, <2>2, LifeKeepsOrder
<1> QED BY <1>1, <1>2, <1>3, <1>4

\* The other openers keep their pointers, even when this one ends what made its node
\* fresh: they have met that node.
LEMMA OneOpenerKeeps ==
  ASSUME Inv, NEW o \in Opener, NEW op \in OpenerThread, opener' = [opener EXCEPT ![o] = op],
         \A n \in Node : \/ StillFresh(node'[n], node[n])
                         \/ /\ opener[o].node = n /\ node'[n].at = node[n].at
                            /\ node'[n].shared = node[n].shared,
         Pointer(op)',
         op.node # None => \/ op.node = opener[o].node
                           \/ node'[op.node].shared
                           \/ \A q \in Opener : opener[q].node # op.node
  PROVE  opener' \in [Opener -> OpenerThread] /\ Openers'
<1>1. opener \in [Opener -> OpenerThread] /\ \A q \in Opener : opener[q].node \in Node \cup {None}
  BY DEF Inv, TypeOK, OpenerThread
<1>2. opener'[o] = op /\ \A q \in Opener \ {o} : opener'[q] = opener[q]
  BY <1>1
<1>3. ASSUME NEW q \in Opener, q # o, opener[q].node # None
      PROVE  StillFresh(node'[opener[q].node], node[opener[q].node])
  <2>1. opener[q].node \in Node
    BY <1>1, <1>3
  <2>2. CASE opener[o].node = opener[q].node /\ node'[opener[q].node].at = node[opener[q].node].at
             /\ node'[opener[q].node].shared = node[opener[q].node].shared
    <3>1. node[opener[q].node].shared
      BY <1>3, <2>2 DEF Inv, Openers
    <3> QED BY <2>2, <3>1 DEF StillFresh
  <2> QED BY <2>1, <2>2
<1>4. ASSUME NEW q \in Opener PROVE Pointer(opener[q])'
  <2>1. CASE q = o
    BY <1>2, <2>1 DEF Pointer
  <2>2. CASE q # o
    <3>1. Pointer(opener[q]) /\ opener'[q] = opener[q]
      BY <1>2, <2>2 DEF Inv, Openers
    <3>2. CASE opener[q].node = None
      <4>1. None \notin Node
        BY PeersAssumption
      <4> QED BY <3>1, <3>2, <4>1 DEF Pointer
    <3>3. CASE opener[q].node # None
      BY <1>3, <2>2, <3>1, <3>3 DEF Pointer, StillFresh
    <3> QED BY <3>2, <3>3
  <2> QED BY <2>1, <2>2
<1>5. ASSUME NEW q \in Opener, NEW p \in Opener, p # q, opener'[p].node = opener'[q].node,
             opener'[p].node # None
      PROVE  node'[opener'[p].node].shared
  <2>1. CASE p # o /\ q # o
    <3>1. opener'[p] = opener[p] /\ opener'[q] = opener[q]
      BY <1>2, <2>1
    <3>2. node[opener[p].node].shared
      BY <1>5, <3>1 DEF Inv, Openers
    <3> QED BY <1>3, <1>5, <2>1, <3>1, <3>2 DEF StillFresh
  <2>2. ASSUME NEW v \in Opener, v # o, opener[v].node = op.node, op.node # None
        PROVE  node'[op.node].shared
    <3>1. CASE op.node = opener[o].node
      <4>1. node[op.node].shared
        BY <2>2, <3>1 DEF Inv, Openers
      <4> QED BY <1>3, <2>2, <4>1 DEF StillFresh
    <3> QED BY <2>2, <3>1
  <2>3. CASE p = o
    <3>1. q # o /\ opener[q].node = op.node /\ op.node # None /\ opener'[p].node = op.node
      BY <1>2, <1>5, <2>3
    <3> QED BY <2>2, <3>1
  <2>4. CASE q = o
    <3>1. p # o /\ opener[p].node = op.node /\ op.node # None /\ opener'[p].node = op.node
      BY <1>2, <1>5, <2>4
    <3> QED BY <2>2, <3>1
  <2> QED BY <2>1, <2>3, <2>4
<1>6. opener' \in [Opener -> OpenerThread]
  BY <1>1
<1>7. Openers'
  BY <1>4, <1>5 DEF Openers
<1> QED BY <1>6, <1>7

\* Where no grant moves, the slots stay.
LEMMA SlotsSame ==
  ASSUME Inv, UNCHANGED semOutbound, \A o \in Opener : opener'[o].grant = opener[o].grant,
         \A n \in Node : Touched(node'[n], node[n]) /\ node'[n].grant = node[n].grant
  PROVE  Slots'
<1>1. OpenerGrants' = OpenerGrants /\ NodeGrants' = NodeGrants
  BY DEF OpenerGrants, NodeGrants
<1>2. ASSUME NEW n \in Node, node'[n].at = "vNodesDisconnected", node'[n].grant
      PROVE  node'[n].kept \/ node'[n].shared
  BY <1>2 DEF Inv, Slots, Touched
<1> QED BY <1>1, <1>2 DEF Inv, Slots

\* Every node is in order as it is.
LEMMA TouchedNot == ASSUME Inv, NEW n \in Node PROVE Touched(node[n], node[n]) /\ StillFresh(node[n], node[n])
BY DEF Inv, TypeOK, Touched, SameMessages, StillFresh

\* A slot goes to an opener ...
LEMMA OpenKeeps == ASSUME Inv, NEW o \in Opener, NEW a \in Addr, Open(o, a) PROVE Inv' /\ NextHandled
<1>1. PICK grant \in BOOLEAN, byName \in BOOLEAN :
         /\ semOutbound' = semOutbound - (IF grant THEN 1 ELSE 0)
         /\ opener' = [opener EXCEPT ![o] =
                         [IdleOpener EXCEPT !.pc = IF byName THEN "connect" ELSE "look",
                                            !.addr = a, !.grant = grant]]
  BY DEF Open
<1>2. UNCHANGED <<node, socket, handler>> /\ opener[o].pc = "idle"
  BY DEF Open
<1> DEFINE op == [IdleOpener EXCEPT !.pc = IF byName THEN "connect" ELSE "look", !.addr = a, !.grant = grant]
<1>3. op \in OpenerThread /\ op.node = None /\ op.pc \in {"look", "connect"} /\ op.grant = grant
  <2>1. IdleOpener \in OpenerThread /\ IdleOpener.node = None
    BY DEF IdleOpener, OpenerThread
  <2>2. PICK v \in {"look", "connect"} : v = IF byName THEN "connect" ELSE "look"
    OBVIOUS
  <2>3. op = [IdleOpener EXCEPT !.pc = v, !.addr = a, !.grant = grant]
    BY <2>2
  <2> HIDE DEF op
  <2> QED BY <2>1, <2>3 DEF OpenerThread
<1> HIDE DEF op
<1>4. opener' = [opener EXCEPT ![o] = op]
  BY <1>1 DEF op
<1>5. Pointer(op)'
  BY <1>3 DEF Pointer
<1>6. \A n \in Node : Touched(node'[n], node[n]) /\ StillFresh(node'[n], node[n])
  BY <1>2, TouchedNot
<1>7. opener' \in [Opener -> OpenerThread] /\ Openers'
  BY <1>3, <1>4, <1>5, <1>6, OneOpenerKeeps
<1>8. TypeOK'
  BY <1>1, <1>2, <1>7 DEF Inv, TypeOK
<1>9. Unallocated' /\ Copies' /\ Counted' /\ Ordered' /\ NextHandled
  BY <1>2, <1>6, TouchedKeeps DEF Inv, TypeOK
<1>10. Slots'
  <2>1. NodeGrants' = NodeGrants
    BY <1>2 DEF NodeGrants
  <2>2. opener'[o] = op /\ \A q \in Opener \ {o} : opener'[q] = opener[q]
    BY <1>4 DEF Inv, TypeOK
  <2>3. o \notin OpenerGrants
    BY <1>2 DEF Inv, Openers, Pointer, OpenerGrants
  <2>4. OpenerGrants' = IF grant THEN OpenerGrants \cup {o} ELSE OpenerGrants
    BY <1>3, <2>2, <2>3 DEF OpenerGrants
  <2>5. /\ IsFiniteSet(OpenerGrants') /\ IsFiniteSet(OpenerGrants)
        /\ Cardinality(OpenerGrants') = Cardinality(OpenerGrants) + (IF grant THEN 1 ELSE 0)
        /\ Cardinality(OpenerGrants) \in Nat
    <3>1. IsFiniteSet(OpenerGrants) /\ Cardinality(OpenerGrants) \in Nat
      BY FS_CardinalityType DEF Inv, Slots
    <3>2. IsFiniteSet(OpenerGrants \cup {o}) /\ Cardinality(OpenerGrants \cup {o}) = Cardinality(OpenerGrants) + 1
      BY <2>3, <3>1, FS_AddElement
    <3> QED BY <2>4, <3>1, <3>2
  <2>6. semOutbound + Cardinality(OpenerGrants) + Cardinality(NodeGrants) = MaxOutbound
        /\ semOutbound \in Int /\ Cardinality(NodeGrants) \in Nat /\ IsFiniteSet(NodeGrants)
    BY FS_CardinalityType DEF Inv, Slots, TypeOK
  <2>7. semOutbound' + Cardinality(OpenerGrants') + Cardinality(NodeGrants') = MaxOutbound
    BY <1>1, <2>1, <2>5, <2>6
  <2>8. \A n \in Node : node'[n].at = "vNodesDisconnected" /\ node'[n].grant
                           => node'[n].kept \/ node'[n].shared
    BY <1>2 DEF Inv, Slots
  <2> QED BY <2>1, <2>5, <2>6, <2>7, <2>8, Zenon DEF Slots
<1> QED BY <1>7, <1>8, <1>9, <1>10 DEF Inv

\* ... and back, when there is no connection.
LEMMA RefuseKeeps == ASSUME Inv, NEW o \in Opener, Refuse(o) PROVE Inv' /\ NextHandled
<1>1. /\ UNCHANGED <<node, socket, handler>> /\ opener' = [opener EXCEPT ![o] = IdleOpener]
      /\ semOutbound' = semOutbound + (IF opener[o].grant THEN 1 ELSE 0)
  BY DEF Refuse
<1>2. IdleOpener \in OpenerThread /\ IdleOpener.node = None /\ IdleOpener.pc = "idle"
      /\ IdleOpener.grant = FALSE
  BY DEF IdleOpener, OpenerThread
<1>3. Pointer(IdleOpener)'
  BY <1>2 DEF Pointer
<1>4. \A n \in Node : Touched(node'[n], node[n]) /\ StillFresh(node'[n], node[n])
  BY <1>1, TouchedNot
<1>5. opener' \in [Opener -> OpenerThread] /\ Openers'
  BY <1>1, <1>2, <1>3, <1>4, OneOpenerKeeps
<1>6. TypeOK'
  BY <1>1, <1>5 DEF Inv, TypeOK
<1>7. Unallocated' /\ Copies' /\ Counted' /\ Ordered' /\ NextHandled
  BY <1>1, <1>4, TouchedKeeps DEF Inv, TypeOK
<1>8. Slots'
  <2>1. NodeGrants' = NodeGrants
    BY <1>1 DEF NodeGrants
  <2>2. opener'[o] = IdleOpener /\ \A q \in Opener \ {o} : opener'[q] = opener[q]
    BY <1>1 DEF Inv, TypeOK
  <2>3. OpenerGrants' = OpenerGrants \ {o}
    BY <1>2, <2>2 DEF OpenerGrants
  <2>4. IsFiniteSet(OpenerGrants) /\ Cardinality(OpenerGrants) \in Nat
    BY FS_CardinalityType DEF Inv, Slots
  <2>5. /\ IsFiniteSet(OpenerGrants')
        /\ Cardinality(OpenerGrants') = Cardinality(OpenerGrants) - (IF opener[o].grant THEN 1 ELSE 0)
    <3>1. CASE opener[o].grant
      <4>1. o \in OpenerGrants
        BY <3>1 DEF OpenerGrants
      <4>2. IsFiniteSet(OpenerGrants \ {o}) /\ Cardinality(OpenerGrants \ {o}) = Cardinality(OpenerGrants) - 1
        BY <2>4, <4>1, FS_RemoveElement
      <4> QED BY <2>3, <3>1, <4>2
    <3>2. CASE ~opener[o].grant
      <4>1. OpenerGrants' = OpenerGrants
        BY <2>3, <3>2 DEF OpenerGrants
      <4> QED BY <2>4, <3>2, <4>1
    <3> QED BY <3>1, <3>2
  <2>6. semOutbound + Cardinality(OpenerGrants) + Cardinality(NodeGrants) = MaxOutbound
        /\ semOutbound \in Int /\ Cardinality(NodeGrants) \in Nat /\ IsFiniteSet(NodeGrants)
    BY FS_CardinalityType DEF Inv, Slots, TypeOK
  <2>7. semOutbound' + Cardinality(OpenerGrants') + Cardinality(NodeGrants') = MaxOutbound
    BY <1>1, <2>1, <2>4, <2>5, <2>6
  <2>8. \A n \in Node : node'[n].at = "vNodesDisconnected" /\ node'[n].grant
                           => node'[n].kept \/ node'[n].shared
    BY <1>1 DEF Inv, Slots
  <2> QED BY <2>1, <2>5, <2>6, <2>7, <2>8, Zenon DEF Slots
<1> QED BY <1>5, <1>6, <1>7, <1>8 DEF Inv

\* FindNode gives the opener a node somebody else made, from then on marked as met.
LEMMA LookKeeps == ASSUME Inv, NEW o \in Opener, Look(o) PROVE Inv' /\ NextHandled
<1>1. UNCHANGED <<socket, handler, semOutbound>> /\ opener[o].pc = "look"
  BY DEF Look
<1>2. /\ opener \in [Opener -> OpenerThread] /\ opener[o] \in OpenerThread /\ Pointer(opener[o])
      /\ node \in [Node -> CNode] /\ opener[o].node = None
  BY <1>1 DEF Inv, TypeOK, Openers, Pointer
<1>3. CASE UNCHANGED node /\ opener' = [opener EXCEPT ![o].pc = "connect"]
  <2>1. PICK op : op = [opener[o] EXCEPT !.pc = "connect"]
    OBVIOUS
  <2>2. op \in OpenerThread /\ op.node = None /\ op.grant = opener[o].grant /\ op.pc = "connect"
    BY <1>2, <2>1 DEF OpenerThread
  <2>3. opener' = [opener EXCEPT ![o] = op] /\ \A q \in Opener : opener'[q].grant = opener[q].grant
    BY <1>2, <1>3, <2>1, <2>2
  <2>4. Pointer(op)'
    BY <2>2 DEF Pointer
  <2>5. \A n \in Node : Touched(node'[n], node[n]) /\ StillFresh(node'[n], node[n])
    BY <1>3, TouchedNot
  <2>6. opener' \in [Opener -> OpenerThread] /\ Openers'
    BY <2>2, <2>3, <2>4, <2>5, OneOpenerKeeps
  <2>7. TypeOK'
    BY <1>1, <1>3, <2>6 DEF Inv, TypeOK
  <2>8. Unallocated' /\ Copies' /\ Counted' /\ Ordered' /\ NextHandled
    BY <1>1, <1>2, <1>3, <2>5, TouchedKeeps
  <2>9. Slots'
    BY <1>1, <1>3, <2>3, <2>5, SlotsSame
  <2> QED BY <2>6, <2>7, <2>8, <2>9 DEF Inv
<1>4. ASSUME NEW n \in vNodes, node' = [node EXCEPT ![n].shared = TRUE],
             opener' = [opener EXCEPT ![o].pc = "found", ![o].node = n]
      PROVE  Inv' /\ NextHandled
  <2>1. PICK op : op = [opener[o] EXCEPT !.pc = "found", !.node = n]
    OBVIOUS
  <2>2. n \in Node /\ node[n].at = "vNodes"
    BY DEF vNodes
  <2>3. op \in OpenerThread /\ op.node = n /\ op.grant = opener[o].grant /\ op.pc = "found"
    BY <1>2, <2>1, <2>2 DEF OpenerThread
  <2>4. opener' = [opener EXCEPT ![o] = op]
    BY <1>2, <1>4, <2>1
  <2>5. \A q \in Opener : opener'[q].grant = opener[q].grant
    BY <1>2, <2>3, <2>4
  <2>6. PICK r : r = [node[n] EXCEPT !.shared = TRUE]
    OBVIOUS
  <2>7. node' = [node EXCEPT ![n] = r]
    BY <1>4, <2>6
  <2>8. /\ r \in CNode /\ r.shared /\ r.at = "vNodes" /\ r.kept = node[n].kept
        /\ r.grant = node[n].grant /\ SameMessages(r, node[n])
    BY ZenonT(60), <1>2, <2>2, <2>6 DEF CNode, SameMessages
  <2>9. node' \in [Node -> CNode] /\ node'[n] = r /\ \A m \in Node \ {n} : node'[m] = node[m]
    BY <1>2, <2>2, <2>7, <2>8
  <2>10. Touched(r, node[n]) /\ StillFresh(r, node[n])
    BY <2>2, <2>8 DEF Touched, StillFresh
  <2>11. \A m \in Node : /\ Touched(node'[m], node[m]) /\ StillFresh(node'[m], node[m])
                          /\ node'[m].grant = node[m].grant
    BY <2>8, <2>9, <2>10, TouchedNot
  <2>12. Pointer(op)'
    BY <2>2, <2>3, <2>8, <2>9 DEF Pointer
  <2>13. opener' \in [Opener -> OpenerThread] /\ Openers'
    BY <2>3, <2>4, <2>8, <2>9, <2>11, <2>12, OneOpenerKeeps
  <2>14. TypeOK'
    BY <1>1, <2>9, <2>13 DEF Inv, TypeOK
  <2>15. Unallocated' /\ Copies' /\ Counted' /\ Ordered' /\ NextHandled
    BY <1>1, <2>9, <2>11, TouchedKeeps
  <2>16. Slots'
    BY <1>1, <2>5, <2>11, SlotsSame
  <2> QED BY <2>13, <2>14, <2>15, <2>16 DEF Inv
<1> QED BY <1>3, <1>4 DEF Look

\* AddRef outside cs_vNodes, on a node the opener met: it may lose a reference, which is
\* why such a node is left out of the count.
LEMMA StoreRefKeeps ==
  ASSUME Inv, NEW o \in Opener, LoadRef(o) \/ StoreRef(o) PROVE Inv' /\ NextHandled
<1>1. UNCHANGED <<socket, handler, semOutbound>> /\ opener[o].pc \in {"found", "loaded"}
  BY DEF LoadRef, StoreRef
<1>2. PICK n : n = opener[o].node
  OBVIOUS
<1>3. /\ opener \in [Opener -> OpenerThread] /\ opener[o] \in OpenerThread /\ Pointer(opener[o])
      /\ node \in [Node -> CNode] /\ n \in Node /\ node[n].shared /\ node[n].at # "none"
  <2>1. n \in Node /\ Pointer(opener[o]) /\ opener[o].node # None
    BY <1>1, <1>2, PeersAssumption DEF Inv, Openers, Pointer
  <2> QED BY <1>1, <1>2, <2>1 DEF Inv, TypeOK, Pointer
<1>4. ASSUME NEW op \in OpenerThread, opener' = [opener EXCEPT ![o] = op], op.node = n,
             op.grant = opener[o].grant, op.pc \in {"loaded", "connected"},
             NEW k \in Int, node' = [node EXCEPT ![n] = [node[n] EXCEPT !.nRefCount = k]]
      PROVE  Inv' /\ NextHandled
  <2>1. PICK r : r = [node[n] EXCEPT !.nRefCount = k]
    OBVIOUS
  <2>2. /\ r \in CNode /\ r.shared /\ r.at = node[n].at /\ r.kept = node[n].kept
        /\ r.grant = node[n].grant /\ SameMessages(r, node[n])
    BY <1>3, <2>1 DEF CNode, SameMessages
  <2>3. node' \in [Node -> CNode] /\ node'[n] = r /\ \A m \in Node \ {n} : node'[m] = node[m]
    BY <1>3, <1>4, <2>1, <2>2
  <2>4. Touched(r, node[n]) /\ StillFresh(r, node[n])
    BY <1>3, <2>2 DEF Touched, StillFresh
  <2>5. \A m \in Node : /\ Touched(node'[m], node[m]) /\ StillFresh(node'[m], node[m])
                         /\ node'[m].grant = node[m].grant
    BY <2>2, <2>3, <2>4, TouchedNot
  <2>6. Pointer(op)'
    BY <1>3, <1>4, <2>2, <2>3 DEF Pointer
  <2>7. opener' \in [Opener -> OpenerThread] /\ Openers'
    BY <1>4, <2>2, <2>3, <2>5, <2>6, OneOpenerKeeps
  <2>8. TypeOK'
    BY <1>1, <2>3, <2>7 DEF Inv, TypeOK
  <2>9. Unallocated' /\ Copies' /\ Counted' /\ Ordered' /\ NextHandled
    BY <1>1, <2>3, <2>5, TouchedKeeps
  <2>10. \A q \in Opener : opener'[q].grant = opener[q].grant
    BY <1>3, <1>4
  <2>11. Slots'
    BY <1>1, <2>5, <2>10, SlotsSame
  <2> QED BY <2>7, <2>8, <2>9, <2>11 DEF Inv
<1>5. node[n].nRefCount \in Int /\ opener[o].read + 1 \in Int
  BY <1>3 DEF CNode, OpenerThread
<1>6. CASE LoadRef(o)
  <2>1. PICK op : op = [opener[o] EXCEPT !.pc = "loaded", !.read = node[n].nRefCount]
    OBVIOUS
  <2>2. opener' = [opener EXCEPT ![o] = op]
    BY <1>2, <1>3, <1>6, <2>1 DEF LoadRef
  <2>3. op \in OpenerThread /\ op.node = n /\ op.grant = opener[o].grant /\ op.pc = "loaded"
    BY <1>2, <1>3, <1>5, <2>1 DEF OpenerThread
  <2>4. node[n] = [node[n] EXCEPT !.nRefCount = node[n].nRefCount]
    BY <1>3 DEF CNode
  <2>5. node' = [node EXCEPT ![n] = [node[n] EXCEPT !.nRefCount = node[n].nRefCount]]
    BY <1>3, <1>6, <2>4 DEF LoadRef
  <2> QED BY <1>4, <1>5, <2>2, <2>3, <2>5
<1>7. CASE StoreRef(o)
  <2>0. PICK k \in Int : k = 0
    OBVIOUS
  <2>1. PICK op : op = [opener[o] EXCEPT !.pc = "connected", !.read = k]
    OBVIOUS
  <2>2. opener' = [opener EXCEPT ![o] = op]
    BY <1>3, <1>7, <2>0, <2>1 DEF StoreRef
  <2>3. op \in OpenerThread /\ op.node = n /\ op.grant = opener[o].grant /\ op.pc = "connected"
    BY <1>2, <1>3, <2>1 DEF OpenerThread
  <2>4. node' = [node EXCEPT ![n] = [node[n] EXCEPT !.nRefCount = opener[o].read + 1]]
    BY <1>2, <1>3, <1>7 DEF StoreRef
  <2> QED BY <1>4, <1>5, <2>2, <2>3, <2>4
<1> QED BY <1>6, <1>7

\* ConnectNode makes a node, which no other opener knows.
LEMMA ConnectKeeps == ASSUME Inv, NEW o \in Opener, Connect(o) PROVE Inv' /\ NextHandled
<1>1. /\ UNCHANGED <<socket, handler, semOutbound>> /\ CanAllocate /\ opener[o].pc = "connect"
      /\ node' = [node EXCEPT ![NextNode] = Connected(opener[o].addr, FALSE)]
      /\ opener' = [opener EXCEPT ![o].pc = "connected", ![o].node = NextNode]
  BY DEF Connect
<1>2. opener \in [Opener -> OpenerThread] /\ opener[o] \in OpenerThread
      /\ opener[o].addr \in Addr \cup {None}
  BY DEF Inv, TypeOK, OpenerThread
<1>3. PICK a \in Addr \cup {None} : a = opener[o].addr
  BY <1>2
<1>4. /\ NextNode \in Node /\ node'[NextNode] = Connected(a, FALSE)
      /\ node' \in [Node -> CNode] /\ Unallocated' /\ Counted' /\ Ordered' /\ NextHandled
      /\ \A n \in Node : StillFresh(node'[n], node[n]) /\ node'[n].grant = node[n].grant
      /\ \A n \in Node : node[n].at = "vNodesDisconnected" \/ node'[n].at = "vNodesDisconnected"
                           => node'[n] = node[n]
      /\ \A q \in Opener : opener[q].node # NextNode
      /\ \A n \in socket.copy \cup handler.copy : node'[n].at # "none"
  BY <1>1, <1>3, AllocateKeeps
<1>5. PICK n \in Node : n = NextNode
  BY <1>4
<1>6. PICK op : op = [opener[o] EXCEPT !.pc = "connected", !.node = n]
  OBVIOUS
<1>7. op \in OpenerThread /\ op.node = n /\ op.pc = "connected" /\ op.grant = opener[o].grant
  BY <1>2, <1>6 DEF OpenerThread
<1>8. opener' = [opener EXCEPT ![o] = op]
  BY <1>1, <1>2, <1>5, <1>6
<1>9. Fresh(node'[n]) /\ node'[n].at # "none"
  <2>1. /\ Connected(a, FALSE).at = "vNodes" /\ ~Connected(a, FALSE).fInbound
        /\ ~Connected(a, FALSE).fNetworkNode
    BY DEF Connected, NewNode
  <2> QED BY <1>4, <1>5, <2>1 DEF Fresh
<1>10. Pointer(op)'
  BY <1>7, <1>9 DEF Pointer, Fresh
<1>11. opener' \in [Opener -> OpenerThread] /\ Openers'
  BY <1>4, <1>5, <1>7, <1>8, <1>10, OneOpenerKeeps
<1>12. TypeOK'
  BY <1>1, <1>4, <1>11 DEF Inv, TypeOK
<1>13. Copies'
  BY <1>1, <1>4 DEF Inv, Copies
<1>14. Slots'
  <2>1. OpenerGrants' = OpenerGrants
    BY <1>2, <1>7, <1>8 DEF OpenerGrants
  <2>2. NodeGrants' = NodeGrants
    BY <1>4 DEF NodeGrants
  <2> QED BY <1>1, <1>4, <2>1, <2>2 DEF Inv, Slots
<1> QED BY <1>4, <1>11, <1>12, <1>13, <1>14 DEF Inv

\* CSemaphoreGrant::MoveTo: the node has the opener's slot, and gives back its own.
LEMMA MoveGrantKeeps == ASSUME Inv, NEW o \in Opener, MoveGrant(o) PROVE Inv' /\ NextHandled
<1>1. UNCHANGED <<socket, handler>> /\ opener[o].pc = "connected"
      /\ opener' = [opener EXCEPT ![o].pc = "moved", ![o].grant = FALSE]
  BY DEF MoveGrant
<1>2. PICK n : n = opener[o].node
  OBVIOUS
<1>3. /\ opener \in [Opener -> OpenerThread] /\ opener[o] \in OpenerThread
      /\ node \in [Node -> CNode] /\ semOutbound \in Int
  BY DEF Inv, TypeOK
<1>4. n \in Node /\ (node[n].shared \/ Fresh(node[n])) /\ node[n].at # "none"
  BY <1>1, <1>2, PeersAssumption DEF Inv, Openers, Pointer
<1>5. PICK op : op = [opener[o] EXCEPT !.pc = "moved", !.grant = FALSE]
  OBVIOUS
<1>6. op \in OpenerThread /\ op.node = n /\ op.pc = "moved" /\ op.grant = FALSE
  BY <1>2, <1>3, <1>5 DEF OpenerThread
<1>7. opener' = [opener EXCEPT ![o] = op]
  BY <1>1, <1>3, <1>5
<1>8. opener'[o] = op /\ \A q \in Opener \ {o} : opener'[q] = opener[q]
  BY <1>3, <1>7
<1>9. PICK r : r = [node[n] EXCEPT !.grant = node[n].grant \/ opener[o].grant]
  OBVIOUS
<1>10. /\ r \in CNode /\ r.at = node[n].at /\ r.kept = node[n].kept /\ r.shared = node[n].shared
       /\ r.fInbound = node[n].fInbound /\ r.fNetworkNode = node[n].fNetworkNode
       /\ r.nRefCount = node[n].nRefCount /\ SameMessages(r, node[n])
       /\ r.grant = (node[n].grant \/ opener[o].grant)
  <2>1. PICK b \in BOOLEAN : b = (node[n].grant \/ opener[o].grant)
    OBVIOUS
  <2>2. r = [node[n] EXCEPT !.grant = b] /\ node[n] \in CNode
    BY <1>3, <1>4, <1>9, <2>1
  <2> QED BY <2>1, <2>2 DEF CNode, SameMessages
<1>11. node' = [node EXCEPT ![n] = r]
  <2>1. CASE opener[o].grant
    BY <1>2, <1>3, <1>4, <1>9, <2>1 DEF MoveGrant
  <2>2. CASE ~opener[o].grant
    <3>1. r = node[n]
      BY <1>3, <1>4, <1>9, <2>2 DEF CNode
    <3> QED BY <1>3, <1>4, <2>2, <3>1 DEF MoveGrant
  <2> QED BY <2>1, <2>2
<1>12. node' \in [Node -> CNode] /\ node'[n] = r /\ \A m \in Node \ {n} : node'[m] = node[m]
  BY <1>3, <1>4, <1>10, <1>11
<1>13. Touched(r, node[n]) /\ StillFresh(r, node[n]) /\ (Fresh(node[n]) => Fresh(r))
  BY <1>4, <1>10 DEF Touched, StillFresh, Fresh
<1>14. \A m \in Node : Touched(node'[m], node[m]) /\ StillFresh(node'[m], node[m])
  BY <1>12, <1>13, TouchedNot
<1>15. Pointer(op)'
  BY <1>4, <1>6, <1>10, <1>12, <1>13 DEF Pointer
<1>16. opener' \in [Opener -> OpenerThread] /\ Openers'
  BY <1>2, <1>6, <1>7, <1>14, <1>15, OneOpenerKeeps
<1>17. semOutbound' = semOutbound + (IF opener[o].grant /\ node[n].grant THEN 1 ELSE 0)
  BY <1>2, <1>3 DEF MoveGrant
<1>18. TypeOK'
  BY <1>1, <1>3, <1>12, <1>16, <1>17 DEF Inv, TypeOK
<1>19. Unallocated' /\ Copies' /\ Counted' /\ Ordered' /\ NextHandled
  BY <1>1, <1>12, <1>14, TouchedKeeps
<1>20. Slots'
  <2>1. /\ IsFiniteSet(OpenerGrants) /\ Cardinality(OpenerGrants) \in Nat
        /\ IsFiniteSet(NodeGrants) /\ Cardinality(NodeGrants) \in Nat
        /\ semOutbound + Cardinality(OpenerGrants) + Cardinality(NodeGrants) = MaxOutbound
    BY FS_CardinalityType DEF Inv, Slots
  <2>2. \A m \in Node : node'[m].at = "vNodesDisconnected" /\ node'[m].grant
                           => node'[m].kept \/ node'[m].shared
    <3> TAKE m \in Node
    <3>1. CASE m = n
      BY <1>4, <1>10, <1>12, <3>1 DEF Fresh
    <3>2. CASE m # n
      BY <1>12, <3>2 DEF Inv, Slots
    <3> QED BY <3>1, <3>2
  <2>3. OpenerGrants' = OpenerGrants \ {o}
    BY <1>6, <1>8 DEF OpenerGrants
  <2>4. CASE ~opener[o].grant
    <3>1. OpenerGrants' = OpenerGrants
      BY <2>3, <2>4 DEF OpenerGrants
    <3>2. NodeGrants' = NodeGrants
      BY <1>10, <1>12, <2>4 DEF NodeGrants
    <3>3. semOutbound' = semOutbound
      BY <1>3, <1>17, <2>4
    <3> QED BY <2>1, <2>2, <3>1, <3>2, <3>3, Zenon DEF Slots
  <2>5. CASE opener[o].grant
    <3>1. /\ IsFiniteSet(OpenerGrants')
          /\ Cardinality(OpenerGrants') = Cardinality(OpenerGrants) - 1
      <4>1. o \in OpenerGrants
        BY <2>5 DEF OpenerGrants
      <4>2. IsFiniteSet(OpenerGrants \ {o}) /\ Cardinality(OpenerGrants \ {o}) = Cardinality(OpenerGrants) - 1
        BY <2>1, <4>1, FS_RemoveElement
      <4> QED BY <2>3, <4>2
    <3>2. NodeGrants' = NodeGrants \cup {n}
      BY <1>4, <1>10, <1>12, <2>5 DEF NodeGrants
    <3>3. /\ IsFiniteSet(NodeGrants')
          /\ Cardinality(NodeGrants') = Cardinality(NodeGrants) + (IF node[n].grant THEN 0 ELSE 1)
      <4>1. CASE node[n].grant
        <5>1. NodeGrants' = NodeGrants
          BY <1>4, <3>2, <4>1 DEF NodeGrants
        <5> QED BY <2>1, <4>1, <5>1
      <4>2. CASE ~node[n].grant
        <5>1. n \notin NodeGrants
          BY <4>2 DEF NodeGrants
        <5>2. IsFiniteSet(NodeGrants \cup {n}) /\ Cardinality(NodeGrants \cup {n}) = Cardinality(NodeGrants) + 1
          BY <2>1, <5>1, FS_AddElement
        <5> QED BY <3>2, <4>2, <5>2
      <4> QED BY <4>1, <4>2
    <3>4. semOutbound' + Cardinality(OpenerGrants') + Cardinality(NodeGrants') = MaxOutbound
      BY <1>3, <1>17, <2>1, <2>5, <3>1, <3>3
    <3> QED BY <2>2, <3>1, <3>3, <3>4, Zenon DEF Slots
  <2> QED BY <2>4, <2>5
<1> QED BY <1>16, <1>18, <1>19, <1>20 DEF Inv

\* The opener says that the node is a network node, and is done with it.
LEMMA SetNetworkNodeKeeps ==
  ASSUME Inv, NEW o \in Opener, SetNetworkNode(o) PROVE Inv' /\ NextHandled
<1>1. UNCHANGED <<socket, handler, semOutbound>> /\ opener[o].pc = "moved"
      /\ opener' = [opener EXCEPT ![o] = IdleOpener]
  BY DEF SetNetworkNode
<1>2. PICK n : n = opener[o].node
  OBVIOUS
<1>3. opener \in [Opener -> OpenerThread] /\ node \in [Node -> CNode]
  BY DEF Inv, TypeOK
<1>4. n \in Node /\ node[n].at # "none" /\ ~opener[o].grant
  BY <1>1, <1>2, PeersAssumption DEF Inv, Openers, Pointer
<1>5. IdleOpener \in OpenerThread /\ IdleOpener.node = None /\ IdleOpener.pc = "idle"
      /\ IdleOpener.grant = FALSE
  BY DEF IdleOpener, OpenerThread
<1>6. Pointer(IdleOpener)'
  BY <1>5 DEF Pointer
<1>7. PICK r : r = [node[n] EXCEPT !.fNetworkNode = TRUE]
  OBVIOUS
<1>8. node' = [node EXCEPT ![n] = r]
  BY <1>2, <1>7 DEF SetNetworkNode
<1>9. /\ r \in CNode /\ r.at = node[n].at /\ r.kept = node[n].kept /\ r.shared = node[n].shared
      /\ r.nRefCount = node[n].nRefCount /\ r.grant = node[n].grant /\ SameMessages(r, node[n])
  <2>1. node[n] \in CNode
    BY <1>3, <1>4
  <2> QED BY <1>7, <2>1 DEF CNode, SameMessages
<1>10. node' \in [Node -> CNode] /\ node'[n] = r /\ \A m \in Node \ {n} : node'[m] = node[m]
  BY <1>3, <1>4, <1>8, <1>9
<1>11. Touched(r, node[n])
  BY <1>4, <1>9 DEF Touched
<1>12. \A m \in Node : Touched(node'[m], node[m]) /\ node'[m].grant = node[m].grant
  BY <1>9, <1>10, <1>11, TouchedNot
<1>13. \A m \in Node : \/ StillFresh(node'[m], node[m])
                         \/ /\ opener[o].node = m /\ node'[m].at = node[m].at
                            /\ node'[m].shared = node[m].shared
  BY <1>2, <1>9, <1>10, TouchedNot
<1>14. opener' \in [Opener -> OpenerThread] /\ Openers'
  BY <1>1, <1>5, <1>6, <1>13, OneOpenerKeeps
<1>15. TypeOK'
  BY <1>1, <1>10, <1>14 DEF Inv, TypeOK
<1>16. Unallocated' /\ Copies' /\ Counted' /\ Ordered' /\ NextHandled
  BY <1>1, <1>10, <1>12, TouchedKeeps
<1>17. \A q \in Opener : opener'[q].grant = opener[q].grant
  <2>1. opener[o].grant = FALSE
    BY <1>3, <1>4 DEF OpenerThread
  <2> QED BY <1>1, <1>3, <1>5, <2>1
<1>18. Slots'
  BY <1>1, <1>12, <1>17, SlotsSame
<1> QED BY <1>14, <1>15, <1>16, <1>18 DEF Inv
-----------------------------------------------------------------------------
\* The first state: nothing allocated, every thread at the head of its loop.
LEMMA Initially == Init => Inv
<1> SUFFICES ASSUME Init PROVE Inv
  OBVIOUS
<1>1. NewNode \in CNode
  <2>1. <<>> \in Seq(Nat) /\ 0 \in 0 .. MaxMsg /\ 0 \in 0 .. SendBuffer /\ 0 \in Int
    BY PeersAssumption
  <2> QED BY <2>1 DEF NewNode, CNode
<1>2. socket \in SocketThread /\ socket.copy = {} /\ socket.todo = {}
  BY DEF Init, SocketThread
<1>3. handler \in HandlerThread /\ handler.copy = {} /\ handler.todo = {} /\ handler.pc = "start"
  <2>1. 0 \in 0 .. MaxMsg
    BY PeersAssumption
  <2> QED BY <2>1 DEF Init, HandlerThread
<1>4. IdleOpener \in OpenerThread /\ IdleOpener.node = None /\ IdleOpener.pc = "idle"
      /\ IdleOpener.grant = FALSE
  BY DEF IdleOpener, OpenerThread
<1>5. opener = [o \in Opener |-> IdleOpener] /\ node = [n \in Node |-> NewNode]
      /\ semOutbound = MaxOutbound
  BY DEF Init, IdleOpener
<1>6. TypeOK
  BY <1>1, <1>2, <1>3, <1>4, <1>5, PeersAssumption DEF TypeOK
<1>7. Unallocated /\ Copies
  BY <1>2, <1>3, <1>5 DEF Unallocated, Copies
<1>8. \A n \in Node : /\ node[n].at = "none" /\ ~node[n].grant /\ node[n].vRecvMsg = <<>>
                      /\ node[n].got = 0 /\ node[n].handled = 0
  BY <1>5 DEF NewNode
<1>9. Counted
  BY <1>8 DEF Counted
<1>10. Openers
  <2>1. ASSUME NEW o \in Opener PROVE Pointer(opener[o])
    BY <1>4, <1>5 DEF Pointer
  <2> QED BY <1>4, <1>5, <2>1 DEF Openers
<1>11. Slots
  <2>1. OpenerGrants = {}
    BY <1>4, <1>5 DEF OpenerGrants
  <2>2. NodeGrants = {}
    BY <1>8 DEF NodeGrants
  <2>3. IsFiniteSet({}) /\ Cardinality({}) = 0
    BY FS_EmptySet
  <2>4. semOutbound + 0 + 0 = MaxOutbound
    BY <1>5, PeersAssumption
  <2>5. \A n \in Node : node[n].at = "vNodesDisconnected" /\ node[n].grant
                           => node[n].kept \/ node[n].shared
    BY <1>8
  <2> QED BY <2>1, <2>2, <2>3, <2>4, <2>5, Zenon DEF Slots
<1>12. Ordered
  <2> SUFFICES ASSUME NEW n \in Node PROVE InOrder(node[n], It(n))
    BY DEF Ordered
  <2>1. It(n) = 0
    BY <1>3 DEF It, Handling
  <2>2. Len(node[n].vRecvMsg) = 0
    BY <1>8
  <2> QED BY <1>8, <2>1, <2>2 DEF InOrder
<1> QED BY <1>6, <1>7, <1>9, <1>10, <1>11, <1>12 DEF Inv

\* Every step of every thread keeps the invariant and the order of messages.
LEMMA StepKeeps == Inv /\ [Next]_vars => Inv' /\ NextHandled
<1> SUFFICES ASSUME Inv, [Next]_vars PROVE Inv' /\ NextHandled
  OBVIOUS
<1>1. CASE SocketStep
  BY <1>1, DisconnectNodesKeeps, DeleteNodesKeeps, PollKeeps, ServiceCopyKeeps, ServiceKeeps
     DEF SocketStep
<1>2. ASSUME NEW a \in Addr, Accept(a) PROVE Inv' /\ NextHandled
  BY <1>2, AcceptKeeps
<1>3. CASE HandlerStep
  BY <1>3, HandlerCopyKeeps, ProcessMessageKeeps, EndReceiveKeeps, SendMessagesKeeps, TurnKeeps
     DEF HandlerStep
<1>4. ASSUME NEW o \in Opener, OpenerStep(o) PROVE Inv' /\ NextHandled
  BY <1>4, LookKeeps, StoreRefKeeps, ConnectKeeps, RefuseKeeps, MoveGrantKeeps,
     SetNetworkNodeKeeps, OpenKeeps DEF OpenerStep
<1>5. CASE UNCHANGED vars
  <2>1. NextHandled
    BY <1>5 DEF vars, NextHandled
  <2>2. /\ TypeOK' = TypeOK /\ Unallocated' = Unallocated /\ Copies' = Copies
        /\ Counted' = Counted /\ Openers' = Openers /\ Slots' = Slots /\ Ordered' = Ordered
    BY <1>5 DEF vars, TypeOK, Unallocated, Copies, Counted, Refs, Openers, Pointer, Slots,
                OpenerGrants, NodeGrants, Ordered, It, Handling
  <2> QED BY <2>1, <2>2 DEF Inv
<1> QED BY <1>1, <1>2, <1>3, <1>4, <1>5 DEF Next

\* The invariant holds throughout.
LEMMA Invariant == Spec => []Inv
<1>1. Init => Inv
  BY Initially
<1>2. Inv /\ [Next]_vars => Inv'
  BY StepKeeps
<1> QED BY <1>1, <1>2, PTL DEF Spec

\* The count of a CNode is the references that are out, so that GetRefCount's
\* assertion holds (AddRef and Release under cs_vNodes; a node met by FindNode is the
\* exception).
THEOREM RefsStayCounted == Spec => []RefsCounted
<1>1. Inv => RefsCounted
  <2> SUFFICES ASSUME Inv PROVE RefsCounted
    OBVIOUS
  <2>1. ASSUME NEW n \in Node
        PROVE  /\ node[n].at \in {"none", "vNodes", "vNodesDisconnected", "deleted"}
               /\ node[n].addr \in Addr \cup {None}
               /\ node[n].nSendSize \in 0 .. SendBuffer
               /\ node[n].got \in 0 .. MaxMsg
    BY DEF Inv, TypeOK, CNode
  <2>2. handler.it \in 0 .. MaxMsg
    BY DEF Inv, TypeOK, HandlerThread
  <2>3. ASSUME NEW n \in vNodes \cup vNodesDisconnected, ~node[n].shared
        PROVE  node[n].nRefCount = (IF n \in socket.copy THEN 1 ELSE 0)
                                   + (IF n \in handler.copy THEN 1 ELSE 0)
                                   + (IF n \in vNodes \/ node[n].kept THEN 1 ELSE 0)
    BY <2>3 DEF Inv, Counted, Refs, vNodes, vNodesDisconnected
  <2> QED BY <2>1, <2>2, <2>3 DEF RefsCounted
<1> QED BY <1>1, Invariant, PTL

\* "wait until threads are done using it": nobody points to a deleted CNode, the opener
\* that made it included (a node met by FindNode is the exception).
THEOREM DeletedStayUnused == Spec => []DeletedUnused
<1>1. Inv => DeletedUnused
  <2> SUFFICES ASSUME Inv, NEW n \in Node, node[n].at = "deleted", ~node[n].shared
               PROVE  Using(n) = {}
    BY DEF DeletedUnused
  <2>1. n \notin socket.copy /\ n \notin handler.copy
    BY DEF Inv, Counted
  <2>2. ASSUME NEW o \in Opener PROVE opener[o].node # n
    <3>1. SUFFICES ASSUME opener[o].node = n PROVE FALSE
      OBVIOUS
    <3>2. opener[o].pc \in {"idle", "look", "connect", "found", "loaded", "connected", "moved"}
      BY DEF Inv, TypeOK, OpenerThread
    <3>3. n # None
      BY PeersAssumption
    <3> QED BY <3>1, <3>2, <3>3 DEF Inv, Openers, Pointer, Fresh
  <2> QED BY <2>1, <2>2 DEF Using
<1> QED BY <1>1, Invariant, PTL

\* The slots of semOutbound are free, with an opener or with a node, none twice and none
\* lost (CSemaphoreGrant moved in OpenNetworkConnection, released at disconnection).
THEOREM SlotsStayKept == Spec => []SlotsKept
<1>1. Inv => SlotsKept
  BY DEF Inv, Slots, SlotsKept, OpenerGrants, NodeGrants, vNodesDisconnected
<1> QED BY <1>1, Invariant, PTL

\* ProcessMessages handles the messages of a connection in the order they came, none
\* twice and none left out, whatever ThreadSocketHandler does meanwhile.
THEOREM MessagesHandledInOrder == Spec => HandledInOrder
<1>1. Inv /\ [Next]_vars =>
        [\A n \in Node : node'[n].handled # node[n].handled =>
                            node'[n].handled = node[n].handled + 1]_vars
  BY StepKeeps DEF NextHandled
<1> QED BY <1>1, Invariant, PTL DEF Spec, HandledInOrder
=============================================================================
