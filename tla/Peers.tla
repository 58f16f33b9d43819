------------------------------- MODULE Peers -------------------------------
(***************************************************************************)
(* The life of a CNode (net.cpp, net.h) and the queue of messages it       *)
(* carries.  Three kinds of threads share it:                              *)
(*   ThreadSocketHandler   disconnects, deletes, accepts, receives, sends; *)
(*   ThreadMessageHandler  handles what was received and writes answers;   *)
(*   openers               ThreadOpenConnections, ThreadOpenAddedConnections*)
(*                         and addnode, through OpenNetworkConnection.     *)
(* A CNode is a counted reference: it is in vNodes, then in                *)
(* vNodesDisconnected, and deleted once the count is zero.  The count is a *)
(* plain int: the first two kinds of threads change it under cs_vNodes, an *)
(* opener that meets an existing connection does not.                      *)
(*                                                                         *)
(* A message is its number in the order of arrival.  A ban, a failed       *)
(* connect() and the limit on inbound connections are a refusal that may   *)
(* happen; a socket may break at any time.                                 *)
(***************************************************************************)
EXTENDS Integers, Sequences, FiniteSets

CONSTANTS
    Node,       \* CNode objects; a deleted one is not allocated again
    Addr,       \* addresses of peers
    Opener,     \* threads that run OpenNetworkConnection
    MaxOutbound,\* slots of semOutbound
    MaxMsg,     \* bound: messages a peer sends over one connection
    SendBuffer, \* SendBufferSize(), in messages
    None

ASSUME PeersAssumption ==
    /\ MaxOutbound \in Nat /\ MaxMsg \in Nat /\ SendBuffer \in Nat
    /\ None \notin Node \cup Addr

VARIABLES
    node,     \* [Node -> CNode]
    socket,   \* ThreadSocketHandler: where it is, vNodesCopy, what is left of it, fdsets
    handler,  \* ThreadMessageHandler: where it is, vNodesCopy, what is left, node, it
    opener,   \* [Opener -> where it is, addrConnect, pnode, has it a grant, the count it read]
    semOutbound

vars == <<node, socket, handler, opener, semOutbound>>

\* A CNode that is not allocated.  handled, kept and shared are history: the
\* messages handled; was the first reference left alone when it went; has an
\* opener taken it from FindNode?
NewNode == [at |-> "none", addr |-> None, nRefCount |-> 0, fInbound |-> FALSE,
            fNetworkNode |-> FALSE, fDisconnect |-> FALSE, open |-> FALSE,
            grant |-> FALSE, got |-> 0, vRecvMsg |-> <<>>, nSendSize |-> 0,
            handled |-> 0, kept |-> FALSE, shared |-> FALSE]

Init == /\ node = [n \in Node |-> NewNode]
        /\ socket = [pc |-> "disconnect", copy |-> {}, todo |-> {}, recv |-> {}, send |-> {}]
        /\ handler = [pc |-> "start", copy |-> {}, todo |-> {}, node |-> None, it |-> 0]
        /\ opener = [o \in Opener |->
                       [pc |-> "idle", addr |-> None, node |-> None, grant |-> FALSE, read |-> 0]]
        /\ semOutbound = MaxOutbound

vNodes             == {n \in Node : node[n].at = "vNodes"}
vNodesDisconnected == {n \in Node : node[n].at = "vNodesDisconnected"}

-----------------------------------------------------------------------------
(* CNode.                                                                  *)

\* cs_vRecvMsg of n is held by the message thread.
Handling(n) == handler.pc = "receive" /\ handler.node = n

AddRef(nd)  == [nd EXCEPT !.nRefCount = @ + 1]
Release(nd) == [nd EXCEPT !.nRefCount = @ - 1]

\* TRY_LOCK(cs_vRecvMsg): whoever holds it, the buffer is wiped only with it.
CloseSocketDisconnect(nd, lockRecv) ==
    [nd EXCEPT !.fDisconnect = TRUE, !.open = FALSE,
               !.vRecvMsg = IF nd.open /\ lockRecv THEN <<>> ELSE @]

\* ReceiveMsgBytes: k more messages are complete.  The bytes of a message
\* that is not complete yet are left out.
ReceiveMsgBytes(nd, k) ==
    [nd EXCEPT !.got = @ + k, !.vRecvMsg = @ \o [i \in 1 .. k |-> nd.got + i]]

\* SocketSendData: some of the messages go out.
SocketSendData(nd, k) == [nd EXCEPT !.nSendSize = @ - k]

\* The memory a new CNode gets: which one does not matter.
CanAllocate == \E n \in Node : node[n].at = "none"
NextNode    == CHOOSE n \in Node : node[n].at = "none"

\* A new connection, pushed on vNodes with its first reference.  (The version
\* message of an outbound one goes out with the optimistic write.)
Connected(a, inbound) ==
    [NewNode EXCEPT !.at = "vNodes", !.addr = a, !.fInbound = inbound, !.open = TRUE,
                    !.nRefCount = 1]

-----------------------------------------------------------------------------
(* ThreadSocketHandler.                                                    *)

Unused(nd) == nd.nRefCount <= 0 /\ nd.vRecvMsg = <<>> /\ nd.nSendSize = 0

\* Mutant: the first reference goes with every node.
RemovedReleases(nd, lockRecv) ==
    Release([CloseSocketDisconnect(nd, lockRecv) EXCEPT
               !.at = "vNodesDisconnected", !.grant = FALSE,
               !.kept = ~(nd.fNetworkNode \/ nd.fInbound)])

\* Mutant: the grant is posted and stays with the node.
RemovedWithGrant(nd, lockRecv) ==
    LET kept   == ~(nd.fNetworkNode \/ nd.fInbound)
        closed == [CloseSocketDisconnect(nd, lockRecv) EXCEPT
                     !.at = "vNodesDisconnected", !.kept = kept]
    IN  IF kept THEN closed ELSE Release(closed)

\* The first reference goes with the node, unless its opener is still to say
\* that it is a network node.
Removed(nd, lockRecv) ==
    LET kept   == ~(nd.fNetworkNode \/ nd.fInbound)
        closed == [CloseSocketDisconnect(nd, lockRecv) EXCEPT
                     !.at = "vNodesDisconnected", !.grant = FALSE, !.kept = kept]
    IN  IF kept THEN closed ELSE Release(closed)

\* The grants that the nodes of S hold are posted.
Post(S) == semOutbound' = semOutbound + Cardinality({n \in S : node[n].grant})

\* "Disconnect unused nodes", under cs_vNodes.
DisconnectNodes ==
    /\ socket.pc = "disconnect"
    /\ LET out == {n \in vNodes : node[n].fDisconnect \/ Unused(node[n])}
       IN  /\ node' = [n \in Node |-> IF n \in out THEN Removed(node[n], ~Handling(n))
                                                   ELSE node[n]]
           /\ Post(out)
    /\ socket' = [socket EXCEPT !.pc = "delete"]
    /\ UNCHANGED <<handler, opener>>

\* Mutant: the locks alone tell whether a thread is done with it.
DeletableByLock(n) == ~Handling(n)

\* Mutant: off by one.
DeletableBelowZero(n) == node[n].nRefCount < 0 /\ ~Handling(n)

\* "wait until threads are done using it".  The grant of a deleted CNode is
\* destroyed with it.
Deletable(n) == node[n].nRefCount <= 0 /\ ~Handling(n)

DeleteNodes ==
    /\ socket.pc = "delete"
    /\ LET out == {n \in vNodesDisconnected : Deletable(n)}
       IN  /\ node' = [n \in Node |-> IF n \in out
                                       THEN [node[n] EXCEPT !.at = "deleted", !.grant = FALSE]
                                       ELSE node[n]]
           /\ Post(out)
    /\ socket' = [socket EXCEPT !.pc = "poll"]
    /\ UNCHANGED <<handler, opener>>

\* A node with something to send is polled for that alone.  When select()
\* fails, all sockets count as readable.
Poll ==
    /\ socket.pc = "poll"
    /\ LET open == {n \in vNodes : node[n].open}
           send == {n \in open : node[n].nSendSize > 0}
           recv == {n \in open \ send : ~Handling(n)}
       IN  socket' \in {[socket EXCEPT !.pc = "accept", !.recv = recv, !.send = send],
                        [socket EXCEPT !.pc = "accept", !.recv = open, !.send = {}]}
    /\ UNCHANGED <<node, handler, opener, semOutbound>>

Accept(a) ==
    /\ socket.pc = "accept" /\ CanAllocate
    /\ node' = [node EXCEPT ![NextNode] = Connected(a, TRUE)]
    /\ socket' = [socket EXCEPT !.pc = "accepted"]
    /\ UNCHANGED <<handler, opener, semOutbound>>

WithRefs(S) == [n \in Node |-> IF n \in S THEN AddRef(node[n]) ELSE node[n]]
WithoutRefs(S) == [n \in Node |-> IF n \in S THEN Release(node[n]) ELSE node[n]]

StartService ==
    /\ socket.pc \in {"accept", "accepted"}
    /\ socket' = [socket EXCEPT !.pc = "service", !.copy = vNodes, !.todo = vNodes]
    /\ node' = WithRefs(vNodes)
    /\ UNCHANGED <<handler, opener, semOutbound>>

\* What one turn may leave of a node whose socket is open: it receives, and
\* then sends, where the poll said so and the lock is free; either may break
\* the connection; and it may have been silent for too long.
Served(n) ==
    LET nd == node[n]
        received == IF n \in socket.recv /\ ~Handling(n)
                    THEN {ReceiveMsgBytes(nd, k) : k \in 0 .. MaxMsg - nd.got}
                           \cup {CloseSocketDisconnect(nd, TRUE)}
                    ELSE {nd}
        sent == IF n \in socket.send
                THEN {SocketSendData(nd, k) : k \in 0 .. nd.nSendSize}
                       \cup {CloseSocketDisconnect(nd, ~Handling(n))}
                ELSE {}
    IN  received \cup sent \cup {[r EXCEPT !.fDisconnect = TRUE] : r \in received \cup sent}

Service(n) ==
    /\ socket.pc = "service" /\ n \in socket.todo
    /\ socket' = [socket EXCEPT !.todo = @ \ {n}, !.recv = @ \ {n}, !.send = @ \ {n}]
    /\ \/ ~node[n].open /\ UNCHANGED node
       \/ node[n].open /\ \E nd \in Served(n) : node' = [node EXCEPT ![n] = nd]
    /\ UNCHANGED <<handler, opener, semOutbound>>

EndService ==
    /\ socket.pc = "service" /\ socket.todo = {}
    /\ node' = WithoutRefs(socket.copy)
    /\ socket' = [socket EXCEPT !.pc = "disconnect", !.copy = {}]
    /\ UNCHANGED <<handler, opener, semOutbound>>

-----------------------------------------------------------------------------
(* ThreadMessageHandler.                                                   *)

StartHandler ==
    /\ handler.pc = "start"
    /\ handler' = [handler EXCEPT !.pc = "poll", !.copy = vNodes, !.todo = vNodes]
    /\ node' = WithRefs(vNodes)
    /\ UNCHANGED <<socket, opener, semOutbound>>

SkipNode(n) ==
    /\ handler.pc = "poll" /\ n \in handler.todo /\ node[n].fDisconnect
    /\ handler' = [handler EXCEPT !.todo = @ \ {n}]
    /\ UNCHANGED <<node, socket, opener, semOutbound>>

LockRecv(n) ==
    /\ handler.pc = "poll" /\ n \in handler.todo /\ ~node[n].fDisconnect
    /\ handler' = [handler EXCEPT !.pc = "receive", !.node = n, !.it = 0, !.todo = @ \ {n}]
    /\ UNCHANGED <<node, socket, opener, semOutbound>>

\* TRY_LOCK fails while the socket thread is receiving from the node.
MissRecv(n) ==
    /\ handler.pc = "poll" /\ n \in handler.todo /\ ~node[n].fDisconnect
    /\ socket.pc = "service" /\ n \in socket.todo
    /\ handler' = [handler EXCEPT !.pc = "send", !.node = n, !.todo = @ \ {n}]
    /\ UNCHANGED <<node, socket, opener, semOutbound>>

\* Mutant: the last message is left for the next turn.
HasNextButLast ==
    LET nd == node[handler.node]
    IN  /\ handler.pc = "receive"
        /\ ~nd.fDisconnect /\ handler.it + 1 < Len(nd.vRecvMsg) /\ nd.nSendSize < SendBuffer

\* The loop of ProcessMessages goes on with the next complete message.
HasNext ==
    LET nd == node[handler.node]
    IN  /\ handler.pc = "receive"
        /\ ~nd.fDisconnect /\ handler.it < Len(nd.vRecvMsg) /\ nd.nSendSize < SendBuffer

\* ProcessMessage: it may answer, find the peer unfit, or ban it.
ProcessMessage ==
    /\ HasNext
    /\ LET n  == handler.node
           nd == [node[n] EXCEPT !.handled = node[n].vRecvMsg[handler.it + 1]]
       IN  node' \in {[node EXCEPT ![n] = r] :
                        r \in {nd, [nd EXCEPT !.nSendSize = @ + 1], [nd EXCEPT !.fDisconnect = TRUE],
                               CloseSocketDisconnect(nd, TRUE)}}
    /\ handler' = [handler EXCEPT !.it = @ + 1]
    /\ UNCHANGED <<socket, opener, semOutbound>>

\* Mutant: one message is erased, whatever was handled.
EraseOne(nd, it) ==
    IF nd.fDisconnect \/ it = 0 THEN nd ELSE [nd EXCEPT !.vRecvMsg = Tail(@)]

\* "In case the connection got shut down, its receive buffer was wiped"
Erase(nd, it) ==
    IF nd.fDisconnect THEN nd
    ELSE [nd EXCEPT !.vRecvMsg = SubSeq(@, it + 1, Len(@))]

EndReceive ==
    /\ handler.pc = "receive" /\ ~HasNext
    /\ node' = [node EXCEPT ![handler.node] = Erase(@, handler.it)]
    /\ handler' = [handler EXCEPT !.pc = "send", !.it = 0]
    /\ UNCHANGED <<socket, opener, semOutbound>>

\* A message that does not begin with pchMessageStart is erased unread and
\* ends the connection.
BadStart ==
    /\ HasNext
    /\ node' = [node EXCEPT ![handler.node] =
                  CloseSocketDisconnect(Erase(@, handler.it + 1), TRUE)]
    /\ handler' = [handler EXCEPT !.pc = "send", !.it = 0]
    /\ UNCHANGED <<socket, opener, semOutbound>>

\* SendMessages may write, and the optimistic write may break the socket.
SendMessages ==
    /\ handler.pc = "send"
    /\ LET n == handler.node
       IN  node' \in {node, [node EXCEPT ![n] = CloseSocketDisconnect(@, TRUE)]}
                       \cup (IF node[n].nSendSize < SendBuffer
                             THEN {[node EXCEPT ![n].nSendSize = @ + 1]} ELSE {})
    /\ handler' = [handler EXCEPT !.pc = "poll", !.node = None]
    /\ UNCHANGED <<socket, opener, semOutbound>>

EndHandler ==
    /\ handler.pc = "poll" /\ handler.todo = {}
    /\ node' = WithoutRefs(handler.copy)
    /\ handler' = [handler EXCEPT !.pc = "start", !.copy = {}]
    /\ UNCHANGED <<socket, opener, semOutbound>>

-----------------------------------------------------------------------------
(* OpenNetworkConnection.                                                  *)

IdleOpener == [pc |-> "idle", addr |-> None, node |-> None, grant |-> FALSE, read |-> 0]

\* Threads wait for a slot; addnode and -connect take none.  No node of the
\* address is known.  A connection by name goes straight to ConnectSocket.
Open(o, a) ==
    /\ opener[o].pc = "idle"
    /\ \A n \in vNodes : node[n].addr # a
    /\ \E grant, byName \in BOOLEAN :
         /\ grant => semOutbound > 0
         /\ semOutbound' = semOutbound - (IF grant THEN 1 ELSE 0)
         /\ opener' = [opener EXCEPT ![o] =
                         [IdleOpener EXCEPT !.pc = IF byName THEN "connect" ELSE "look",
                                            !.addr = a, !.grant = grant]]
    /\ UNCHANGED <<node, socket, handler>>

\* ConnectNode: "Look for an existing connection".  FindNode gives back the
\* lock with the pointer.
Look(o) ==
    /\ opener[o].pc = "look"
    /\ LET found == {n \in vNodes : node[n].addr = opener[o].addr}
       IN  \/ /\ found = {}
              /\ opener' = [opener EXCEPT ![o].pc = "connect"]
              /\ UNCHANGED node
           \/ \E n \in found :
                /\ opener' = [opener EXCEPT ![o].pc = "found", ![o].node = n]
                /\ node' = [node EXCEPT ![n].shared = TRUE]
    /\ UNCHANGED <<socket, handler, semOutbound>>

\* AddRef on what was found, outside cs_vNodes: a load and a store.
LoadRef(o) ==
    /\ opener[o].pc = "found"
    /\ opener' = [opener EXCEPT ![o].pc = "loaded", ![o].read = node[opener[o].node].nRefCount]
    /\ UNCHANGED <<node, socket, handler, semOutbound>>

StoreRef(o) ==
    /\ opener[o].pc = "loaded"
    /\ node' = [node EXCEPT ![opener[o].node].nRefCount = opener[o].read + 1]
    /\ opener' = [opener EXCEPT ![o].pc = "connected", ![o].read = 0]
    /\ UNCHANGED <<socket, handler, semOutbound>>

Connect(o) ==
    /\ opener[o].pc = "connect" /\ CanAllocate
    /\ node' = [node EXCEPT ![NextNode] = Connected(opener[o].addr, FALSE)]
    /\ opener' = [opener EXCEPT ![o].pc = "connected", ![o].node = NextNode]
    /\ UNCHANGED <<socket, handler, semOutbound>>

\* A banned address, or ConnectSocket fails: the grant goes with its scope.
Refuse(o) ==
    /\ opener[o].pc \in {"look", "connect"}
    /\ opener' = [opener EXCEPT ![o] = IdleOpener]
    /\ semOutbound' = semOutbound + (IF opener[o].grant THEN 1 ELSE 0)
    /\ UNCHANGED <<node, socket, handler>>

\* CSemaphoreGrant::MoveTo gives back what the node had.
MoveGrant(o) ==
    /\ opener[o].pc = "connected"
    /\ LET n == opener[o].node
       IN  IF opener[o].grant
           THEN /\ node' = [node EXCEPT ![n].grant = TRUE]
                /\ semOutbound' = semOutbound + (IF node[n].grant THEN 1 ELSE 0)
           ELSE UNCHANGED <<node, semOutbound>>
    /\ opener' = [opener EXCEPT ![o].pc = "moved", ![o].grant = FALSE]
    /\ UNCHANGED <<socket, handler>>

SetNetworkNode(o) ==
    /\ opener[o].pc = "moved"
    /\ node' = [node EXCEPT ![opener[o].node].fNetworkNode = TRUE]
    /\ opener' = [opener EXCEPT ![o] = IdleOpener]
    /\ UNCHANGED <<socket, handler, semOutbound>>
-----------------------------------------------------------------------------
SocketStep ==
    \/ DisconnectNodes \/ DeleteNodes \/ Poll \/ StartService \/ EndService
    \/ \E n \in Node : Service(n)

HandlerStep ==
    \/ StartHandler \/ ProcessMessage \/ EndReceive \/ BadStart \/ SendMessages \/ EndHandler
    \/ \E n \in Node : SkipNode(n) \/ LockRecv(n) \/ MissRecv(n)

OpenerStep(o) ==
    \/ Look(o) \/ LoadRef(o) \/ StoreRef(o) \/ Connect(o) \/ Refuse(o) \/ MoveGrant(o)
    \/ SetNetworkNode(o)
    \/ \E a \in Addr : Open(o, a)

Next == \/ SocketStep
        \/ \E a \in Addr : Accept(a)
        \/ HandlerStep
        \/ \E o \in Opener : OpenerStep(o)

\* A peer that takes nothing of what is queued for it is given up after
\* TIMEOUT_INTERVAL.
SentOrGivenUp(n) ==
    Service(n) /\ (node'[n].nSendSize < node[n].nSendSize \/ node'[n].fDisconnect)

\* Both threads are loops that never wait for a peer.  TRY_LOCK misses only
\* while the other thread is in its few lines at the same node, so that it
\* does not miss for ever.  Nothing is assumed of the openers, which wait
\* for connect(), nor of connections that come in.
Fairness == /\ WF_vars(SocketStep)
            /\ WF_vars(HandlerStep)
            /\ \A n \in Node : SF_vars(LockRecv(n)) /\ SF_vars(SentOrGivenUp(n))

Spec == Init /\ [][Next]_vars /\ Fairness

-----------------------------------------------------------------------------
\* Every variable has its type, and the count of a CNode is the references
\* that are out: one for each thread that has it in its copy, and the first
\* one, which goes when the node leaves vNodes or stays for good when that
\* came before SetNetworkNode.  So GetRefCount's assertion holds.  Only a
\* node that an opener met by FindNode may be miscounted.
RefsCounted ==
    /\ \A n \in Node :
         /\ node[n].at \in {"none", "vNodes", "vNodesDisconnected", "deleted"}
         /\ node[n].addr \in Addr \cup {None}
         /\ node[n].nSendSize \in 0 .. SendBuffer
         /\ node[n].got \in 0 .. MaxMsg
    /\ handler.it \in 0 .. MaxMsg
    /\ \A n \in vNodes \cup vNodesDisconnected : ~node[n].shared =>
         node[n].nRefCount = (IF n \in socket.copy THEN 1 ELSE 0)
                             + (IF n \in handler.copy THEN 1 ELSE 0)
                             + (IF n \in vNodes \/ node[n].kept THEN 1 ELSE 0)

\* The threads that still have a pointer to n.
Using(n) == {t \in {"socket"} : n \in socket.copy} \cup {t \in {"handler"} : n \in handler.copy}
              \cup {o \in Opener : opener[o].node = n}

\* A CNode is deleted only when no thread will look at it again, the opener
\* that made it included, which holds no reference of its own between
\* ConnectNode and fNetworkNode = true.  The exception is a node that an
\* opener met by FindNode.
DeletedUnused ==
    \A n \in Node : node[n].at = "deleted" /\ ~node[n].shared => Using(n) = {}

\* ... as the comment at the deletion says of every node.
WaitsUntilDone == \A n \in Node : node[n].at = "deleted" => Using(n) = {}

\* The slots of semOutbound are free, with an opener, or with a node, none
\* twice and none lost; and a node that is out of vNodes keeps one only if
\* it went before its opener was done with it.
SlotsKept ==
    /\ semOutbound + Cardinality({o \in Opener : opener[o].grant})
         + Cardinality({n \in Node : node[n].grant}) = MaxOutbound
    /\ \A n \in vNodesDisconnected : node[n].grant => node[n].kept \/ node[n].shared

\* The messages of a connection are handled in the order they came, none
\* twice and none left out, whatever the socket thread does meanwhile.
HandledInOrder ==
    [][\A n \in Node : node'[n].handled # node[n].handled =>
                          node'[n].handled = node[n].handled + 1]_vars

\* A complete message is handled in the end, or the connection is given up.
\* The exception is a peer that reads more slowly than the node writes: its
\* buffer fills up and empties for ever, and may be full whenever its
\* messages could be handled.
Answered ==
    \A n \in Node :
      \/ \A k \in 1 .. MaxMsg :
           node[n].got >= k ~> node[n].handled >= k \/ node[n].fDisconnect
      \/ []<>(node[n].nSendSize >= SendBuffer) /\ []<>(node[n].nSendSize < SendBuffer)

\* A disconnected node is deleted in the end, unless it went before its
\* opener had set fNetworkNode or an opener met it by FindNode.
DeletedInTheEnd ==
    \A n \in Node :
      node[n].at = "vNodesDisconnected" /\ ~node[n].kept
        ~> node[n].at = "deleted" \/ node[n].shared
=============================================================================
