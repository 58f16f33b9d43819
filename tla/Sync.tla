-------------------------------- MODULE Sync --------------------------------
(***************************************************************************)
(* How a node gets the blocks of its peers (main.cpp, net.h): getblocks,   *)
(* inv, getdata and block, between one node that downloads and the peers   *)
(* that run the same code and serve it.                                    *)
(*                                                                         *)
(* The blocks are one chain, 0 .. N; the downloading node has 0 .. best    *)
(* and some orphans.  A connection is a queue in each direction and loses  *)
(* nothing.  A peer of Silent answers every message but getdata.           *)
(*                                                                         *)
(* Times are kept as what is left until then; a unit is the two minutes of *)
(* a retry.                                                                *)
(***************************************************************************)
EXTENDS Integers, Sequences

CONSTANTS
    Peer,      \* the peers of the downloading node
    Silent,    \* ... those that never send a block
    N,         \* the last block there will be
    Start,     \* the block the peers have at first
    PoW,       \* proof-of-work blocks; the others are proof-of-bean
    Limit,     \* nLimit: blocks announced in answer to one getblocks
    MaxAsked,  \* the size of mapAlreadyAskedFor
    MaxKnown,  \* the size of setInventoryKnown
    MaxWait,   \* bound: longest wait of a request, in retries
    None

ASSUME SyncAssumption ==
    /\ Silent \subseteq Peer /\ N \in Nat /\ Start \in 1 .. N /\ PoW \subseteq 0 .. N /\ 0 \in PoW
    /\ Limit \in Nat \ {0} /\ MaxAsked \in Nat /\ MaxKnown \in Nat \ {0} /\ MaxWait \in Nat

VARIABLES
    best,               \* height of pindexBest
    mapOrphanBlocks,
    mapAlreadyAskedFor, \* limitedmap, in the order of rmap: [inv, time]
    mapAskFor,          \* [Peer -> sequence of [inv, time], in the order of time]
    lastGetBlocks,      \* [Peer -> pindexLastGetBlocksBegin, hashLastGetBlocksEnd]
    out,                \* [Peer -> messages on their way to it]
    in,                 \* [Peer -> messages on their way from it]
    peer                \* [Peer -> state of the serving node]

\* History: the blocks that mapAlreadyAskedFor has dropped with a request for them
\* still put off.
VARIABLE forgotten

node == <<best, mapOrphanBlocks, mapAlreadyAskedFor, mapAskFor, lastGetBlocks, forgotten>>
vars == <<node, out, in, peer>>

Block == 0 .. N

GetBlocks(b, stop) == [type |-> "getblocks", from |-> b, stop |-> stop]
GetData(s)         == [type |-> "getdata", inv |-> s]
InvMsg(s)          == [type |-> "inv", inv |-> s]
BlockMsg(b)        == [type |-> "block", block |-> b]

Message == [type : {"getblocks"}, from : Block, stop : Block \cup {None}]
             \cup [type : {"getdata", "inv"}, inv : Seq(Block)]
             \cup [type : {"block"}, block : Block]

Request == [inv : Block, time : -1 .. MaxWait]

TypeOK ==
    /\ best \in Block /\ mapOrphanBlocks \subseteq Block /\ forgotten \subseteq Block
    /\ mapAlreadyAskedFor \in Seq(Request) /\ mapAskFor \in [Peer -> Seq(Request)]
    /\ lastGetBlocks \in [Peer -> (Block \cup {None}) \X (Block \cup {None})]
    /\ out \in [Peer -> Seq(Message)] /\ in \in [Peer -> Seq(Message)]
    /\ peer \in [Peer -> [tip : Block, hashContinue : Block \cup {None},
                          setInventoryKnown : Seq(Block), vInventoryToSend : Seq(Block)]]

\* The version messages are exchanged: "Ask the first connected node for
\* block updates".
Init ==
    /\ best = 0 /\ mapOrphanBlocks = {} /\ mapAlreadyAskedFor = <<>> /\ forgotten = {}
    /\ mapAskFor = [p \in Peer |-> <<>>]
    /\ \E first \in Peer :
         /\ lastGetBlocks = [p \in Peer |-> IF p = first THEN <<0, None>> ELSE <<None, None>>]
         /\ out = [p \in Peer |-> IF p = first THEN <<GetBlocks(0, None)>> ELSE <<>>]
    /\ in = [p \in Peer |-> <<>>]
    /\ peer = [p \in Peer |-> [tip |-> Start, hashContinue |-> None,
                               setInventoryKnown |-> <<>>, vInventoryToSend |-> <<>>]]

-----------------------------------------------------------------------------
(* The serving node.                                                       *)

\* A loop over a sequence.  (The choice from one element makes TLC compute
\* the state of the loop once for each turn.)
Loop(Do(_, _), start, s) ==
    LET after[i \in 0 .. Len(s)] ==
          IF i = 0 THEN start ELSE CHOOSE r \in {Do(r0, s[i]) : r0 \in {after[i - 1]}} : TRUE
    IN  after[Len(s)]

Contains(s, b) == \E i \in 1 .. Len(s) : s[i] = b

Known(pr, b) == Contains(pr.setInventoryKnown, b)

\* mruset::insert: the oldest element makes room.
AddInventoryKnown(pr, b) ==
    IF Known(pr, b) THEN pr
    ELSE [pr EXCEPT !.setInventoryKnown =
            Append(IF Len(@) = MaxKnown THEN Tail(@) ELSE @, b)]

PushInventory(pr, b) ==
    IF Known(pr, b) THEN pr ELSE [pr EXCEPT !.vInventoryToSend = Append(@, b)]

PushAll(pr, s) == Loop(PushInventory, pr, s)

Lesser(a, b) == IF a < b THEN a ELSE b
From(a, b) == [i \in 1 .. (IF a <= b THEN b - a + 1 ELSE 0) |-> a + i - 1]

\* AcceptBlock: a block that its peers do not know of is announced.
NewBlock(p) ==
    /\ peer[p].tip < N
    /\ peer' = [peer EXCEPT ![p] =
                  PushInventory([@ EXCEPT !.tip = @ + 1], peer[p].tip + 1)]
    /\ UNCHANGED <<node, out, in>>

\* "getblocks": the blocks after the last one in common, up to the limit,
\* whose last one is remembered, or up to hashStop; then, if that is recent,
\* the best block too.
OnGetBlocks(p) ==
    /\ out[p] # <<>> /\ Head(out[p]).type = "getblocks"
    /\ LET m     == Head(out[p])
           pr    == peer[p]
           a     == Lesser(m.from, pr.tip)
           stops == m.stop # None /\ m.stop \in a + 1 .. Lesser(a + Limit, pr.tip)
           some  == PushAll(pr, From(a + 1, IF stops THEN m.stop - 1 ELSE Lesser(a + Limit, pr.tip)))
       IN  \/ /\ stops
              /\ peer' \in {[peer EXCEPT ![p] = some]}
                     \cup (IF m.stop # pr.tip THEN {[peer EXCEPT ![p] = PushInventory(some, pr.tip)]}
                                              ELSE {})
           \/ /\ ~stops
              /\ peer' = [peer EXCEPT ![p] =
                            [some EXCEPT !.hashContinue = IF a + Limit <= pr.tip THEN a + Limit ELSE @]]
    /\ out' = [out EXCEPT ![p] = Tail(@)]
    /\ UNCHANGED <<node, in>>

\* GetLastBlockIndex(pindexBest, false)
LastPoW(tip) == CHOOSE b \in PoW : b <= tip /\ \A c \in PoW : c <= tip => c <= b

\* Mutant: without the trigger.
AnswerAlone(pr, b) == <<BlockMsg(b)>>

\* "Trigger them to send a getblocks request for the next batch of inventory"
Answer(pr, b) ==
    IF b = pr.hashContinue THEN <<BlockMsg(b), InvMsg(<<LastPoW(pr.tip)>>)>> ELSE <<BlockMsg(b)>>

OnGetData(p) ==
    /\ out[p] # <<>> /\ Head(out[p]).type = "getdata"
    /\ LET known == SelectSeq(Head(out[p]).inv, LAMBDA b : b <= peer[p].tip)
           Serve(r, b) ==
             [in |-> r.in \o Answer(r.pr, b),
              pr |-> [r.pr EXCEPT !.hashContinue = IF @ = b THEN None ELSE @]]
       IN  IF p \in Silent THEN UNCHANGED <<in, peer>>
           ELSE \E r \in {Loop(Serve, [in |-> in[p], pr |-> peer[p]], known)} :
                  in' = [in EXCEPT ![p] = r.in] /\ peer' = [peer EXCEPT ![p] = r.pr]
    /\ out' = [out EXCEPT ![p] = Tail(@)]
    /\ UNCHANGED node

\* SendMessages: what the other side does not know yet.
SendInv(p) ==
    /\ peer[p].vInventoryToSend # <<>>
    /\ LET pr == [peer[p] EXCEPT !.vInventoryToSend = <<>>]
           One(r, b) == IF Known(r.pr, b) THEN r
                        ELSE [pr |-> AddInventoryKnown(r.pr, b), inv |-> Append(r.inv, b)]
       IN  \E sent \in {Loop(One, [pr |-> pr, inv |-> <<>>], peer[p].vInventoryToSend)} :
             /\ in' = [in EXCEPT ![p] = IF sent.inv = <<>> THEN @ ELSE Append(@, InvMsg(sent.inv))]
             /\ peer' = [peer EXCEPT ![p] = sent.pr]
    /\ UNCHANGED <<node, out>>

-----------------------------------------------------------------------------
(* The downloading node.  A handler works on the state of the node as it is *)
(* towards one peer: d.                                                     *)

View(p) == [best |-> best, orphans |-> mapOrphanBlocks, asked |-> mapAlreadyAskedFor,
            ask |-> mapAskFor[p], last |-> lastGetBlocks[p], sent |-> <<>>, dropped |-> {}]

PutOff(b, ask) == \E p \in Peer : \E i \in 1 .. Len(ask[p]) : ask[p][i].inv = b /\ ask[p][i].time > 0

Become(p, d) ==
    /\ \A i \in 1 .. Len(d.ask) : d.ask[i].time <= MaxWait
    /\ best' = d.best /\ mapOrphanBlocks' = d.orphans /\ mapAlreadyAskedFor' = d.asked
    /\ mapAskFor' = [mapAskFor EXCEPT ![p] = d.ask]
    /\ lastGetBlocks' = [lastGetBlocks EXCEPT ![p] = d.last]
    /\ out' = [out EXCEPT ![p] = @ \o d.sent]
    /\ forgotten' = {b \in forgotten \cup d.dropped : PutOff(b, mapAskFor')}

Have(d, b) == b <= d.best \/ b \in d.orphans

\* "Filter out duplicate requests"
PushGetBlocks(d, begin, end) ==
    IF d.last = <<begin, end>> THEN d
    ELSE [d EXCEPT !.last = <<begin, end>>, !.sent = Append(@, GetBlocks(begin, end))]

\* An entry goes behind those of the same time.
Insert(s, e) ==
    SelectSeq(s, LAMBDA f : f.time <= e.time) \o <<e>> \o SelectSeq(s, LAMBDA f : f.time > e.time)

Without(s, b) == SelectSeq(s, LAMBDA f : f.inv # b)

Remembered(asked, b) == \E i \in 1 .. Len(asked) : asked[i].inv = b

\* limitedmap::update, and insert: the least value makes room when the map is
\* full with the new one, which is not looked at; a key that is there stays.
Updated(s, e) == Insert(Without(s, e.inv), e)
Full(s) == Len(s) + 1 = MaxAsked
Inserted(s, e) == IF Remembered(s, e.inv) THEN s ELSE Insert(IF Full(s) THEN Tail(s) ELSE s, e)

\* "Each retry is 2 minutes after the last"
AskedAt(asked, b) ==
    LET old == SelectSeq(asked, LAMBDA f : f.inv = b)
    IN  IF old # <<>> /\ old[1].time + 1 > 0 THEN old[1].time + 1 ELSE 0

\* Mutant: the time of a retry is not remembered.
AskForInsert(d, b) ==
    LET e == [inv |-> b, time |-> AskedAt(d.asked, b)]
    IN  [d EXCEPT !.asked = Inserted(@, e),
                  !.ask = Insert(@, e),
                  !.dropped = IF ~Remembered(d.asked, b) /\ Full(d.asked) THEN @ \cup {Head(d.asked).inv} ELSE @]

AskFor(d, b) ==
    LET e == [inv |-> b, time |-> AskedAt(d.asked, b)]
    IN  [d EXCEPT !.asked = IF Remembered(@, b) THEN Updated(@, e) ELSE Inserted(@, e),
                  !.ask = Insert(@, e),
                  !.dropped = IF ~Remembered(d.asked, b) /\ Full(d.asked) THEN @ \cup {Head(d.asked).inv} ELSE @]

\* GetOrphanRoot, WantedByOrphan
OrphanRoot(d, b) == CHOOSE r \in d.orphans :
    r <= b /\ (\A c \in r .. b : c \in d.orphans) /\ r - 1 \notin d.orphans

OnInv(p) ==
    /\ in[p] # <<>> /\ Head(in[p]).type = "inv"
    /\ LET inv == Head(in[p]).inv
           One(d, i) ==
             LET b == inv[i]
             IN  IF ~Have(d, b) THEN AskFor(d, b)
                 ELSE IF b \in d.orphans THEN PushGetBlocks(d, d.best, OrphanRoot(d, b))
                 ELSE IF i = Len(inv) THEN PushGetBlocks(d, b, None)
                 ELSE d
       IN  \E d \in {Loop(One, View(p), [i \in 1 .. Len(inv) |-> i])} : Become(p, d)
    /\ in' = [in EXCEPT ![p] = Tail(@)]
    /\ UNCHANGED peer

\* ProcessBlock: an orphan makes the node ask for what is missing before it,
\* and for its root's parent when the download is over (fInitial is
\* IsInitialBlockDownload()); any other block brings the orphans after it.
ProcessBlock(d, b, fInitial) ==
    IF b > d.best + 1
    THEN LET o == [d EXCEPT !.orphans = @ \cup {b}]
             r == OrphanRoot(o, b)
             g == PushGetBlocks(o, d.best, r)
         IN  IF fInitial THEN g ELSE AskFor(g, r - 1)
    ELSE LET top == CHOOSE t \in b .. N :
                      t + 1 \notin d.orphans /\ \A c \in b + 1 .. t : c \in d.orphans
         IN  [d EXCEPT !.best = top, !.orphans = {c \in @ : c > top}]

OnBlock(p) ==
    /\ in[p] # <<>> /\ Head(in[p]).type = "block"
    /\ LET b == Head(in[p]).block
       IN  IF Have(View(p), b)
           THEN UNCHANGED <<node, out>>
           ELSE \E d \in {ProcessBlock(View(p), b, fInitial) : fInitial \in BOOLEAN} :
                  Become(p, [d EXCEPT !.asked = Without(@, b)])
    /\ in' = [in EXCEPT ![p] = Tail(@)]
    /\ UNCHANGED peer

\* SendMessages: the requests whose time has come.
SendGetData(p) ==
    /\ mapAskFor[p] # <<>> /\ mapAskFor[p][1].time <= 0
    /\ LET due  == SelectSeq(mapAskFor[p], LAMBDA e : e.time <= 0)
           want == SelectSeq([i \in 1 .. Len(due) |-> due[i].inv], LAMBDA b : ~Have(View(p), b))
       IN  /\ out' = [out EXCEPT ![p] = IF want = <<>> THEN @ ELSE Append(@, GetData(want))]
           /\ mapAskFor' = [mapAskFor EXCEPT ![p] = SelectSeq(@, LAMBDA e : e.time > 0)]
    /\ UNCHANGED <<best, mapOrphanBlocks, mapAlreadyAskedFor, lastGetBlocks, forgotten, in, peer>>

\* Two minutes pass.  A time long gone by makes no difference to AskFor.
Earlier(s, least) == [i \in 1 .. Len(s) |->
                        [s[i] EXCEPT !.time = IF @ - 1 < least THEN least ELSE @ - 1]]

Tick ==
    /\ mapAlreadyAskedFor' = Earlier(mapAlreadyAskedFor, -1)
    /\ mapAskFor' = [p \in Peer |-> Earlier(mapAskFor[p], 0)]
    /\ forgotten' = {b \in forgotten : PutOff(b, mapAskFor')}
    /\ UNCHANGED <<best, mapOrphanBlocks, lastGetBlocks, out, in, peer>>

Next == \/ \E p \in Peer : \/ NewBlock(p) \/ OnGetBlocks(p) \/ OnGetData(p) \/ SendInv(p)
                           \/ OnInv(p) \/ OnBlock(p) \/ SendGetData(p)
        \/ Tick

\* The loops of both nodes go on, and time passes.  New blocks are found
\* where the constants leave room for them.
Fairness ==
    /\ \A p \in Peer : /\ WF_vars(OnGetBlocks(p)) /\ WF_vars(OnGetData(p)) /\ WF_vars(SendInv(p))
                       /\ WF_vars(OnInv(p)) /\ WF_vars(OnBlock(p)) /\ WF_vars(SendGetData(p))
                       /\ WF_vars(NewBlock(p))
    /\ WF_vars(Tick)

Spec == Init /\ [][Next]_vars /\ Fairness

-----------------------------------------------------------------------------
\* The node has all the blocks there are in the end, though a peer it asks
\* may never send one, requests are put off while another one is out, and
\* both nodes leave out what they take for repetitions.  (Where proof-of-work
\* blocks are never more than a batch behind.)
Downloaded == <>(best = N)

\* "When this block is requested, we'll send an inv that'll make them
\* getblocks the next batch of inventory": the download goes past it.
NextBatch ==
    \A p \in Peer \ Silent, b \in 1 .. Start - 1 :
      peer[p].hashContinue = b ~> best > b

\* "Each retry is 2 minutes after the last": whoever announces a block, how often,
\* and whatever is asked for in between, no two requests for it are put off to the
\* same time, and none to a later one than is remembered; until the map, at its
\* limit, has dropped the block.  (And every variable keeps its type.)
RetriesSpaced ==
    /\ TypeOK
    /\ \A p, q \in Peer : \A i \in 1 .. Len(mapAskFor[p]), j \in 1 .. Len(mapAskFor[q]) :
         LET e == mapAskFor[p][i]
             f == mapAskFor[q][j]
         IN  e.time > 0 /\ e.inv = f.inv /\ ~Have(View(p), e.inv) /\ e.inv \notin forgotten
             => /\ <<p, i>> # <<q, j>> => e.time # f.time
                /\ \E k \in 1 .. Len(mapAlreadyAskedFor) :
                     mapAlreadyAskedFor[k].inv = e.inv /\ mapAlreadyAskedFor[k].time >= e.time
=============================================================================
