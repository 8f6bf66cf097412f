-------------------------------- MODULE EthRx --------------------------------
(* Receiving Ethernet frames: the receive descriptor ring filled by the      *)
(* MAC's DMA engine and emptied by tivaif_receive, and the pbufs that go     *)
(* from lwIP's pool into the ring, with a frame to lwIP, and back.           *)
(*                                                                           *)
(* A frame of full size takes two pbufs: PBUF_POOL_BUFSIZE is 1516 bytes, a  *)
(* frame with its checksum 1518.  Interrupt and task are modelled in EthTx;  *)
(* here a call of tivaif_receive follows an interrupt.                       *)
EXTENDS Integers, Sequences, FiniteSets

CONSTANTS
    NumDescs,       \* NUM_RX_DESCRIPTORS (4)
    PoolSize,       \* PBUF_POOL_SIZE (16)
    MaxSegs,        \* pbufs a frame may need
    FrameErrors,    \* whether frames may arrive damaged
    MaxFrames       \* bound: frames on the network

ASSUME RxDescsAssumption == NumDescs \in Nat \ {0} /\ PoolSize \in Nat /\ PoolSize >= NumDescs
ASSUME RxBoundsAssumption == MaxSegs \in Nat \ {0} /\ MaxFrames \in Nat /\ FrameErrors \in BOOLEAN

VARIABLES
    ring,           \* g_pRxDescriptors: OWN, pBuf, LAST_DESC, ERR
    Read,           \* ui32Read
    hw,             \* the descriptor the DMA engine is at
    incoming,       \* the frame it is storing: number, segment, segments
    frames,         \* frames seen
    body,           \* what a pbuf holds: a segment of a frame
    pool,           \* pbufs in lwIP's pool
    stack,          \* chains lwIP holds
    raised,         \* a receive interrupt is due
    rx,             \* where tivaif_receive is
    ui32DescEnd,    \* its local variable
    chain,          \* pBuf: the pbufs of the frame it is putting together
    freed,          \* pBuf points to a frame that was freed
    delivered,      \* history: contents of the last chain handed to lwIP
    split           \* history: a call ended inside a frame

dmaVars == <<hw, incoming, frames>>
vars == <<ring, Read, dmaVars, body, pool, stack, raised, rx, ui32DescEnd, chain, freed, delivered, split>>

Descs == 0..(NumDescs - 1)
Pbufs == 1..PoolSize
NoBuf == 0
Nothing == [frame |-> 0, seg |-> 0, of |-> 0]
Segments == [frame : 0..MaxFrames, seg : 0..MaxSegs, of : 0..MaxSegs]

(* The next descriptor, taking care to wrap.  Mutation: one too late.        *)
AfterLate(d) == IF d = NumDescs THEN 0 ELSE d + 1

After(d) == IF d + 1 = NumDescs THEN 0 ELSE d + 1
Elements(s) == {s[i] : i \in DOMAIN s}
Contents(c) == [i \in DOMAIN c |-> body[c[i]]]

Armed(b) == [own |-> TRUE, buf |-> b, last |-> FALSE, err |-> FALSE]

(* InitDMADescriptors.                                                       *)
Init ==
    /\ ring = [d \in Descs |-> Armed(d + 1)]
    /\ Read = 0 /\ hw = 0 /\ incoming = Nothing /\ frames = 0
    /\ body = [b \in Pbufs |-> Nothing]
    /\ pool = Pbufs \ (1..NumDescs) /\ stack = {}
    /\ raised = FALSE /\ rx = "idle" /\ ui32DescEnd = 0
    /\ chain = <<>> /\ freed = FALSE /\ delivered = <<>> /\ split = FALSE

----------------------------------------------------------------------------
(* The MAC: frames come in; each segment fills the pbuf of one descriptor    *)
(* and hands the descriptor to the driver.  A frame that finds no descriptor *)
(* is missed, the rest of one waits in the MAC, and the driver is told.      *)

FrameComesIn ==
    /\ incoming = Nothing /\ frames < MaxFrames
    /\ frames' = frames + 1
    /\ \E n \in 1..MaxSegs : incoming' = [frame |-> frames', seg |-> 1, of |-> n]
    /\ UNCHANGED <<ring, Read, hw, body, pool, stack, raised, rx, ui32DescEnd, chain, freed, delivered, split>>

NoDescriptor ==
    /\ incoming # Nothing /\ ~ring[hw].own
    /\ raised' = TRUE
    /\ incoming' = IF incoming.seg = 1 THEN Nothing ELSE incoming
    /\ UNCHANGED <<ring, Read, hw, frames, body, pool, stack, rx, ui32DescEnd, chain, freed, delivered, split>>

DmaStore ==
    /\ incoming # Nothing /\ ring[hw].own
    /\ body' = [body EXCEPT ![ring[hw].buf] = incoming]
    /\ hw' = After(hw)
    /\ LET last == incoming.seg = incoming.of
       IN  /\ \E err \in {e \in BOOLEAN : e => FrameErrors /\ last} :
                ring' = [ring EXCEPT ![hw] = [@ EXCEPT !.own = FALSE, !.last = last, !.err = err]]
           /\ incoming' = IF last THEN Nothing ELSE [incoming EXCEPT !.seg = @ + 1]
           /\ raised' = (raised \/ last)
    /\ UNCHANGED <<Read, frames, pool, stack, rx, ui32DescEnd, chain, freed, delivered, split>>

(* lwIP is done with a frame.  Its thread has the lower priority and does    *)
(* not run while tivaif_receive does.                                        *)
StackFrees ==
    /\ rx = "idle"
    /\ \E c \in stack : stack' = stack \ {c} /\ pool' = pool \cup Elements(c)
    /\ UNCHANGED <<ring, Read, dmaVars, body, raised, rx, ui32DescEnd, chain, freed, delivered, split>>

----------------------------------------------------------------------------
(* tivaif_receive.                                                           *)

Interrupt ==
    /\ rx = "idle" /\ raised
    /\ raised' = FALSE
    /\ rx' = "called"
    /\ UNCHANGED <<ring, Read, dmaVars, body, pool, stack, ui32DescEnd, chain, freed, delivered, split>>

Enter ==
    /\ rx = "called"
    /\ rx' = "walk"
    /\ ui32DescEnd' = IF Read = 0 THEN NumDescs - 1 ELSE Read - 1
    /\ chain' = <<>>
    /\ freed' = FALSE
    /\ UNCHANGED <<ring, Read, dmaVars, body, pool, stack, raised, delivered, split>>

Pbuf == ring[Read].buf
Filled == Pbuf # NoBuf /\ ~ring[Read].own

Leave == rx' = "idle" /\ split' = (split \/ (chain' # <<>> /\ ~freed'))

(* The walk ends at the last descriptor of the round, or at one the DMA      *)
(* engine owns.                                                              *)
Finish ==
    /\ rx = "walk"
    /\ Read = ui32DescEnd \/ (Pbuf # NoBuf /\ ring[Read].own)
    /\ UNCHANGED <<chain, freed>>
    /\ Leave
    /\ UNCHANGED <<ring, Read, dmaVars, body, pool, stack, raised, ui32DescEnd, delivered>>

(* A descriptor gets a new pbuf and goes back to the DMA engine, or none is  *)
(* left and the walk ends here.                                              *)
(* Mutations: a descriptor that gets none is passed over, or keeps its pbuf. *)
RearmPassOver(free) ==
    \/ \E b \in free :
        /\ ring' = [ring EXCEPT ![Read] = Armed(b)]
        /\ pool' = free \ {b}
        /\ Read' = After(Read)
        /\ UNCHANGED <<rx, split>>
    \/ /\ free = {}
       /\ ring' = [ring EXCEPT ![Read].buf = NoBuf]
       /\ pool' = free
       /\ Read' = After(Read)
       /\ Leave

RearmSame(free) ==
    \/ \E b \in free :
        /\ ring' = [ring EXCEPT ![Read] = Armed(b)]
        /\ pool' = free \ {b}
        /\ Read' = After(Read)
        /\ UNCHANGED <<rx, split>>
    \/ /\ free = {}
       /\ ring' = [ring EXCEPT ![Read] = Armed(Pbuf)]
       /\ pool' = free
       /\ Read' = After(Read)
       /\ UNCHANGED <<rx, split>>

Rearm(free) ==
    \/ \E b \in free :
        /\ ring' = [ring EXCEPT ![Read] = Armed(b)]
        /\ pool' = free \ {b}
        /\ Read' = After(Read)
        /\ UNCHANGED <<rx, split>>
    \/ /\ free = {}
       /\ ring' = [ring EXCEPT ![Read].buf = NoBuf]
       /\ pool' = free
       /\ UNCHANGED Read
       /\ Leave

(* One descriptor.  Its pbuf is linked to those of the frame so far.         *)
Walking == rx = "walk" /\ Read # ui32DescEnd
Linked == Append(chain, Pbuf)
WalkRest == UNCHANGED <<dmaVars, body, raised, ui32DescEnd>>

RefillEmpty ==
    /\ Walking /\ Pbuf = NoBuf
    /\ chain' = chain
    /\ UNCHANGED <<stack, freed, delivered>>
    /\ Rearm(pool)
    /\ WalkRest

TakeSegment ==
    /\ Walking /\ Filled /\ ~freed /\ ~ring[Read].last
    /\ chain' = Linked
    /\ UNCHANGED <<stack, freed, delivered>>
    /\ Rearm(pool)
    /\ WalkRest

(* A damaged frame is freed; pBuf goes on pointing to it.                    *)
DiscardFrame ==
    /\ Walking /\ Filled /\ ~freed /\ ring[Read].last /\ ring[Read].err
    /\ chain' = Linked
    /\ freed' = TRUE
    /\ UNCHANGED <<stack, delivered>>
    /\ Rearm(pool \cup Elements(Linked))
    /\ WalkRest

(* A good one goes to tcpip_input, which may have no room for it.            *)
(* Mutations: the next frame is linked to this one; a refused one is kept.   *)
GoodFrameLinked ==
    /\ Walking /\ Filled /\ ~freed /\ ring[Read].last /\ ~ring[Read].err
    /\ UNCHANGED freed
    /\ chain' = Linked
    /\ delivered' = Contents(Linked)
    /\ stack' = stack \cup {Linked}
    /\ Rearm(pool)
    /\ WalkRest

GoodFrameKept ==
    /\ Walking /\ Filled /\ ~freed /\ ring[Read].last /\ ~ring[Read].err
    /\ UNCHANGED freed
    /\ chain' = <<>>
    /\ \/ stack' = stack \cup {Linked} /\ delivered' = Contents(Linked)
       \/ UNCHANGED <<stack, delivered>>
    /\ Rearm(pool)
    /\ WalkRest

GoodFrame ==
    /\ Walking /\ Filled /\ ~freed /\ ring[Read].last /\ ~ring[Read].err
    /\ UNCHANGED freed
    /\ chain' = <<>>
    /\ \/ /\ stack' = stack \cup {Linked}
          /\ delivered' = Contents(Linked)
          /\ Rearm(pool)
       \/ /\ UNCHANGED <<stack, delivered>>
          /\ Rearm(pool \cup Elements(Linked))
    /\ WalkRest

(* The next pbuf is linked to a frame that was freed.  What lwIP's lists are *)
(* from here on is undefined, and the model ends.                            *)
UseFreed ==
    /\ Walking /\ Filled /\ freed
    /\ rx' = "undefined"
    /\ UNCHANGED <<ring, Read, pool, stack, chain, freed, delivered, split>> /\ WalkRest

Receive == UseFreed \/ Interrupt \/ Enter \/ Finish \/ RefillEmpty \/ TakeSegment \/ DiscardFrame \/ GoodFrame

----------------------------------------------------------------------------
Next == FrameComesIn \/ NoDescriptor \/ DmaStore \/ StackFrees \/ Receive

Spec == Init /\ [][Next]_vars

----------------------------------------------------------------------------
RingBufs == {ring[d].buf : d \in Descs} \ {NoBuf}
StackBufs == UNION {Elements(c) : c \in stack}

(* Type invariant.                                                           *)
TypeOK ==
    /\ ring \in [Descs -> [own : BOOLEAN, buf : 0..PoolSize, last : BOOLEAN, err : BOOLEAN]]
    /\ {Read, hw, ui32DescEnd} \subseteq Descs
    /\ incoming \in Segments /\ frames \in 0..MaxFrames
    /\ body \in [Pbufs -> Segments]
    /\ pool \subseteq Pbufs /\ Elements(chain) \subseteq Pbufs
    /\ rx \in {"idle", "called", "walk", "undefined"}
    /\ {raised, freed, split} \subseteq BOOLEAN

(* What lwIP is handed is one frame, all of it, in order, as long as no call *)
(* ended with the first part of a frame in hand.                             *)
DeliveredWhole ==
    ~split => /\ \A i \in DOMAIN delivered : delivered[i].seg = i /\ delivered[i].frame = delivered[1].frame
              /\ delivered # <<>> => delivered[1].of = Len(delivered)

(* Frames reach lwIP in the order in which they arrived, none of them twice, *)
(* also around the times when the pool is empty and a descriptor is left     *)
(* without a pbuf.                                                           *)
DeliveredInOrder ==
    [][delivered' # delivered /\ delivered # <<>> => delivered'[1].frame > delivered[1].frame]_vars

(* The DMA engine writes only into pbufs of the ring, and a pbuf of the ring *)
(* is in no other hands and in no other descriptor.                          *)
RingExclusive ==
    /\ \A d \in Descs : ring[d].own => ring[d].buf # NoBuf
    /\ \A c, d \in Descs : ring[c].buf = ring[d].buf /\ ring[c].buf # NoBuf => c = d
    /\ RingBufs \cap (pool \cup StackBufs) = {}

(* No pbuf gets lost, as long as no call ended inside a frame.               *)
NoPbufLost == ~split => pool \cup RingBufs \cup StackBufs \cup Elements(chain) = Pbufs

(* "This is a bad frame so discard it": the frame a further pbuf is about to *)
(* be linked to has not been given back to the pool.                         *)
BadFrameDiscarded ==
    Walking /\ Filled => Elements(chain) \cap (pool \cup RingBufs) = {}
=============================================================================
