----------------------------- MODULE EthRxProofs -----------------------------
(* The receive ring, the pbufs and the frames lwIP is handed, proved for     *)
(* every size of the ring and of the pool and every number and length of     *)
(* frames.                                                                   *)
EXTENDS EthRx, SequenceTheorems, TLAPS

----------------------------------------------------------------------------
(* Whose pbufs are whose.                                                    *)

Types ==
    /\ ring \in [Descs -> [own : BOOLEAN, buf : 0..PoolSize, last : BOOLEAN, err : BOOLEAN]]
    /\ Read \in Descs /\ hw \in Descs /\ ui32DescEnd \in Descs
    /\ incoming \in Segments /\ incoming.seg <= incoming.of /\ frames \in 0..MaxFrames
    /\ body \in [Pbufs -> Segments]
    /\ pool \subseteq Pbufs /\ chain \in Seq(Pbufs) /\ stack \subseteq Seq(Pbufs)
    /\ rx \in {"idle", "called", "walk", "undefined"}
    /\ raised \in BOOLEAN /\ freed \in BOOLEAN /\ split \in BOOLEAN

(* The pbufs of the frame being put together, which belong to nobody else    *)
(* unless the frame was freed.                                               *)
Live == IF freed THEN {} ELSE Elements(chain)

(* Nobody has a pbuf that somebody else has.                                 *)
Exclusive ==
    /\ \A d \in Descs : ring[d].own => ring[d].buf # NoBuf
    /\ \A c, d \in Descs : ring[c].buf = ring[d].buf /\ ring[c].buf # NoBuf => c = d
    /\ \A d \in Descs : ring[d].buf \notin pool /\ ring[d].buf \notin StackBufs /\ ring[d].buf \notin Live
    /\ pool \cap StackBufs = {} /\ pool \cap Live = {} /\ StackBufs \cap Live = {}
    /\ \A c, e \in stack : c # e => Elements(c) \cap Elements(e) = {}

(* Everybody together has all of them, unless a call ended inside a frame.   *)
Complete ==
    ~split => /\ pool \cup RingBufs \cup StackBufs \cup Live = Pbufs
              /\ rx # "walk" => Live = {}

Owned == Types /\ Exclusive /\ Complete

----------------------------------------------------------------------------
(* What is in the pbufs.                                                     *)

At(r, i) == IF r + i < NumDescs THEN r + i ELSE r + i - NumDescs
Desc(i) == ring[At(Read, i)]

(* From the read index on come the descriptors the driver has to look at,    *)
(* the first of them perhaps without a pbuf, then those of the DMA engine.   *)
Laid(count) ==
    /\ hw = At(Read, count)
    /\ \A i \in Descs : Desc(i).own <=> i >= count
    /\ \A i \in Descs : i > 0 => Desc(i).buf # NoBuf

(* What was stored there, and, behind it, what comes in.                     *)
First == IF Desc(0).buf = NoBuf THEN 1 ELSE 0
Line(count, i) == IF i = count THEN incoming ELSE body[Desc(i).buf]

Successor(x) == [x EXCEPT !.seg = @ + 1]

(* What can come after a segment; Nothing if there is nothing yet.           *)
Follows(x, y) == IF x.seg < x.of THEN y = Successor(x) ELSE y = Nothing \/ y.seg = 1

Whole(x) == x.frame \in 1..frames /\ x.seg \in 1..x.of

InOrder(count) ==
    /\ incoming = Nothing \/ Whole(incoming)
    /\ \A i \in First..(count - 1) :
        /\ Whole(Line(count, i))
        /\ Desc(i).last <=> Line(count, i).seg = Line(count, i).of
        /\ Follows(Line(count, i), Line(count, i + 1))
        /\ \A j \in (i + 1)..count : Line(count, j) # Nothing =>
            IF Desc(i).last THEN Line(count, i).frame < Line(count, j).frame
                            ELSE Line(count, i).frame <= Line(count, j).frame

(* The frame being put together is the first part of one, and goes on with   *)
(* what comes next.                                                          *)
Assembling(count) ==
    IF chain = <<>> \/ freed
    THEN ~split => Line(count, First) = Nothing \/ Line(count, First).seg = 1
    ELSE /\ ~split => body[chain[1]].seg = 1
         /\ \A n \in DOMAIN chain :
             /\ Whole(body[chain[n]]) /\ body[chain[n]].seg < body[chain[n]].of
             /\ body[chain[n]] = [body[chain[1]] EXCEPT !.seg = @ + n - 1]
         /\ Follows(body[chain[Len(chain)]], Line(count, First))

(* Everything on its way to lwIP is of a later frame than what it got last.  *)
Later(count) ==
    /\ delivered \in Seq(Segments)
    /\ delivered # <<>> =>
        /\ delivered[1].frame <= frames
        /\ \A i \in First..count : Line(count, i) # Nothing => Line(count, i).frame > delivered[1].frame
        /\ ~freed => \A n \in DOMAIN chain : body[chain[n]].frame > delivered[1].frame

Stored(count) == Laid(count) /\ First <= count /\ InOrder(count) /\ Assembling(count) /\ Later(count)

IInv == Owned /\ DeliveredWhole /\ \E count \in 0..NumDescs : Stored(count)
----------------------------------------------------------------------------
(* Every pbuf in one place.                                                  *)

LEMMA ElementsFacts ==
    /\ Elements(<<>>) = {}
    /\ \A c \in Seq(Pbufs) : Elements(c) \subseteq Pbufs
    /\ \A c \in Seq(Pbufs), b \in Pbufs :
        Append(c, b) \in Seq(Pbufs) /\ Elements(Append(c, b)) = Elements(c) \cup {b}
<1>1. Elements(<<>>) = {}
  BY DEF Elements
<1>2. ASSUME NEW c \in Seq(Pbufs) PROVE Elements(c) \subseteq Pbufs
  BY DEF Elements
<1>3. ASSUME NEW c \in Seq(Pbufs), NEW b \in Pbufs
      PROVE  Append(c, b) \in Seq(Pbufs) /\ Elements(Append(c, b)) = Elements(c) \cup {b}
  <2>1. /\ Append(c, b) \in Seq(Pbufs) /\ Len(Append(c, b)) = Len(c) + 1
        /\ \A i \in 1..Len(c) : Append(c, b)[i] = c[i]
        /\ Append(c, b)[Len(c) + 1] = b
    BY AppendProperties
  <2>2. /\ DOMAIN c = 1..Len(c) /\ Len(c) \in Nat
        /\ DOMAIN Append(c, b) = 1..(Len(c) + 1)
    BY <2>1
  <2>3. ASSUME NEW x \in Elements(Append(c, b)) PROVE x \in Elements(c) \cup {b}
    BY <2>1, <2>2 DEF Elements
  <2>4. ASSUME NEW x \in Elements(c) \cup {b} PROVE x \in Elements(Append(c, b))
    <3>1. CASE x = b
      <4>1. Len(c) + 1 \in DOMAIN Append(c, b)
        BY <2>2
      <4>. QED
        BY <2>1, <3>1, <4>1 DEF Elements
    <3>2. CASE x \in Elements(c)
      <4>1. PICK i \in DOMAIN c : x = c[i]
        BY <3>2 DEF Elements
      <4>2. i \in DOMAIN Append(c, b) /\ Append(c, b)[i] = x
        BY <2>1, <2>2, <4>1
      <4>. QED
        BY <4>2 DEF Elements
    <3>. QED
      BY <2>4, <3>1, <3>2
  <2>. QED
    BY <2>1, <2>3, <2>4
<1>. QED
  BY <1>1, <1>2, <1>3

LEMMA BufsAre ==
    /\ \A b : b \in StackBufs <=> \E c \in stack : b \in Elements(c)
    /\ \A b : b \in RingBufs <=> b # NoBuf /\ \E d \in Descs : ring[d].buf = b
BY DEF StackBufs, RingBufs

(* What moves no pbuf.                                                       *)
LEMMA KeepsOwned ==
    ASSUME Owned, Types',
           \A d \in Descs : ring'[d].buf = ring[d].buf /\ (ring'[d].own => ring[d].own),
           UNCHANGED <<pool, stack, chain, freed>>,
           ~split' => ~split /\ (rx' # "walk" => Live = {})
    PROVE  Owned'
<1>1. RingBufs' = RingBufs /\ StackBufs' = StackBufs /\ Live' = Live
  BY DEF RingBufs, StackBufs, Live
<1>2. Exclusive'
  BY <1>1 DEF Owned, Exclusive
<1>3. Complete'
  BY <1>1 DEF Owned, Complete
<1>. QED
  BY <1>2, <1>3 DEF Owned

(* A descriptor gives its pbuf away and gets a free one, or none.            *)
LEMMA RearmCases ==
    ASSUME NEW free, Rearm(free)
    PROVE  \/ \E b \in free :
                /\ ring' = [ring EXCEPT ![Read] = Armed(b)] /\ pool' = free \ {b}
                /\ Read' = After(Read) /\ UNCHANGED <<rx, split>>
           \/ /\ free = {} /\ ring' = [ring EXCEPT ![Read].buf = NoBuf] /\ pool' = {}
              /\ Read' = Read /\ rx' = "idle" /\ split' = (split \/ (chain' # <<>> /\ ~freed'))
BY DEF Rearm, Leave

LEMMA RearmOwned ==
    ASSUME Owned, rx = "walk", ~ring[Read].own, WalkRest,
           NEW free \in SUBSET Pbufs, Rearm(free),
           stack' \subseteq Seq(Pbufs), chain' \in Seq(Pbufs), freed' \in BOOLEAN,
           free \cap StackBufs' = {}, free \cap Live' = {}, StackBufs' \cap Live' = {},
           \A d \in Descs : d # Read =>
               ring[d].buf \notin free /\ ring[d].buf \notin StackBufs' /\ ring[d].buf \notin Live',
           \A c, e \in stack' : c # e => Elements(c) \cap Elements(e) = {},
           ~split => Pbufs \subseteq free \cup (RingBufs \ {Pbuf}) \cup StackBufs' \cup Live'
    PROVE  Owned'
<1> USE RxDescsAssumption DEF Owned
<1>1. Read \in Descs /\ After(Read) \in Descs /\ NoBuf \notin Pbufs /\ NoBuf \in 0..PoolSize /\ Pbufs \subseteq 0..PoolSize
  BY DEF Types, After, Descs, Pbufs, NoBuf
<1>2. StackBufs' \subseteq Pbufs /\ Live' \subseteq Pbufs
  BY ElementsFacts DEF StackBufs, Live
<1>3. CASE \E b \in free :
             /\ ring' = [ring EXCEPT ![Read] = Armed(b)] /\ pool' = free \ {b}
             /\ Read' = After(Read) /\ UNCHANGED <<rx, split>>
  <2>1. PICK b \in free :
             /\ ring' = [ring EXCEPT ![Read] = Armed(b)] /\ pool' = free \ {b}
             /\ Read' = After(Read) /\ UNCHANGED <<rx, split>>
    BY <1>3
  <2>2. Armed(b) \in [own : BOOLEAN, buf : 0..PoolSize, last : BOOLEAN, err : BOOLEAN] /\ Armed(b).buf = b /\ b # NoBuf
    BY <1>1 DEF Armed
  <2>3. \A d \in Descs : ring'[d] = IF d = Read THEN Armed(b) ELSE ring[d]
    BY <2>1 DEF Types
  <2>4. Types'
    <3>1. ring' \in [Descs -> [own : BOOLEAN, buf : 0..PoolSize, last : BOOLEAN, err : BOOLEAN]]
      BY <2>1, <2>2 DEF Types
    <3>. QED
      BY <1>1, <2>1, <3>1 DEF Types, WalkRest, dmaVars
  <2>5. Exclusive'
    <3>1. \A c, d \in Descs : ring'[c].buf = ring'[d].buf /\ ring'[c].buf # NoBuf => c = d
      BY <2>2, <2>3 DEF Exclusive
    <3>2. \A d \in Descs : ring'[d].own => ring'[d].buf # NoBuf
      BY <2>2, <2>3 DEF Exclusive
    <3>3. \A d \in Descs : ring'[d].buf \notin pool' /\ ring'[d].buf \notin StackBufs' /\ ring'[d].buf \notin Live'
      BY <2>1, <2>2, <2>3
    <3>. QED
      BY <2>1, <3>1, <3>2, <3>3 DEF Exclusive
  <2>6. Complete'
    <3>1. (RingBufs \ {Pbuf}) \cup {b} \subseteq RingBufs'
      <4>1. \A d \in Descs : d # Read => ring'[d].buf = ring[d].buf
        BY <2>3
      <4>. QED
        BY <1>1, <2>2, <2>3, <4>1 DEF RingBufs, Pbuf
    <3>2. RingBufs' \subseteq Pbufs
      <4>1. \A d \in Descs : ring'[d].buf \in 0..PoolSize
        BY <2>4 DEF Types
      <4>. QED
        BY <4>1 DEF RingBufs, Pbufs, NoBuf
    <3>. QED
      BY <1>2, <2>1, <3>1, <3>2 DEF Complete
  <2>. QED
    BY <2>4, <2>5, <2>6
<1>4. CASE /\ free = {} /\ ring' = [ring EXCEPT ![Read].buf = NoBuf] /\ pool' = {}
           /\ Read' = Read /\ rx' = "idle" /\ split' = (split \/ (chain' # <<>> /\ ~freed'))
  <2>1. \A d \in Descs : ring'[d] = IF d = Read THEN [ring[d] EXCEPT !.buf = NoBuf] ELSE ring[d]
    BY <1>4 DEF Types
  <2>0. \A d \in Descs : ring[d] \in [own : BOOLEAN, buf : 0..PoolSize, last : BOOLEAN, err : BOOLEAN]
    BY DEF Types
  <2>2. ring' \in [Descs -> [own : BOOLEAN, buf : 0..PoolSize, last : BOOLEAN, err : BOOLEAN]]
    <3>1. DOMAIN ring' = Descs
      BY <1>4 DEF Types
    <3>2. [ring[Read] EXCEPT !.buf = NoBuf] \in [own : BOOLEAN, buf : 0..PoolSize, last : BOOLEAN, err : BOOLEAN]
      BY <1>1, <2>0
    <3>. QED
      BY <1>1, <1>4, <2>0, <3>2 DEF Types
  <2>3. ring'[Read].buf = NoBuf /\ ~ring'[Read].own /\ \A d \in Descs : d # Read => ring'[d] = ring[d]
    BY <1>1, <2>1, <2>0
  <2>4. Types'
    BY <1>1, <1>4, <2>2 DEF Types, WalkRest, dmaVars
  <2>5. Exclusive'
    <3>1. \A d \in Descs : ring'[d].buf \notin pool' /\ ring'[d].buf \notin StackBufs' /\ ring'[d].buf \notin Live'
      BY <1>1, <1>2, <1>4, <2>3
    <3>. QED
      BY <1>4, <2>3, <3>1 DEF Exclusive
  <2>6. Complete'
    <3>1. RingBufs \ {Pbuf} \subseteq RingBufs'
      BY <2>3 DEF RingBufs, Pbuf
    <3>2. RingBufs' \subseteq Pbufs
      <4>1. \A d \in Descs : ring'[d].buf \in 0..PoolSize
        BY <2>4 DEF Types
      <4>. QED
        BY <4>1 DEF RingBufs, Pbufs, NoBuf
    <3>3. ~split' => Live' = {}
      BY <1>4, ElementsFacts DEF Live
    <3>. QED
      BY <1>2, <1>4, <3>1, <3>2, <3>3 DEF Complete
  <2>. QED
    BY <2>4, <2>5, <2>6
<1>. QED
  BY <1>3, <1>4, RearmCases

(* What a filled descriptor holds is new to everybody.                       *)
LEMMA FilledFresh ==
    ASSUME Owned, Walking, Filled
    PROVE  /\ Pbuf \in Pbufs /\ ~ring[Read].own /\ rx = "walk" /\ Read \in Descs
           /\ Pbuf \notin pool /\ Pbuf \notin StackBufs /\ Pbuf \notin Live
           /\ \A d \in Descs : d # Read => ring[d].buf # Pbuf
           /\ Linked \in Seq(Pbufs) /\ Elements(Linked) = Elements(chain) \cup {Pbuf}
<1> USE DEF Owned
<1>1. Read \in Descs /\ Pbuf \in Pbufs /\ chain \in Seq(Pbufs)
  BY DEF Types, Filled, Pbuf, Pbufs, NoBuf
<1>2. Linked \in Seq(Pbufs) /\ Elements(Linked) = Elements(chain) \cup {Pbuf}
  BY <1>1, ElementsFacts DEF Linked
<1>. QED
  BY <1>1, <1>2 DEF Walking, Filled, Exclusive, Pbuf

----------------------------------------------------------------------------
LEMMA InitOwned == Init => Owned
<1> SUFFICES ASSUME Init PROVE Owned
  OBVIOUS
<1> USE RxDescsAssumption, RxBoundsAssumption DEF Init
<1>1. \A d \in Descs : d + 1 \in 1..NumDescs /\ d + 1 \in Pbufs /\ ring[d] = Armed(d + 1)
  BY DEF Descs, Pbufs
<1>2. Types
  <2>1. \A b \in Pbufs : Armed(b) \in [own : BOOLEAN, buf : 0..PoolSize, last : BOOLEAN, err : BOOLEAN]
    BY DEF Armed, Pbufs
  <2>2. ring \in [Descs -> [own : BOOLEAN, buf : 0..PoolSize, last : BOOLEAN, err : BOOLEAN]]
    BY <1>1, <2>1
  <2>3. Nothing \in Segments
    BY DEF Nothing, Segments
  <2>4. Nothing.seg <= Nothing.of
    BY DEF Nothing
  <2>5. chain \in Seq(Pbufs) /\ stack \subseteq Seq(Pbufs) /\ pool \subseteq Pbufs
    OBVIOUS
  <2>6. body \in [Pbufs -> Segments]
    BY <2>3
  <2>7. 0 \in Descs /\ 0 \in 0..MaxFrames
    BY DEF Descs
  <2>. QED
    BY <2>2, <2>3, <2>4, <2>5, <2>6, <2>7 DEF Types
<1>3. StackBufs = {} /\ Live = {}
  BY ElementsFacts DEF StackBufs, Live
<1>4. \A d \in Descs : ring[d].buf = d + 1 /\ ring[d].buf # NoBuf
  BY <1>1 DEF Armed, NoBuf, Descs
<1>5. Exclusive
  <2>1. \A c, d \in Descs : ring[c].buf = ring[d].buf => c = d
    BY <1>4 DEF Descs
  <2>2. \A d \in Descs : ring[d].buf \notin pool
    BY <1>1, <1>4
  <2>. QED
    BY <1>3, <1>4, <2>1, <2>2 DEF Exclusive
<1>6. Complete
  <2>1. \A b \in 1..NumDescs : b \in RingBufs
    <3> SUFFICES ASSUME NEW b \in 1..NumDescs PROVE b \in RingBufs
      OBVIOUS
    <3>1. b - 1 \in Descs /\ (b - 1) + 1 = b
      BY DEF Descs
    <3>. QED
      BY <1>4, <3>1, BufsAre
  <2>2. RingBufs \subseteq Pbufs
    BY <1>1, <1>4 DEF RingBufs
  <2>. QED
    BY <1>3, <2>1, <2>2 DEF Complete
<1>. QED
  BY <1>2, <1>5, <1>6 DEF Owned

LEMMA FrameComesInOwned == Owned /\ FrameComesIn => Owned'
<1> SUFFICES ASSUME Owned, FrameComesIn PROVE Owned'
  OBVIOUS
<1>1. incoming' \in Segments /\ incoming'.seg <= incoming'.of /\ frames' \in 0..MaxFrames
  BY RxBoundsAssumption DEF FrameComesIn, Owned, Types, Segments
<1>2. Types'
  BY <1>1 DEF FrameComesIn, Owned, Types
<1>. QED
  BY <1>2, KeepsOwned DEF FrameComesIn, Owned, Complete

LEMMA NoDescriptorOwned == Owned /\ NoDescriptor => Owned'
<1> SUFFICES ASSUME Owned, NoDescriptor PROVE Owned'
  OBVIOUS
<1>1. Nothing \in Segments /\ Nothing.seg <= Nothing.of
  BY RxBoundsAssumption DEF Nothing, Segments
<1>2. Types'
  <2>1. incoming' \in {Nothing, incoming} /\ raised'
    BY DEF NoDescriptor
  <2>. QED
    BY <1>1, <2>1 DEF NoDescriptor, Owned, Types
<1>. QED
  BY <1>2, KeepsOwned DEF NoDescriptor, Owned, Complete

LEMMA DmaStoreOwned == Owned /\ DmaStore => Owned'
<1> SUFFICES ASSUME Owned, DmaStore PROVE Owned'
  OBVIOUS
<1>. USE DEF Owned
<1>1. PICK err \in BOOLEAN : ring' = [ring EXCEPT ![hw] = [@ EXCEPT !.own = FALSE, !.last = (incoming.seg = incoming.of), !.err = err]]
  BY DEF DmaStore
<1>2. \A d \in Descs : ring[d] \in [own : BOOLEAN, buf : 0..PoolSize, last : BOOLEAN, err : BOOLEAN]
  BY DEF Types
<1>3. /\ ring' \in [Descs -> [own : BOOLEAN, buf : 0..PoolSize, last : BOOLEAN, err : BOOLEAN]]
      /\ \A d \in Descs : ring'[d].buf = ring[d].buf /\ (ring'[d].own => ring[d].own)
  <2> DEFINE last == incoming.seg = incoming.of
  <2>1. last \in BOOLEAN
    OBVIOUS
  <2> HIDE DEF last
  <2>2. ring' = [ring EXCEPT ![hw] = [@ EXCEPT !.own = FALSE, !.last = last, !.err = err]] /\ hw \in Descs
    BY <1>1 DEF last, Types
  <2>3. \A d \in Descs : ring'[d] = IF d = hw THEN [ring[d] EXCEPT !.own = FALSE, !.last = last, !.err = err] ELSE ring[d]
    BY <2>2 DEF Types
  <2>4. \A d \in Descs : [ring[d] EXCEPT !.own = FALSE, !.last = last, !.err = err] \in [own : BOOLEAN, buf : 0..PoolSize, last : BOOLEAN, err : BOOLEAN]
    BY <1>2, <2>1
  <2>. QED
    BY <1>2, <2>2, <2>3, <2>4 DEF Types
<1>4. incoming' \in Segments /\ incoming'.seg <= incoming'.of
  <2>1. Nothing \in Segments /\ Nothing.seg <= Nothing.of
    BY RxBoundsAssumption DEF Nothing, Segments
  <2>2. incoming \in Segments /\ incoming.seg <= incoming.of
    BY DEF Types
  <2>3. incoming' = IF incoming.seg = incoming.of THEN Nothing ELSE [incoming EXCEPT !.seg = @ + 1]
    BY DEF DmaStore
  <2>4. incoming.seg # incoming.of =>
            /\ [incoming EXCEPT !.seg = @ + 1] \in Segments
            /\ [incoming EXCEPT !.seg = @ + 1].seg <= [incoming EXCEPT !.seg = @ + 1].of
    BY <2>2, RxBoundsAssumption DEF Segments
  <2>. QED
    BY <2>1, <2>2, <2>3, <2>4
<1>5. Types'
  <2>1. hw' \in Descs
    BY RxDescsAssumption DEF DmaStore, After, Types, Descs
  <2>2. raised' \in BOOLEAN
    BY DEF DmaStore, Types
  <2>3. body' \in [Pbufs -> Segments]
    BY DEF DmaStore, Types
  <2>. QED
    BY <1>3, <1>4, <2>1, <2>2, <2>3 DEF DmaStore, Types
<1>. QED
  BY <1>3, <1>5, KeepsOwned DEF DmaStore, Complete

(* lwIP gives a chain back.                                                  *)
LEMMA StackFreesOwned == Owned /\ StackFrees => Owned'
<1> SUFFICES ASSUME Owned, StackFrees PROVE Owned'
  OBVIOUS
<1>. USE DEF Owned
<1>1. PICK c \in stack : stack' = stack \ {c} /\ pool' = pool \cup Elements(c)
  BY DEF StackFrees
<1>2. UNCHANGED <<ring, Read, hw, incoming, frames, body, raised, rx, ui32DescEnd, chain, freed, split>>
  BY DEF StackFrees, dmaVars
<1>3. Elements(c) \subseteq Pbufs /\ Elements(c) \subseteq StackBufs
  BY ElementsFacts, BufsAre DEF Types
<1>4. StackBufs' = StackBufs \ Elements(c)
  <2>1. \A b : b \in StackBufs' <=> \E e \in stack' : b \in Elements(e)
    BY DEF StackBufs
  <2>. QED
    BY <1>1, <2>1, BufsAre DEF Exclusive
<1>5. Types'
  BY <1>1, <1>2, <1>3 DEF Types
<1>6. Live' = Live /\ RingBufs' = RingBufs
  BY <1>2 DEF Live, RingBufs
<1>7. Exclusive'
  BY <1>1, <1>2, <1>3, <1>4, <1>6 DEF Exclusive
<1>8. Complete'
  BY <1>1, <1>2, <1>3, <1>4, <1>6 DEF Complete
<1>. QED
  BY <1>5, <1>7, <1>8

(* A call of tivaif_receive begins and ends.                                 *)
LEMMA CallOwned == Owned /\ (Interrupt \/ Enter \/ Finish \/ UseFreed) => Owned'
<1> SUFFICES ASSUME Owned, Interrupt \/ Enter \/ Finish \/ UseFreed PROVE Owned'
  OBVIOUS
<1>. USE DEF Owned
<1>1. CASE Interrupt
  <2>1. Types'
    BY <1>1 DEF Interrupt, dmaVars, Types
  <2>. QED
    BY <1>1, <2>1, KeepsOwned DEF Interrupt, Complete
<1>2. CASE Enter
  <2>1. Types'
    <3>1. ui32DescEnd' \in Descs
      BY <1>2, RxDescsAssumption DEF Enter, Types, Descs
    <3>2. chain' \in Seq(Pbufs) /\ freed' \in BOOLEAN /\ rx' = "walk"
      <4>1. <<>> \in Seq(Pbufs)
        OBVIOUS
      <4>. QED
        BY <1>2, <4>1 DEF Enter
    <3>. QED
      BY <1>2, <3>1, <3>2 DEF Enter, dmaVars, Types
  <2>2. Live' = {} /\ RingBufs' = RingBufs /\ StackBufs' = StackBufs
    BY <1>2, ElementsFacts DEF Enter, Live, RingBufs, StackBufs
  <2>3. Exclusive'
    BY <1>2, <2>2 DEF Enter, Exclusive
  <2>4. Complete'
    BY <1>2, <2>2 DEF Enter, Complete
  <2>. QED
    BY <2>1, <2>3, <2>4
<1>3. CASE Finish
  <2>1. Types'
    BY <1>3 DEF Finish, Leave, dmaVars, Types
  <2>2. ~split' => ~split /\ Live = {}
    BY <1>3, ElementsFacts DEF Finish, Leave, Live
  <2>. QED
    BY <1>3, <2>1, <2>2, KeepsOwned DEF Finish
<1>4. CASE UseFreed
  <2>1. Types'
    BY <1>4 DEF UseFreed, WalkRest, dmaVars, Types
  <2>2. Live = {}
    BY <1>4 DEF UseFreed, Live
  <2>. QED
    BY <1>4, <2>1, <2>2, KeepsOwned DEF UseFreed
<1>. QED
  BY <1>1, <1>2, <1>3, <1>4

(* One descriptor of the walk.                                               *)
LEMMA WalkOwned == Owned /\ (RefillEmpty \/ TakeSegment \/ DiscardFrame \/ GoodFrame) => Owned'
<1> SUFFICES ASSUME Owned, RefillEmpty \/ TakeSegment \/ DiscardFrame \/ GoodFrame PROVE Owned'
  OBVIOUS
<1>. USE DEF Owned
<1>1. /\ pool \subseteq Pbufs /\ StackBufs \subseteq Pbufs /\ Elements(chain) \subseteq Pbufs /\ Read \in Descs
      /\ stack \subseteq Seq(Pbufs) /\ chain \in Seq(Pbufs) /\ freed \in BOOLEAN
  BY ElementsFacts DEF Types, StackBufs
<1>2. CASE RefillEmpty
  <2>1. ~ring[Read].own /\ rx = "walk" /\ Pbuf = NoBuf /\ NoBuf \notin RingBufs
    BY <1>1, <1>2 DEF RefillEmpty, Walking, Exclusive, Pbuf, RingBufs
  <2>2. StackBufs' = StackBufs /\ Live' = Live
    BY <1>2 DEF RefillEmpty, StackBufs, Live
  <2>3. Rearm(pool) /\ WalkRest /\ UNCHANGED <<chain, stack, freed>>
    BY <1>2 DEF RefillEmpty
  <2>. QED
    BY <1>1, <2>1, <2>2, <2>3, RearmOwned DEF Exclusive, Complete
<1>3. CASE TakeSegment
  <2>1. Rearm(pool) /\ WalkRest /\ chain' = Linked /\ UNCHANGED <<stack, freed>> /\ ~freed /\ Walking /\ Filled
    BY <1>3 DEF TakeSegment
  <2>2. StackBufs' = StackBufs /\ Live' = Live \cup {Pbuf}
    BY <2>1, FilledFresh DEF StackBufs, Live
  <2>. QED
    BY <1>1, <2>1, <2>2, FilledFresh, RearmOwned DEF Exclusive, Complete
<1>4. CASE DiscardFrame
  <2>1. /\ Rearm(pool \cup Elements(Linked)) /\ WalkRest /\ chain' = Linked /\ freed'
        /\ UNCHANGED stack /\ ~freed /\ Walking /\ Filled
    BY <1>4 DEF DiscardFrame
  <2>2. StackBufs' = StackBufs /\ Live' = {} /\ Live = Elements(chain)
    BY <2>1 DEF StackBufs, Live
  <2>3. Elements(Linked) = Live \cup {Pbuf} /\ pool \cup Elements(Linked) \in SUBSET Pbufs
    BY <1>1, <2>1, <2>2, FilledFresh
  <2>4. freed' \in BOOLEAN
    BY <1>4 DEF DiscardFrame
  <2>. QED
    BY <1>1, <2>1, <2>2, <2>3, <2>4, FilledFresh, RearmOwned DEF Exclusive, Complete
<1>5. CASE GoodFrame
  <2>1. /\ WalkRest /\ chain' = <<>> /\ UNCHANGED freed /\ ~freed /\ Walking /\ Filled
        /\ \/ stack' = stack \cup {Linked} /\ Rearm(pool)
           \/ stack' = stack /\ Rearm(pool \cup Elements(Linked))
    BY <1>5 DEF GoodFrame
  <2>2. Live' = {} /\ Live = Elements(chain) /\ <<>> \in Seq(Pbufs)
    BY <2>1, ElementsFacts DEF Live
  <2>3. Elements(Linked) = Live \cup {Pbuf} /\ pool \cup Elements(Linked) \in SUBSET Pbufs
    BY <1>1, <2>1, <2>2, FilledFresh
  <2>4. CASE stack' = stack \cup {Linked} /\ Rearm(pool)
    <3>1. StackBufs' = StackBufs \cup Elements(Linked)
      <4>1. \A b : b \in StackBufs' <=> \E e \in stack' : b \in Elements(e)
        BY DEF StackBufs
      <4>. QED
        BY <2>4, <4>1, BufsAre
    <3>2. \A c, e \in stack' : c # e => Elements(c) \cap Elements(e) = {}
      <4>1. \A c \in stack : Elements(c) \cap Elements(Linked) = {}
        BY <2>1, <2>3, FilledFresh, BufsAre DEF Exclusive
      <4>. QED
        BY <2>4, <4>1 DEF Exclusive
    <3>. QED
      BY <1>1, <2>1, <2>2, <2>3, <2>4, <3>1, <3>2, FilledFresh, RearmOwned DEF Exclusive, Complete
  <2>5. CASE stack' = stack /\ Rearm(pool \cup Elements(Linked))
    <3>1. StackBufs' = StackBufs
      BY <2>5 DEF StackBufs
    <3>. QED
      BY <1>1, <2>1, <2>2, <2>3, <2>5, <3>1, FilledFresh, RearmOwned DEF Exclusive, Complete
  <2>. QED
    BY <2>1, <2>4, <2>5
<1>. QED
  BY <1>2, <1>3, <1>4, <1>5

LEMMA StepOwned == Owned /\ [Next]_vars => Owned'
<1> SUFFICES ASSUME Owned, [Next]_vars PROVE Owned'
  OBVIOUS
<1>1. CASE UNCHANGED vars
  <2>1. Types'
    BY <1>1 DEF vars, dmaVars, Owned, Types
  <2>. QED
    BY <1>1, <2>1, KeepsOwned DEF vars, Owned, Complete
<1>. QED
  BY <1>1, FrameComesInOwned, NoDescriptorOwned, DmaStoreOwned, StackFreesOwned, CallOwned, WalkOwned
     DEF Next, Receive

----------------------------------------------------------------------------
(* Counting descriptors from one of them on, around the end of the ring.     *)
LEMMA AtFacts ==
    ASSUME NEW r \in Descs
    PROVE  /\ \A i \in Descs : At(r, i) \in Descs
           /\ 0 \in Descs /\ At(r, 0) = r /\ At(r, NumDescs) = r
           /\ \A i \in Descs : After(At(r, i)) = At(r, i + 1) /\ At(After(r), i) = At(r, i + 1)
           /\ \A i, j \in Descs : At(r, i) = At(r, j) => i = j
           /\ \A i \in Descs : At(r, i) = r <=> i = 0
BY RxDescsAssumption DEF Descs, At, After

LEMMA DescTypes ==
    ASSUME Types
    PROVE  /\ \A i \in Descs : Desc(i) \in [own : BOOLEAN, buf : 0..PoolSize, last : BOOLEAN, err : BOOLEAN]
           /\ \A i \in Descs : At(Read, i) \in Descs
           /\ 0 \in Descs /\ Read \in Descs /\ Desc(0) = ring[Read]
<1>1. Read \in Descs
  BY DEF Types
<1>. QED
  BY <1>1, AtFacts DEF Types, Desc

LEMMA LineTypes ==
    ASSUME Owned, NEW count \in 0..NumDescs, Laid(count)
    PROVE  /\ First \in {0, 1} /\ (count = 0 => First = 0)
           /\ \A i \in First..(count - 1) : i \in Descs /\ Desc(i).buf \in Pbufs /\ ~Desc(i).own
           /\ \A i \in First..count : Line(count, i) \in Segments
<1> USE RxDescsAssumption
<1>1. First \in {0, 1} /\ (count = 0 => First = 0)
  BY DescTypes DEF First, Laid, Owned, Exclusive, Types, Descs
<1>2. ASSUME NEW i \in First..(count - 1)
      PROVE  i \in Descs /\ Desc(i).buf \in Pbufs /\ ~Desc(i).own
  <2>1. i \in Descs
    BY <1>1 DEF Descs
  <2>2. Desc(i).buf # NoBuf
    BY <1>1, <2>1 DEF Laid, First, Descs
  <2>. QED
    BY <2>1, <2>2, DescTypes DEF Owned, Laid, Pbufs, NoBuf, Descs
<1>3. ASSUME NEW i \in First..count PROVE Line(count, i) \in Segments
  <2>1. CASE i = count
    BY <2>1 DEF Line, Owned, Types
  <2>2. CASE i # count
    <3>1. Desc(i).buf \in Pbufs
      BY <1>1, <1>2, <2>2
    <3>. QED
      BY <2>2, <3>1 DEF Line, Owned, Types
  <2>. QED
    BY <2>1, <2>2
<1>. QED
  BY <1>1, <1>2, <1>3

(* What changes neither the ring nor what is in its pbufs.                   *)
LEMMA KeepsStored ==
    ASSUME NEW count \in 0..NumDescs, Stored(count), split => split', split' \in BOOLEAN,
           UNCHANGED <<ring, Read, hw, incoming, frames, body, chain, freed, delivered>>
    PROVE  Stored(count)'
<1>1. Laid(count)' /\ First' = First /\ \A i : Line(count, i)' = Line(count, i)
  BY DEF Stored, Laid, Desc, First, Line
<1>2. InOrder(count)'
  BY <1>1 DEF Stored, InOrder, Desc, Whole
<1>3. Assembling(count)'
  BY <1>1 DEF Stored, Assembling, Whole
<1>4. Later(count)'
  BY <1>1 DEF Stored, Later
<1>. QED
  BY <1>1, <1>2, <1>3, <1>4 DEF Stored

LEMMA InitStored == Init => Stored(0) /\ DeliveredWhole
<1> SUFFICES ASSUME Init PROVE Stored(0) /\ DeliveredWhole
  OBVIOUS
<1> USE RxDescsAssumption DEF Init
<1>1. \A i \in Descs : Desc(i).own /\ Desc(i).buf # NoBuf
  <2>1. \A d \in Descs : ring[d].own /\ ring[d].buf # NoBuf
    BY DEF Armed, NoBuf, Descs
  <2>2. 0 \in Descs
    BY DEF Descs
  <2>. QED
    BY <2>1, <2>2, AtFacts DEF Desc
<1>2. 0 \in Descs /\ At(0, 0) = 0
  BY DEF Descs, At
<1>3. Laid(0) /\ First = 0
  BY <1>1, <1>2 DEF Laid, First, Descs
<1>4. Line(0, 0) = Nothing
  BY DEF Line
<1>5. InOrder(0) /\ Assembling(0) /\ Later(0)
  BY <1>3, <1>4 DEF InOrder, Assembling, Later
<1>. QED
  BY <1>3, <1>5 DEF Stored, DeliveredWhole

(* A frame comes in where none did, or the MAC misses one before any of it   *)
(* was stored.                                                               *)
LEMMA IncomingStored ==
    ASSUME Owned, NEW count \in 0..NumDescs, Stored(count),
           UNCHANGED <<ring, Read, hw, body, chain, freed, delivered, split>>,
           frames' \in Nat, frames <= frames', incoming' \in Segments,
           \/ incoming' = Nothing /\ incoming.seg = 1
           \/ /\ incoming = Nothing /\ incoming'.seg = 1 /\ incoming'.of >= 1
              /\ frames < incoming'.frame /\ incoming'.frame <= frames'
    PROVE  Stored(count)'
<1>1. Laid(count)' /\ First' = First /\ \A i : Desc(i)' = Desc(i)
  BY DEF Stored, Laid, Desc, First
<1>2. /\ First \in Nat /\ First <= count /\ count \in Nat /\ frames \in Nat
      /\ \A i \in First..count : Line(count, i) \in Segments
      /\ \A i \in First..(count - 1) : i \in Descs
  BY LineTypes DEF Stored, Owned, Types
<1>3. /\ \A i \in First..(count - 1) : Line(count, i)' = Line(count, i)
      /\ Line(count, count)' = incoming' /\ Line(count, count) = incoming
  BY <1>1, <1>2 DEF Line
<1>4. \A x \in Segments : Whole(x) => Whole(x)'
  BY <1>2 DEF Whole, Segments
<1>5. \A x \in Segments : Whole(x) /\ Follows(x, incoming) => Follows(x, incoming')
  <2> SUFFICES ASSUME NEW x \in Segments, Whole(x), Follows(x, incoming) PROVE Follows(x, incoming')
    OBVIOUS
  <2>1. x.seg \in Nat /\ x.of \in Nat /\ x.seg >= 1 /\ Successor(x).seg = x.seg + 1
    BY DEF Whole, Segments, Successor
  <2>2. Nothing.seg = 0
    BY DEF Nothing
  <2>3. ~(x.seg < x.of)
    BY <2>1, <2>2 DEF Follows
  <2>. QED
    BY <2>3 DEF Follows
<1>6. InOrder(count)'
  <2>1. incoming' = Nothing \/ Whole(incoming)'
    BY <1>2 DEF Whole, Segments
  <2>2. ASSUME NEW i \in First..(count - 1)
        PROVE  /\ Whole(Line(count, i))'
               /\ Desc(i)'.last <=> Line(count, i)'.seg = Line(count, i)'.of
               /\ Follows(Line(count, i)', Line(count, i + 1)')
               /\ \A j \in (i + 1)..count : Line(count, j)' # Nothing =>
                   IF Desc(i)'.last THEN Line(count, i)'.frame < Line(count, j)'.frame
                                    ELSE Line(count, i)'.frame <= Line(count, j)'.frame
    <3>1. Line(count, i)' = Line(count, i) /\ Line(count, i) \in Segments /\ i \in Nat /\ i < count
      BY <1>2, <1>3
    <3>2. /\ Whole(Line(count, i)) /\ (Desc(i).last <=> Line(count, i).seg = Line(count, i).of)
          /\ Follows(Line(count, i), Line(count, i + 1))
          /\ \A j \in (i + 1)..count : Line(count, j) # Nothing =>
                   IF Desc(i).last THEN Line(count, i).frame < Line(count, j).frame
                                   ELSE Line(count, i).frame <= Line(count, j).frame
      BY DEF Stored, InOrder
    <3>3. Whole(Line(count, i))'
      BY <1>4, <3>1, <3>2 DEF Whole
    <3>4. Follows(Line(count, i)', Line(count, i + 1)')
      <4>1. CASE i + 1 = count
        BY <1>3, <1>5, <3>1, <3>2, <4>1
      <4>2. CASE i + 1 # count
        BY <1>2, <1>3, <3>1, <3>2, <4>2
      <4>. QED
        BY <4>1, <4>2
    <3>5. ASSUME NEW j \in (i + 1)..count, Line(count, j)' # Nothing
          PROVE  IF Desc(i)'.last THEN Line(count, i)'.frame < Line(count, j)'.frame
                                  ELSE Line(count, i)'.frame <= Line(count, j)'.frame
      <4>1. CASE j = count
        <5>1. Line(count, i).frame <= frames /\ Line(count, i).frame \in Nat /\ incoming'.frame \in Nat
          BY <3>1, <3>2 DEF Whole, Segments
        <5>2. incoming'.frame > frames
          BY <1>3, <3>5, <4>1
        <5>. QED
          BY <1>1, <1>2, <1>3, <3>1, <4>1, <5>1, <5>2
      <4>2. CASE j # count
        BY <1>1, <1>2, <1>3, <3>1, <3>2, <3>5, <4>2
      <4>. QED
        BY <4>1, <4>2
    <3>. QED
      BY <1>1, <3>1, <3>2, <3>3, <3>4, <3>5
  <2>. QED
    BY <1>1, <2>1, <2>2 DEF InOrder
<1>7. Assembling(count)'
  <2>1. Assembling(count)
    BY DEF Stored
  <2>2. CASE chain = <<>> \/ freed
    BY <1>1, <1>2, <1>3, <2>1, <2>2 DEF Assembling
  <2>3. CASE ~(chain = <<>> \/ freed)
    <3>1. chain \in Seq(Pbufs) /\ Len(chain) \in DOMAIN chain /\ body \in [Pbufs -> Segments]
      BY <2>3 DEF Owned, Types
    <3>2. \A n \in DOMAIN chain : body[chain[n]] \in Segments
      BY <3>1
    <3>3. \A n \in DOMAIN chain : Whole(body[chain[n]])'
      BY <1>4, <2>1, <2>3, <3>2 DEF Assembling, Whole
    <3>4. Follows(body[chain[Len(chain)]], Line(count, First)')
      <4> DEFINE x == body[chain[Len(chain)]]
      <4>1. x \in Segments /\ Whole(x) /\ Follows(x, Line(count, First))
        BY <2>1, <2>3, <3>1, <3>2 DEF Assembling
      <4> HIDE DEF x
      <4>2. CASE First = count
        BY <1>1, <1>3, <1>5, <4>1, <4>2 DEF x
      <4>3. CASE First # count
        BY <1>1, <1>2, <1>3, <4>1, <4>3 DEF x
      <4>. QED
        BY <4>2, <4>3 DEF x
    <3>. QED
      BY <1>1, <2>1, <2>3, <3>3, <3>4 DEF Assembling
  <2>. QED
    BY <2>2, <2>3
<1>8. Later(count)'
  <2> SUFFICES ASSUME delivered # <<>>
      PROVE  /\ delivered[1].frame <= frames'
             /\ \A i \in First..count : Line(count, i)' # Nothing => Line(count, i)'.frame > delivered[1].frame
             /\ ~freed => \A n \in DOMAIN chain : body[chain[n]].frame > delivered[1].frame
    BY <1>1 DEF Stored, Later
  <2>1. delivered[1] \in Segments
    BY DEF Stored, Later
  <2>2. delivered[1].frame <= frames /\ delivered[1].frame \in Nat
    BY <2>1 DEF Stored, Later, Segments
  <2>3. incoming' # Nothing => incoming'.frame > delivered[1].frame
    BY <1>2, <2>2 DEF Segments
  <2>. QED
    BY <1>2, <1>3, <2>2, <2>3 DEF Stored, Later
<1>. QED
  BY <1>1, <1>2, <1>6, <1>7, <1>8 DEF Stored

LEMMA FrameComesInStored ==
    ASSUME Owned, NEW count \in 0..NumDescs, Stored(count), FrameComesIn
    PROVE  Stored(count)'
<1>1. /\ incoming = Nothing /\ frames' = frames + 1 /\ frames \in Nat /\ frames < MaxFrames
      /\ UNCHANGED <<ring, Read, hw, body, chain, freed, delivered, split>>
  BY DEF FrameComesIn, Owned, Types
<1>2. PICK n \in 1..MaxSegs : incoming' = [frame |-> frames', seg |-> 1, of |-> n]
  BY DEF FrameComesIn
<1>3. incoming'.seg = 1 /\ incoming'.frame = frames + 1 /\ incoming'.of >= 1 /\ incoming' \in Segments
  BY <1>1, <1>2, RxBoundsAssumption DEF Segments
<1>. QED
  BY <1>1, <1>3, IncomingStored

LEMMA NoDescriptorStored ==
    ASSUME Owned, NEW count \in 0..NumDescs, Stored(count), NoDescriptor
    PROVE  Stored(count)'
<1>1. UNCHANGED <<ring, Read, hw, frames, body, chain, freed, delivered, split>> /\ frames \in Nat /\ split \in BOOLEAN
  BY DEF NoDescriptor, Owned, Types
<1>2. CASE incoming.seg = 1
  <2>1. incoming' = Nothing /\ Nothing \in Segments
    BY <1>2, RxBoundsAssumption DEF NoDescriptor, Nothing, Segments
  <2>. QED
    BY <1>1, <1>2, <2>1, IncomingStored
<1>3. CASE incoming.seg # 1
  BY <1>1, <1>3, KeepsStored DEF NoDescriptor
<1>. QED
  BY <1>2, <1>3

(* The DMA engine stores a segment behind those that are there; as nobody    *)
(* else has its pbuf, they stay what they are.                               *)
LEMMA DmaStoreStored ==
    ASSUME Owned, NEW count \in 0..NumDescs, Stored(count), DmaStore
    PROVE  count + 1 \in 0..NumDescs /\ Stored(count + 1)'
<1> USE RxDescsAssumption
<1>1. /\ incoming # Nothing /\ ring[hw].own /\ hw' = After(hw) /\ Whole(incoming)
      /\ body' = [body EXCEPT ![ring[hw].buf] = incoming]
      /\ UNCHANGED <<Read, frames, chain, freed, delivered, split>>
      /\ incoming' = IF incoming.seg = incoming.of THEN Nothing ELSE Successor(incoming)
  BY DEF DmaStore, Stored, InOrder, Successor
<1>2. /\ Read \in Descs /\ hw = At(Read, count) /\ First \in Nat /\ First <= count /\ count \in Nat
      /\ \A i \in First..count : Line(count, i) \in Segments
      /\ \A i \in First..(count - 1) : i \in Descs /\ Desc(i).buf \in Pbufs /\ ~Desc(i).own
  BY LineTypes DEF Stored, Laid, Owned, Types
<1>3. count \in Descs /\ Desc(count) = ring[hw] /\ hw \in Descs /\ 0 \in Descs
  <2>1. count # NumDescs
    <3> SUFFICES ASSUME count = NumDescs PROVE FALSE
      OBVIOUS
    <3>1. hw = Read /\ Desc(0) = ring[hw]
      BY <1>2, AtFacts, DescTypes DEF Owned
    <3>2. 0 \in Descs /\ ~(0 >= count)
      BY DEF Descs
    <3>3. ~Desc(0).own
      BY <3>2 DEF Stored, Laid
    <3>. QED
      BY <1>1, <3>1, <3>3
  <2>. QED
    BY <1>2, <2>1 DEF Desc, Descs, Owned, Types
<1>4. incoming \in Segments /\ incoming.seg \in Nat /\ incoming.of \in Nat /\ incoming.seg <= incoming.of /\ incoming.frame \in Nat
  BY DEF Owned, Types, Segments
<1>5. PICK err \in BOOLEAN : ring' = [ring EXCEPT ![hw] = [@ EXCEPT !.own = FALSE, !.last = (incoming.seg = incoming.of), !.err = err]]
  BY DEF DmaStore
<1>6. \A i \in Descs :
        /\ Desc(i)'.buf = Desc(i).buf
        /\ i # count => Desc(i)' = Desc(i)
        /\ i = count => ~Desc(i)'.own /\ (Desc(i)'.last <=> incoming.seg = incoming.of)
  <2>1. \A i \in Descs : At(Read, i) \in Descs /\ (At(Read, i) = hw <=> i = count)
    BY <1>2, <1>3, AtFacts
  <2>2. \A d \in Descs : ring[d] \in [own : BOOLEAN, buf : 0..PoolSize, last : BOOLEAN, err : BOOLEAN]
    BY DEF Owned, Types
  <2>3. \A d \in Descs : d # hw => ring'[d] = ring[d]
    BY <1>5 DEF Owned, Types
  <2>4. ring'[hw].buf = ring[hw].buf /\ ~ring'[hw].own /\ (ring'[hw].last <=> incoming.seg = incoming.of)
    BY <1>3, <1>5, <2>2 DEF Owned, Types
  <2>. QED
    BY <1>1, <2>1, <2>3, <2>4 DEF Desc
<1>7. ring[hw].buf \in Pbufs /\ \A d \in Descs : d # hw => ring[d].buf # ring[hw].buf
  BY <1>1, <1>3 DEF Owned, Exclusive, Types, Pbufs, NoBuf
<1>8. First' = First
  BY <1>3, <1>6 DEF First
<1>9. \A i \in First..count : Line(count + 1, i)' = Line(count, i)
  <2>1. ASSUME NEW i \in First..(count - 1) PROVE Line(count + 1, i)' = Line(count, i)
    <3>1. i \in Descs /\ i # count /\ i # count + 1 /\ At(Read, i) \in Descs /\ At(Read, i) # hw
      BY <1>2, <1>3, AtFacts
    <3>2. Desc(i)' = Desc(i) /\ Desc(i).buf # ring[hw].buf
      BY <1>6, <1>7, <3>1 DEF Desc
    <3>3. body'[Desc(i).buf] = body[Desc(i).buf]
      BY <1>1, <1>2, <3>2 DEF Owned, Types
    <3>. QED
      BY <3>1, <3>2, <3>3 DEF Line
  <2>2. Line(count + 1, count)' = Line(count, count)
    <3>1. Line(count, count) = incoming /\ count # count + 1
      BY <1>2 DEF Line
    <3>2. Line(count + 1, count)' = body'[Desc(count)'.buf]
      BY <3>1 DEF Line
    <3>3. Desc(count)'.buf = ring[hw].buf
      BY <1>3, <1>6
    <3>. QED
      BY <1>1, <1>7, <3>1, <3>2, <3>3 DEF Owned, Types
  <2>. QED
    BY <1>2, <2>1, <2>2
<1>10. Line(count + 1, count + 1)' = incoming' /\ Line(count, count) = incoming
  BY DEF Line
<1>11. Laid(count + 1)'
  <2>1. hw' = At(Read', count + 1)
    BY <1>1, <1>2, <1>3, AtFacts
  <2>2. \A i \in Descs : Desc(i)'.own <=> i >= count + 1
    BY <1>2, <1>3, <1>6 DEF Stored, Laid, Descs
  <2>. QED
    BY <1>6, <2>1, <2>2 DEF Stored, Laid
<1>12. incoming' = Nothing \/ Whole(incoming)'
  BY <1>1, <1>4 DEF Whole, Successor, Segments
<1>13. Follows(incoming, incoming')
  BY <1>1, <1>4 DEF Follows
<1>14. incoming' # Nothing => incoming'.frame = incoming.frame /\ incoming.seg # incoming.of
  BY <1>1, <1>4 DEF Successor, Segments
<1>15. InOrder(count + 1)'
  <2>1. ASSUME NEW i \in First..count
        PROVE  /\ Whole(Line(count + 1, i))'
               /\ Desc(i)'.last <=> Line(count + 1, i)'.seg = Line(count + 1, i)'.of
               /\ Follows(Line(count + 1, i)', Line(count + 1, i + 1)')
               /\ \A j \in (i + 1)..(count + 1) : Line(count + 1, j)' # Nothing =>
                   IF Desc(i)'.last THEN Line(count + 1, i)'.frame < Line(count + 1, j)'.frame
                                    ELSE Line(count + 1, i)'.frame <= Line(count + 1, j)'.frame
    <3>1. CASE i = count
      <4>1. Line(count + 1, i)' = incoming /\ (Desc(i)'.last <=> incoming.seg = incoming.of)
        BY <1>2, <1>3, <1>6, <1>9, <1>10, <3>1
      <4>2. \A j \in (i + 1)..(count + 1) : j = count + 1
        BY <1>2, <3>1
      <4>3. Whole(Line(count + 1, i))'
        BY <1>1, <4>1 DEF Whole
      <4>. QED
        BY <1>4, <1>10, <1>13, <1>14, <3>1, <4>1, <4>2, <4>3
    <3>2. CASE i # count
      <4>1. i \in First..(count - 1) /\ i \in Descs /\ Line(count + 1, i)' = Line(count, i) /\ Desc(i)' = Desc(i)
        BY <1>2, <1>6, <1>9, <3>2
      <4>2. /\ Whole(Line(count, i)) /\ (Desc(i).last <=> Line(count, i).seg = Line(count, i).of)
            /\ Follows(Line(count, i), Line(count, i + 1))
            /\ \A j \in (i + 1)..count : Line(count, j) # Nothing =>
                   IF Desc(i).last THEN Line(count, i).frame < Line(count, j).frame
                                   ELSE Line(count, i).frame <= Line(count, j).frame
        BY <4>1 DEF Stored, InOrder
      <4>3. Whole(Line(count + 1, i))'
        BY <1>1, <4>1, <4>2 DEF Whole
      <4>4. Follows(Line(count + 1, i)', Line(count + 1, i + 1)')
        BY <1>2, <1>9, <4>1, <4>2
      <4>5. ASSUME NEW j \in (i + 1)..(count + 1), Line(count + 1, j)' # Nothing
            PROVE  IF Desc(i).last THEN Line(count, i).frame < Line(count + 1, j)'.frame
                                   ELSE Line(count, i).frame <= Line(count + 1, j)'.frame
        <5>1. CASE j = count + 1
          <6>1. Line(count + 1, j)'.frame = incoming.frame
            BY <1>10, <1>14, <4>5, <5>1
          <6>2. count \in (i + 1)..count
            BY <1>2, <4>1
          <6>. QED
            BY <1>1, <1>10, <4>2, <6>1, <6>2
        <5>2. CASE j # count + 1
          BY <1>2, <1>9, <4>2, <4>5, <5>2
        <5>. QED
          BY <5>1, <5>2
      <4>. QED
        BY <4>1, <4>2, <4>3, <4>4, <4>5
    <3>. QED
      BY <3>1, <3>2
  <2>2. (count + 1) - 1 = count
    BY <1>2
  <2>. QED
    BY <1>8, <1>12, <2>1, <2>2 DEF InOrder
<1>16. ~freed => \A n \in DOMAIN chain : chain[n] \in Pbufs /\ body'[chain[n]] = body[chain[n]]
  <2> SUFFICES ASSUME ~freed, NEW n \in DOMAIN chain PROVE chain[n] \in Pbufs /\ body'[chain[n]] = body[chain[n]]
    OBVIOUS
  <2>1. chain[n] \in Live /\ chain[n] \in Pbufs
    BY DEF Live, Elements, Owned, Types
  <2>2. chain[n] # ring[hw].buf
    BY <1>3, <2>1 DEF Owned, Exclusive
  <2>. QED
    BY <1>1, <2>1, <2>2 DEF Owned, Types
<1>17. Line(count + 1, First)' = Line(count, First)
  BY <1>2, <1>8, <1>9
<1>18. Assembling(count + 1)'
  <2>1. CASE chain = <<>> \/ freed
    BY <1>1, <1>17, <2>1 DEF Stored, Assembling
  <2>2. CASE ~(chain = <<>> \/ freed)
    <3>1. chain \in Seq(Pbufs) /\ 1 \in DOMAIN chain /\ Len(chain) \in DOMAIN chain
      BY <2>2 DEF Owned, Types
    <3>2. \A n \in DOMAIN chain : body'[chain[n]] = body[chain[n]] /\ Whole(body[chain[n]])'
      BY <1>1, <1>16, <2>2 DEF Stored, Assembling, Whole
    <3>. QED
      BY <1>1, <1>17, <2>2, <3>1, <3>2 DEF Stored, Assembling
  <2>. QED
    BY <2>1, <2>2
<1>19. Later(count + 1)'
  <2> SUFFICES ASSUME delivered # <<>>
      PROVE  /\ \A i \in First..(count + 1) : Line(count + 1, i)' # Nothing => Line(count + 1, i)'.frame > delivered[1].frame
             /\ ~freed => \A n \in DOMAIN chain : body'[chain[n]].frame > delivered[1].frame
    BY <1>1, <1>8 DEF Stored, Later
  <2>1. ASSUME NEW i \in First..(count + 1), Line(count + 1, i)' # Nothing
        PROVE  Line(count + 1, i)'.frame > delivered[1].frame
    <3>1. CASE i = count + 1
      <4>1. Line(count + 1, i)'.frame = incoming.frame
        BY <1>10, <1>14, <2>1, <3>1
      <4>2. incoming.frame > delivered[1].frame
        BY <1>1, <1>2, <1>10 DEF Stored, Later
      <4>. QED
        BY <4>1, <4>2
    <3>2. CASE i # count + 1
      BY <1>2, <1>9, <2>1, <3>2 DEF Stored, Later
    <3>. QED
      BY <3>1, <3>2
  <2>2. ~freed => \A n \in DOMAIN chain : body'[chain[n]].frame > delivered[1].frame
    BY <1>16 DEF Stored, Later
  <2>. QED
    BY <2>1, <2>2
<1>. QED
  BY <1>2, <1>3, <1>8, <1>11, <1>15, <1>18, <1>19 DEF Stored, Descs

(* The walk leaves a descriptor behind, rearmed or without a pbuf, and the   *)
(* line is the same but for its first segment.                               *)
LEMMA RearmStored ==
    ASSUME Owned, NEW count \in 0..NumDescs, Stored(count), ~ring[Read].own,
           WalkRest, NEW free \in SUBSET Pbufs, Rearm(free)
    PROVE  \E c \in 0..NumDescs :
               /\ Laid(c)' /\ First' <= c /\ InOrder(c)'
               /\ Line(c, First)' = Line(count, 1)
               /\ \A i \in First'..c : \E j \in 1..count : Line(c, i)' = Line(count, j)
<1> USE RxDescsAssumption
<1>1. /\ Read \in Descs /\ 0 \in Descs /\ Desc(0) = ring[Read] /\ count \in Nat /\ First \in {0, 1} /\ First <= count
      /\ \A i \in Descs : Desc(i) \in [own : BOOLEAN, buf : 0..PoolSize, last : BOOLEAN, err : BOOLEAN]
      /\ \A i \in First..(count - 1) : i \in Descs
  BY LineTypes, DescTypes DEF Stored, Owned
<1>2. count >= 1
  BY <1>1 DEF Stored, Laid
<1>3. UNCHANGED <<hw, incoming, frames, body>>
  BY DEF WalkRest, dmaVars
<1>4. CASE \E b \in free :
             /\ ring' = [ring EXCEPT ![Read] = Armed(b)] /\ pool' = free \ {b}
             /\ Read' = After(Read) /\ UNCHANGED <<rx, split>>
  <2>1. PICK b \in free : ring' = [ring EXCEPT ![Read] = Armed(b)] /\ Read' = After(Read)
    BY <1>4
  <2>2. b # NoBuf /\ Armed(b).own /\ Armed(b).buf = b
    BY DEF Pbufs, NoBuf, Armed
  <2>3. \A i \in Descs : Desc(i)' = IF i + 1 \in Descs THEN Desc(i + 1) ELSE Armed(b)
    <3>1. \A i \in Descs : At(Read', i) = At(Read, i + 1) /\ At(Read, i) \in Descs /\ (At(Read, i) = Read <=> i = 0)
      BY <1>1, <2>1, AtFacts
    <3>2. At(Read, NumDescs) = Read
      BY <1>1, AtFacts
    <3>3. \A i \in Descs : i + 1 \in Descs \/ i + 1 = NumDescs
      BY DEF Descs
    <3>4. \A i \in Descs : i + 1 # 0
      BY DEF Descs
    <3>5. ring'[Read] = Armed(b) /\ \A d \in Descs : d # Read => ring'[d] = ring[d]
      BY <1>1, <2>1 DEF Owned, Types
    <3> SUFFICES ASSUME NEW i \in Descs PROVE Desc(i)' = IF i + 1 \in Descs THEN Desc(i + 1) ELSE Armed(b)
      OBVIOUS
    <3>6. Desc(i)' = ring'[At(Read, i + 1)]
      BY <3>1 DEF Desc
    <3>7. CASE i + 1 \in Descs
      BY <3>1, <3>4, <3>5, <3>6, <3>7 DEF Desc
    <3>8. CASE i + 1 \notin Descs
      BY <3>2, <3>3, <3>5, <3>6, <3>8
    <3>. QED
      BY <3>7, <3>8
  <2>4. First' = 0
    BY <1>1, <2>2, <2>3 DEF First, Stored, Laid, Descs
  <2>5. \A i \in 0..(count - 2) : i \in Descs /\ i + 1 \in Descs /\ i + 1 \in First..(count - 1) /\ Desc(i)' = Desc(i + 1)
    BY <1>1, <1>2, <2>3 DEF Descs
  <2>6. \A i \in 0..(count - 1) : Line(count - 1, i)' = Line(count, i + 1)
    <3>1. Line(count - 1, count - 1)' = Line(count, (count - 1) + 1)
      BY <1>1, <1>3 DEF Line
    <3>2. \A i \in 0..(count - 2) : Line(count - 1, i)' = Line(count, i + 1)
      BY <1>1, <1>3, <2>5 DEF Line
    <3>. QED
      BY <1>1, <3>1, <3>2
  <2>7. Laid(count - 1)'
    <3>1. hw' = At(Read', count - 1)
      <4>1. count - 1 \in Descs /\ (count - 1) + 1 = count
        BY <1>1, <1>2 DEF Descs
      <4>. QED
        BY <1>1, <1>3, <2>1, <4>1, AtFacts DEF Stored, Laid
    <3>2. \A i \in Descs : Desc(i)'.own <=> i >= count - 1
      BY <1>1, <1>2, <2>2, <2>3 DEF Stored, Laid, Descs
    <3>3. \A i \in Descs : i > 0 => Desc(i)'.buf # NoBuf
      BY <2>2, <2>3 DEF Stored, Laid, Descs
    <3>. QED
      BY <3>1, <3>2, <3>3 DEF Laid
  <2>8. InOrder(count - 1)'
    <3>1. ASSUME NEW i \in 0..(count - 2)
          PROVE  /\ Whole(Line(count - 1, i))'
                 /\ Desc(i)'.last <=> Line(count - 1, i)'.seg = Line(count - 1, i)'.of
                 /\ Follows(Line(count - 1, i)', Line(count - 1, i + 1)')
                 /\ \A j \in (i + 1)..(count - 1) : Line(count - 1, j)' # Nothing =>
                     IF Desc(i)'.last THEN Line(count - 1, i)'.frame < Line(count - 1, j)'.frame
                                      ELSE Line(count - 1, i)'.frame <= Line(count - 1, j)'.frame
      <4>1. /\ i \in 0..(count - 1) /\ i + 1 \in 0..(count - 1) /\ i + 1 \in First..(count - 1)
            /\ Desc(i)' = Desc(i + 1)
        BY <1>1, <2>5
      <4>2. /\ Line(count - 1, i)' = Line(count, i + 1)
            /\ Line(count - 1, i + 1)' = Line(count, (i + 1) + 1)
        BY <2>6, <4>1
      <4>3. /\ Whole(Line(count, i + 1)) /\ (Desc(i + 1).last <=> Line(count, i + 1).seg = Line(count, i + 1).of)
            /\ Follows(Line(count, i + 1), Line(count, (i + 1) + 1))
            /\ \A j \in ((i + 1) + 1)..count : Line(count, j) # Nothing =>
                   IF Desc(i + 1).last THEN Line(count, i + 1).frame < Line(count, j).frame
                                       ELSE Line(count, i + 1).frame <= Line(count, j).frame
        BY <4>1 DEF Stored, InOrder
      <4>4. \A j \in (i + 1)..(count - 1) :
                Line(count - 1, j)' = Line(count, j + 1) /\ j + 1 \in ((i + 1) + 1)..count
        BY <1>1, <2>6
      <4>5. Whole(Line(count - 1, i))'
        BY <1>3, <4>2, <4>3 DEF Whole
      <4>. QED
        BY <4>1, <4>2, <4>3, <4>4, <4>5
    <3>2. incoming' = Nothing \/ Whole(incoming)'
      BY <1>3 DEF Stored, InOrder, Whole
    <3>3. (count - 1) - 1 = count - 2
      BY <1>1
    <3>. QED
      BY <2>4, <3>1, <3>2, <3>3 DEF InOrder
  <2>9. Line(count - 1, First)' = Line(count, 1)
    BY <1>1, <1>2, <2>4, <2>6
  <2>10. \A i \in 0..(count - 1) : i + 1 \in 1..count
    BY <1>1
  <2>11. count - 1 \in 0..NumDescs /\ 0 <= count - 1
    BY <1>1, <1>2
  <2>. QED
    BY <2>4, <2>6, <2>7, <2>8, <2>9, <2>10, <2>11
<1>5. CASE /\ free = {} /\ ring' = [ring EXCEPT ![Read].buf = NoBuf] /\ pool' = {}
           /\ Read' = Read /\ rx' = "idle" /\ split' = (split \/ (chain' # <<>> /\ ~freed'))
  <2>1. Desc(0)'.buf = NoBuf /\ (Desc(0)'.own <=> Desc(0).own) /\ \A i \in Descs : i # 0 => Desc(i)' = Desc(i)
    <3>1. \A i \in Descs : At(Read, i) \in Descs /\ (At(Read, i) = Read <=> i = 0)
      BY <1>1, AtFacts
    <3>2. \A d \in Descs : d # Read => ring'[d] = ring[d]
      BY <1>5 DEF Owned, Types
    <3>3. ring'[Read] = [ring[Read] EXCEPT !.buf = NoBuf]
      BY <1>1, <1>5 DEF Owned, Types
    <3>4. ring'[Read].buf = NoBuf /\ (ring'[Read].own <=> ring[Read].own)
      BY <1>1, <3>3
    <3>. QED
      BY <1>1, <1>5, <3>1, <3>2, <3>4 DEF Desc
  <2>2. First' = 1
    BY <2>1 DEF First
  <2>3. \A i \in 1..(count - 1) : i \in First..(count - 1) /\ i \in Descs /\ Desc(i)' = Desc(i)
    BY <1>1, <2>1
  <2>4. \A i \in 1..count : Line(count, i)' = Line(count, i)
    BY <1>1, <1>3, <2>3 DEF Line
  <2>5. Laid(count)'
    <3>1. hw' = At(Read', count)
      BY <1>3, <1>5 DEF Stored, Laid, At
    <3>2. \A i \in Descs : Desc(i)'.own <=> i >= count
      BY <2>1 DEF Stored, Laid
    <3>3. \A i \in Descs : i > 0 => Desc(i)'.buf # NoBuf
      <4> SUFFICES ASSUME NEW i \in Descs, i > 0 PROVE Desc(i)'.buf # NoBuf
        OBVIOUS
      <4>1. i # 0 /\ Desc(i).buf # NoBuf
        BY DEF Stored, Laid, Descs
      <4>. QED
        BY <2>1, <4>1
    <3>. QED
      BY <3>1, <3>2, <3>3 DEF Laid
  <2>6. InOrder(count)'
    <3>1. ASSUME NEW i \in 1..(count - 1)
          PROVE  /\ Whole(Line(count, i))'
                 /\ Desc(i)'.last <=> Line(count, i)'.seg = Line(count, i)'.of
                 /\ Follows(Line(count, i)', Line(count, i + 1)')
                 /\ \A j \in (i + 1)..count : Line(count, j)' # Nothing =>
                     IF Desc(i)'.last THEN Line(count, i)'.frame < Line(count, j)'.frame
                                      ELSE Line(count, i)'.frame <= Line(count, j)'.frame
      <4>1. /\ Whole(Line(count, i)) /\ (Desc(i).last <=> Line(count, i).seg = Line(count, i).of)
            /\ Follows(Line(count, i), Line(count, i + 1))
            /\ \A j \in (i + 1)..count : Line(count, j) # Nothing =>
                   IF Desc(i).last THEN Line(count, i).frame < Line(count, j).frame
                                   ELSE Line(count, i).frame <= Line(count, j).frame
        BY <2>3 DEF Stored, InOrder
      <4>2. /\ Line(count, i)' = Line(count, i) /\ Line(count, i + 1)' = Line(count, i + 1)
            /\ \A j \in (i + 1)..count : Line(count, j)' = Line(count, j)
        BY <1>1, <2>4
      <4>3. Whole(Line(count, i))'
        BY <1>3, <4>1, <4>2 DEF Whole
      <4>. QED
        BY <2>3, <4>1, <4>2, <4>3
    <3>2. incoming' = Nothing \/ Whole(incoming)'
      BY <1>3 DEF Stored, InOrder, Whole
    <3>. QED
      BY <2>2, <3>1, <3>2 DEF InOrder
  <2>7. Line(count, First)' = Line(count, 1)
    BY <1>1, <1>2, <2>2, <2>4
  <2>. QED
    BY <1>1, <1>2, <2>2, <2>4, <2>5, <2>6, <2>7
<1>. QED
  BY <1>4, <1>5, RearmCases

(* A descriptor without a pbuf gets one.                                     *)
LEMMA RefillEmptyStored ==
    ASSUME Owned, NEW count \in 0..NumDescs, Stored(count), DeliveredWhole, RefillEmpty
    PROVE  DeliveredWhole' /\ \E c \in 0..NumDescs : Stored(c)'
<1>1. /\ ~ring[Read].own /\ First = 1 /\ WalkRest /\ Rearm(pool) /\ pool \in SUBSET Pbufs
      /\ UNCHANGED <<chain, freed, delivered>>
      /\ split => split'
  <2>1. Desc(0) = ring[Read] /\ Read \in Descs
    BY DescTypes DEF Owned
  <2>2. Walking /\ Pbuf = NoBuf /\ WalkRest /\ Rearm(pool) /\ UNCHANGED <<chain, freed, delivered>>
    BY DEF RefillEmpty
  <2>3. split => split'
    BY <2>2, RearmCases
  <2>. QED
    BY <2>1, <2>2, <2>3 DEF First, Pbuf, Owned, Exclusive, Types
<1>2. PICK c \in 0..NumDescs :
               /\ Laid(c)' /\ First' <= c /\ InOrder(c)'
               /\ Line(c, First)' = Line(count, 1)
               /\ \A i \in First'..c : \E j \in 1..count : Line(c, i)' = Line(count, j)
  BY <1>1, RearmStored
<1>3. UNCHANGED <<frames, body>>
  BY <1>1 DEF WalkRest, dmaVars
<1>4. chain' = chain /\ freed' = freed /\ delivered' = delivered /\ (~split' => ~split)
  <2>1. chain' = chain /\ freed' = freed /\ delivered' = delivered
    BY <1>1
  <2>2. ~split' => ~split
    BY <1>1, Zenon
  <2>. QED
    BY <2>1, <2>2, Zenon
<1>5. Assembling(c)'
  <2>1. Line(c, First)' = Line(count, First)
    BY <1>1, <1>2
  <2>2. \A x : Whole(x)' <=> Whole(x)
    BY <1>3 DEF Whole
  <2>3. Assembling(count)
    BY DEF Stored
  <2>4. CASE chain = <<>> \/ freed
    BY <1>4, <2>1, <2>3, <2>4 DEF Assembling
  <2>5. CASE ~(chain = <<>> \/ freed)
    BY <1>3, <1>4, <2>1, <2>2, <2>3, <2>5 DEF Assembling
  <2>. QED
    BY <2>4, <2>5
<1>6. Later(c)'
  <2>1. Later(count)
    BY DEF Stored
  <2>2. \A i \in First'..c : \E j \in First..count : Line(c, i)' = Line(count, j)
    BY <1>1, <1>2
  <2>. QED
    BY <1>3, <1>4, <2>1, <2>2 DEF Later
<1>7. DeliveredWhole'
  BY <1>4 DEF DeliveredWhole
<1>. QED
  BY <1>2, <1>5, <1>6, <1>7 DEF Stored

(* What is taken next, and how it goes with what was taken before.           *)
LEMMA TakenFacts ==
    ASSUME Owned, NEW count \in 0..NumDescs, Stored(count), Walking, Filled, ~freed
    PROVE  LET x == body[Pbuf]
           IN  /\ First = 0 /\ count >= 1 /\ x \in Segments /\ Whole(x)
               /\ ring[Read].last <=> x.seg = x.of
               /\ Follows(x, Line(count, 1))
               /\ \A j \in 1..count : Line(count, j) # Nothing =>
                   IF ring[Read].last THEN x.frame < Line(count, j).frame
                                      ELSE x.frame <= Line(count, j).frame
               /\ delivered # <<>> => x.frame > delivered[1].frame
               /\ IF chain = <<>> THEN ~split => x.seg = 1
                  ELSE x = Successor(body[chain[Len(chain)]])
<1> DEFINE x == body[Pbuf]
<1>1. Desc(0) = ring[Read] /\ First = 0 /\ count >= 1 /\ count \in Nat
  <2>1. Desc(0) = ring[Read] /\ 0 \in Descs
    BY DescTypes DEF Owned
  <2>2. First = 0
    BY <2>1 DEF First, Filled, Pbuf
  <2>. QED
    BY <2>1, <2>2 DEF Stored, Laid, Filled
<1>2. Line(count, 0) = x /\ Line(count, First) = x
  BY <1>1 DEF Line, Pbuf
<1>3. x \in Segments
  BY <1>1, <1>2, LineTypes DEF Stored
<1>4. /\ Whole(x) /\ (ring[Read].last <=> x.seg = x.of) /\ Follows(x, Line(count, 1))
      /\ \A j \in 1..count : Line(count, j) # Nothing =>
                   IF ring[Read].last THEN x.frame < Line(count, j).frame
                                      ELSE x.frame <= Line(count, j).frame
  <2>1. 0 \in First..(count - 1) /\ 0 + 1 = 1
    BY <1>1
  <2>. QED
    BY <1>1, <1>2, <2>1 DEF Stored, InOrder
<1>5. x # Nothing
  BY <1>4 DEF Whole, Nothing
<1>6. delivered # <<>> => x.frame > delivered[1].frame
  BY <1>1, <1>2, <1>5 DEF Stored, Later
<1>7. IF chain = <<>> THEN ~split => x.seg = 1 ELSE x = Successor(body[chain[Len(chain)]])
  <2>1. CASE chain = <<>>
    BY <1>2, <1>5, <2>1 DEF Stored, Assembling
  <2>2. CASE chain # <<>>
    <3>1. Len(chain) \in DOMAIN chain
      BY <2>2 DEF Owned, Types
    <3>. QED
      BY <1>2, <2>2, <3>1 DEF Stored, Assembling, Follows
  <2>. QED
    BY <2>1, <2>2
<1>. QED
  BY <1>1, <1>3, <1>4, <1>6, <1>7

(* The chain with the next pbuf linked to it is still the first part of one  *)
(* frame, and all of it if the segment is the last.                          *)
LEMMA LinkedFacts ==
    ASSUME Owned, NEW count \in 0..NumDescs, Stored(count), Walking, Filled, ~freed
    PROVE  /\ Linked \in Seq(Pbufs) /\ Len(Linked) = Len(chain) + 1 /\ Len(Linked) >= 1
           /\ DOMAIN Linked = 1..Len(Linked) /\ Linked[Len(Linked)] = Pbuf
           /\ ~split => body[Linked[1]].seg = 1
           /\ \A n \in DOMAIN Linked :
               /\ Whole(body[Linked[n]]) /\ body[Linked[n]] \in Segments
               /\ n < Len(Linked) => body[Linked[n]].seg < body[Linked[n]].of
               /\ body[Linked[n]] = [body[Linked[1]] EXCEPT !.seg = @ + n - 1]
               /\ delivered # <<>> => body[Linked[n]].frame > delivered[1].frame
<1> DEFINE x == body[Pbuf]
<1>1. /\ chain \in Seq(Pbufs) /\ Pbuf \in Pbufs /\ Linked = Append(chain, Pbuf) /\ Len(chain) \in Nat
      /\ body \in [Pbufs -> Segments]
  BY FilledFresh DEF Linked, Owned, Types
<1>2. /\ Linked \in Seq(Pbufs) /\ Len(Linked) = Len(chain) + 1 /\ DOMAIN Linked = 1..Len(Linked)
      /\ \A i \in 1..Len(chain) : Linked[i] = chain[i]
      /\ Linked[Len(Linked)] = Pbuf
  BY <1>1, AppendProperties
<1>3. /\ x \in Segments /\ Whole(x)
      /\ delivered # <<>> => x.frame > delivered[1].frame
      /\ IF chain = <<>> THEN ~split => x.seg = 1 ELSE x = Successor(body[chain[Len(chain)]])
  BY TakenFacts
<1>4. CASE chain = <<>>
  <2>1. Len(Linked) = 1 /\ Linked[1] = Pbuf /\ \A n \in DOMAIN Linked : n = 1
    BY <1>1, <1>2, <1>4
  <2>2. x = [x EXCEPT !.seg = @ + 1 - 1]
    BY <1>3 DEF Segments
  <2> HIDE DEF x
  <2>3. body[Linked[1]] = x
    BY <2>1 DEF x
  <2>. QED
    BY <1>2, <1>3, <1>4, <2>1, <2>2, <2>3
<1>5. CASE chain # <<>>
  <2>1. Len(chain) >= 1 /\ Len(chain) \in DOMAIN chain /\ 1 \in DOMAIN chain /\ DOMAIN chain = 1..Len(chain)
    BY <1>1, <1>5
  <2>2. \A n \in DOMAIN chain :
           /\ Whole(body[chain[n]]) /\ body[chain[n]].seg < body[chain[n]].of
           /\ body[chain[n]] = [body[chain[1]] EXCEPT !.seg = @ + n - 1]
           /\ delivered # <<>> => body[chain[n]].frame > delivered[1].frame
           /\ body[chain[n]] \in Segments /\ Linked[n] = chain[n]
    BY <1>1, <1>2, <1>5, <2>1 DEF Stored, Assembling, Later
  <2>3. x = [body[chain[1]] EXCEPT !.seg = @ + (Len(chain) + 1) - 1]
    <3>1. body[chain[Len(chain)]] = [body[chain[1]] EXCEPT !.seg = @ + Len(chain) - 1] /\ body[chain[1]] \in Segments
      BY <2>1, <2>2
    <3>2. x = [[body[chain[1]] EXCEPT !.seg = @ + Len(chain) - 1] EXCEPT !.seg = @ + 1]
      BY <1>3, <1>5, <3>1 DEF Successor
    <3>3. \A y \in Segments, m \in Nat :
              [[y EXCEPT !.seg = @ + m - 1] EXCEPT !.seg = @ + 1] = [y EXCEPT !.seg = @ + (m + 1) - 1]
      <4> SUFFICES ASSUME NEW y \in Segments, NEW m \in Nat
          PROVE [[y EXCEPT !.seg = @ + m - 1] EXCEPT !.seg = @ + 1] = [y EXCEPT !.seg = @ + (m + 1) - 1]
        OBVIOUS
      <4>1. y.seg \in Int /\ (y.seg + m - 1) + 1 = y.seg + (m + 1) - 1
        BY DEF Segments
      <4>. QED
        BY <4>1 DEF Segments
    <3>. QED
      BY <1>1, <3>1, <3>2, <3>3
  <2> HIDE DEF x
  <2>4. body[Linked[1]] = body[chain[1]]
    BY <2>1, <2>2
  <2>5. ~split => body[Linked[1]].seg = 1
    BY <1>5, <2>4 DEF Stored, Assembling
  <2>6. ASSUME NEW n \in DOMAIN Linked
        PROVE  /\ Whole(body[Linked[n]]) /\ body[Linked[n]] \in Segments
               /\ n < Len(Linked) => body[Linked[n]].seg < body[Linked[n]].of
               /\ body[Linked[n]] = [body[Linked[1]] EXCEPT !.seg = @ + n - 1]
               /\ delivered # <<>> => body[Linked[n]].frame > delivered[1].frame
    <3>1. CASE n = Len(Linked)
      <4>1. body[Linked[n]] = x
        BY <1>2, <3>1 DEF x
      <4>2. n = Len(chain) + 1 /\ ~(n < Len(Linked))
        BY <1>1, <1>2, <3>1
      <4>3. body[Linked[n]] = [body[Linked[1]] EXCEPT !.seg = @ + n - 1]
        BY <2>3, <2>4, <4>1, <4>2
      <4>. QED
        BY <1>3, <4>1, <4>2, <4>3 DEF x
    <3>2. CASE n # Len(Linked)
      <4>1. n \in DOMAIN chain
        BY <1>1, <1>2, <2>1, <2>6, <3>2
      <4>. QED
        BY <2>2, <2>4, <4>1
    <3>. QED
      BY <3>1, <3>2
  <2>. QED
    BY <1>2, <2>1, <2>5, <2>6
<1>. QED
  BY <1>4, <1>5

(* One descriptor of the walk holds a segment.                               *)
LEMMA TakeStored ==
    ASSUME Owned, NEW count \in 0..NumDescs, Stored(count), DeliveredWhole,
           TakeSegment \/ DiscardFrame \/ GoodFrame
    PROVE  DeliveredWhole' /\ \E c \in 0..NumDescs : Stored(c)'
<1> DEFINE x == body[Pbuf]
<1>1. Walking /\ Filled /\ ~freed /\ WalkRest
  BY DEF TakeSegment, DiscardFrame, GoodFrame
<1>2. PICK free \in SUBSET Pbufs : Rearm(free)
  <2>1. pool \in SUBSET Pbufs /\ pool \cup Elements(Linked) \in SUBSET Pbufs
    BY <1>1, FilledFresh, ElementsFacts DEF Owned, Types
  <2>. QED
    BY <2>1 DEF TakeSegment, DiscardFrame, GoodFrame
<1>3. UNCHANGED <<frames, body>> /\ (~split' => ~split)
  <2>1. UNCHANGED <<frames, body>>
    BY <1>1 DEF WalkRest, dmaVars
  <2>2. ~split' => ~split
    BY <1>2, RearmCases, Zenon
  <2>. QED
    BY <2>1, <2>2
<1>4. PICK c \in 0..NumDescs :
               /\ Laid(c)' /\ First' <= c /\ InOrder(c)'
               /\ Line(c, First)' = Line(count, 1)
               /\ \A i \in First'..c : \E j \in 1..count : Line(c, i)' = Line(count, j)
  BY <1>1, <1>2, RearmStored, FilledFresh
<1>5. /\ x \in Segments /\ Whole(x) /\ count >= 1 /\ count \in Nat
      /\ ring[Read].last <=> x.seg = x.of
      /\ Follows(x, Line(count, 1))
      /\ \A j \in 1..count : Line(count, j) # Nothing =>
            IF ring[Read].last THEN x.frame < Line(count, j).frame ELSE x.frame <= Line(count, j).frame
      /\ delivered # <<>> => x.frame > delivered[1].frame
  BY <1>1, TakenFacts
<1>6. \A y : Whole(y)' <=> Whole(y)
  BY <1>3 DEF Whole
<1>7. /\ Linked \in Seq(Pbufs) /\ Len(Linked) >= 1 /\ DOMAIN Linked = 1..Len(Linked) /\ Linked[Len(Linked)] = Pbuf
      /\ ~split => body[Linked[1]].seg = 1
      /\ \A n \in DOMAIN Linked :
               /\ Whole(body[Linked[n]]) /\ body[Linked[n]] \in Segments
               /\ n < Len(Linked) => body[Linked[n]].seg < body[Linked[n]].of
               /\ body[Linked[n]] = [body[Linked[1]] EXCEPT !.seg = @ + n - 1]
               /\ delivered # <<>> => body[Linked[n]].frame > delivered[1].frame
  BY <1>1, LinkedFacts
<1>8. Len(Linked) \in Nat /\ 1 \in DOMAIN Linked /\ Len(Linked) \in DOMAIN Linked
  BY <1>7
<1>9. delivered \in Seq(Segments) /\ (delivered # <<>> => delivered[1].frame <= frames /\ delivered[1].frame \in Nat) /\ frames \in Nat
  <2>1. delivered \in Seq(Segments) /\ (delivered # <<>> => delivered[1].frame <= frames)
    BY DEF Stored, Later
  <2>2. frames \in Nat
    BY RxBoundsAssumption DEF Owned, Types
  <2>3. ASSUME delivered # <<>> PROVE delivered[1].frame \in Nat
    <3>1. delivered[1] \in Segments
      BY <2>1, <2>3
    <3>. QED
      BY <3>1, RxBoundsAssumption DEF Segments
  <2>. QED
    BY <2>1, <2>2, <2>3
<1>10. ring[Read].last => Line(count, 1) = Nothing \/ Line(count, 1).seg = 1
  <2>1. x.seg \in Int /\ x.of \in Int
    BY <1>5 DEF Segments
  <2>. QED
    BY <1>5, <2>1 DEF Follows
<1>11. CASE TakeSegment
  <2>1. chain' = Linked /\ freed' = freed /\ delivered' = delivered /\ ~ring[Read].last
    BY <1>11 DEF TakeSegment
  <2>2. DeliveredWhole'
    BY <1>3, <2>1 DEF DeliveredWhole
  <2>3. x.seg < x.of
    BY <1>5, <2>1 DEF Whole, Segments
  <2>4. Assembling(c)'
    <3>1. ASSUME NEW n \in DOMAIN Linked PROVE body[Linked[n]].seg < body[Linked[n]].of
      <4>1. n \in 1..Len(Linked) /\ Len(Linked) \in Nat
        BY <1>7, <1>8
      <4>2. CASE n = Len(Linked)
        BY <1>7, <2>3, <4>2
      <4>3. CASE n < Len(Linked)
        BY <1>7, <4>3
      <4>. QED
        BY <4>1, <4>2, <4>3
    <3>2. Linked # <<>>
      BY <1>7
    <3>3. Follows(body[Linked[Len(Linked)]], Line(c, First)')
      BY <1>4, <1>5, <1>7
    <3>. QED
      BY <1>1, <1>3, <1>6, <1>7, <2>1, <3>1, <3>2, <3>3 DEF Assembling
  <2>5. Later(c)'
    <3>1. ASSUME delivered # <<>>, NEW j \in 1..count, Line(count, j) # Nothing
          PROVE  Line(count, j).frame > delivered[1].frame
      <4>1. 0 <= j /\ j \in First..count
        BY <1>1, TakenFacts
      <4>. QED
        BY <3>1, <4>1 DEF Stored, Later
    <3>. QED
      BY <1>3, <1>4, <1>7, <1>9, <2>1, <3>1 DEF Later
  <2>. QED
    BY <1>4, <2>2, <2>4, <2>5 DEF Stored
<1>12. CASE DiscardFrame
  <2>1. freed' = TRUE /\ delivered' = delivered /\ ring[Read].last
    BY <1>12 DEF DiscardFrame
  <2>2. DeliveredWhole'
    BY <1>3, <2>1 DEF DeliveredWhole
  <2>3. Assembling(c)'
    BY <1>4, <1>10, <2>1 DEF Assembling
  <2>4. Later(c)'
    <3>1. ASSUME delivered # <<>>, NEW j \in 1..count, Line(count, j) # Nothing
          PROVE  Line(count, j).frame > delivered[1].frame
      <4>1. 0 <= j /\ j \in First..count
        BY <1>1, TakenFacts
      <4>. QED
        BY <3>1, <4>1 DEF Stored, Later
    <3>. QED
      BY <1>3, <1>4, <1>9, <2>1, <3>1 DEF Later
  <2>. QED
    BY <1>4, <2>2, <2>3, <2>4 DEF Stored
<1>13. CASE GoodFrame
  <2>1. freed' = freed /\ chain' = <<>> /\ ring[Read].last /\ delivered' \in {delivered, Contents(Linked)}
    BY <1>13 DEF GoodFrame
  <2>2. Assembling(c)'
    BY <1>4, <1>10, <2>1 DEF Assembling
  <2>3. DOMAIN chain' = {}
    BY <2>1
  <2>4. CASE delivered' = delivered
    <3>1. DeliveredWhole'
      BY <1>3, <2>4 DEF DeliveredWhole
    <3>2. ASSUME delivered # <<>>, NEW j \in 1..count, Line(count, j) # Nothing
          PROVE  Line(count, j).frame > delivered[1].frame
      <4>1. 0 <= j /\ j \in First..count
        BY <1>1, TakenFacts
      <4>. QED
        BY <3>2, <4>1 DEF Stored, Later
    <3>3. Later(c)'
      BY <1>3, <1>4, <1>9, <2>3, <2>4, <3>2 DEF Later
    <3>. QED
      BY <1>4, <2>2, <3>1, <3>3 DEF Stored
  <2>5. CASE delivered' = Contents(Linked)
    <3>1. /\ delivered' \in Seq(Segments) /\ Len(delivered') = Len(Linked) /\ DOMAIN delivered' = DOMAIN Linked
          /\ \A n \in DOMAIN Linked : delivered'[n] = body[Linked[n]]
      <4>1. Len(Linked) \in Nat /\ DOMAIN Linked = 1..Len(Linked)
        BY <1>7, <1>8
      <4>2. delivered' = [n \in 1..Len(Linked) |-> body[Linked[n]]]
        BY <2>5, <4>1 DEF Contents
      <4>3. \A n \in 1..Len(Linked) : body[Linked[n]] \in Segments
        BY <1>7, <4>1
      <4>. QED
        BY <4>1, <4>2, <4>3
    <3>2. x = [body[Linked[1]] EXCEPT !.seg = @ + Len(Linked) - 1]
      BY <1>7, <1>8
    <3>3. \A n \in DOMAIN Linked :
            /\ delivered'[n].frame = x.frame /\ delivered'[n].of = x.of
            /\ delivered'[n].seg = body[Linked[1]].seg + n - 1
      <4>1. \A y \in Segments, n \in Nat :
              /\ [y EXCEPT !.seg = @ + n - 1].frame = y.frame /\ [y EXCEPT !.seg = @ + n - 1].of = y.of
              /\ [y EXCEPT !.seg = @ + n - 1].seg = y.seg + n - 1
        BY DEF Segments
      <4>2. body[Linked[1]] \in Segments
        BY <1>7, <1>8
      <4>3. x.frame = body[Linked[1]].frame /\ x.of = body[Linked[1]].of
        BY <1>8, <3>2, <4>1, <4>2
      <4> HIDE DEF x
      <4> SUFFICES ASSUME NEW n \in DOMAIN Linked
          PROVE  /\ delivered'[n].frame = x.frame /\ delivered'[n].of = x.of
                 /\ delivered'[n].seg = body[Linked[1]].seg + n - 1
        OBVIOUS
      <4>4. n \in Nat
        BY <1>7, <1>8
      <4>5. delivered'[n] = [body[Linked[1]] EXCEPT !.seg = @ + n - 1]
        BY <1>7, <3>1
      <4>. QED
        BY <4>1, <4>2, <4>3, <4>4, <4>5
    <3>4. DeliveredWhole'
      <4> SUFFICES ASSUME ~split'
          PROVE  /\ \A i \in DOMAIN delivered' : delivered'[i].seg = i /\ delivered'[i].frame = delivered'[1].frame
                 /\ delivered' # <<>> => delivered'[1].of = Len(delivered')
        BY DEF DeliveredWhole
      <4>1. body[Linked[1]].seg = 1
        BY <1>3, <1>7
      <4>2. \A i \in DOMAIN Linked : delivered'[i].seg = i
        BY <1>7, <1>8, <3>3, <4>1
      <4>3. x.seg = Len(Linked) /\ x.of = x.seg
        BY <1>5, <1>7, <1>8, <2>1, <3>1, <4>2
      <4>. QED
        BY <1>8, <3>1, <3>3, <4>2, <4>3
    <3>5. Later(c)'
      <4>1. delivered'[1].frame = x.frame /\ x.frame <= frames /\ x.frame \in Nat
        BY <1>5, <1>8, <3>3 DEF Whole, Segments
      <4>2. \A j \in 1..count : Line(count, j) # Nothing => Line(count, j).frame > x.frame
        <5> SUFFICES ASSUME NEW j \in 1..count, Line(count, j) # Nothing PROVE Line(count, j).frame > x.frame
          OBVIOUS
        <5>1. x.frame < Line(count, j).frame
          BY <1>5, <2>1
        <5>. QED
          BY <5>1
      <4>. QED
        BY <1>3, <1>4, <2>3, <3>1, <4>1, <4>2 DEF Later
    <3>. QED
      BY <1>4, <2>2, <3>4, <3>5 DEF Stored
  <2>. QED
    BY <2>1, <2>4, <2>5
<1>. QED
  BY <1>11, <1>12, <1>13

(* A call begins with no chain in hand.                                      *)
LEMMA EnterStored ==
    ASSUME Owned, NEW count \in 0..NumDescs, Stored(count), Enter
    PROVE  Stored(count)'
<1>1. /\ UNCHANGED <<ring, Read, hw, incoming, frames, body, delivered, split>>
      /\ rx = "called" /\ chain' = <<>> /\ freed' = FALSE
  BY DEF Enter, dmaVars
<1>2. ~split => chain = <<>> \/ freed
  <2> SUFFICES ASSUME ~split, ~freed, chain # <<>> PROVE FALSE
    OBVIOUS
  <2>1. Len(chain) \in DOMAIN chain /\ Elements(chain) = {}
    BY <1>1 DEF Owned, Complete, Types, Live
  <2>. QED
    BY <2>1 DEF Elements
<1>3. Laid(count)' /\ First' = First /\ \A i : Line(count, i)' = Line(count, i)
  BY <1>1 DEF Stored, Laid, Desc, First, Line
<1>4. InOrder(count)'
  BY <1>1, <1>3 DEF Stored, InOrder, Desc, Whole
<1>5. Assembling(count)'
  BY <1>1, <1>2, <1>3 DEF Stored, Assembling
<1>6. Later(count)'
  <2>1. DOMAIN chain' = {}
    BY <1>1
  <2>. QED
    BY <1>1, <1>3, <2>1 DEF Stored, Later
<1>. QED
  BY <1>3, <1>4, <1>5, <1>6 DEF Stored

LEMMA StepStored ==
    ASSUME IInv, [Next]_vars
    PROVE  DeliveredWhole' /\ \E c \in 0..NumDescs : Stored(c)'
<1>1. PICK count \in 0..NumDescs : Stored(count)
  BY DEF IInv
<1>. USE DEF IInv
<1>2. CASE FrameComesIn
  BY <1>1, <1>2, FrameComesInStored DEF FrameComesIn, DeliveredWhole
<1>3. CASE NoDescriptor
  BY <1>1, <1>3, NoDescriptorStored DEF NoDescriptor, DeliveredWhole
<1>4. CASE DmaStore
  BY <1>1, <1>4, DmaStoreStored DEF DmaStore, DeliveredWhole
<1>5. CASE StackFrees \/ Interrupt \/ UseFreed \/ UNCHANGED vars
  <2>1. UNCHANGED <<ring, Read, hw, incoming, frames, body, chain, freed, delivered, split>>
    BY <1>5 DEF StackFrees, Interrupt, UseFreed, WalkRest, vars, dmaVars
  <2>2. split' \in BOOLEAN
    BY <2>1 DEF Owned, Types
  <2>. QED
    BY <1>1, <2>1, <2>2, KeepsStored DEF DeliveredWhole
<1>6. CASE Finish
  <2>1. UNCHANGED <<ring, Read, hw, incoming, frames, body, chain, freed, delivered>>
    BY <1>6 DEF Finish, dmaVars
  <2>2. split' \in BOOLEAN /\ (split => split')
    BY <1>6 DEF Finish, Leave
  <2>3. DeliveredWhole'
    BY <2>1, <2>2 DEF DeliveredWhole
  <2>. QED
    BY <1>1, <2>1, <2>2, <2>3, KeepsStored
<1>7. CASE Enter
  BY <1>1, <1>7, EnterStored DEF Enter, DeliveredWhole
<1>8. CASE RefillEmpty
  BY <1>1, <1>8, RefillEmptyStored
<1>9. CASE TakeSegment \/ DiscardFrame \/ GoodFrame
  BY <1>1, <1>9, TakeStored
<1>. QED
  BY <1>2, <1>3, <1>4, <1>5, <1>6, <1>7, <1>8, <1>9 DEF Next, Receive

----------------------------------------------------------------------------
(* Every pbuf is in one place, and what is in the ring, in hand and coming   *)
(* in is one line of segments.                                               *)
THEOREM Invariance == Spec => []IInv
<1>1. Init => IInv
  <2>1. 0 \in 0..NumDescs
    BY RxDescsAssumption
  <2>. QED
    BY <2>1, InitOwned, InitStored DEF IInv
<1>2. IInv /\ [Next]_vars => IInv'
  <2> SUFFICES ASSUME IInv, [Next]_vars PROVE IInv'
    OBVIOUS
  <2>1. Owned'
    BY StepOwned DEF IInv
  <2>. QED
    BY <2>1, StepStored DEF IInv
<1>. QED
  BY <1>1, <1>2, PTL DEF Spec

(* The driver's state keeps its types.                                       *)
THEOREM TypeCorrect == Spec => []TypeOK
<1>1. IInv => TypeOK
  BY ElementsFacts DEF IInv, Owned, Types, TypeOK
<1>. QED
  BY <1>1, Invariance, PTL

(* A pbuf the DMA engine may write to is in nobody else's hands.             *)
THEOREM RingStaysExclusive == Spec => []RingExclusive
<1>1. IInv => RingExclusive
  BY BufsAre DEF IInv, Owned, Exclusive, RingExclusive
<1>. QED
  BY <1>1, Invariance, PTL

(* No pbuf is lost, as long as no call ends inside a frame.                  *)
THEOREM PbufsKept == Spec => []NoPbufLost
<1>1. IInv => NoPbufLost
  <2> SUFFICES ASSUME IInv, ~split PROVE pool \cup RingBufs \cup StackBufs \cup Elements(chain) = Pbufs
    BY DEF NoPbufLost
  <2>1. pool \cup RingBufs \cup StackBufs \cup Live = Pbufs /\ Elements(chain) \subseteq Pbufs
    BY ElementsFacts DEF IInv, Owned, Complete, Types
  <2>2. Live \subseteq Elements(chain)
    BY DEF Live
  <2>. QED
    BY <2>1, <2>2
<1>. QED
  BY <1>1, Invariance, PTL

(* What lwIP is handed is one whole frame, as long as no call ends inside a  *)
(* frame.                                                                    *)
THEOREM FramesDeliveredWhole == Spec => []DeliveredWhole
<1>1. IInv => DeliveredWhole
  BY DEF IInv
<1>. QED
  BY <1>1, Invariance, PTL

(* Frames reach lwIP in the order of their arrival, none of them twice, even *)
(* when calls end inside a frame.                                            *)
THEOREM FramesInOrder == Spec => DeliveredInOrder
<1>1. IInv /\ [Next]_vars => [delivered' # delivered /\ delivered # <<>> => delivered'[1].frame > delivered[1].frame]_vars
  <2> SUFFICES ASSUME IInv, Next, delivered' # delivered, delivered # <<>>
      PROVE  delivered'[1].frame > delivered[1].frame
    OBVIOUS
  <2>1. GoodFrame
    BY DEF Next, Receive, FrameComesIn, NoDescriptor, DmaStore, StackFrees, UseFreed, Interrupt, Enter, Finish,
           RefillEmpty, TakeSegment, DiscardFrame
  <2>2. PICK count \in 0..NumDescs : Stored(count)
    BY DEF IInv
  <2>3. Walking /\ Filled /\ ~freed /\ delivered' = Contents(Linked)
    BY <2>1 DEF GoodFrame
  <2>4. 1 \in DOMAIN Linked /\ body[Linked[1]].frame > delivered[1].frame
    <3>1. Owned
      BY DEF IInv
    <3>2. /\ Len(Linked) >= 1 /\ DOMAIN Linked = 1..Len(Linked) /\ Linked \in Seq(Pbufs)
          /\ \A n \in DOMAIN Linked : body[Linked[n]].frame > delivered[1].frame
      BY <2>2, <2>3, <3>1, LinkedFacts
    <3>3. 1 \in DOMAIN Linked
      BY <3>2
    <3>. QED
      BY <3>2, <3>3
  <2>. QED
    BY <2>3, <2>4 DEF Contents
<1>. QED
  BY <1>1, Invariance, PTL DEF Spec, DeliveredInOrder
=============================================================================
