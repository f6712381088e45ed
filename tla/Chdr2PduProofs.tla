---------------------------- MODULE Chdr2PduProofs ----------------------------
(* Proofs about Chdr2Pdu, for every size of buffer and packet, any number of   *)
(* packets and starts.                                                         *)
(*                                                                             *)
(* Control says where the two threads can be together and what the flags say   *)
(* of it. Contents says what the buffer and the list of PDUs hold, and needs   *)
(* from Control only that both are of their types.                             *)
EXTENDS Chdr2Pdu, SequenceTheorems, TLAPS

Control ==
    /\ TypeOK
    /\ owner = "constructing" <=> thread = "none"
    /\ d_started = IF owner \in {"constructing", "spawned"} THEN FALSE ELSE TRUE
    /\ d_finished = IF owner \in {"stopping", "joining", "gone"} THEN TRUE ELSE FALSE
    /\ owner = "streaming" => begin /\ end
    /\ Len(sent) <= PACKETS
    /\ ThreadDiesFirst
    /\ StreamerIsThere

BytesOfPackets == Seq((0..PACKETS) \X (0..MTU) \X (0..3))

Contents ==
    /\ published \in Seq(BytesOfPackets)
    /\ PduPerPacket
    /\ thread = "publish" =>
          /\ taken \in 1..Len(sent) /\ result = sent[taken] /\ Fits(result)
          /\ \A i \in 0..(result * 4 - 1) : d_rxbuf[i] = <<taken, i \div 4, i % 4>>

IInv == Control /\ Contents

-------------------------------------------------------------------------------
(* Arithmetic of the buffer. *)

(* The byte of every sample that is read back is the third of its word.        *)
LEMMA ThirdByte ==
    ASSUME NEW i \in Nat
    PROVE  Offset(i) \div 4 = i /\ Offset(i) % 4 = 2
BY DEF Offset

(* It is one of the bytes that recv has written (chdr2pdu_impl.cc:185-198).    *)
LEMMA InPacket ==
    ASSUME NEW n \in 0..SPP, NEW i \in 0..(n - 1)
    PROVE  Offset(i) \in 0..(n * 4 - 1)
BY SizeAssumption DEF Offset

-------------------------------------------------------------------------------
(* Control *)

LEMMA InitControl == Init => Control
<1> SUFFICES ASSUME Init PROVE Control
    OBVIOUS
<1>1. d_rxbuf \in [0..(MTU - 1) -> (0..PACKETS) \X (0..MTU) \X (0..3)]
    BY SizeAssumption DEF Init, NoByte
<1>2. sent \in Seq(1..SPP) /\ Len(sent) = 0
    BY DEF Init
<1>3. starts \in 0..STARTS /\ taken \in 0..Len(sent) /\ result \in 0..SPP /\ Len(sent) <= PACKETS
    BY <1>2, SizeAssumption DEF Init
<1> QED
    BY <1>1, <1>2, <1>3
    DEF Init, Control, TypeOK, ThreadDiesFirst, StreamerIsThere

(* The steps of the owner move no data.                                        *)
LEMMA OwnerControl == Control /\ Owner => Control'
<1> SUFFICES ASSUME Control, Owner PROVE Control'
    OBVIOUS
<1> USE DEF Control, TypeOK, ThreadDiesFirst, StreamerIsThere,
            flags, streamers, data
<1>1. CASE SpawnThread BY <1>1 DEF SpawnThread
<1>2. CASE SetStarted
    <2>1. owner' = "idle" /\ d_started' = TRUE /\ d_finished' = FALSE
        BY <1>2 DEF SetStarted
    <2>2. TypeOK'
        BY <1>2, <2>1 DEF SetStarted
    <2>3. /\ d_started' = IF owner' \in {"constructing", "spawned"} THEN FALSE ELSE TRUE
          /\ d_finished' = IF owner' \in {"stopping", "joining", "gone"} THEN TRUE ELSE FALSE
        BY <2>1
    <2>4. /\ thread' = thread /\ thread # "none"
          /\ sent' = sent /\ begin' = begin /\ end' = end
        BY <1>2 DEF SetStarted
    <2> QED
        BY <2>1, <2>2, <2>3, <2>4
<1>3. CASE Start
    <2>1. starts' \in 0..STARTS
        BY <1>3, SizeAssumption DEF Start
    <2>2. owner = "idle" /\ owner' \in {"streaming", "pushing", "idle"}
        BY <1>3 DEF Start
    <2>3. (owner' = "streaming" => begin /\ end) /\ (owner' = "pushing" => ~(begin /\ end))
        BY <1>3 DEF Start
    <2>4. UNCHANGED <<thread, flags, streamers, sent, data>>
        BY <1>3 DEF Start
    <2> QED
        BY <2>1, <2>2, <2>3, <2>4
<1>4. CASE StoreBegin BY <1>4 DEF StoreBegin
<1>5. CASE StoreEnd BY <1>5 DEF StoreEnd
<1>6. CASE Started BY <1>6 DEF Started
<1>7. CASE Destroy BY <1>7 DEF Destroy
<1>8. CASE Interrupt BY <1>8 DEF Interrupt
<1>9. CASE Join BY <1>9 DEF Join
<1> QED
    BY <1>1, <1>2, <1>3, <1>4, <1>5, <1>6, <1>7, <1>8, <1>9 DEF Owner

LEMMA RecvTypes ==
    ASSUME Control, Recv
    PROVE  /\ d_rxbuf' \in [0..(MTU - 1) -> (0..PACKETS) \X (0..MTU) \X (0..3)]
           /\ taken' \in 1..Len(sent) /\ result' \in 0..SPP /\ result' = sent[taken']
<1>1. taken' \in 1..Len(sent) /\ taken' \in 0..PACKETS
    BY SizeAssumption DEF Recv, Control, TypeOK
<1>2. result' \in 1..SPP /\ result' = sent[taken']
    <2>1. sent \in Seq(1..SPP)
        BY DEF Control, TypeOK
    <2>2. result' = sent[taken']
        BY DEF Recv
    <2> QED
        BY <1>1, <2>1, <2>2, ElementOfSeq
<1>3. ASSUME NEW i \in 0..(MTU - 1)
      PROVE  <<taken', i \div 4, i % 4>> \in (0..PACKETS) \X (0..MTU) \X (0..3)
    <2>1. i \div 4 \in 0..MTU /\ i % 4 \in 0..3
        BY SizeAssumption
    <2> QED
        BY <1>1, <2>1
<1>4. d_rxbuf' \in [0..(MTU - 1) -> (0..PACKETS) \X (0..MTU) \X (0..3)]
    BY <1>3 DEF Recv, Control, TypeOK
<1> QED
    BY <1>1, <1>2, <1>4, SizeAssumption

LEMMA ThreadControl == Control /\ Thread => Control'
<1> SUFFICES ASSUME Control, Thread PROVE Control'
    OBVIOUS
<1> USE DEF Control, TypeOK, ThreadDiesFirst, StreamerIsThere,
            flags, streamers, data
<1>1. CASE CheckFinished BY <1>1 DEF CheckFinished
<1>2. CASE CheckSize BY <1>2 DEF CheckSize, SizeIsOne
<1>3. CASE Sleep BY <1>3 DEF Sleep
<1>4. CASE Recv BY <1>4, RecvTypes DEF Recv
<1>8. CASE Overrun BY <1>8 DEF Overrun
<1>5. CASE Timeout BY <1>5, SizeAssumption DEF Timeout
<1>6. CASE Interrupted BY <1>6 DEF Interrupted
<1>7. CASE Publish BY <1>7 DEF Publish
<1> QED
    BY <1>1, <1>2, <1>3, <1>4, <1>5, <1>6, <1>7, <1>8 DEF Thread

LEMMA SendControl == Control /\ Send => Control'
<1> SUFFICES ASSUME Control, Send PROVE Control'
    OBVIOUS
<1>1. PICK n \in 1..SPP : sent' = Append(sent, n)
    BY DEF Send
<1>2. sent' \in Seq(1..SPP) /\ Len(sent') = Len(sent) + 1
    BY <1>1 DEF Control, TypeOK
<1>3. Len(sent') <= PACKETS /\ taken' \in 0..Len(sent')
    <2>1. Len(sent) \in Nat /\ Len(sent) < PACKETS
        BY DEF Send, Control, TypeOK
    <2>2. taken' = taken /\ taken \in 0..Len(sent)
        BY DEF Send, Control, TypeOK, data
    <2> QED
        BY <1>2, <2>1, <2>2, SizeAssumption
<1>4. UNCHANGED <<owner, thread, flags, streamers, starts, data>>
    BY DEF Send
<1>5. TypeOK'
    BY <1>2, <1>3, <1>4 DEF Control, TypeOK, flags, streamers, data
<1> QED
    BY <1>3, <1>4, <1>5
    DEF Control, ThreadDiesFirst, StreamerIsThere, flags, streamers, data

LEMMA NextControl == Control /\ [Next]_vars => Control'
<1>1. Control /\ UNCHANGED vars => Control'
    BY DEF Control, TypeOK, ThreadDiesFirst, StreamerIsThere,
           vars, flags, streamers, data
<1> QED
    BY <1>1, OwnerControl, ThreadControl, SendControl DEF Next, Over
-------------------------------------------------------------------------------
(* Contents *)

(* What has been published stays, packet by packet, while more are sent.       *)
Pdu(k) == [i \in 1..sent[k] |-> <<k, i - 1, 2>>]

LEMMA InitContents == Init => Contents
BY DEF Init, Contents, PduPerPacket, BytesOfPackets

(* Steps that leave the data alone, and the thread out of publish.             *)
LEMMA SameContents ==
    ASSUME Contents, UNCHANGED <<sent, data>>,
           thread' = thread \/ (thread # "publish" /\ thread' # "publish")
    PROVE  Contents'
BY DEF Contents, PduPerPacket, data

LEMMA OwnerContents == Control /\ Contents /\ Owner => Contents'
<1> SUFFICES ASSUME Control, Contents, Owner PROVE Contents'
    OBVIOUS
<1>1. CASE SpawnThread
    BY <1>1, SameContents DEF SpawnThread, Control
<1>2. CASE ~SpawnThread
    BY <1>2, SameContents DEF Owner, SetStarted, Start, StoreBegin, StoreEnd,
                              Started, Destroy, Interrupt, Join
<1> QED
    BY <1>1, <1>2

(* A longer list of packets has the same beginning.                            *)
LEMMA SendContents == Control /\ Contents /\ Send => Contents'
<1> SUFFICES ASSUME Control, Contents, Send PROVE Contents'
    OBVIOUS
<1>1. PICK n \in 1..SPP : sent' = Append(sent, n)
    BY DEF Send
<1>2. sent \in Seq(1..SPP) /\ Len(sent') = Len(sent) + 1
    BY <1>1 DEF Control, TypeOK
<1>3. \A k \in 1..Len(sent) : sent'[k] = sent[k]
    BY <1>1, <1>2
<1>4. UNCHANGED <<thread, taken, d_rxbuf, result, published>>
    BY DEF Send, data
<1>5. DOMAIN published \subseteq 1..Len(sent)
    BY DEF Control, TypeOK, Contents, PduPerPacket
<1>6. PduPerPacket'
    BY <1>3, <1>4, <1>5 DEF Contents, PduPerPacket
<1>7. thread' = "publish" => taken' \in 1..Len(sent') /\ result' = sent'[taken']
    BY <1>2, <1>3, <1>4 DEF Contents
<1> QED
    BY <1>4, <1>6, <1>7 DEF Contents

(* A packet in hand: the buffer holds its bytes up to its length.              *)
LEMMA RecvContents == Control /\ Contents /\ Recv => Contents'
<1> SUFFICES ASSUME Control, Contents, Recv PROVE Contents'
    OBVIOUS
<1>1. taken' \in 1..Len(sent) /\ result' \in 0..SPP /\ result' = sent[taken']
    BY RecvTypes
<1>2. UNCHANGED <<sent, published>> /\ thread = "recv" /\ thread' = "publish" /\ taken' = taken + 1
    BY DEF Recv
<1>5. Fits(result')
    BY DEF Recv
<1>3. ASSUME NEW i \in 0..(result' * 4 - 1)
      PROVE  d_rxbuf'[i] = <<taken', i \div 4, i % 4>>
    <2>1. i \in 0..(MTU - 1) /\ i < result' * 4
        BY <1>1, <1>5, SizeAssumption DEF Fits
    <2> QED
        BY <2>1 DEF Recv
<1>4. PduPerPacket'
    <2>1. Len(published') = taken' - 1
        BY <1>2 DEF Contents, PduPerPacket, Control, TypeOK
    <2> QED
        BY <1>2, <2>1 DEF Contents, PduPerPacket
<1> QED
    BY <1>1, <1>2, <1>3, <1>4, <1>5 DEF Contents

LEMMA PublishContents == Control /\ Contents /\ Publish => Contents'
<1> SUFFICES ASSUME Control, Contents, Publish PROVE Contents'
    OBVIOUS
<1> DEFINE bytes == [i \in 1..result |-> d_rxbuf[Offset(i - 1)]]
<1>1. /\ thread = "publish" /\ thread' = "check"
      /\ UNCHANGED <<sent, taken, d_rxbuf, result>>
      /\ published' = Append(published, bytes)
    BY DEF Publish
<1>2. taken \in 1..Len(sent) /\ taken \in 1..PACKETS /\ result = sent[taken] /\ result \in 0..SPP
    BY <1>1, SizeAssumption DEF Contents, Control, TypeOK
<1>3. ASSUME NEW i \in 1..result
      PROVE  d_rxbuf[Offset(i - 1)] = <<taken, i - 1, 2>>
    <2>1. i - 1 \in 0..(result - 1) /\ i - 1 \in Nat
        BY <1>2
    <2>2. Offset(i - 1) \in 0..(result * 4 - 1)
        BY <1>2, <2>1, InPacket
    <2>3. d_rxbuf[Offset(i - 1)] = <<taken, Offset(i - 1) \div 4, Offset(i - 1) % 4>>
        BY <1>1, <2>2 DEF Contents
    <2> QED
        BY <2>1, <2>3, ThirdByte
<1>4. bytes = Pdu(taken)
    BY <1>2, <1>3 DEF Pdu
<1>5. bytes \in BytesOfPackets
    <2>1. ASSUME NEW i \in 1..result
          PROVE  <<taken, i - 1, 2>> \in (0..PACKETS) \X (0..MTU) \X (0..3)
        <3>1. result * 4 <= MTU
            BY <1>1 DEF Contents, Fits
        <3>2. i - 1 \in 0..MTU
            BY <1>2, <3>1, SizeAssumption
        <3> QED
            BY <1>2, <3>2, SizeAssumption
    <2>2. bytes \in [1..result -> (0..PACKETS) \X (0..MTU) \X (0..3)]
        BY <1>3, <2>1
    <2>3. result \in Nat
        BY <1>2, SizeAssumption
    <2> HIDE DEF bytes
    <2> QED
        BY <2>2, <2>3, SeqDef DEF BytesOfPackets
<1>6. /\ published' \in Seq(BytesOfPackets)
      /\ Len(published) = taken - 1 /\ Len(published') = taken
    BY <1>1, <1>2, <1>5 DEF Contents, PduPerPacket
<1>7. ASSUME NEW k \in DOMAIN published'
      PROVE  published'[k] = [i \in 1..sent'[k] |-> <<k, i - 1, 2>>]
    <2>1. CASE k = taken
        <3>1. published'[k] = bytes
            BY <1>1, <1>6, <2>1 DEF Contents
        <3> QED
            BY <1>1, <1>4, <2>1, <3>1 DEF Pdu
    <2>2. CASE k # taken
        <3>1. k \in DOMAIN published /\ published'[k] = published[k]
            BY <1>1, <1>2, <1>6, <2>2 DEF Contents
        <3> QED
            BY <1>1, <3>1 DEF Contents, PduPerPacket
    <2> QED
        BY <2>1, <2>2
<1> QED
    BY <1>1, <1>6, <1>7 DEF Contents, PduPerPacket

LEMMA ThreadContents == Control /\ Contents /\ Thread => Contents'
<1> SUFFICES ASSUME Control, Contents, Thread PROVE Contents'
    OBVIOUS
<1>1. CASE Recv BY <1>1, RecvContents
<1>2. CASE Publish BY <1>2, PublishContents
<1>3. CASE CheckFinished \/ CheckSize \/ Sleep \/ Overrun \/ Interrupted
    BY <1>3, SameContents DEF CheckFinished, CheckSize, Sleep, Overrun, Interrupted
<1>4. CASE Timeout
    BY <1>4 DEF Timeout, Contents, PduPerPacket
<1> QED
    BY <1>1, <1>2, <1>3, <1>4 DEF Thread

LEMMA NextContents == Control /\ Contents /\ [Next]_vars => Contents'
<1>1. Contents /\ UNCHANGED vars => Contents'
    BY SameContents DEF vars
<1> QED
    BY <1>1, OwnerContents, ThreadContents, SendContents DEF Next, Over

-------------------------------------------------------------------------------
(* Theorems *)

LEMMA Invariance == Spec => []IInv
<1>1. Init => IInv
    BY InitControl, InitContents DEF IInv
<1>2. IInv /\ [Next]_vars => IInv'
    BY NextControl, NextContents DEF IInv
<1> QED
    BY <1>1, <1>2, PTL DEF Spec

(* The state stays of its type, and start() adds a streamer only to none.      *)
THEOREM TypeCorrect == Spec => []TypeOK
<1>1. IInv => TypeOK
    BY DEF IInv, Control
<1> QED
    BY <1>1, Invariance, PTL

(* stop_rxthread: when the destructor has returned, run() has.                 *)
THEOREM ThreadEndsBeforeBlock == Spec => []ThreadDiesFirst
<1>1. IInv => ThreadDiesFirst
    BY DEF IInv, Control
<1> QED
    BY <1>1, Invariance, PTL

(* run() never takes a streamer that start() is still putting in place.        *)
THEOREM StreamerComplete == Spec => []StreamerIsThere
<1>1. IInv => StreamerIsThere
    BY DEF IInv, Control
<1> QED
    BY <1>1, Invariance, PTL

(* PDUs are the packets: once each, in order, none mixed with an earlier one.  *)
THEOREM PacketsBecomePdus == Spec => []PduPerPacket
<1>1. IInv => PduPerPacket
    BY DEF IInv, Contents
<1> QED
    BY <1>1, Invariance, PTL
===============================================================================
