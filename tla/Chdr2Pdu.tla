------------------------------- MODULE Chdr2Pdu -------------------------------
(* chdr2pdu_impl.cc: a thread that the constructor starts takes packets from   *)
(* the device and publishes each as a PDU, while the thread that owns the      *)
(* block constructs it, starts it any number of times, and destroys it.        *)
(*                                                                             *)
(* The two share the vector of streamers and the flag d_finished without a     *)
(* lock. A push_back on the empty vector stores the element and then the two   *)
(* pointers begin and end, in either order; the reader compares the pointers.  *)
(*                                                                             *)
(* recv may fill as many samples as the buffer has bytes, so that a packet of  *)
(* more than a quarter as many samples is written past its end. The thread is  *)
(* then left where it is: nothing is said of what the process does after that. *)
EXTENDS Naturals, Sequences

CONSTANTS
    MTU,      \* bytes in d_rxbuf
    SPP,      \* most samples in a packet of the device
    PACKETS,  \* bound on the packets the device sends
    STARTS    \* bound on the calls of start()

ASSUME SizeAssumption ==
    MTU \in Nat /\ SPP \in Nat \ {0} /\ PACKETS \in Nat /\ STARTS \in Nat

VARIABLES
    owner,        \* where the owner of the block is
    thread,       \* where run() is
    d_started, d_finished,
    interrupted,  \* d_thread.interrupt() has been called
    begin, end,   \* do the pointers of _rx.streamers show a streamer?
    starts,       \* calls of start() so far
    sent,         \* lengths of the packets the device has sent
    taken,        \* how many of them recv has returned
    d_rxbuf,      \* the bytes, each as <<packet, word, byte of the word>>
    result,       \* result of recv
    published     \* the PDUs
flags == <<d_started, d_finished, interrupted>>
streamers == <<begin, end>>
data == <<taken, d_rxbuf, result, published>>
vars == <<owner, thread, flags, streamers, starts, sent, data>>

NoByte == <<0, 0, 0>>

(* A sample is a word of four bytes (host type sc16).                          *)
Fits(n) == n * 4 <= MTU

(* The constructor up to start_rxthread. *)
Init ==
    /\ owner = "constructing" /\ thread = "none"
    /\ d_started = FALSE /\ d_finished = FALSE /\ interrupted = FALSE
    /\ begin = FALSE /\ end = FALSE
    /\ starts = 0 /\ sent = <<>> /\ taken = 0
    /\ d_rxbuf = [i \in 0..(MTU - 1) |-> NoByte]
    /\ result = 0 /\ published = <<>>

-------------------------------------------------------------------------------
(* The owner *)

(* start_rxthread: the thread runs before d_started is set. *)
SpawnThread ==
    /\ owner = "constructing"
    /\ owner' = "spawned" /\ thread' = "check"
    /\ UNCHANGED <<flags, streamers, starts, sent, data>>
(* Mutant: d_started is never set. *)
SetStarted_Forgotten ==
    /\ owner = "spawned"
    /\ owner' = "idle"
    /\ UNCHANGED <<thread, flags, streamers, starts, sent, data>>
SetStarted ==
    /\ owner = "spawned"
    /\ owner' = "idle" /\ d_started' = TRUE
    /\ UNCHANGED <<thread, d_finished, interrupted, streamers, starts, sent, data>>

(* start(): without a streamer one is created, or start() fails; then the      *)
(* streamer is told to stream. With one streamer the vector is left alone.     *)
(* Mutant: a streamer is added at each start. *)
Start_Adds ==
    /\ owner = "idle" /\ starts < STARTS
    /\ starts' = starts + 1 /\ owner' \in {"pushing", "idle"}
    /\ UNCHANGED <<thread, flags, streamers, sent, data>>
Start ==
    /\ owner = "idle" /\ starts < STARTS
    /\ starts' = starts + 1
    /\ \/ owner' = (IF begin /\ end THEN "streaming" ELSE "pushing")
       \/ ~(begin /\ end) /\ owner' = "idle"
    /\ UNCHANGED <<thread, flags, streamers, sent, data>>
(* The two stores of the one push_back, of whichever branch it is.             *)
StoreBegin ==
    /\ owner = "pushing" /\ ~begin
    /\ begin' = TRUE /\ owner' = (IF end THEN "streaming" ELSE "pushing")
    /\ UNCHANGED <<thread, flags, end, starts, sent, data>>
StoreEnd ==
    /\ owner = "pushing" /\ ~end
    /\ end' = TRUE /\ owner' = (IF begin THEN "streaming" ELSE "pushing")
    /\ UNCHANGED <<thread, flags, begin, starts, sent, data>>
Started ==
    /\ owner = "streaming"
    /\ owner' = "idle"
    /\ UNCHANGED <<thread, flags, streamers, starts, sent, data>>

(* The destructor: stop_rxthread. *)
(* Mutant: the flag is not set, only the thread interrupted. *)
Destroy_InterruptOnly ==
    /\ owner = "idle"
    /\ owner' = "stopping"
    /\ UNCHANGED <<thread, flags, streamers, starts, sent, data>>
Destroy ==
    /\ owner = "idle"
    /\ d_finished' = TRUE /\ owner' = "stopping"
    /\ UNCHANGED <<thread, d_started, interrupted, streamers, starts, sent, data>>
Interrupt ==
    /\ owner = "stopping"
    /\ IF d_started THEN interrupted' = TRUE /\ owner' = "joining"
       ELSE owner' = "gone" /\ UNCHANGED interrupted
    /\ UNCHANGED <<thread, d_started, d_finished, streamers, starts, sent, data>>
Join ==
    /\ owner = "joining" /\ thread = "ended"
    /\ owner' = "gone"
    /\ UNCHANGED <<thread, flags, streamers, starts, sent, data>>

-------------------------------------------------------------------------------
(* The thread: run() *)

CheckFinished ==
    /\ thread = "check"
    /\ thread' = IF d_finished THEN "ended" ELSE "size"
    /\ UNCHANGED <<owner, flags, streamers, starts, sent, data>>

(* _rx.streamers.size() != 1: one pointer without the other gives no size of 1. *)
(* Mutant: only the end is looked at. *)
SizeIsOne_EndOnly == end
SizeIsOne == begin /\ end

CheckSize ==
    /\ thread = "size"
    /\ thread' = IF SizeIsOne THEN "recv" ELSE "sleep"
    /\ UNCHANGED <<owner, flags, streamers, starts, sent, data>>
(* POSIX sleep, which an interruption does not end. *)
Sleep ==
    /\ thread = "sleep"
    /\ thread' = "check"
    /\ UNCHANGED <<owner, flags, streamers, starts, sent, data>>

(* recv returns with a packet, or after a tenth of a second without; inside it *)
(* a boost interruption may take effect. (Of a packet with more samples than   *)
(* the buffer has bytes it would take a part, and overrun as well.)            *)
Overrun ==
    /\ thread = "recv" /\ taken < Len(sent) /\ ~Fits(sent[taken + 1])
    /\ thread' = "overrun"
    /\ UNCHANGED <<owner, flags, streamers, starts, sent, data>>
Recv ==
    /\ thread = "recv" /\ taken < Len(sent) /\ Fits(sent[taken + 1])
    /\ taken' = taken + 1
    /\ result' = sent[taken + 1]
    /\ d_rxbuf' = [i \in 0..(MTU - 1) |->
                     IF i < result' * 4 THEN <<taken', i \div 4, i % 4>> ELSE d_rxbuf[i]]
    /\ thread' = "publish"
    /\ UNCHANGED <<owner, flags, streamers, starts, sent, published>>
(* Mutant: the thread gives up. *)
Timeout_GivesUp ==
    /\ thread = "recv" /\ taken = Len(sent)
    /\ thread' = "ended" /\ result' = 0
    /\ UNCHANGED <<owner, flags, streamers, starts, sent, taken, d_rxbuf, published>>
Timeout ==
    /\ thread = "recv" /\ taken = Len(sent)
    /\ thread' = "check" /\ result' = 0
    /\ UNCHANGED <<owner, flags, streamers, starts, sent, taken, d_rxbuf, published>>
Interrupted ==
    /\ thread = "recv" /\ interrupted
    /\ thread' = "ended"
    /\ UNCHANGED <<owner, flags, streamers, starts, sent, data>>

(* The third byte of each word. *)
Offset(i) == i * 4 + 2

(* Mutant: the loop over the samples starts at one. *)
Publish_FromOne ==
    /\ thread = "publish"
    /\ published' = Append(published, [i \in 1..(result - 1) |-> d_rxbuf[Offset(i)]])
    /\ thread' = "check"
    /\ UNCHANGED <<owner, flags, streamers, starts, sent, taken, d_rxbuf, result>>
Publish ==
    /\ thread = "publish"
    /\ published' = Append(published, [i \in 1..result |-> d_rxbuf[Offset(i - 1)]])
    /\ thread' = "check"
    /\ UNCHANGED <<owner, flags, streamers, starts, sent, taken, d_rxbuf, result>>

-------------------------------------------------------------------------------
(* The device: streams once it has been told to. *)
Send ==
    /\ begin /\ end /\ owner # "pushing" /\ Len(sent) < PACKETS
    /\ \E n \in 1..SPP : sent' = Append(sent, n)
    /\ UNCHANGED <<owner, thread, flags, streamers, starts, data>>

Owner ==
    \/ SpawnThread \/ SetStarted \/ Start \/ StoreBegin \/ StoreEnd \/ Started
    \/ Destroy \/ Interrupt \/ Join
Thread ==
    \/ CheckFinished \/ CheckSize \/ Sleep \/ Recv \/ Overrun \/ Timeout \/ Interrupted
    \/ Publish

(* The end: of the block, or of what can be said of it.                        *)
Sound == thread # "overrun"
Over == (~Sound \/ (owner = "gone" /\ thread = "ended")) /\ UNCHANGED vars

Next == Owner \/ Thread \/ Send \/ Over

(* Both threads are scheduled; recv and sleep return. Nobody has to start or   *)
(* destroy the block.                                                          *)
Fairness ==
    /\ WF_vars(Thread)
    /\ WF_vars(SpawnThread \/ SetStarted \/ StoreBegin \/ StoreEnd \/ Started
               \/ Interrupt \/ Join)
Spec == Init /\ [][Next]_vars /\ Fairness

-------------------------------------------------------------------------------
(* Properties *)

(* The state is of its type, and start() adds a streamer only where there is   *)
(* none: run() takes two for none.                                             *)
TypeOK ==
    /\ owner \in {"constructing", "spawned", "idle", "pushing", "streaming",
                  "stopping", "joining", "gone"}
    /\ thread \in {"none", "check", "size", "sleep", "recv", "publish", "ended", "overrun"}
    /\ d_started \in BOOLEAN /\ d_finished \in BOOLEAN /\ interrupted \in BOOLEAN
    /\ begin \in BOOLEAN /\ end \in BOOLEAN
    /\ owner = "pushing" => ~(begin /\ end)
    /\ starts \in 0..STARTS /\ sent \in Seq(1..SPP) /\ taken \in 0..Len(sent)
    /\ d_rxbuf \in [0..(MTU - 1) -> (0..PACKETS) \X (0..MTU) \X (0..3)]
    /\ result \in 0..SPP

(* The thread does not outlive the block: once the destructor has returned     *)
(* nothing reads the streamers or publishes (stop_rxthread against run).       *)
ThreadDiesFirst == owner = "gone" => thread = "ended"

(* The thread calls recv, on the first streamer, only when the vector that     *)
(* start() is filling is complete.                                             *)
StreamerIsThere == thread = "recv" => begin /\ end

(* The PDUs are the packets taken from the device, each once, in order, and    *)
(* element n is the third byte of word n of its own packet, never of an        *)
(* earlier, longer one that is still in the buffer (chdr2pdu.h:33-36); at most *)
(* the packet in hand is missing, and none when the block is gone.             *)
PduPerPacket ==
    /\ Len(published) = taken - (IF thread = "publish" THEN 1 ELSE 0)
    /\ \A k \in DOMAIN published :
          published[k] = [i \in 1..sent[k] |-> <<k, i - 1, 2>>]

(* The destructor returns, whatever the thread is doing when it is called,     *)
(* unless memory has been overrun.                                             *)
DestroyEnds == owner = "stopping" ~> (owner = "gone" \/ ~Sound)

(* The next packet is at most the k-th, and overran the buffer.                *)
OverrunUpTo(k) == ~Sound /\ ~Fits(sent[taken + 1]) /\ taken < k

(* A packet that arrives while nobody destroys the block is published, unless  *)
(* it or one before it does not fit the buffer.                                *)
PacketsArrive == \A k \in 1..PACKETS :
    Len(sent) >= k ~>
        (Len(published) >= k \/ d_finished \/ OverrunUpTo(k))
===============================================================================
