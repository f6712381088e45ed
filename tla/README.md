# Verification of rfnoc-zluudgbee

rfnoc-zluudgbee receives IEEE 802.15.4 (Zigbee PHY) frames on the FPGA of a USRP and hands them to GNU Radio. This
directory holds TLA+ models of its logic, TLC configurations that check them on small instances, and proofs checked by
TLAPS. Paths are relative to the repository; `fpga/` stands for `src/rfnoc/fpga-src/`.

## 1. The system

```
 radio -> zluudgbeeRX: decimator -> mult -> atan -> iir -> detector -> demapper -> packager -> ppfifo
                          ^------ shifter <-----+   ^---------- frame_done ---------+
       -> zluudgbeeCRC: delay line + checksum register -> ppfifo
       -> host: chdr2pdu (thread) -> softcrc / dummycoord / pcap -> software transmitter
```

The FPGA part is synchronous: all blocks of a chain share one clock and one reset (`ce_rst | clear_tx_seqnum`), and
pass words by AXI stream signals (tvalid, tready, tlast). Most blocks drive tvalid without looking at tready; what keeps
that correct is how fast words come, and in which clocks. That is what the models are about. The repository's tests do
not reach it: the test suites are empty and the test benches only check the reset and the block identifiers.

On the host, chdr2pdu runs a thread of its own beside the one that constructs, starts and destroys the block; the other
blocks handle one message after the other. The documentation generator is a sequential script that turns Doxygen's XML
into the docstrings of the Python bindings when the project is built; it is most of the Python code.

| component | state | operations | what makes it correct | hard because |
|---|---|---|---|---|
| ping-pong buffer `zluudg_ppfifo.vhd`, `zluudg_ram.vhd` | mode, 2 x (write pointer, read pointer, skip flag, memory), registered outputs | write a word, read a word, change mode, reset | outputs exactly the unmarked bursts, in order, once; never wedges | reader and writer interleave clock by clock; six states written out twice by hand |
| CRC checker `zluudg_crc16ccitt.vhd` | three-word delay line, checksum register, buffer | RX: check and strip; TX: replace the last two words | exactly the payloads of good frames | verdict, end of burst and data are in different stages of the delay line |
| checksum algorithms (the same file, `softcrc_impl.cc`, `dummycoord_impl.cc`) | 16-bit register | one byte | both implementations agree | opposite bit orders, a table typed by hand |
| detector `zluudg_detector.vhd` | shift register, score, found latch, chip counter | chip, clear | locks on each header, cuts sequences at the right chip | latencies of 1 to 3 clocks on each path, cleared from the far end of the pipeline |
| demapper `zluudg_demapper.vhd` | two pipeline stages | sequence to nearest nibble | nearest nibble, doubtful if far | - |
| packager `zluudg_packager.vhd` | 6-state machine, byte counter, unreset output registers | nibble, byte taken, reset | writes the frame's bytes once each, releases the detector | outputs one clock late, reset that clears half of the registers |
| receiver `zluudg_receiver.vhd` | the wiring | - | every frame heard arrives | feedback from packager to detector |
| symbol synchronizer (`zluudg_decimator.vhd`, `zluudg_shifter.vhd`, `zluudg_symsync.vhd`) | decimation counter, error line and sums | sample, shift, settings | one chip per decim_rate samples, converges | feedback through a pipeline of 28 clocks, settings changed while running, 20-bit sums |
| `zluudg_mult/atan/iir.vhd` | fixed-point pipelines with valid bits | sample, reset | accuracy, delay | numeric; reset that clears half of the valid bits |
| `chdr2pdu_impl.cc` | receive thread, streamers, buffer | start, run, destroy | each packet published once, thread ends before the block | thread started in the constructor, streamers read without the mutex |
| `softcrc_impl.cc` | mode | handle_pdu | passes what the host sends, stops the rest | lengths at the edges |
| `dummycoord_impl.cc` | sequence number, addresses | handle_pdu | a numbered beacon for a request | char counter, fixed index into the frame |
| `docs/doxygen/doxyxml/generated` | one object per element | build, export | prose and structure survive | thousands of generated lines, two class hierarchies patched together |
| `docs/doxygen/doxyxml`, `swig_doc.py` | lazy object layer, output so far | parse, look up, document | documents everything usable, or nothing | what fails, when, and what it costs the rest |
| `zluudgbeeRX_impl.cc`, `zluudgbeeCRC_impl.cc`, NoC shells, XML | setting registers | - | - | - |

## 2. Modules

| module | models | state and actions |
|---|---|---|
| `PPFifo` | `zluudg_ppfifo.vhd`, `zluudg_ram.vhd` | one variable per register (the pairs as functions over FIFO 1, 2); one action per state of `P_PPFIFO`, parameterised by the FIFO written, so that the two hand-written halves are one action where they agree. They disagree in one arm, `ReadOnly`: both halves test FIFO 1's pointer and FIFO 2's flag. `Clock` is one rising edge: state arm, memories, `P_STATE_DECODE` |
| `BurstBuffer` | what a burst buffer promises | a queue of beats, the unfinished burst, whether it is marked |
| `PPFifoImpl` | refinement mapping | `ImplementsBuffer` is `BurstBuffer!Spec` under it; the word that enters at an edge (`taken`) is a variable of both sides, so that the marks and data the buffer acts on are those it was given |
| `PPFifoImplProofs` | TLAPS proofs about `PPFifo` and `PPFifoImpl` | section 5 |
| `CrcTables` | checksum arithmetic of FPGA and host | functions, no state |
| `CrcAgreement` | the two registers side by side | feed a byte to both |
| `HostBlocks` | the handlers of `softcrc_impl.cc` and `dummycoord_impl.cc` | functions of a PDU |
| `HostFrames`, `MCHostFrames` | `CrcAgreement` with a coordinator | besides frames built byte by byte, beacons: `Receive` is a PDU from the radio, `Handle` softcrc followed by `handle_pdu` of dummycoord. The number of a beacon is a char, and `ToChar`, `ToByte` are the conversions of the compiler |
| `HostFramesProofs` | TLAPS proofs | section 5 |
| `SymSync`, `MCSymSync` | decimator, shifter, and the pipeline between them | one operator per process; `Sample` and `Gap` are one rising edge with and without a sample, `Reset`, `SetRate` (the host writes the register). A sample is abstracted to the phase it will give, a function (`profile`) of the offset in the symbol |
| `SymSyncProofs` | TLAPS proofs | section 5 |
| `Chdr2Pdu` | `chdr2pdu_impl.cc` | program counters `owner` and `thread`; one action per access to what the two share. The vector of streamers is the two pointers that size() compares, stored in either order. A packet that does not fit the buffer ends in `overrun`, of which nothing more is said |
| `Chdr2PduProofs` | TLAPS proofs | section 5 |
| `DoxyTree` | XML trees, sequences of the generator | elements, words, `Pick` |
| `DoxySchema` | element classes of `compoundsuper.py`, `indexsuper.py` | one table per class: attributes, children, what becomes of text |
| `DoxyXml` | build, export, exportLiteral and the prose of `text.py` | interprets the tables |
| `DoxyReader`, `MCDoxyReader` | one document read, written, read again, or written as a Python literal | `Parse`, `Write`, `Reread`, `WriteLiteral` |
| `DoxyIndex` | `doxyxml/base.py`, `doxyindex.py` | functions: kinds, members, look-ups, what raises. The generated classes are CONSTANT operators here (`ReadAs`, `CannotRead`, `TextOf`) |
| `SwigDoc`, `MCSwigDoc` | `swig_doc.py` | a program counter over its loops; one action per compound read, block, function and class documented. `SwigDoc.cfg` gives them the operators of `DoxyXml` |
| `SwigDocProofs` | TLAPS proofs | section 5 |
| `Crc16ccitt`, `MCCrc16ccitt` | `zluudg_crc16ccitt.vhd` with its buffer (INSTANCE `PPFifo`) | `P_INPUT`, `P_TVALID`, `P_TLAST`, `P_CRC_REG` as in the source; `Edge` is one rising edge of all of them and the buffer |
| `Crc16ccittProofs` | TLAPS proofs | section 5; takes the lemmas of `PPFifoImplProofs` by INSTANCE |
| `PackagerProofs` | TLAPS proofs | section 5 |
| `Packager`, `MCPackager` | `zluudg_packager.vhd` | one action per state of `P_FSM`; `Decode` is `P_FSM_DECODE`, also at a reset |
| `Detector` | `zluudg_detector.vhd` | `Clock` is all its processes. The 192-chip register is abstracted to what is read from it: whether it is close to the header, and which nibble its last chips decode to |
| `Receiver`, `MCReceiver` | `zluudg_receiver.vhd`: Detector, two demapper stages, Packager, PPFifo (three INSTANCEs) | `Edge` is one rising edge of everything, frame_done of the packager clears the detector |
| `ReceiverProofs` | TLAPS proofs | section 5; takes the lemmas of `PPFifoImplProofs` by INSTANCE |

Conventions: one step is one rising edge; combinational signals are operators; names are the source's. Words are
abstracted to what the properties tell apart: the CRC models keep the low byte (the upper 24 bits are carried along or
zero), the receiver keeps nibbles. An operator whose name ends in `_Something` right above a definition, commented
"Mutant", is a plausible bug of that definition; PROJECT.json pairs it with the property that finds it.

History variables (never read by the modelled registers) state what is promised: `frame`, `sums`, `owed`, `pace` in
`Crc16ccitt`; `heard`, `due`, `age` in `Packager`; `locked`, `run`, `heard`, `owed`, `since` in `Receiver`; `offset`,
`since`, `disturbed` in `SymSync`; `sent` and the packet numbers of bytes in `Chdr2Pdu`.

## 3. Runs

| run | question | answer |
|---|---|---|
| `ppfifo_any_env` | do pointers, flags, watermark stay sound under any producer and consumer, and does every state of a read-out end? | yes |
| `ppfifo_implements_buffer` | is it a burst buffer? | yes, with an always ready consumer, a producer that respects tready, and no burst finished early in mode A |
| `host_frames` | do FPGA and host agree on the checksum, and the blocks of the host on frames? | yes; a short error is always seen; a beacon carries the count of the undamaged commands, past both ends of a signed char; but softcrc rejects what its own transmit mode sends, except where two bytes happen to coincide |
| `crc_frames` | RX: do exactly the payloads of good frames come out? TX: is the checksum written over the last two words? | yes, in regular surroundings, also next to frames too short for a checksum; TX with at least one word before the checksum |
| `crc_overtake` | and if a frame ends while the one before it is read out? | no: a corrupted frame is output because `s_MA_W` ignores its mark |
| `packager_frames` | does the packager write exactly the frames' bytes and release the detector once per frame? | yes, for nibbles at least two clocks apart and a buffer that is ready; a reset leaves at most the byte in flight |
| `receiver_frames` | does every frame that follows a header arrive, and nothing else? | yes, for chips at least three clocks apart and a ready consumer; the broken arm of the buffer is then out of reach |
| `symsync` | does the loop of decimator and shifter keep its count and settle? | yes: own shifts, gaps and resets never make it miss; after a lower rate is set during a count it may run through the whole counter, letting every sample through, before it counts again |
| `symsync_overflow` | does it settle with the settings of the example flowgraphs? | no: the error sum does not fit 20 bits, the shift is never asserted |
| `chdr2pdu` | does each packet become one PDU, and does destruction end, and end the thread first? | yes, at any point of construction and start, as long as no packet is larger than the buffer, which nothing in the code excludes |
| `doxy_reader` | are objects of their shape, is a description its prose, does export read back, can a literal be written? | export reads back exactly if a document has none of the losses that `Lossy` names: any compound (its title, or that it has none, comes back as an object), the insides of a paragraph, a missing version, kind or refid (written as None). exportLiteral fails on every element with mixed content (`LiteralIsWhole`), since `hasContent_` asks for attributes that those classes never set |
| `swig_doc` | does the script document all it promises, or give up on the inputs named and no others? | yes |

### Surroundings

What the code around a component guarantees is stated in its environment; where that can be lifted, a constant lifts it.
`PPFifo`: `Ready`, `Overtake`, `Pausing`. `Crc16ccitt`: `Liberties`; without any, the source
(axi_wrapper) transfers only while tready is high, sends the last three words of a frame in consecutive clocks (earlier
gaps are free), and ends a frame no sooner than the one before has been read out; the consumer is always ready. Each is
needed: `overtake` is the run above, with `stall` words are missed and with `bubble` a good frame has no end.
`Receiver`: chips `SPACING` clocks apart or more, with any idle time; a header of `HEADER` chips shares none with
the frame before; a payload may look like a header at any chip but its last; `sr_shr_sens` is small enough for noise and
a reset register not to match (the XML admits 192, with which everything matches). A one-clock reset may hit at any
clock, in `Receiver` at any clock but those with a finished byte in the packager, which `Packager` covers.
With chips two clocks apart (decim_rate 2, admitted by `zluudgbeeRX.xml:59`) the detector's counter starts a chip late.
`SymSync`: samples come in any clocks; the symbols are all alike, with at least as many good offsets in a row as the
largest shift is wide; depth and threshold do not change while running. `Chdr2Pdu`: the device sends, once started,
packets of any size; `start()` is not called during destruction. `HostFrames`: softcrc gets PDUs of three bytes or
more (`FramesAssumption`). `SwigDoc`: Doxygen lists a class once, no two classes have one make function (as foo and foo_ would)
and none the name of an operator; files may share a name, be missing or be broken (`WorldAssumption`).

### Bounds

* FIFO depth 4 to 8 instead of 256, watermark 2 as in the code: every state of the buffer, forced ends of bursts
  (depth reached without tlast) and the watermark are reached. `crc_overtake` uses depth 8 so that no frame is cut.
* CRC frames of 1, 3, 4 and 6 words with correct and corrupted checksums. In TX mode the frames have 3 and 4 words:
  a frame of nothing but a checksum is left out, since its checksum is taken from the stale last stage of the delay
  line (`zluudg_crc16ccitt.vhd:172`). `host_frames` feeds all 65536 pairs of first
  bytes, and after them a zero byte; both registers are linear over exclusive or, hence longer frames follow. The
  coordinator hears 300 commands (`REQUESTS`), between other frames and damaged ones, and a char is signed (`CharMin`):
  its number passes from 127 to -128 and from -1 to 0.
* 3 chips per sequence instead of 32 and headers of 3 chips instead of 192: with chips three clocks apart a sequence
  takes nine clocks, longer than the seven from a frame's last chip to the cleared detector, as with 32 chips.
* `symsync`: symbols of 16 samples and a pipeline without microrotations, so that, as with a rate of 100 and the 28
  clocks of the code, a chip comes back as a shift just before the count ends (the mutant of `NeverMissed` has a
  pipeline four stages longer); a counter of 5 bits, which still passes both rates; a line of 4 with depth 2; one reset
  or change of the rate (`EVENTS`), at any clock. `symsync_overflow` has the code's numbers. For rates below 33 the
  code's pipeline is as long as the count, and the argument does not hold; `zluudgbeeRX.xml:59` admits them.
* `chdr2pdu`: three packets of up to four words, two starts; the buffer is full with three words, and a fourth is too many.
* `doxy_reader`: each class with any two children, and all, no, bad or one of two attributes; descriptions nested five deep, the deepest the classes allow.
  `swig_doc`: up to three compounds, in any order, out of a menu with each way to be unusable.
* Frame lengths 0, 1, 2, with the reserved bit and doubtful nibbles; the byte counter itself has its 7 bits.

### Fairness

The clock does not stop: weak fairness of the clock edge while there is something to do. For the buffer alone it is weak
fairness of the edge with m_axis_tready high (a consumer does not refuse for ever). No source is ever obliged
to send, and no reset to come. Deadlock is not checked where the source may fall silent for good.

`SymSync`: weak fairness of `Sample`: the radio goes on sending. `Chdr2Pdu`: both threads are scheduled, so weak
fairness of the receive thread (recv times out after a tenth of a second, sleep after one) and of those steps of the
owner that follow by themselves; nobody has to start or destroy the block, and the device need not send.

## 4. What the findings mean

With chips at a usual decim_rate (100) and a host that keeps up, the divergence in the buffer does not bite in the
receiver: `NeverBusy` shows that the broken arm (`zluudg_ppfifo.vhd:233`, where both halves look at FIFO 1's pointer and
FIFO 2's flag) is not reached. The CRC checker is different: packets reach it at the full clock rate, so a short frame
right behind a longer one is possible, and it is then that a corrupted one is output (`crc_overtake`).

`symsync_overflow`: err_sig is a 20-bit sum shifted right by four, hence at most 32767, and the threshold of
`examples/rx_basic.grc` and `examples/zluudgbee_hybrid_phy.grc` is 0.35 * 131072 = 45875. With these settings the shifter
never shifts, and whether frames are heard is left to the offset at which decimation happens to start. With a depth of 8
the same model locks for the same symbol; above an average error of 65535 it would overflow as well.

Three more disagreements have no run. `dummycoord_impl.cc:118` assigns where it should compare, so that every command
frame is answered with a beacon (`IsAnswered`), against `examples/README.md:21-22`. `softcrc_impl.cc:79` shifts by one
bit instead of eight; `OwnModeRejects` says what follows. A lower decim_rate set while the receiver runs
(`grc/zluudgbee_zluudgbeeRX.xml:32`) can make the decimator miss its count and go through all 2^16 values; every
sample is then a chip, and if the loop goes on shifting meanwhile the count can be missed again. So `NeverMissed`,
`ChipsApart` and `Locks` are stated for an undisturbed count, and only `ChipsKeepComing` for all.

## 5. Proofs

The first half of `PPFifoImplProofs` proves about `PPFifo`, for every word set, every depth, every watermark below the
depth and every environment
(assumptions `DepthAssumption`, `EnvAssumption`):

| theorem | property |
|---|---|
| `TypeCorrect` | `TypeOK` |
| `ReaderStaysBehind` | `ReaderBehind` |
| `SkipBelongsToWriter` | `SkipOfWriter` |
| `WatermarkIsInTime` | `WatermarkInTime` |

The inductive invariant is the conjunction of type correctness, `ReaderBehind` and what each state says of the pointers:
neither property is inductive alone, since a pointer stays in its range only because the reader stops at the writer, and
in `s_MA_W` the pointer that moves belongs to the FIFO just written, which is safe only because it starts at zero there.
One lemma per action shows that it keeps the invariant; `SkipStep` and `WatermarkStep` do the same for the other two.

`Chdr2PduProofs` proves, for every size of buffer and packets, whether they fit or not, and any number of packets and
starts (`SizeAssumption` only says that these are numbers):

| theorem | property |
|---|---|
| `TypeCorrect` | `TypeOK` |
| `ThreadEndsBeforeBlock` | `ThreadDiesFirst` |
| `StreamerComplete` | `StreamerIsThere` |
| `PacketsBecomePdus` | `PduPerPacket` |

Its invariant has two halves. `Control` says which flags belong to which step of the owner (the thread is there from
the spawn on, d_started once it is set, d_finished from the destructor on); without it a destructor that finds
d_started false would leave the thread behind. `Contents` says that while a packet is in hand the buffer holds it,
byte by byte, from the start: `PduPerPacket` alone says nothing of the buffer, and an older, longer packet behind the
new one is what it must not see. The half of the owner's, the thread's and the device's steps is a lemma each.

`PackagerProofs` proves, for every set of nibbles, hence for frames of every length, and with resets at any clock:

| theorem | property |
|---|---|
| `TypeCorrect` | `TypeOK` |
| `FrameWritten` | `WritesFrame` |
| `DetectorReleased` | `ReleasedAtEnd` |

It assumes `Undisturbed`: the buffer is ready, and nibbles are two clocks apart or more (the demapper needs 32 chips for
one). Both are needed: a nibble in the clock in which a frame ends is not loaded (`zluudg_packager.vhd`, PHR_DONE and
PL_DONE), and a buffer that is not ready gets the byte twice. In the invariant, `Progress` ties byte_counter and the
state to the number of nibbles heard, which is why the counter does not wrap and the last byte is the last; `Paced` says
that no nibble can come while a byte or a frame is done; `OneByte` says that the byte owed is either in the nibble
registers (PL_DONE) or in the output registers, and a reset in PL_DONE moves it from one to the other.

The second half of `PPFifoImplProofs` proves `BufferImplemented`, that `ImplSpec` implies `ImplementsBuffer`: the
refinement of `BurstBuffer`
by the ping-pong buffer, for every depth, watermark and set of words, resets included. It assumes `Env`, the surroundings
of the run: an always ready consumer, and a producer that pauses at s_axis_tready low and ends no burst in mode A while
FIFO 2 is read (there `s_MA_W` reads with the wrong pointer, and the refinement is false). The invariant `ImplInv` adds to
those of the first half that nothing is unread before the first burst (`Started`), and that the FIFO being written has its
read pointer at zero (`WriterUnread`), by which a burst is unread as a whole when its turn comes. `StepCases` puts an edge
into one of five cases: the burst goes on, ends as the read-out ends (`Turns`) or after it (`Finishes`), has to wait
(`Parks`), or waits (`Waits`). Each case is a step of the abstract buffer by a lemma of its own, from lemmas on what a
memory says of its words (`Words`, `BeatsFrom`).

`SymSyncProofs` proves, for every set of rates, shape of a symbol, width of the counter, and with resets and changes of the
rate at any clock:

| theorem | property | if |
|---|---|---|
| `TypeCorrect` | `TypeOK` | - |
| `NothingMissed` | `NeverMissed` | `LongCounts` |
| `ChipsStayApart` | `ChipsApart` | `LongCounts` |

`LongCounts` says that every rate is at least `STAGES` + 11: 33 with the 22 microrotations of the code, for which the
examples have a rate of 100. With shorter counts the properties are not to be had: a shift comes back when the counter has
gone past the value it is compared with. The invariant follows a chip through the pipeline: `Counting` ties the counter to
the time since the last chip and to the shift that was applied, `Travel` says where in the pipeline the chip is at that
time, hence that no other can come before its shift has been taken, and `Apart` adds both up.

`HostFramesProofs` proves, for all arguments of the coordinator and a char with or without a sign (`HostAssumption`), and all sets of
received frames of at least three bytes, however many commands are heard (`FramesAssumption`):

| theorem | property |
|---|---|
| `NoNumberSkipped` | `BeaconsNumbered` |
| `SameChecksumEverywhere` | `SameChecksum` |
| `NoShortErrorMissed` | `ShortErrorsSeen` |
| `SentFramesReceived` | `SentIsReceived` |
| `OwnModeRejected` | `OwnModeRejects` |

The invariant `BeaconInv` ties `_macBsn`, as a byte, to the commands counted so far, and finds the number of the beacon
sent last at its index in the bytes, whatever the lengths of the addresses behind it. `NextChar` says that the wrap of
either kind of char is that of the byte; `SameVerdict`, that softcrc lets through exactly what the checksum of the FPGA
finds undamaged, by which the count speaks of the FPGA's algorithm and the answers of the host's. `ChecksumInv` says that the registers hold the checksums of the frame. The rest is about the two
computations. Registers and bytes are written as their bits (`Word`, `Oct`, `Nib`), exclusive or, reversal, the table of
256 entries and the turn of the loop become operations on bits (`XorSixteen`, `FlipSixteen`, `LutEight`, `ShiftBits`), and
so do one step of the FPGA (`HardStep`) and one of the software (`SoftStep`). Comparing these bit by bit gives `SameStep`:
on the reflected register, the software's step is the FPGA's. It gives `ShiftedOut` as well: a byte equal to the lower
half of the register shifts it out, and no other byte leaves the upper half empty; hence exactly the right checksum
empties the register (`GoodChecksum`). For frames of any length (`SameCrc`, which the run can only check up to three bytes
and for beacons) it takes induction over the frame. Those of the library have an operator as a parameter, so
`SetInduction` is proved from the pigeonhole principle for finite sets, and existence and uniqueness of the folds
(`FoldExists`, `Agreement`) from it.

`ReceiverProofs` proves, for every length of a chip sequence, of a header and of frames, and resets as in the run:

| theorem | property |
|---|---|
| `TypeCorrect` | `TypeOK` |
| `FramesOffered` | `OffersFrames` |
| `BufferNeverBusy` | `NeverBusy` |

It assumes `Roomy`: chips are seven clocks apart or more (with a rate of 100, `ChipsStayApart` gives 97), so that the last
nibble of a frame has gone through detector, demapper and packager into the buffer before the next chip comes; and a
frame fits the buffer below its watermark and has no more bytes than a header has chips (127 bytes at most, a depth of
256, a watermark of 2 and 192 chips in the code), so that it is read out before the next one can be stored. The run has
chips three clocks apart, which the property allows but this argument does not. The invariant `IInv` says for each clock
since the last chip what every stage holds. `DetectorInv` and `DemapperInv` place its valid bit and its nibble.
`PackagerInv` ties state and byte_counter to the nibbles that have got that far (`got`). `BufferInv` says how many bytes
are stored, that they are those of the frame, and that what is still to be read plus the chips since the end of the frame
is at most a header. `OwedInv` puts together what the host is owed: the beat on the bus, the rest in the buffer, and the
frame whose end is still on its way (`Pending`). The buffer is used through what it implements, not through its pointers:
`StreamStart`, `StreamStep` and `StreamReset` at the end of `PPFifoImplProofs` say that with an always ready consumer, and
bursts that end no sooner than at the last beat of the one before, it is a queue of beats and never waits.

`Crc16ccittProofs` proves, for every set of frames, every depth and watermark, both modes, and resets at any clock:

| theorem | property |
|---|---|
| `TypeCorrect` | `TypeOK` |
| `PromiseOffered` | `OffersPromised` |

It assumes `Streaming`, the surroundings of `crc_frames`: no liberties (section 3), a watermark below the depth, frames
that fit the buffer, and, if they are transmitted, have a word before the two the checksum replaces. `crc_overtake` shows
what happens when a frame may end earlier. The invariant `IInv` has five parts. `PipeInv` says that the unfinished frame
is what has left the delay line (`out`) followed by the words in it that belong to it (`live1` to `live3`), in order,
whatever the gaps. `SumInv` says that the history variable `sums` follows the recurrence of the register, and that with no
last word under way the register is the checksum of what has left the delay line; so when the last word comes, the
register is that of all words but the last two, and what is compared or written is the checksum that the promise names
(`PromiseStep`). `BufferInv` says that the buffer holds nothing of a frame whose checksum is still in the delay line
(RX), and has room for the rest of it (TX). `PaceInv` ties what is unread to the clocks that the source has waited, by
which a burst is never written while two are unread; the end of a burst comes `lag` registers later than the end of a
frame. `OwedInv` is as in `ReceiverProofs`, with `Pending` the frame that has ended and is still in the delay line, as it
will be written. What the table and the exclusive or compute does not enter, only that they return bytes and words;
that it is the checksum of the host is `SameCrc` of `HostFramesProofs`.

`SwigDocProofs` proves, for every set of source trees, of any size:

| theorem | property |
|---|---|
| `TypeCorrect` | `TypeOK` |
| `GivesUpCorrect` | `GivesUpOnlyIfUnusable` |
| `DocumentsCorrect` | `DocumentsAll` |

It assumes `WorldAssumption` (section 3) and `ReaderAssumption`: that the generated classes read the index, and each file
that is XML, as Doxygen meant it. The reader is a constant, so the theorems are about the script over any such reader;
`swig_doc` checks the assumption for the one in the code. The properties speak of the source tree, the script of an index
in which members of headers, classes and headers lie mixed, and it looks up names in it. The bridge is `Indexed(w, d, k)`:
there is a function (`from`) that says of each entry of the index `d` which of the first `k` compounds it comes from, such
that all that a compound contributes is there, and no class and name twice from one compound. By it (`Found`) a look-up
finds as many objects as there are compounds that contribute one, and the script's "not found" and "found twice" become
statements about headers (`Lookups`). The rest of the invariant `IInv`: while the index is read, it is that of the
compounds read so far, none of which is in the way (`Reading`); after that the blocks listed are those of the source tree,
those documented so far were usable, their make functions are the names in `made` (`BlocksMade`), and the output holds
exactly the entries of what the loops have taken (`InBlocks`, `InFunctions`, `InClasses`). `Once` says that no entry of a
function has the name of a make function in `made` twice, which `DocumentsAll` alone would not carry from the first loop
into the second. `Picking` and `Places` are what all of it rests on: what a filtered list holds, in which number.

The invariants were model-checked before they were proved; `BurstBuffer` and `Receiver` are written for it (`Collect`,
`Keep`; `heard` is kept from the end of a frame to the next chip, since its nibbles are still on their way then).

Only model-checked, and why:

* Liveness under fairness (`NeverStuck`, `PromiseKept`, `BytesWritten`, `FramesArrive`, `ChipsKeepComing`, `Locks`,
  `DestroyEnds`, `PacketsArrive`), which the prover does not reach.
* The reading and writing of XML (`DoxyReader`: `TypeOK`, `ProseKept`, `SurvivesExport`, `LiteralIsWhole`): it goes through trees with
  RECURSIVE operators, about which the prover can prove nothing. What `SwigDocProofs` takes from it, `ReaderAssumption`,
  TLC evaluates on the source trees of the run, with the operators of `DoxyXml`.
* `Crc16ccitt` with liberties: `OffersPromised` does not hold there (section 3).

## 6. Not modelled

* Multiplier, arctangent (a CORDIC written out in `zluudg_atan.vhd`), IIR filter: the fixed-point arithmetic. Their
  delay and valid bits are in `SymSync`.
* The demapper's choice of the nearest nibble: the environment of `Receiver` chooses instead.
* What happens after chdr2pdu has written past its buffer (the state `overrun`): undefined behaviour.
* Received PDUs that softcrc passes with nothing left, or with less than nothing (fewer than three bytes): the code reads or allocates out of range there.
* Documentation generator: the accessors, quoting and line breaks of a literal, CDATA sections, the element classes that no reader reaches, groups,
  scoped look-ups, find().
* UHD, the NoC shell, axi_wrapper and setting registers: external, they appear as environments.
* Thin block controllers, GRC and XML descriptions, build system, test benches: no behaviour of their own at run time.

## 7. Plan

What is left, in this order.

1. `Receiver` composed with `SymSync` instead of with an environment of spaced chips.
2. `Demapping`: the sixteen sequences as sets of chips, distance, the four partial minima and their combination,
   against "a nearest sequence"; distances between sequences under the mask.
3. An abstract deframer that `Receiver` implements, with the refinement checked.
4. The source that holds a word at the CRC checker through a reset (`zluudg_crc16ccitt.vhd:198`).
