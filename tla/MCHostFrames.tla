----------------------------- MODULE MCHostFrames -----------------------------
(* PDUs for HostFrames: a beacon request, another command, the same damaged in *)
(* two neighbouring bytes, and a frame of data. The arguments of dummycoord    *)
(* are those of examples/zluudgbee_dummycoord_hybrid.grc; a char has a sign, as *)
(* with GCC on x86 hosts.                                                       *)
EXTENDS HostFrames

MCCharMin == -128
MCpan_id == <<205, 171>>
MCsrc_addr == [i \in 1..8 |-> 16]
MCepid == [i \in 1..8 |-> i]

Header == <<3, 8, 1, 255, 255, 255, 255>>
Request == pub_output(Header \o <<7>>)
OtherCommand == pub_output(Header \o <<4>>)
Damaged == [OtherCommand EXCEPT ![1] = 11, ![2] = 200]
DataFrame == pub_output(<<1, 8, 1, 9>>)
MCReceived == {Request, OtherCommand, Damaged, DataFrame}
===============================================================================
