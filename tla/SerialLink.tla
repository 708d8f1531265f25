----------------------------- MODULE SerialLink -----------------------------
(***************************************************************************)
(* The serial line between loadp2 (the host) and the fast loader (the      *)
(* device), and the byte-level encodings both ends use.                    *)
(*                                                                         *)
(* h2d and d2h are the bytes in flight in each direction, oldest first.    *)
(* A 32-bit long of the protocol is scaled down to LongBytes = 2 bytes,    *)
(* sent low byte first as in the code; bit 31 of an address ("this is high *)
(* memory") becomes HimemBit, the top bit of the scaled long.              *)
(***************************************************************************)
EXTENDS Integers, Sequences

VARIABLES
  h2d,    \* host to device: what tx() has queued and the P2 has not sampled
  d2h     \* device to host: what ser_tx has sent and rx_timeout has not read

Byte      == 0..255
LongBytes == 2
Long      == {n \in Nat : n < 65536}
HimemBit  == 32768

(* The request and reply characters, by their ASCII codes. *)
ReqLoad  == 61    \* '='  address size : download size bytes to address
ReqCall  == 33    \* '!'  call the last download
ReqFlash == 70    \* 'F'  size : copy hub memory to flash, then start
ReqDone  == 45    \* '-'  no more downloads, start
RepStream == 115  \* 's'  stream the whole file
RepChunk  == 107  \* 'k'  send the next chunk
RepWait   == 119  \* 'w'  wait (understood by the host, never sent)
RepNoHigh == 104  \* 'h'  no himem kernel
RepError  == 101  \* 'e'  error text follows
At        == 64   \* '@'  base of the checksum digits
Space     == 32

(* tx_raw_long on the host: least significant byte first. *)
tx_raw_long(v) == << v % 256, (v \div 256) % 256 >>

(* ser_rx_long on the device, from the bytes in their order of arrival. *)
ser_rx_long31(lo, hi) == (lo + 256 * hi) % HimemBit
ser_rx_long(lo, hi) == lo + 256 * hi

(* send_chksum: the low byte of the sum as two '@'-based nibbles, a space. *)
send_chksum(c) == << At + ((c \div 16) % 16), At + (c % 16), Space >>

(* verify_chksum: the sum the host reads back from the reply. *)
recv_chksum(r) == ((r[1] - At) * 16) + (r[2] - At)

(* What is in flight is bytes. *)
LinkTypeOK == h2d \in Seq(Byte) /\ d2h \in Seq(Byte)
=============================================================================
