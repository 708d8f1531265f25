-------------------------------- MODULE Ymodem --------------------------------
(***************************************************************************)
(* The YMODEM batch sender (sb.c) over a line that loses and garbles, with *)
(* the receiver it assumes.  The sender repeats a block only when it is    *)
(* told to (NAK), never by itself: its own timeout only starts another     *)
(* wait.  The receiver, which is not in the repository, is one that the    *)
(* protocol allows: it prompts again when nothing more is coming, with C   *)
(* where a transfer starts and, after CPrompts of those, with NAK.         *)
(***************************************************************************)
EXTENDS Integers, Sequences, SequencesExt, FiniteSets

CONSTANTS
  Name,       \* the file's name
  File,       \* its content, a sequence of units
  Small,      \* units in a small block  (128 bytes)
  Big,        \* units in a big block   (1024 bytes)
  Numbers,    \* block numbers wrap     (256)
  Early,      \* the most prompts that may wait before the sender starts
  CPrompts,   \* prompts with C before the receiver falls back to NAK
  MaxFaults   \* bound: what the line loses or garbles

(* The header without a name ends the batch; a file without one cannot be opened. *)
NoName == ""

ASSUME YmodemAssumption ==
  /\ {Small, Big, Numbers, Early, CPrompts} \subseteq Nat \ {0}
  /\ Small < Big /\ Numbers > 2 /\ MaxFaults \in Nat
  /\ Name # NoName
  /\ File \in Seq(Range(File))

VARIABLES
  pc,         \* where the sender is
  packetnum,
  rest,       \* the units of the file not yet put into a block
  sent,       \* the packet being sent, to be repeated on NAK
  line,       \* packets on their way to the receiver
  back,       \* characters on their way to the sender
  rx,         \* the receiver
  faults

vars == <<pc, packetnum, rest, sent, line, back, rx, faults>>

-----------------------------------------------------------------------------
(* Packets. *)

Pad == "pad"
Padded(s, n) == s \o [i \in 1..n - Len(s) |-> Pad]
BlockSize(s) == IF Len(s) <= Small THEN Small ELSE Big

Packet(num, payload) == [type |-> "block", num |-> num % Numbers, inv |-> (Numbers - 1 - num) % Numbers,
                         payload |-> payload, good |-> TRUE]
Header == [name |-> Name, size |-> Len(File)]
LastHeader == [name |-> NoName, size |-> 0]
EOT == [type |-> "eot", good |-> TRUE]

-----------------------------------------------------------------------------
(* The sender. *)

NextLength == IF Len(rest) > Big THEN Big ELSE Len(rest)
NextBlock == LET s == SubSeq(rest, 1, NextLength)
             IN  Packet(packetnum, Padded(s, BlockSize(s)))

Put(p) == sent' = p /\ line' = Append(line, p)

(* One character is awaited; any other, and none for long enough, ends it. *)
WaitForC(here, next) ==
  /\ pc = here
  /\ \/ /\ back # <<>> /\ Head(back) = "C" /\ pc' = next
        /\ back' = Tail(back)
     \/ /\ back # <<>> /\ Head(back) # "C" /\ pc' = "quit"
        /\ back' = Tail(back)
  /\ UNCHANGED <<packetnum, rest, sent, line, rx, faults>>

SendFirst ==
  /\ pc = "first"
  /\ Put(Packet(0, Header))
  /\ pc' = "first_ack"
  /\ UNCHANGED <<packetnum, rest, back, rx, faults>>

SendBlock ==
  /\ pc = "file"
  /\ IF rest # <<>>
     THEN /\ Put(NextBlock)
          /\ rest' = SubSeq(rest, NextLength + 1, Len(rest))
          /\ packetnum' = packetnum + 1
          /\ pc' = "file_ack"
     ELSE /\ Put(EOT)
          /\ pc' = "eot_ack"
          /\ UNCHANGED <<rest, packetnum>>
  /\ UNCHANGED <<back, rx, faults>>

SendLast ==
  /\ pc = "last"
  /\ Put(Packet(0, LastHeader))
  /\ pc' = "last_ack"
  /\ UNCHANGED <<packetnum, rest, back, rx, faults>>

(* Wait for ACK: NAK sends the same packet again, the rest is passed over. *)
AfterAck == [first_ack |-> "wait_file", file_ack |-> "file", eot_ack |-> "wait_last", last_ack |-> "done"]

AckedAny == \* wrong: whatever is not NAK acknowledges
  /\ pc \in DOMAIN AfterAck /\ back # <<>>
  /\ back' = Tail(back)
  /\ \/ Head(back) # "NAK" /\ pc' = AfterAck[pc] /\ UNCHANGED <<sent, line>>
     \/ Head(back) = "NAK" /\ Put(sent) /\ UNCHANGED pc
  /\ UNCHANGED <<packetnum, rest, rx, faults>>
AckedDeaf == \* wrong: NAK does not send again
  /\ pc \in DOMAIN AfterAck /\ back # <<>>
  /\ back' = Tail(back)
  /\ pc' = IF Head(back) = "ACK" THEN AfterAck[pc] ELSE pc
  /\ UNCHANGED <<packetnum, rest, rx, faults, sent, line>>
Acked ==
  /\ pc \in DOMAIN AfterAck /\ back # <<>>
  /\ back' = Tail(back)
  /\ \/ Head(back) = "ACK" /\ pc' = AfterAck[pc] /\ UNCHANGED <<sent, line>>
     \/ Head(back) = "NAK" /\ Put(sent) /\ UNCHANGED pc
     \/ Head(back) \notin {"ACK", "NAK"} /\ UNCHANGED <<pc, sent, line>>
  /\ UNCHANGED <<packetnum, rest, rx, faults>>

Sender ==
  \/ WaitForC("wait_first", "first")
  \/ SendFirst
  \/ WaitForC("wait_file", "file")
  \/ SendBlock
  \/ WaitForC("wait_last", "last")
  \/ SendLast
  \/ Acked

-----------------------------------------------------------------------------
(* The receiver.  state: "name" wants a header, "open" has one and wants   *)
(* the first block, "data" wants more; "closed" has had the empty header, "gone" has left.  *)

Answer(chars) == back' = back \o chars

Whole(p) == p.good
Cut(s, n) == IF Len(s) > n THEN SubSeq(s, 1, n) ELSE s
(* The header again is a repetition until the first block has come; then   *)
(* and later it is the block before the one that is wanted.                *)
Repeated(p) == p.num = (rx.want + Numbers - 1) % Numbers

Leave == rx' = [rx EXCEPT !.state = "gone"] /\ Answer(<<"CAN">>)

TakeHeader(p) ==
  IF p.payload = LastHeader
  THEN rx' = [rx EXCEPT !.state = "closed"] /\ Answer(<<"ACK">>)
  ELSE /\ rx' = [rx EXCEPT !.state = "open", !.want = 1, !.prompts = 0,
                           !.header = p.payload, !.files = @ + 1, !.content = <<>>]
       /\ Answer(<<"ACK", "C">>)

Take(p) ==
  \/ /\ ~Whole(p) /\ rx.state \in {"name", "open", "data"}
     /\ Answer(<<"NAK">>) /\ UNCHANGED rx
  \/ /\ Whole(p) /\ p.type = "block" /\ rx.state = "name"
     /\ IF p.num = 0 THEN TakeHeader(p) ELSE Answer(<<"NAK">>) /\ UNCHANGED rx
  \/ /\ Whole(p) /\ p.type = "block" /\ rx.state \in {"open", "data"}
     /\ IF p.num = rx.want
        THEN /\ rx' = [rx EXCEPT !.state = "data", !.want = (@ + 1) % Numbers,
                                 !.content = Cut(@ \o p.payload, rx.header.size)]
             /\ Answer(<<"ACK">>)
        ELSE IF Repeated(p)
        THEN Answer(IF rx.state = "open" THEN <<"ACK", "C">> ELSE <<"ACK">>) /\ UNCHANGED rx
        ELSE Leave
  \/ /\ Whole(p) /\ p.type = "eot" /\ rx.state \in {"open", "data"}
     /\ rx' = [rx EXCEPT !.state = "name", !.prompts = 0]
     /\ Answer(<<"ACK", "C">>)
  \/ /\ Whole(p) /\ p.type = "eot" /\ rx.state = "name"   \* its ACK was not heard
     /\ Answer(<<"ACK", "C">>) /\ UNCHANGED rx
  \/ rx.state \in {"closed", "gone"} /\ UNCHANGED <<rx, back>>

Receive ==
  /\ line # <<>>
  /\ line' = Tail(line)
  /\ Take(Head(line))
  /\ UNCHANGED <<pc, packetnum, rest, sent, faults>>

Waiting == DOMAIN AfterAck \cup {"wait_first", "wait_file", "wait_last"}
Silence == line = <<>> /\ back = <<>> /\ pc \in Waiting

(* Nothing has come for a while. *)
Prompt ==
  /\ rx.state \in {"name", "open", "data"} /\ Silence
  /\ IF rx.state # "data" /\ rx.prompts < CPrompts
     THEN back' = <<"C">> /\ rx' = [rx EXCEPT !.prompts = @ + 1]
     ELSE back' = <<"NAK">> /\ rx' = [rx EXCEPT !.prompts = 0]
  /\ UNCHANGED <<pc, packetnum, rest, sent, line, faults>>

(* Nothing comes to the sender either, for its 10 or 20 seconds, when the   *)
(* receiver has gone: a wait for C ends, a wait for ACK goes on.            *)
TimesOut ==
  /\ pc \in {"wait_first", "wait_file", "wait_last"}
  /\ line = <<>> /\ back = <<>> /\ rx.state \in {"closed", "gone"}
  /\ pc' = "quit"
  /\ UNCHANGED <<packetnum, rest, sent, line, back, rx, faults>>

(* The receiver is stopped, which it tells with CAN. *)
Cancel ==
  /\ rx.state \in {"name", "open", "data"} /\ faults < MaxFaults /\ faults' = faults + 1
  /\ Leave
  /\ UNCHANGED <<pc, packetnum, rest, sent, line>>

(* The line. *)
Fault ==
  /\ faults < MaxFaults /\ faults' = faults + 1
  /\ \/ line # <<>> /\ line' = Tail(line) /\ UNCHANGED back
     \/ line # <<>> /\ Head(line).good /\ line' = [line EXCEPT ![1].good = FALSE] /\ UNCHANGED back
     \/ back # <<>> /\ back' = Tail(back) /\ UNCHANGED line
     \/ back # <<>> /\ Head(back) # "?" /\ back' = [back EXCEPT ![1] = "?"] /\ UNCHANGED line
  /\ UNCHANGED <<pc, packetnum, rest, sent, rx>>

-----------------------------------------------------------------------------
Init ==
  /\ pc = "wait_first" /\ packetnum = 1 /\ rest = File /\ sent = EOT
  /\ line = <<>> /\ faults = 0
  /\ \E n \in 0..Early : back = [i \in 1..n |-> "C"]
  /\ rx = [state |-> "name", want |-> 0, prompts |-> 0,
           header |-> LastHeader, files |-> 0, content |-> <<>>]

Next == Sender \/ Receive \/ Prompt \/ TimesOut \/ Cancel \/ Fault

(* The sender's loop, the receiver and its clock go on; faults need not.   *)
Spec ==
  /\ Init /\ [][Next]_vars
  /\ WF_vars(Sender) /\ WF_vars(Receive) /\ WF_vars(Prompt) /\ WF_vars(TimesOut)

-----------------------------------------------------------------------------
(* Properties. *)

(* When the sender goes on to the next block the receiver holds every unit *)
(* it has been sent: an answer to one block is never taken for the answer  *)
(* to another, whatever was lost, repeated or garbled, and block numbers   *)
(* that wrap mislead nobody.  A sender that ends well leaves a receiver    *)
(* that has ended too, with this one file, its name, its size and nothing  *)
(* of the padding.                                                         *)
AckMeansHeld ==
  /\ pc \in {"file", "wait_last", "last", "last_ack", "done"} =>
       rx.content = SubSeq(File, 1, Len(File) - Len(rest))
  /\ pc = "done" => rx.state = "closed" /\ rx.files = 1 /\ rx.header = Header

(* The two never go out of step, and the sender comes to an end: no loss,  *)
(* not even of the answer to the header, whose prompt the sender does not  *)
(* understand, leaves each waiting for the other.  The one exception is a  *)
(* receiver that has left: the sender passes over CAN, and its 10 second   *)
(* timeout is no reason for it to stop waiting for an ACK.                 *)
ComesToAnEnd == <>(\/ pc \in {"done", "quit"}
                   \/ pc \in DOMAIN AfterAck /\ rx.state \in {"closed", "gone"})
=============================================================================
