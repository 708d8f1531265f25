----------------------------- MODULE LoadSystem -----------------------------
(***************************************************************************)
(* A whole download: loadp2 on the host, the fast loader and the himem     *)
(* helper on the two cogs of the P2, and the serial line between them,     *)
(* which may lose or change a byte of file data.                           *)
(***************************************************************************)
EXTENDS MainLoader, HostLoader

CONSTANTS
  MaxFaults,     \* bytes the line may lose or change in one download
  CorruptBytes,  \* what a changed byte may become
  Hasty          \* command lines during which a timeout of the host may expire
                 \* while the reply is still coming, or a reply come in parts

ASSUME FaultAssumption ==
  MaxFaults \in Nat /\ CorruptBytes \subseteq Byte /\ Hasty \subseteq Jobs

(* The host's timeouts are long enough, always. *)
Prompt == Hasty = {}

(* Both programs are built with the same addresses and sizes. *)
ASSUME SharedAssumption == HostHelper = HelperBase /\ HostChunk = ChunkSize

VARIABLES
  faults,  \* faults of the line so far; of its MaxFaults some may be
           \* spent on what came before
  acked    \* history: blocks whose checksum the host has verified

linkVars == <<h2d, d2h>>
vars == <<linkVars, memVars, devVars, hostVars, faults, acked>>

Init == /\ HimemInit /\ DevInit /\ HostInit
        /\ h2d = <<>> /\ d2h = <<>>
        /\ faults \in 0..MaxFaults /\ acked = 0

-----------------------------------------------------------------------------

Host == /\ HostStep
        /\ acked' = IF hpc = "verify" /\ hpc' = "return" THEN acked + 1 ELSE acked
        /\ UNCHANGED <<memVars, devVars, faults>>

Device == DevStep /\ UNCHANGED <<hostVars, faults, acked>>

Cog == CogStep /\ UNCHANGED <<linkVars, devVars, hostVars, faults, acked>>

(* The device is waiting for bytes the host has not sent, or for a helper  *)
(* that is not there, or has left the protocol: no answer will come.       *)
DeviceSilent ==
  \/ dpc \in {"request", "stream", "chunk"} /\ h2d = <<>>
  \/ dpc = "header" /\ Len(h2d) < 2 * LongBytes
  \/ dpc = "flashlen" /\ Len(h2d) < LongBytes
  \/ dpc \in {"running", "error", "wild"}
  \/ dpc \in {"post", "drain", "postF", "exec"} /\ mbox.word < 0 /\ cog \in {"off", "stopped"}

Timeout == /\ \/ HostTimeout /\ (job \notin Hasty => DeviceSilent)
              \/ HostShortRead /\ job \in Hasty
           /\ UNCHANGED <<memVars, devVars, faults, acked>>

(* The byte of file data about to arrive is lost or changed. *)
LinkFault ==
  /\ faults < MaxFaults
  /\ faults' = faults + 1
  /\ dpc \in {"stream", "chunk"}
  /\ h2d # <<>>
  /\ \/ h2d' = Tail(h2d)
     \/ \E b \in CorruptBytes : b # Head(h2d) /\ h2d' = <<b>> \o Tail(h2d)
  /\ UNCHANGED <<d2h, memVars, devVars, hostVars, acked>>

Next == Host \/ Device \/ Cog \/ Timeout \/ LinkFault

Spec == Init /\ [][Next]_vars

(* The two cogs and the host process run all the time, and rx_timeout      *)
(* expires when no byte comes.  Faults need not happen.                    *)
Fairness == WF_vars(Host) /\ WF_vars(Device) /\ WF_vars(Cog) /\ WF_vars(Timeout)

FairSpec == Spec /\ Fairness

-----------------------------------------------------------------------------
(* Type invariant: every register, memory cell and byte in flight has a    *)
(* value its storage can hold (the variables of loadp2.c, the cog          *)
(* registers, the mailbox longs).                                          *)
TypeOK ==
  /\ LinkTypeOK /\ MemTypeOK /\ DevTypeOK /\ HostTypeOK
  /\ faults \in 0..MaxFaults /\ acked \in Nat

(* While the loader receives into one ping-pong buffer, the helper is      *)
(* neither reading that buffer nor holding a request to read it            *)
(* (next_buffer / send_mbox against page_loop).                            *)
InUse(buf) ==
  \/ cog \in {"page", "erased"} /\ params.hubaddr \in buf..buf + ChunkSize - 1
  \/ cog \in {"init", "poll"} /\ mbox.word = buf - Burst
PingPongSafe == dpc = "chunk" => ~InUse(pingpong)

(* No byte arrives while the loader waits for the helper instead of        *)
(* polling the receiver, which holds a single byte: the host's 'k' and     *)
(* checksum waits pace it (downloadData against send_mbox).                *)
NoOverrun == dpc \in {"post", "drain", "postF", "exec"} => h2d = <<>>

(* A page is programmed only over erased cells: no step leaves a cell that *)
(* differs from both what was there and the erased value (page_loop,       *)
(* Erase on 4K boundaries).                                                *)
ProgramErased ==
  [][\A a \in FlashAddr : flash'[a] # flash[a] => Erased \in {flash[a], flash'[a]}]_flash

(* No store of received data lands on the mailbox while the helper uses it *)
(* and an empty mailbox is what '!' starts the helper on.                  *)
MailboxIntact ==
  /\ mailbox # 0 /\ dpc = "stream" /\ h2d # <<>> => ptrb \notin MailCells
  /\ dpc = "request" /\ h2d # <<>> /\ Head(h2d) = ReqCall => mbox.word = 0

(* What a file is loaded from: the sections of an ELF file, or one block.  *)
Sections(f) == IF f.kind = "elf" THEN f.segs ELSE <<[addr |-> f.addr, data |-> f.data]>>

(* Every section before section k of file i is empty. *)
Before(h, m, i, k) == h < i \/ (h = i /\ m < k)
NoneBefore(j, i, k) ==
  \A h \in DOMAIN j.files : \A m \in DOMAIN Sections(j.files[h]) :
     Before(h, m, i, k) => Sections(j.files[h])[m].data = <<>>

(* Section k of file i is the first of a command line with data in it. *)
IsFirst(j, i, k) == Sections(j.files[i])[k].data # <<>> /\ NoneBefore(j, i, k)

(* a is where the application of command line j begins. *)
StartOf(j, a) ==
  \A i \in DOMAIN j.files : \A k \in DOMAIN Sections(j.files[i]) :
     IsFirst(j, i, k) => Sections(j.files[i])[k].addr = a

(* The application starts at the first file given ("The main executable    *)
(* code must always be specified first", README.md:56), whatever helper    *)
(* was downloaded and run before it (startaddr, call_last, downloadData).  *)
StartsFirstFile == dpc = "running" => StartOf(job, startaddr)

(* The host always comes to an end: every wait of downloadData has a       *)
(* timeout, so loadp2 never hangs in a download.                           *)
HostTerminates == <>(hpc \in {"ok", "fail"})

(* When loadfile reports success the application is eventually started     *)
(* (the '-' and 'F' requests are not acknowledged by the device).          *)
SuccessLaunches == hpc = "ok" ~> dpc = "running"
=============================================================================
