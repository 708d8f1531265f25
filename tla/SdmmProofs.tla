----------------------------- MODULE SdmmProofs -----------------------------
(***************************************************************************)
(* Proofs about Sdmm, for every value of its constants.                    *)
(***************************************************************************)
EXTENDS Sdmm, TLAPS

-----------------------------------------------------------------------------
(* Lemmas about the card. *)

Sector == 0..Sectors - 1

(* What waits to be programmed is one block at most.                       *)
Queues == {<<>>} \cup { << <<s, d>> >> : s \in Sector, d \in Nat }

CardSet ==
  [kind : {"SD2HC", "SD2", "SD1", "MMC", "none"}, mode : {"native", "idle", "ready"},
   warm : Nat, app : BOOLEAN, xfer : {"none", "csd", "read", "reads", "write", "writes"},
   at : Nat, busy : BOOLEAN, pending : Queues, store : [Sector -> Nat]]

(* What waits keeps the card busy, a single block is one it has, and a     *)
(* card that was not reset, or no card, transfers nothing.                 *)
Sound(c) ==
  /\ c.pending # <<>> => c.busy
  /\ c.xfer = "read" \/ c.xfer = "write" => c.at < Sectors
  /\ c.mode = "native" => c.xfer = "none"
  /\ c.kind = "none" => c.mode = "native"

(* What a card holds once it has programmed what waits.                    *)
Settled(c) == Programmed(c).store

(* A card that has nothing to program holds what it stores.                *)
LEMMA SettledIdle ==
  ASSUME NEW c \in CardSet, c.pending = <<>>
  PROVE  Settled(c) = c.store
BY DEF Settled, Programmed, CardSet

(* One block to program replaces its sector and no other.                  *)
LEMMA SettledOne ==
  ASSUME NEW c \in CardSet, NEW a \in Sector, NEW d \in Nat, c.pending = << <<a, d>> >>
  PROVE  Settled(c) = [c.store EXCEPT ![a] = d]
<1> DEFINE blocks == {c.pending[i] : i \in DOMAIN c.pending}
<1>1. DOMAIN c.pending = {1} /\ c.pending[1] = <<a, d>>
  OBVIOUS
<1>2. blocks = {<<a, d>>}
  BY <1>1
<1>3. (CHOOSE p \in blocks : p[1] = a) = <<a, d>>
  BY <1>2
<1> HIDE DEF blocks
<1>4. Settled(c) = [s \in DOMAIN c.store |->
                      IF \E i \in DOMAIN c.pending : c.pending[i][1] = s
                      THEN (CHOOSE p \in blocks : p[1] = s)[2] ELSE c.store[s]]
  BY DEF Settled, Programmed, CardSet, blocks
<1>5. c.store \in [Sector -> Nat]
  BY DEF CardSet
<1> QED
  BY <1>1, <1>3, <1>4, <1>5

(* Programming ends what waits, and changes nothing else.                  *)
LEMMA ProgrammedCard ==
  ASSUME NEW c \in CardSet, Sound(c)
  PROVE  /\ Programmed(c) \in CardSet /\ Sound(Programmed(c))
         /\ Programmed(c).kind = c.kind /\ Programmed(c).mode = c.mode
         /\ Programmed(c).xfer = c.xfer /\ Programmed(c).at = c.at
         /\ ~Programmed(c).busy /\ Programmed(c).pending = <<>>
         /\ Settled(Programmed(c)) = Settled(c)
<1>1. Settled(c) \in [Sector -> Nat]
  <2>1. CASE c.pending = <<>>
    BY <2>1, SettledIdle DEF CardSet
  <2>2. CASE c.pending # <<>>
    <3>1. PICK a \in Sector, d \in Nat : c.pending = << <<a, d>> >>
      BY <2>2 DEF CardSet, Queues
    <3> QED
      BY <3>1, SettledOne DEF CardSet
  <2> QED
    BY <2>1, <2>2
<1>2. Programmed(c) = [c EXCEPT !.busy = FALSE, !.pending = <<>>, !.store = Settled(c)]
  BY DEF Programmed, Settled, CardSet
<1>3. ASSUME NEW held \in [Sector -> Nat], NEW p, p = [c EXCEPT !.busy = FALSE, !.pending = <<>>, !.store = held]
      PROVE  /\ p \in CardSet /\ ~p.busy /\ p.pending = <<>> /\ p.store = held
             /\ p.kind = c.kind /\ p.mode = c.mode /\ p.xfer = c.xfer /\ p.at = c.at
  <2>1. <<>> \in Queues
    BY DEF Queues
  <2>2. p \in CardSet
    BY <1>3, <2>1 DEF CardSet
  <2> QED
    BY <1>3, <2>2 DEF CardSet
<1> DEFINE p == Programmed(c)
<1> HIDE DEF p
<1>4. /\ p \in CardSet /\ ~p.busy /\ p.pending = <<>> /\ p.store = Settled(c)
      /\ p.kind = c.kind /\ p.mode = c.mode /\ p.xfer = c.xfer /\ p.at = c.at
  BY <1>1, <1>2, <1>3 DEF p
<1>5. Settled(p) = Settled(c)
  BY <1>4, SettledIdle
<1>6. Sound(p)
  BY <1>4 DEF Sound
<1> QED
  BY <1>4, <1>5, <1>6 DEF p

(* What a command does, as far as the driver's properties turn on it: card *)
(* c becomes d and answers r.                                              *)
Commands == {CMD0, CMD1, CMD8, CMD9, CMD12, CMD16, CMD17, CMD18, CMD24, CMD25, CMD55, CMD58,
             ACMD23, ACMD41}
Transfer == [cmd \in {CMD17, CMD18, CMD24, CMD25} |->
               CASE cmd = CMD17 -> "read" [] cmd = CMD18 -> "reads"
                 [] cmd = CMD24 -> "write" [] cmd = CMD25 -> "writes"]
Outcome(c, cmd, arg, d, r) ==
  /\ d \in CardSet /\ Sound(d)
  /\ d.kind = c.kind /\ d.busy = c.busy /\ d.pending = c.pending /\ d.store = c.store
  /\ c.mode = "native" /\ cmd # CMD0 => d.mode = "native" /\ r # Ready
  /\ c.xfer = "none" => d.xfer = "none" \/ (r = Ready /\ cmd \in {CMD9} \cup DOMAIN Transfer)
  /\ c.xfer = "reads" /\ cmd = CMD12 => d.xfer = "none"
  /\ r = Ready /\ cmd = CMD9 => d.xfer = "csd"
  /\ r = Ready /\ cmd \in DOMAIN Transfer => d.xfer = Transfer[cmd] /\ d.at = SectorOf(c, arg)
  /\ r = Ready /\ cmd = ACMD41 /\ arg # HCS => c.kind # "SD2HC"
  /\ r = Ready /\ cmd = CMD1 => c.kind # "SD2HC"

(* Each command's answer, case by case.                                    *)
LEMMA ObeysOutcome ==
  ASSUME NEW c \in CardSet, Sound(c), ~c.busy, NEW cmd \in Commands, NEW arg \in Nat
  PROVE  Outcome(c, cmd, arg, Obeys(c, cmd, arg).card, Obeys(c, cmd, arg).r)
<1> DEFINE o == Obeys(c, cmd, arg)
<1> USE DEF Ready, Idle, Illegal, BadAddress, NoAnswer,
            CMD0, CMD1, CMD8, CMD9, CMD12, CMD16, CMD17, CMD18, CMD24, CMD25, CMD55, CMD58, ACMD23, ACMD41
<1>0. c.pending = <<>>
  BY DEF Sound
<1>1. ASSUME NEW d \in CardSet, d.kind = c.kind, d.mode = c.mode, d.xfer = c.xfer, d.at = c.at,
             d.busy = c.busy, d.pending = c.pending, d.store = c.store,
             NEW r, r # Ready \/ cmd \notin {CMD1, CMD9, CMD12, ACMD41} \cup DOMAIN Transfer,
             c.mode = "native" => r # Ready,
             c.xfer # "reads" \/ cmd # CMD12
      PROVE  Outcome(c, cmd, arg, d, r)
  BY <1>1 DEF Outcome, Sound
<1>2. ASSUME NEW r PROVE /\ Says(c, r).r = r /\ Says(c, r).card \in CardSet
                         /\ Says(c, r).card = [c EXCEPT !.app = FALSE]
  BY DEF Says, CardSet
<1>3. ASSUME NEW r, r # Ready \/ cmd \notin {CMD1, CMD9, CMD12, ACMD41} \cup DOMAIN Transfer,
             c.mode = "native" => r # Ready,
             c.xfer # "reads" \/ cmd # CMD12, o = Says(c, r)
      PROVE  Outcome(c, cmd, arg, o.card, o.r)
  <2> DEFINE d == Says(c, r).card
  <2>1. d = [c EXCEPT !.app = FALSE] /\ d \in CardSet /\ Says(c, r).r = r
    BY <1>2
  <2> HIDE DEF d
  <2>2. /\ d.kind = c.kind /\ d.mode = c.mode /\ d.xfer = c.xfer /\ d.at = c.at
        /\ d.busy = c.busy /\ d.pending = c.pending /\ d.store = c.store
    BY <2>1 DEF CardSet
  <2> QED
    BY <1>1, <1>3, <2>1, <2>2 DEF d
<1>4. CASE c.kind = "none" \/ (c.mode = "native" /\ cmd # CMD0)
  <2>1. o = Says(c, NoAnswer)
    BY <1>4 DEF Obeys, Sound
  <2> QED
    BY <1>3, <1>4, <2>1 DEF Sound
<1>5. CASE c.kind # "none" /\ cmd = CMD0
  <2> DEFINE d == Says([c EXCEPT !.mode = "idle", !.xfer = "none", !.pending = <<>>], Idle).card
  <2>1. o = Says([c EXCEPT !.mode = "idle", !.xfer = "none", !.pending = <<>>], Idle)
    BY <1>5 DEF Obeys
  <2>2. d = [c EXCEPT !.mode = "idle", !.xfer = "none", !.pending = <<>>, !.app = FALSE]
    BY DEF Says, CardSet
  <2>3. <<>> \in Queues
    BY DEF Queues
  <2>4. o.r = Idle /\ o.card = d
    BY <2>1 DEF Says
  <2> HIDE DEF d
  <2>5. d \in CardSet
    BY <2>2, <2>3 DEF CardSet
  <2>6. /\ d.kind = c.kind /\ d.mode = "idle" /\ d.xfer = "none"
        /\ d.busy = c.busy /\ d.pending = c.pending /\ d.store = c.store
    BY <1>0, <2>2 DEF CardSet
  <2> QED
    BY <1>5, <2>4, <2>5, <2>6 DEF Outcome, Sound, Transfer
<1>6. CASE c.kind # "none" /\ c.mode # "native" /\ cmd # CMD0 /\ c.xfer # "none"
  <2>1. CASE cmd = CMD12 /\ c.xfer = "reads"
    <3> DEFINE d == Says([c EXCEPT !.xfer = "none"], Ready).card
    <3>1. o = Says([c EXCEPT !.xfer = "none"], Ready)
      BY <1>6, <2>1 DEF Obeys
    <3>2. d = [c EXCEPT !.xfer = "none", !.app = FALSE]
      BY DEF Says, CardSet
    <3>3. o.r = Ready /\ o.card = d
      BY <3>1 DEF Says
    <3> HIDE DEF d
    <3>4. d \in CardSet
      BY <3>2 DEF CardSet
    <3>5. /\ d.kind = c.kind /\ d.mode = c.mode /\ d.xfer = "none"
          /\ d.busy = c.busy /\ d.pending = c.pending /\ d.store = c.store
      BY <3>2 DEF CardSet
    <3> QED
      BY <1>6, <2>1, <3>3, <3>4, <3>5 DEF Outcome, Sound, Transfer
  <2>2. CASE ~(cmd = CMD12 /\ c.xfer = "reads")
    <3>1. o = Says(c, NoAnswer)
      BY <1>6, <2>2 DEF Obeys
    <3> QED
      BY <1>3, <2>2, <3>1
  <2> QED
    BY <2>1, <2>2
<1>7. ASSUME c.xfer = "none", c.kind # "none", c.mode # "native",
             NEW d \in CardSet, d.kind = c.kind, d.mode # "native", d.xfer = "none",
             d.busy = c.busy, d.pending = c.pending, d.store = c.store, NEW r,
             r = Ready => /\ cmd \notin {CMD9} \cup DOMAIN Transfer
                          /\ cmd = ACMD41 /\ arg # HCS => c.kind # "SD2HC"
                          /\ cmd = CMD1 => c.kind # "SD2HC"
      PROVE  Outcome(c, cmd, arg, d, r)
  BY <1>7 DEF Outcome, Sound
<1>8. ASSUME NEW x, x = WarmsUp(c), c.mode # "native"
      PROVE  /\ x.card \in CardSet /\ x.card.kind = c.kind /\ x.card.mode # "native"
             /\ x.card.xfer = c.xfer /\ x.card.busy = c.busy /\ x.card.pending = c.pending
             /\ x.card.store = c.store
  <2>1. CASE c.warm > 0
    <3>1. x.card = [c EXCEPT !.warm = @ - 1, !.app = FALSE]
      BY <1>8, <2>1 DEF WarmsUp, Says, CardSet
    <3>2. c.warm - 1 \in Nat
      BY <2>1 DEF CardSet
    <3> QED
      BY <1>8, <3>1, <3>2 DEF CardSet
  <2>2. CASE ~(c.warm > 0)
    <3>1. x.card = [c EXCEPT !.mode = "ready", !.app = FALSE]
      BY <1>8, <2>2 DEF WarmsUp, Says, CardSet
    <3> QED
      BY <1>8, <3>1 DEF CardSet
  <2> QED
    BY <2>1, <2>2
<1>9. ASSUME c.xfer = "none", c.kind # "none", c.mode # "native", cmd \in DOMAIN Transfer,
             o = Transfers(c, Transfer[cmd], arg)
      PROVE  Outcome(c, cmd, arg, o.card, o.r)
  <2>1. CASE c.mode = "ready" /\ Aligned(c, arg) /\ SectorOf(c, arg) < Sectors
    <3> DEFINE d == o.card
    <3>1. d = [c EXCEPT !.xfer = Transfer[cmd], !.at = SectorOf(c, arg), !.app = FALSE] /\ o.r = Ready
      BY <1>9, <2>1 DEF Transfers, Says, CardSet
    <3>2. SectorOf(c, arg) \in Nat
      BY CardAssumption DEF SectorOf
    <3>3. Transfer[cmd] \in {"read", "reads", "write", "writes"}
      BY <1>9 DEF Transfer
    <3> HIDE DEF d
    <3>4. d \in CardSet
      BY <3>1, <3>2, <3>3 DEF CardSet
    <3>5. /\ d.kind = c.kind /\ d.mode = c.mode /\ d.xfer = Transfer[cmd] /\ d.at = SectorOf(c, arg)
          /\ d.busy = c.busy /\ d.pending = c.pending /\ d.store = c.store
      BY <3>1 DEF CardSet
    <3>6. Sound(d)
      BY <1>0, <1>9, <2>1, <3>5 DEF Sound
    <3>7. cmd \notin {CMD0, CMD1, CMD9, CMD12, ACMD41}
      BY <1>9 DEF Transfer
    <3>8. Outcome(c, cmd, arg, d, o.r)
      BY <1>9, <3>1, <3>4, <3>5, <3>6, <3>7 DEF Outcome
    <3> QED
      BY <3>8 DEF d
  <2>2. CASE ~(c.mode = "ready" /\ Aligned(c, arg) /\ SectorOf(c, arg) < Sectors)
    <3>1. o = Says(c, BadAddress)
      BY <1>9, <2>2 DEF Transfers
    <3> QED
      BY <1>3, <1>9, <3>1
  <2> QED
    BY <2>1, <2>2
<1>10. CASE c.kind # "none" /\ c.mode # "native" /\ cmd # CMD0 /\ c.xfer = "none"
  <2>1. CASE cmd \in {CMD8, CMD12, CMD16, CMD58, ACMD23}
    <3>1. PICK r : o = Says(c, r) /\ (cmd = CMD12 => r # Ready)
      BY <1>10, <2>1 DEF Obeys
    <3> QED
      BY <1>3, <1>10, <2>1, <3>1 DEF Transfer
  <2>2. CASE cmd = CMD55
    <3>1. CASE c.kind = "MMC"
      BY <1>3, <1>10, <2>2, <3>1 DEF Obeys
    <3>2. CASE c.kind # "MMC"
      <4> DEFINE d == o.card
      <4>1. d = [c EXCEPT !.app = TRUE]
        BY <1>10, <2>2, <3>2 DEF Obeys
      <4> HIDE DEF d
      <4>2. /\ d \in CardSet /\ d.kind = c.kind /\ d.mode = c.mode /\ d.xfer = c.xfer /\ d.at = c.at
            /\ d.busy = c.busy /\ d.pending = c.pending /\ d.store = c.store
        BY <4>1 DEF CardSet
      <4>3. Outcome(c, cmd, arg, d, o.r)
        BY <1>7, <1>10, <2>2, <4>2 DEF Transfer
      <4> QED
        BY <4>3 DEF d
    <3> QED
      BY <3>1, <3>2
  <2>3. CASE cmd = ACMD41
    <3> DEFINE deaf == c.kind = "SD2HC" /\ arg # HCS
    <3>1. o = IF ~c.app THEN Says(c, Illegal) ELSE IF deaf THEN Says(c, Idle) ELSE WarmsUp(c)
      BY <1>10, <2>3 DEF Obeys
    <3>2. CASE o = Says(c, Illegal) \/ o = Says(c, Idle)
      BY <1>3, <1>10, <3>2
    <3>3. CASE o = WarmsUp(c) /\ ~deaf
      BY <1>7, <1>8, <1>10, <2>3, <3>3 DEF Transfer
    <3> HIDE DEF deaf
    <3> QED
      BY <3>1, <3>2, <3>3
  <2>4. CASE cmd = CMD1
    <3>1. CASE c.kind = "MMC"
      <4>1. o = WarmsUp(c)
        BY <1>10, <2>4, <3>1 DEF Obeys
      <4> QED
        BY <1>7, <1>8, <1>10, <2>4, <3>1, <4>1 DEF Transfer
    <3>2. CASE c.kind # "MMC"
      <4>1. o = Says(c, Illegal)
        BY <1>10, <2>4, <3>2 DEF Obeys
      <4> QED
        BY <1>3, <1>10, <4>1
    <3> QED
      BY <3>1, <3>2
  <2>5. CASE cmd = CMD9
    <3>1. CASE c.mode = "ready"
      <4> DEFINE d == o.card
      <4>1. d = [c EXCEPT !.xfer = "csd", !.app = FALSE] /\ o.r = Ready
        BY <1>10, <2>5, <3>1 DEF Obeys, Says, CardSet
      <4> HIDE DEF d
      <4>2. /\ d \in CardSet /\ d.kind = c.kind /\ d.mode = c.mode /\ d.xfer = "csd"
            /\ d.busy = c.busy /\ d.pending = c.pending /\ d.store = c.store
        BY <4>1 DEF CardSet
      <4>3. Outcome(c, cmd, arg, d, o.r)
        BY <1>0, <1>10, <2>5, <4>1, <4>2 DEF Outcome, Sound, Transfer
      <4> QED
        BY <4>3 DEF d
    <3>2. CASE c.mode # "ready"
      <4>1. o = Says(c, Illegal)
        BY <1>10, <2>5, <3>2 DEF Obeys
      <4> QED
        BY <1>3, <1>10, <4>1
    <3> QED
      BY <3>1, <3>2
  <2>6. CASE cmd \in DOMAIN Transfer
    <3>1. o = Transfers(c, Transfer[cmd], arg)
      BY <1>10, <2>6 DEF Obeys, Transfer
    <3> QED
      BY <1>9, <1>10, <2>6, <3>1
  <2> QED
    BY <1>10, <2>1, <2>2, <2>3, <2>4, <2>5, <2>6 DEF Commands, Transfer
<1>11. CASE c.kind # "none" /\ c.mode # "native" /\ cmd # CMD0
  BY <1>6, <1>10, <1>11
<1> QED
  BY <1>4, <1>5, <1>11

-----------------------------------------------------------------------------
(* The inductive invariant, in parts. *)

InitPC == {"idle", "if_cond", "op_cond", "ocr", "which", "SD1", "MMC", "SD1_len", "MMC_len"}
ReadPC == {"read", "block_in", "stop_in"}
WritePC == {"write", "address_out", "block_out", "stop_out"}
SizePC == {"size", "csd_in"}
PCs == {"out", "sync"} \cup InitPC \cup ReadPC \cup WritePC \cup SizePC

TypeInd ==
  /\ card \in CardSet /\ Sound(card)
  /\ pc \in PCs
  /\ Stat \in {"STA_NOINIT", "0"}
  /\ CardType \in [is : {"none", "SD2", "SD1", "MMC"}, block : BOOLEAN]
  /\ call \in [name : {"none"} \cup DOMAIN Entry, sector : Nat, count : Nat \ {0}]
  /\ call.sector + call.count <= Sectors
  /\ count \in 0..call.count
  /\ calls \in Nat
  /\ late \in BOOLEAN /\ swapped \in BOOLEAN
  /\ may \in [Sector -> SUBSET Nat]

(* Whose step comes next, and what is left of its transfer.                *)
CallInd ==
  /\ pc \in InitPC => call.name = "initialize"
  /\ pc \in ReadPC => call.name = "read"
  /\ pc \in WritePC => call.name = "write"
  /\ pc \in SizePC => call.name = "size"
  /\ pc = "sync" => call.name = "sync"
  /\ pc \notin InitPC \cup {"out"} => Stat = "0"
  /\ pc \in {"read", "write", "address_out"} => count = call.count
  /\ pc \in {"block_in", "block_out"} => count > 0

(* The card is in a transfer only where the driver expects it, unless it   *)
(* was given up on.                                                        *)
Reading == IF call.count > 1 THEN "reads" ELSE "read"
Writing == IF call.count > 1 THEN "writes" ELSE "write"
Phases(p) ==
  {"none"} \cup CASE p = "block_in"  -> {Reading}
                  [] p = "stop_in"   -> {"reads"}
                  [] p = "block_out" -> {Writing}
                  [] p = "stop_out"  -> {"writes"}
                  [] p = "csd_in"    -> {"csd"}
                  [] OTHER           -> {}
TransferInd ==
  /\ ~late => card.xfer \in Phases(pc)
  /\ pc = "stop_in" \/ pc = "stop_out" => call.count > 1

(* The driver knows how the card it initialised is addressed, and one that *)
(* replaced it has not been initialised.                                   *)
InitInd ==
  /\ Stat = "0" /\ ~swapped => CardType.block = (card.kind = "SD2HC")
  /\ pc \in {"SD1_len", "MMC_len"} /\ card.mode # "native" => card.kind # "SD2HC"
  /\ swapped /\ Stat = "0" /\ pc \notin InitPC => card.mode = "native"

(* The sectors a write in progress has done hold, or will, what it wrote;  *)
(* the others what they may.                                               *)
Wrote(s) == pc \in {"block_out", "stop_out"} /\ call.sector <= s /\ s < At
Meant(s) == 10 * calls + (call.count - (s - call.sector))
StoreInd ==
  /\ pc = "block_out" /\ ~swapped => card.xfer = Writing /\ card.at = At
  /\ ~swapped => \A s \in Sector : IF Wrote(s) THEN Settled(card)[s] = Meant(s)
                                   ELSE Settled(card)[s] \in may[s]

SyncInd == Returned("sync") => ~card.busy

(* A read in progress has read what the sectors may hold.                  *)
ReadInd ==
  /\ pc = "read" => buff = <<>>
  /\ pc = "block_in" => ~card.busy
  /\ pc = "block_in" /\ ~swapped => card.xfer = Reading /\ card.at = At
  /\ pc \in {"block_in", "stop_in"} =>
       /\ buff \in Seq(Nat) /\ Len(buff) = call.count - count
       /\ \A i \in 1..Len(buff) : buff[i] \in may[call.sector + i - 1]

Ind == TypeInd /\ CallInd /\ TransferInd /\ InitInd /\ StoreInd /\ SyncInd /\ ReadInd

-----------------------------------------------------------------------------
(* Commands, as the driver sends them. *)

(* A command of the application is taken for one command.                  *)
LEMMA AppOutcome ==
  ASSUME NEW c \in CardSet, Sound(c), ~c.busy, NEW cmd \in AppCommands, NEW arg \in Nat,
         NEW announced, announced = Obeys(c, CMD55, 0),
         NEW o, o = IF announced.r > 1 THEN announced ELSE Obeys(announced.card, cmd, arg)
  PROVE  Outcome(c, cmd, arg, o.card, o.r)
<1> USE DEF CMD0, CMD1, CMD9, CMD12, CMD17, CMD18, CMD24, CMD25, CMD55, ACMD23, ACMD41, Ready
<1>1. cmd \in Commands /\ CMD55 \in Commands
  BY DEF AppCommands, Commands
<1>2. Outcome(c, CMD55, 0, announced.card, announced.r)
  BY <1>1, ObeysOutcome
<1>3. cmd \notin {CMD0, CMD1, CMD9, CMD12} \cup DOMAIN Transfer /\ CMD55 \notin {CMD0, CMD9} \cup DOMAIN Transfer
  BY DEF AppCommands, Transfer
<1>4. CASE announced.r > 1
  <2>1. announced.r # Ready
    BY <1>4
  <2> QED
    BY <1>2, <1>3, <1>4, <2>1 DEF Outcome
<1>5. CASE ~(announced.r > 1)
  <2>1. announced.card \in CardSet /\ Sound(announced.card) /\ ~announced.card.busy
    BY <1>2 DEF Outcome
  <2>2. Outcome(announced.card, cmd, arg, o.card, o.r)
    BY <1>1, <1>5, <2>1, ObeysOutcome
  <2> HIDE DEF CMD0, CMD1, CMD9, CMD12, CMD17, CMD18, CMD24, CMD25, CMD55, ACMD23, ACMD41, Ready
  <2> QED
    BY <1>2, <1>3, <2>2 DEF Outcome
<1> QED
  BY <1>4, <1>5

(* What sending a command does, heard or not.                              *)
Said(cmd, arg, r) ==
  /\ card' \in CardSet /\ Sound(card')
  /\ card'.kind = card.kind /\ card'.busy = card.busy /\ card'.pending = card.pending
  /\ card'.store = card.store
  /\ late' \in BOOLEAN /\ (~late' => ~late)
  /\ card.mode = "native" /\ cmd # CMD0 => card'.mode = "native" /\ r # Ready
  /\ ~late' /\ card.xfer = "none" =>
       card'.xfer = "none" \/ (r = Ready /\ cmd \in {CMD9} \cup DOMAIN Transfer)
  /\ ~late' /\ card.xfer = "reads" /\ cmd = CMD12 => card'.xfer = "none"
  /\ r = Ready => ~card.busy /\ Outcome(card, cmd, arg, card', r)

(* A command that is sent, and heard or not, does no more than Said.       *)
LEMMA CommandedSaid ==
  ASSUME card \in CardSet, Sound(card), late \in BOOLEAN, NEW cmd, NEW arg, NEW o, NEW r,
         ~card.busy => Outcome(card, cmd, arg, o.card, o.r), Commanded(o, r)
  PROVE  Said(cmd, arg, r)
<1>1. CASE ~card.busy /\ r = o.r /\ card' = o.card /\ UNCHANGED <<faults, late>>
  BY <1>1 DEF Said, Outcome
<1>2. CASE Fails(o.card, r)
  <2>1. r # Ready
    BY <1>2 DEF Fails, NoAnswer, Ready
  <2>2. CASE UNCHANGED card /\ late' = TRUE
    BY <1>2, <2>1, <2>2 DEF Said
  <2>3. CASE UNCHANGED card /\ late' = (late \/ card.xfer # "none")
    BY <1>2, <2>1, <2>3 DEF Said
  <2>4. CASE ~card.busy /\ card' = o.card /\ late' = TRUE
    BY <1>2, <2>1, <2>4 DEF Said, Outcome
  <2> QED
    BY <1>2, <2>2, <2>3, <2>4 DEF Fails
<1> QED
  BY <1>1, <1>2 DEF Commanded

(* So does any command of sdmm.c, an application command with its CMD55    *)
(* included.                                                               *)
LEMMA SendsSaid ==
  ASSUME card \in CardSet, Sound(card), late \in BOOLEAN, NEW cmd \in Commands, NEW arg \in Nat, NEW r,
         Sends(cmd, arg, r)
  PROVE  Said(cmd, arg, r)
<1>1. CASE cmd \in AppCommands
  <2>1. AppCmd(cmd, arg, r)
    BY <1>1 DEF Sends
  <2> DEFINE announced == Obeys(card, CMD55, 0)
             o == IF announced.r > 1 THEN announced ELSE Obeys(announced.card, cmd, arg)
  <2>2. Commanded(o, r)
    BY <2>1 DEF AppCmd
  <2>3. ~card.busy => Outcome(card, cmd, arg, o.card, o.r)
    BY <1>1, AppOutcome
  <2> HIDE DEF o
  <2> QED
    BY <2>2, <2>3, CommandedSaid
<1>2. CASE cmd \notin AppCommands
  <2> DEFINE o == Obeys(card, cmd, arg)
  <2>1. Commanded(o, r)
    BY <1>2 DEF Sends, send_cmd
  <2>2. ~card.busy => Outcome(card, cmd, arg, o.card, o.r)
    BY ObeysOutcome
  <2> HIDE DEF o
  <2> QED
    BY <2>1, <2>2, CommandedSaid
<1> QED
  BY <1>1, <1>2

(* And one that is sent without asking which kind it is.                   *)
LEMMA SendCmdSaid ==
  ASSUME card \in CardSet, Sound(card), late \in BOOLEAN, NEW cmd \in Commands, NEW arg \in Nat, NEW r,
         send_cmd(cmd, arg, r)
  PROVE  Said(cmd, arg, r)
<1> DEFINE o == Obeys(card, cmd, arg)
<1>1. Commanded(o, r)
  BY DEF send_cmd
<1>2. ~card.busy => Outcome(card, cmd, arg, o.card, o.r)
  BY ObeysOutcome
<1> HIDE DEF o
<1> QED
  BY <1>1, <1>2, CommandedSaid

(* Nothing a command does changes what the card holds.                     *)
LEMMA SaidSettled ==
  ASSUME card \in CardSet, NEW cmd, NEW arg, NEW r, Said(cmd, arg, r)
  PROVE  Settled(card') = Settled(card)
BY DEF Said, Settled, Programmed, CardSet

-----------------------------------------------------------------------------
(* The parts hold initially. *)

(* An SD card that has just got its power, and a driver just loaded,       *)
(* satisfy Ind.                                                            *)
LEMMA IndInit == Init => Ind
<1> SUFFICES ASSUME Init PROVE Ind
  OBVIOUS
<1>1. PICK kind \in Kinds, warm \in 0..MaxWarm : card = Fresh(kind, warm, [s \in 0..Sectors - 1 |-> 0])
  BY DEF Init
<1>2. card \in CardSet /\ Sound(card) /\ card.pending = <<>>
  BY <1>1, CardAssumption DEF Fresh, CardSet, Sound, Queues, Sector
<1>3. Settled(card) = [s \in Sector |-> 0]
  BY <1>1, <1>2, SettledIdle DEF Fresh, Sector
<1>4. TypeInd
  <2>1. may \in [Sector -> SUBSET Nat] /\ pc \in PCs
    BY DEF Init, Sector, PCs
  <2>2. CardType \in [is : {"none", "SD2", "SD1", "MMC"}, block : BOOLEAN]
    BY DEF Init, NoType
  <2>3. call.sector + call.count <= Sectors /\ count \in 0..call.count
    BY CardAssumption DEF Init
  <2>4. call \in [name : {"none"} \cup DOMAIN Entry, sector : Nat, count : Nat \ {0}]
    BY DEF Init
  <2> QED
    BY <1>2, <2>1, <2>2, <2>3, <2>4 DEF Init, TypeInd
<1>5. CallInd
  BY DEF Init, CallInd, InitPC, ReadPC, WritePC, SizePC
<1>6. TransferInd /\ InitInd /\ SyncInd /\ ReadInd
  BY <1>1 DEF Init, TransferInd, Phases, InitInd, InitPC, SyncInd, Returned, ReadInd, Fresh
<1>7. StoreInd
  BY <1>3 DEF Init, StoreInd, Wrote, Sector
<1> QED
  BY <1>4, <1>5, <1>6, <1>7 DEF Ind

-----------------------------------------------------------------------------
(* disk_initialize *)

(* Every step of it sends a command that transfers nothing; it goes on,    *)
(* gives up, or has found a card and how it is addressed.                  *)
GoesOn == /\ Keep /\ pc' \in InitPC
          /\ pc' \in {"SD1_len", "MMC_len"} => card'.kind # "SD2HC"
FoundCard(type) ==
  /\ type \in [is : {"SD2", "SD1", "MMC"}, block : BOOLEAN]
  /\ type.block = (card'.kind = "SD2HC") /\ ~card'.busy

(* The steps of disk_initialize are of three kinds.                        *)
LEMMA InitializeCases ==
  ASSUME Ind, disk_initialize
  PROVE  /\ pc \in InitPC
         /\ \E cmd \in Commands \ ({CMD9} \cup DOMAIN Transfer), arg \in Nat, r \in Answers : Said(cmd, arg, r)
         /\ \/ GoesOn
            \/ Found(NoType)
            \/ \E type : FoundCard(type) /\ Found(type)
<1> USE DEF CMD0, CMD1, CMD8, CMD9, CMD12, CMD16, CMD17, CMD18, CMD24, CMD25, CMD55, CMD58, ACMD23, ACMD41
<1> DEFINE Quiet == Commands \ ({CMD9} \cup DOMAIN Transfer)
<1>a. card \in CardSet /\ Sound(card) /\ late \in BOOLEAN
  BY DEF Ind, TypeInd
<1>b. 0 \in Nat /\ HCS \in Nat /\ 0 # HCS
  BY DEF HCS
<1>c. {CMD0, CMD1, CMD8, CMD16, CMD58, ACMD41} \subseteq Quiet
  BY DEF Commands, Transfer
<1> HIDE DEF Quiet
<1>d. ASSUME NEW cmd \in Quiet, NEW arg \in Nat, NEW r, Sends(cmd, arg, r)
      PROVE  Said(cmd, arg, r)
  BY <1>a, <1>d, SendsSaid DEF Quiet
<1> DEFINE Goal == GoesOn \/ Found(NoType) \/ \E type : FoundCard(type) /\ Found(type)
<1> HIDE DEF CMD0, CMD1, CMD8, CMD9, CMD12, CMD16, CMD17, CMD18, CMD24, CMD25, CMD55, CMD58, ACMD23, ACMD41
<1>f. PICK r \in Answers :
        \/ pc = "idle" /\ Sends(CMD0, 0, r) /\ GoIdle(r)
        \/ pc = "if_cond" /\ Sends(CMD8, 0, r) /\ IfCond(r)
        \/ pc = "if_cond" /\ WrongPattern
        \/ pc = "op_cond" /\ Sends(ACMD41, HCS, r) /\ AskAgain(r, "ocr")
        \/ pc = "ocr" /\ Sends(CMD58, 0, r) /\ Ocr(r)
        \/ pc = "which" /\ Sends(ACMD41, 0, r) /\ Which(r)
        \/ pc = "SD1" /\ Sends(ACMD41, 0, r) /\ AskAgain(r, "SD1_len")
        \/ pc = "MMC" /\ Sends(CMD1, 0, r) /\ AskAgain(r, "MMC_len")
        \/ pc = "SD1_len" /\ Sends(CMD16, 0, r) /\ BlockLength(r, "SD1")
        \/ pc = "MMC_len" /\ Sends(CMD16, 0, r) /\ BlockLength(r, "MMC")
  BY DEF disk_initialize
<1>g. ASSUME NEW next \in InitPC, AskAgain(r, next), pc \in {"op_cond", "SD1", "MMC"},
             r = Ready /\ next \in {"SD1_len", "MMC_len"} => card'.kind # "SD2HC"
      PROVE  Goal
  <2>1. CASE r = Ready /\ Goto(next) /\ Keep
    BY <1>g, <2>1 DEF Goto, GoesOn
  <2>2. CASE Found(NoType)
    BY <2>2
  <2>3. CASE UNCHANGED pc /\ Keep
    BY <1>g, <2>3 DEF GoesOn, InitPC
  <2> QED
    BY <1>g, <2>1, <2>2, <2>3 DEF AskAgain
<1>h. ASSUME NEW type \in {"SD1", "MMC"}, BlockLength(r, type), Sends(CMD16, 0, r),
             pc \in {"SD1_len", "MMC_len"}
      PROVE  Goal
  <2>1. CASE r = Ready
    <3> DEFINE t == [is |-> type, block |-> FALSE]
    <3>1. Said(CMD16, 0, r)
      BY <1>b, <1>c, <1>d, <1>h
    <3>2. card.mode # "native" /\ ~card'.busy /\ card'.kind = card.kind
      BY <2>1, <3>1 DEF Said, CMD0, CMD16
    <3>3. card'.kind # "SD2HC"
      BY <1>h, <3>2 DEF Ind, InitInd
    <3>4. FoundCard(t)
      BY <3>2, <3>3 DEF FoundCard
    <3>5. Found(t)
      BY <1>h, <2>1 DEF BlockLength
    <3> HIDE DEF t
    <3> QED
      BY <3>4, <3>5
  <2>2. CASE r # Ready
    BY <1>h, <2>2 DEF BlockLength
  <2> QED
    BY <2>1, <2>2
<1>i. ASSUME WrongPattern
      PROVE  Said(CMD8, 0, Idle)
  <2> DEFINE o == Obeys(card, CMD8, 0)
  <2>1. ~card.busy /\ o.r = Idle /\ card' = o.card /\ UNCHANGED late
    BY <1>i DEF WrongPattern
  <2>2. Outcome(card, CMD8, 0, o.card, o.r)
    BY <1>a, <1>b, <1>c, <2>1, ObeysOutcome DEF Quiet
  <2> HIDE DEF o
  <2> QED
    BY <1>a, <2>1, <2>2 DEF Said, Outcome
<1>1. pc \in InitPC
  BY <1>f DEF InitPC
<1>2. \E cmd \in Quiet, arg \in Nat, s \in Answers : Said(cmd, arg, s)
  <2>1. CASE \E cmd \in Quiet, arg \in Nat : Sends(cmd, arg, r)
    BY <1>d, <2>1
  <2>2. CASE WrongPattern
    <3>1. Idle \in Answers
      BY DEF Answers
    <3> QED
      BY <1>b, <1>c, <1>i, <2>2, <3>1
  <2> QED
    BY <1>b, <1>c, <1>f, <2>1, <2>2
<1>3. Goal
  <2>1. CASE pc = "idle" /\ GoIdle(r)
    BY <2>1 DEF GoIdle, Goto, GoesOn, InitPC
  <2>2. CASE pc = "if_cond" /\ (IfCond(r) \/ WrongPattern)
    BY <2>2 DEF IfCond, WrongPattern, Goto, GoesOn, InitPC
  <2>3. CASE pc = "op_cond" /\ AskAgain(r, "ocr")
    BY <1>g, <2>3 DEF InitPC
  <2>4. CASE pc = "ocr" /\ Sends(CMD58, 0, r) /\ Ocr(r)
    <3>1. CASE r = Ready
      <4> DEFINE t == [is |-> "SD2", block |-> card.kind = "SD2HC"]
      <4>1. Said(CMD58, 0, r)
        BY <1>b, <1>c, <1>d, <2>4
      <4>2. ~card'.busy /\ card'.kind = card.kind
        BY <3>1, <4>1 DEF Said
      <4>3. FoundCard(t)
        BY <4>2 DEF FoundCard
      <4>4. Found(t)
        BY <2>4, <3>1 DEF Ocr
      <4> HIDE DEF t
      <4> QED
        BY <4>3, <4>4
    <3>2. CASE r # Ready
      BY <2>4, <3>2 DEF Ocr
    <3> QED
      BY <3>1, <3>2
  <2>5. CASE pc = "which" /\ Which(r)
    BY <2>5 DEF Which, Goto, GoesOn, InitPC
  <2>6. CASE pc = "SD1" /\ Sends(ACMD41, 0, r) /\ AskAgain(r, "SD1_len")
    <3>1. r = Ready => card'.kind # "SD2HC"
      <4>1. Said(ACMD41, 0, r)
        BY <1>b, <1>c, <1>d, <2>6
      <4> QED
        BY <1>b, <4>1 DEF Said, Outcome
    <3> QED
      BY <1>g, <2>6, <3>1 DEF InitPC
  <2>7. CASE pc = "MMC" /\ Sends(CMD1, 0, r) /\ AskAgain(r, "MMC_len")
    <3>1. r = Ready => card'.kind # "SD2HC"
      <4>1. Said(CMD1, 0, r)
        BY <1>b, <1>c, <1>d, <2>7
      <4> QED
        BY <4>1 DEF Said, Outcome
    <3> QED
      BY <1>g, <2>7, <3>1 DEF InitPC
  <2>8. CASE pc = "SD1_len" /\ Sends(CMD16, 0, r) /\ BlockLength(r, "SD1")
    BY <1>h, <2>8
  <2>9. CASE pc = "MMC_len" /\ Sends(CMD16, 0, r) /\ BlockLength(r, "MMC")
    BY <1>h, <2>9
  <2> HIDE DEF Goal
  <2> QED
    BY <1>f, <2>1, <2>2, <2>3, <2>4, <2>5, <2>6, <2>7, <2>8, <2>9
<1> QED
  BY <1>1, <1>2, <1>3 DEF Quiet

(* disk_initialize keeps Ind.                                              *)
LEMMA InitializeInd == Ind /\ disk_initialize => Ind'
<1> SUFFICES ASSUME Ind, disk_initialize PROVE Ind'
  OBVIOUS
<1>1. /\ pc \in InitPC
      /\ GoesOn \/ Found(NoType) \/ \E type : FoundCard(type) /\ Found(type)
  BY InitializeCases
<1>2. PICK cmd \in Commands \ ({CMD9} \cup DOMAIN Transfer), arg \in Nat, r \in Answers : Said(cmd, arg, r)
  BY InitializeCases
<1>3. UNCHANGED <<buff, call, count, calls>>
  BY DEF disk_initialize
<1>4. /\ card' \in CardSet /\ Sound(card') /\ card'.kind = card.kind /\ card'.busy = card.busy
      /\ late' \in BOOLEAN /\ (~late' => ~late)
      /\ ~late' /\ card.xfer = "none" => card'.xfer = "none"
  BY <1>2 DEF Said
<1>5. Settled(card') = Settled(card)
  BY <1>2, SaidSettled DEF Ind, TypeInd
<1>6. TransferInd'
  <2>1. ~late => card.xfer = "none"
    BY <1>1 DEF Ind, TransferInd, Phases, InitPC
  <2>2. pc' \notin {"stop_in", "stop_out"}
    BY <1>1 DEF GoesOn, Found, Return, InitPC
  <2> QED
    BY <1>4, <2>1, <2>2 DEF TransferInd, Phases
<1>7. call.name = "initialize"
  BY <1>1 DEF Ind, CallInd
<1>8. CASE GoesOn
  <2>1. /\ UNCHANGED <<Stat, CardType, res, swapped, may>> /\ pc' \in InitPC
        /\ pc' \in {"SD1_len", "MMC_len"} => card'.kind # "SD2HC"
    BY <1>8 DEF GoesOn, Keep
  <2>2. TypeInd'
    BY <1>3, <1>4, <2>1 DEF Ind, TypeInd, PCs
  <2>3. CallInd'
    BY <1>3, <1>7, <2>1 DEF CallInd, InitPC, ReadPC, WritePC, SizePC
  <2>4. InitInd'
    BY <1>4, <2>1 DEF Ind, InitInd
  <2>5. StoreInd'
    <3>1. \A s \in Sector : ~Wrote(s) /\ ~Wrote(s)'
      BY <1>1, <2>1 DEF Wrote, InitPC
    <3>2. ~swapped' => \A s \in Sector : Settled(card)'[s] \in may'[s]
      BY <1>5, <2>1, <3>1 DEF Ind, StoreInd
    <3>3. pc' # "block_out"
      BY <2>1 DEF InitPC
    <3> QED
      BY <3>1, <3>2, <3>3 DEF StoreInd
  <2>6. SyncInd' /\ ReadInd'
    BY <2>1 DEF SyncInd, Returned, ReadInd, InitPC
  <2> QED
    BY <1>6, <2>2, <2>3, <2>4, <2>5, <2>6 DEF Ind
<1>9. ASSUME NEW type, Found(type), type = NoType \/ FoundCard(type) PROVE Ind'
  <2>1. /\ CardType' = type /\ pc' = "out"
        /\ Stat' = IF type = NoType THEN "STA_NOINIT" ELSE "0"
        /\ swapped' = (swapped /\ type = NoType)
        /\ may' = IF swapped /\ ~swapped' THEN [s \in DOMAIN may |-> {card.store[s]}] ELSE may
    BY <1>9 DEF Found, Return
  <2>2. /\ type = NoType => Stat' = "STA_NOINIT"
        /\ type # NoType => FoundCard(type) /\ ~swapped'
    BY <1>9, <2>1
  <2>3. type \in [is : {"none", "SD2", "SD1", "MMC"}, block : BOOLEAN]
    <3>1. CASE type = NoType
      BY <3>1 DEF NoType
    <3>2. CASE FoundCard(type)
      BY <3>2 DEF FoundCard
    <3> QED
      BY <1>9, <3>1, <3>2
  <2>4. may' \in [Sector -> SUBSET Nat]
    BY <2>1 DEF Ind, TypeInd, CardSet
  <2>5. TypeInd'
    BY <1>3, <1>4, <2>1, <2>3, <2>4 DEF Ind, TypeInd, PCs
  <2>6. CallInd'
    BY <2>1 DEF CallInd, InitPC, ReadPC, WritePC, SizePC
  <2>7. InitInd'
    BY <2>1, <2>2 DEF InitInd, FoundCard
  <2>8. StoreInd'
    <3>1. \A s \in Sector : ~Wrote(s) /\ ~Wrote(s)'
      BY <1>1, <2>1 DEF Wrote, InitPC
    <3>2. ASSUME ~swapped', NEW s \in Sector PROVE Settled(card')[s] \in may'[s]
      <4>1. CASE ~swapped
        <5>1. Settled(card)[s] \in may[s]
          BY <3>1, <4>1 DEF Ind, StoreInd
        <5> QED
          BY <1>5, <2>1, <4>1, <5>1
      <4>2. CASE swapped
        <5>1. ~card.busy /\ card \in CardSet /\ Sound(card)
          BY <1>4, <2>1, <2>2, <3>2, <4>2 DEF FoundCard, Ind, TypeInd
        <5>2. Settled(card) = card.store
          BY <5>1, SettledIdle DEF Sound
        <5>3. may'[s] = {card.store[s]}
          BY <2>1, <3>2, <4>2 DEF Ind, TypeInd
        <5> QED
          BY <1>5, <5>2, <5>3
      <4> QED
        BY <4>1, <4>2 DEF Ind, TypeInd
    <3> QED
      BY <2>1, <3>1, <3>2 DEF StoreInd
  <2>9. SyncInd' /\ ReadInd'
    BY <1>3, <1>7, <2>1 DEF SyncInd, Returned, ReadInd
  <2> QED
    BY <1>6, <2>5, <2>6, <2>7, <2>8, <2>9 DEF Ind
<1> QED
  BY <1>1, <1>8, <1>9

-----------------------------------------------------------------------------
(* disk_read *)

(* What receiving a block does.                                            *)
Received(ok) ==
  /\ card' \in CardSet /\ Sound(card')
  /\ card'.kind = card.kind /\ card'.busy = card.busy /\ card'.pending = card.pending
  /\ card'.store = card.store /\ card'.mode = card.mode
  /\ late' \in BOOLEAN /\ (~late' => ~late)
  /\ ok => card.xfer \in {"csd", "read", "reads"} /\ (card.xfer # "csd" => card.at < Sectors)
  /\ ~late' /\ card.xfer \in {"none", "csd", "read"} => card'.xfer = "none"
  /\ ok /\ card.xfer = "reads" => card'.xfer = "reads" /\ card'.at = card.at + 1
  /\ ~late' /\ card.xfer = "reads" => card'.xfer = "reads"

(* rcvr_datablock does no more than Received.                              *)
LEMMA ReceivedBlock ==
  ASSUME card \in CardSet, Sound(card), late \in BOOLEAN, NEW ok \in BOOLEAN, rcvr_datablock(ok)
  PROVE  Received(ok)
<1>1. CASE ok /\ HasBlock(card) /\ card' = Sent(card) /\ UNCHANGED late
  <2>1. CASE card.xfer \in {"read", "csd"}
    <3>1. card' = [card EXCEPT !.xfer = "none"]
      BY <1>1, <2>1 DEF Sent
    <3>2. card' \in CardSet
      BY <3>1 DEF CardSet
    <3>3. /\ card'.kind = card.kind /\ card'.busy = card.busy /\ card'.pending = card.pending
          /\ card'.store = card.store /\ card'.mode = card.mode /\ card'.xfer = "none"
      BY <3>1 DEF CardSet
    <3> QED
      BY <1>1, <2>1, <3>2, <3>3 DEF Received, Sound, HasBlock
  <2>2. CASE card.xfer \notin {"read", "csd"}
    <3>1. card' = [card EXCEPT !.at = @ + 1] /\ card.xfer = "reads"
      BY <1>1, <2>2 DEF Sent, HasBlock
    <3>2. card' \in CardSet
      BY <3>1 DEF CardSet
    <3>3. /\ card'.kind = card.kind /\ card'.busy = card.busy /\ card'.pending = card.pending
          /\ card'.store = card.store /\ card'.mode = card.mode /\ card'.xfer = "reads"
          /\ card'.at = card.at + 1
      BY <3>1 DEF CardSet
    <3> QED
      BY <1>1, <3>1, <3>2, <3>3 DEF Received, Sound, HasBlock
  <2> QED
    BY <2>1, <2>2
<1>2. CASE ~ok /\ ~HasBlock(card) /\ UNCHANGED <<card, late>>
  BY <1>2 DEF Received, Sound, HasBlock
<1>3. CASE ~ok /\ card' = [card EXCEPT !.xfer = IF @ = "reads" THEN @ ELSE "none"] /\ UNCHANGED late
  <2>1. card' \in CardSet
    BY <1>3 DEF CardSet
  <2>2. /\ card'.kind = card.kind /\ card'.busy = card.busy /\ card'.pending = card.pending
        /\ card'.store = card.store /\ card'.mode = card.mode /\ card'.at = card.at
        /\ card'.xfer = IF card.xfer = "reads" THEN "reads" ELSE "none"
    BY <1>3 DEF CardSet
  <2> QED
    BY <1>3, <2>1, <2>2 DEF Received, Sound
<1>4. CASE ~ok /\ UNCHANGED card /\ late' = TRUE
  BY <1>4 DEF Received
<1> QED
  BY <1>1, <1>2, <1>3, <1>4 DEF rcvr_datablock

(* Reading a block changes nothing of what the card holds.                 *)
LEMMA ReceivedSettled ==
  ASSUME card \in CardSet, NEW ok, Received(ok)
  PROVE  Settled(card') = Settled(card)
BY DEF Received, Settled, Programmed, CardSet

(* A step that leaves the driver's knowledge of the card alone, and the    *)
(* card's kind, keeps the part about them.                                 *)
LEMMA KeptInit ==
  ASSUME Ind, UNCHANGED <<Stat, CardType, swapped>>, pc \notin InitPC, pc' \notin InitPC,
         card'.kind = card.kind, card.mode = "native" => card'.mode = "native"
  PROVE  InitInd'
BY DEF Ind, InitInd, InitPC

(* One that leaves what the card holds alone, too, and is not of a write,  *)
(* keeps the part about that.                                              *)
LEMMA KeptStore ==
  ASSUME Ind, UNCHANGED <<Stat, CardType, call, calls, swapped, may>>,
         pc \notin InitPC, pc' \notin InitPC, card' \in CardSet,
         card'.kind = card.kind, card.mode = "native" => card'.mode = "native",
         Settled(card') = Settled(card),
         pc \notin {"block_out", "stop_out"}, pc' \notin {"block_out", "stop_out"}
  PROVE  InitInd' /\ StoreInd'
<1>1. InitInd'
  BY KeptInit
<1>2. \A s \in Sector : ~Wrote(s) /\ ~Wrote(s)'
  BY DEF Wrote
<1>3. \A s \in Sector : ~swapped' => Settled(card)'[s] \in may'[s]
  BY <1>2 DEF Ind, StoreInd
<1>4. StoreInd'
  BY <1>2, <1>3 DEF StoreInd
<1> QED
  BY <1>1, <1>4

(* The command that opens a read keeps Ind.                                *)
LEMMA FirstReadInd ==
  ASSUME Ind, FirstRead, UNCHANGED <<Stat, CardType, call, calls, swapped>>
  PROVE  Ind'
<1> DEFINE cmd == IF call.count > 1 THEN CMD18 ELSE CMD17
<1>1. PICK r \in Answers :
        /\ send_cmd(cmd, Address(call.sector), r)
        /\ IF r = Ready THEN Goto("block_in") /\ UNCHANGED res ELSE Done(count)
  BY DEF FirstRead
<1>2. pc = "read" /\ UNCHANGED <<buff, may, count>>
  BY DEF FirstRead
<1>3. /\ card \in CardSet /\ Sound(card) /\ late \in BOOLEAN /\ call.sector \in Nat /\ call.count \in Nat
      /\ count = call.count /\ count > 0 /\ call.name = "read" /\ Stat = "0" /\ buff = <<>>
      /\ CardType.block \in BOOLEAN
  BY <1>2 DEF Ind, TypeInd, CallInd, ReadInd, ReadPC, InitPC
<1>4. Address(call.sector) \in Nat
  BY <1>3, CardAssumption DEF Address
<1>5. cmd \in Commands /\ cmd # CMD0 /\ cmd \in DOMAIN Transfer /\ Transfer[cmd] = Reading /\ cmd # CMD12
  BY DEF Commands, Transfer, Reading, CMD0, CMD12, CMD17, CMD18, CMD24, CMD25
<1> HIDE DEF cmd
<1>6. Said(cmd, Address(call.sector), r)
  BY <1>1, <1>3, <1>4, <1>5, SendCmdSaid
<1>7. Settled(card') = Settled(card)
  BY <1>3, <1>6, SaidSettled
<1>8. pc' = IF r = Ready THEN "block_in" ELSE "out"
  BY <1>1 DEF Goto, Done, Return
<1>9. TypeInd'
  BY <1>2, <1>6, <1>8 DEF Ind, TypeInd, Said, PCs, ReadPC
<1>10. CallInd'
  BY <1>2, <1>3, <1>8 DEF CallInd, InitPC, ReadPC, WritePC, SizePC
<1>11. TransferInd'
  <2>1. ~late => card.xfer = "none"
    BY <1>2 DEF Ind, TransferInd, Phases
  <2>2. ~late' => card'.xfer = "none" \/ (r = Ready /\ card'.xfer = Reading)
    BY <1>5, <1>6, <2>1 DEF Said, Outcome
  <2>3. Reading' = Reading
    BY DEF Reading
  <2> QED
    BY <1>8, <2>2, <2>3 DEF TransferInd, Phases
<1>12. InitInd' /\ StoreInd'
  <2>1. card' \in CardSet /\ card'.kind = card.kind /\ (card.mode = "native" => card'.mode = "native")
    BY <1>5, <1>6 DEF Said
  <2> QED
    BY <1>2, <1>7, <1>8, <2>1, KeptStore DEF InitPC
<1>13. SyncInd'
  BY <1>3 DEF SyncInd, Returned
<1>14. ReadInd'
  <2>1. CASE r = Ready
    <3>1. ~card.busy /\ card'.busy = card.busy /\ card'.xfer = Reading
          /\ card'.at = SectorOf(card, Address(call.sector))
      BY <1>5, <1>6, <2>1 DEF Said, Outcome
    <3>2. ~swapped => card'.at = call.sector
      <4>1. SectorSize \in Nat \ {0} /\ (call.sector * SectorSize) \div SectorSize = call.sector
        BY <1>3, CardAssumption
      <4>2. ~swapped => CardType.block = (card.kind = "SD2HC")
        BY <1>3 DEF Ind, InitInd
      <4> QED
        BY <3>1, <4>1, <4>2 DEF SectorOf, Address
    <3>3. At' = call.sector /\ Reading' = Reading
      BY <1>2, <1>3 DEF At, Reading
    <3>4. Len(buff) = call.count - count /\ buff \in Seq(Nat)
      BY <1>3
    <3> QED
      BY <1>2, <1>3, <1>8, <2>1, <3>1, <3>2, <3>3, <3>4 DEF ReadInd
  <2>2. CASE r # Ready
    BY <1>8, <2>2 DEF ReadInd
  <2> QED
    BY <2>1, <2>2
<1> QED
  BY <1>9, <1>10, <1>11, <1>12, <1>13, <1>14 DEF Ind

(* The block a read takes is one the card has for it; a card that replaced *)
(* the one initialised gives none.                                         *)
LEMMA BlockInTrue ==
  ASSUME Ind, pc = "block_in", Received(TRUE)
  PROVE  /\ ~swapped /\ card.at = At /\ At \in Sector /\ At = call.sector + Len(buff)
         /\ card.store[card.at] \in may[At] /\ card.store[card.at] \in Nat
<1>1. /\ card \in CardSet /\ Sound(card) /\ Stat = "0" /\ ~card.busy /\ count \in Nat
      /\ call.sector \in Nat /\ call.count \in Nat /\ may \in [Sector -> SUBSET Nat] /\ swapped \in BOOLEAN
      /\ Len(buff) = call.count - count
  BY DEF Ind, TypeInd, CallInd, ReadInd, InitPC
<1>2. card.xfer # "none" /\ card.mode # "native"
  BY <1>1 DEF Received, Sound
<1>3. ~swapped
  BY <1>1, <1>2 DEF Ind, InitInd, InitPC
<1>4. card.xfer = Reading /\ card.at = At
  BY <1>3 DEF Ind, ReadInd
<1>5. At \in Sector /\ At = call.sector + Len(buff)
  <2>1. card.at < Sectors /\ card.at \in Nat
    BY <1>1, <1>4 DEF Received, Reading, CardSet
  <2> QED
    BY <1>1, <1>4, <2>1, CardAssumption DEF At, Sector
<1>6. Settled(card)[At] \in may[At]
  <2>1. ~Wrote(At)
    BY DEF Wrote
  <2> QED
    BY <1>3, <1>5, <2>1 DEF Ind, StoreInd
<1>7. Settled(card) = card.store
  BY <1>1, SettledIdle DEF Sound
<1> QED
  BY <1>1, <1>3, <1>4, <1>5, <1>6, <1>7

(* What has been read, with the block.                                     *)
LEMMA BlockInBuffer ==
  ASSUME Ind, BlockIn, UNCHANGED call
  PROVE  /\ buff' \in Seq(Nat) /\ Len(buff') = call.count - count'
         /\ \A j \in 1..Len(buff') : buff'[j] \in may[call.sector + j - 1]
<1>1. PICK ok \in BOOLEAN :
        /\ rcvr_datablock(ok)
        /\ count' = IF ok THEN count - 1 ELSE count
        /\ buff' = IF ok THEN Append(buff, card.store[card.at]) ELSE buff
  BY DEF BlockIn
<1>2. pc = "block_in"
  BY DEF BlockIn
<1>3. /\ card \in CardSet /\ Sound(card) /\ late \in BOOLEAN /\ call.sector \in Nat /\ call.count \in Nat
      /\ count \in Nat /\ buff \in Seq(Nat) /\ Len(buff) = call.count - count
      /\ \A i \in 1..Len(buff) : buff[i] \in may[call.sector + i - 1]
  BY <1>2 DEF Ind, TypeInd, ReadInd
<1>4. Received(ok)
  BY <1>1, <1>3, ReceivedBlock
<1>5. CASE ok
  <2>1. /\ card.at = At /\ At = call.sector + Len(buff)
        /\ card.store[card.at] \in may[At] /\ card.store[card.at] \in Nat
    BY <1>2, <1>4, <1>5, BlockInTrue
  <2>2. buff' = Append(buff, card.store[card.at]) /\ Len(buff) \in Nat
    BY <1>1, <1>3, <1>5
  <2>3. buff' \in Seq(Nat) /\ Len(buff') = Len(buff) + 1
    BY <1>3, <2>1, <2>2
  <2>4. ASSUME NEW i \in 1..Len(buff') PROVE buff'[i] \in may[call.sector + i - 1]
    <3>1. CASE i \in 1..Len(buff)
      <4>1. buff'[i] = buff[i]
        BY <1>3, <2>1, <2>2, <3>1
      <4> QED
        BY <1>3, <3>1, <4>1
    <3>2. CASE i \notin 1..Len(buff)
      <4>1. i = Len(buff) + 1
        BY <2>2, <2>3, <3>2
      <4>2. buff'[i] = card.store[card.at]
        BY <1>3, <2>1, <2>2, <4>1
      <4>3. call.sector + i - 1 = At
        BY <1>3, <2>1, <2>2, <4>1
      <4> QED
        BY <2>1, <4>2, <4>3
    <3> QED
      BY <3>1, <3>2
  <2>5. Len(buff') = call.count - count'
    BY <1>1, <1>3, <1>5, <2>2, <2>3
  <2> QED
    BY <2>3, <2>4, <2>5
<1>6. CASE ~ok
  BY <1>1, <1>3, <1>6
<1> QED
  BY <1>5, <1>6

(* A block read, or not, keeps Ind.                                        *)
LEMMA BlockInInd ==
  ASSUME Ind, BlockIn, UNCHANGED <<Stat, CardType, call, calls, swapped>>
  PROVE  Ind'
<1>1. PICK ok \in BOOLEAN :
        /\ rcvr_datablock(ok)
        /\ count' = IF ok THEN count - 1 ELSE count
        /\ buff' = IF ok THEN Append(buff, card.store[card.at]) ELSE buff
        /\ IF ok /\ count' > 0 THEN UNCHANGED <<pc, res>>
           ELSE IF call.count > 1 THEN Goto("stop_in") /\ UNCHANGED res
           ELSE Done(count')
  BY DEF BlockIn
<1>2. pc = "block_in" /\ UNCHANGED may
  BY DEF BlockIn
<1>3. /\ card \in CardSet /\ Sound(card) /\ late \in BOOLEAN /\ call.sector \in Nat /\ call.count \in Nat \ {0}
      /\ count \in 1..call.count /\ call.name = "read" /\ Stat = "0" /\ ~card.busy
      /\ buff \in Seq(Nat) /\ Len(buff) = call.count - count
      /\ \A i \in 1..Len(buff) : buff[i] \in may[call.sector + i - 1]
  BY <1>2 DEF Ind, TypeInd, CallInd, ReadInd, ReadPC, InitPC
<1>4. Received(ok)
  BY <1>1, <1>3, ReceivedBlock
<1>5. Settled(card') = Settled(card)
  BY <1>3, <1>4, ReceivedSettled
<1>6. count' \in 0..call.count /\ count' \in Nat /\ (ok => count' = count - 1) /\ (~ok => count' = count)
  BY <1>1, <1>3
<1>7. /\ pc' \in {"block_in", "stop_in", "out"}
      /\ pc' = "block_in" => ok /\ count' > 0
      /\ pc' = "stop_in" => call.count > 1
      /\ pc' = "out" => ~(call.count > 1)
  BY <1>1, <1>2, <1>3, <1>6 DEF Goto, Done, Return
<1>8. TypeInd'
  BY <1>2, <1>4, <1>6, <1>7 DEF Ind, TypeInd, Received, PCs, ReadPC
<1>9. CallInd'
  BY <1>3, <1>6, <1>7 DEF CallInd, InitPC, ReadPC, WritePC, SizePC
<1>10. TransferInd'
  <2>1. ~late => card.xfer \in {"none", Reading}
    BY <1>2 DEF Ind, TransferInd, Phases
  <2>2. ~late' => card'.xfer = "none" \/ (call.count > 1 /\ card'.xfer = "reads")
    BY <1>4, <2>1 DEF Received, Reading
  <2>3. pc' = "block_in" => call.count > 1
    BY <1>3, <1>6, <1>7
  <2> QED
    BY <1>7, <2>2, <2>3 DEF TransferInd, Phases, Reading
<1>11. InitInd' /\ StoreInd'
  <2>1. card' \in CardSet /\ card'.kind = card.kind /\ (card.mode = "native" => card'.mode = "native")
    BY <1>4 DEF Received
  <2> QED
    BY <1>2, <1>5, <1>7, <2>1, KeptStore DEF InitPC
<1>12. SyncInd'
  BY <1>3 DEF SyncInd, Returned
<1>13. ReadInd'
  <2>1. /\ buff' \in Seq(Nat) /\ Len(buff') = call.count - count'
        /\ \A i \in 1..Len(buff') : buff'[i] \in may[call.sector + i - 1]
    BY BlockInBuffer
  <2>2. ASSUME pc' = "block_in" PROVE ~card'.busy /\ card'.xfer = Reading' /\ card'.at = At'
    <3>1. ok /\ call.count > 1
      BY <1>3, <1>6, <1>7, <2>2
    <3>2. ~swapped /\ card.at = At
      BY <1>2, <1>4, <3>1, BlockInTrue
    <3>3. card.xfer = Reading
      BY <1>2, <3>2 DEF Ind, ReadInd
    <3>4. card'.xfer = "reads" /\ card'.at = At + 1
      BY <1>4, <3>1, <3>2, <3>3 DEF Received, Reading
    <3>5. At' = At + 1
      <4>1. At' = call.sector + call.count - count' /\ At = call.sector + call.count - count
        BY DEF At
      <4>2. count' = count - 1 /\ count \in Nat
        BY <1>3, <1>6, <3>1
      <4>3. ASSUME NEW s \in Nat, NEW n \in Nat, NEW k \in Nat PROVE s + n - (k - 1) = s + n - k + 1
        OBVIOUS
      <4> QED
        BY <1>3, <4>1, <4>2, <4>3
    <3>6. ~card'.busy
      BY <1>3, <1>4 DEF Received
    <3> QED
      BY <3>1, <3>4, <3>5, <3>6 DEF Reading
  <2>3. UNCHANGED <<call, may>>
    BY <1>2
  <2> QED
    BY <1>7, <2>1, <2>2, <2>3 DEF ReadInd
<1> QED
  BY <1>8, <1>9, <1>10, <1>11, <1>12, <1>13 DEF Ind

(* The STOP_TRANSMISSION that ends a read of several sectors keeps Ind.    *)
LEMMA StopInInd ==
  ASSUME Ind, StopIn, UNCHANGED <<Stat, CardType, call, calls, swapped>>
  PROVE  Ind'
<1>1. PICK r \in Answers : send_cmd(CMD12, 0, r)
  BY DEF StopIn
<1>2. pc = "stop_in" /\ pc' = "out" /\ UNCHANGED <<buff, may, count>>
  BY DEF StopIn, Done, Return
<1>3. /\ card \in CardSet /\ Sound(card) /\ late \in BOOLEAN /\ call.name = "read"
  BY <1>2 DEF Ind, TypeInd, CallInd, ReadPC
<1>4. CMD12 \in Commands /\ CMD12 # CMD0 /\ CMD12 \notin {CMD9} \cup DOMAIN Transfer
  BY DEF Commands, Transfer, CMD0, CMD9, CMD12, CMD17, CMD18, CMD24, CMD25
<1>5. Said(CMD12, 0, r)
  BY <1>1, <1>3, <1>4, SendCmdSaid
<1>6. Settled(card') = Settled(card)
  BY <1>3, <1>5, SaidSettled
<1>7. TypeInd'
  BY <1>2, <1>5 DEF Ind, TypeInd, Said, PCs
<1>8. CallInd'
  BY <1>2 DEF CallInd, InitPC, ReadPC, WritePC, SizePC
<1>9. TransferInd'
  <2>1. ~late => card.xfer \in {"none", "reads"}
    BY <1>2 DEF Ind, TransferInd, Phases
  <2> QED
    BY <1>2, <1>4, <1>5, <2>1 DEF TransferInd, Phases, Said
<1>10. InitInd' /\ StoreInd'
  <2>1. card' \in CardSet /\ card'.kind = card.kind /\ (card.mode = "native" => card'.mode = "native")
    BY <1>4, <1>5 DEF Said
  <2> QED
    BY <1>2, <1>6, <2>1, KeptStore DEF InitPC
<1>11. SyncInd' /\ ReadInd'
  BY <1>2, <1>3 DEF SyncInd, Returned, ReadInd
<1> QED
  BY <1>7, <1>8, <1>9, <1>10, <1>11 DEF Ind

-----------------------------------------------------------------------------
(* disk_write *)

(* What sending a block does.                                              *)
Transmitted(block, ok) ==
  /\ card' \in CardSet /\ Sound(card') /\ card'.kind = card.kind /\ card'.mode = card.mode
  /\ late' \in BOOLEAN /\ (~late' => ~late)
  /\ ok => /\ ~card.busy /\ card.xfer \in {"write", "writes"} /\ card.at < Sectors
           /\ card'.pending = << <<card.at, block>> >> /\ card'.store = card.store
           /\ card.xfer = "writes" => card'.xfer = "writes" /\ card'.at = card.at + 1
  /\ ~ok => card'.pending = card.pending /\ card'.store = card.store
  /\ ~late' /\ card.xfer \in {"none", "write"} => card'.xfer = "none"
  /\ ~late' /\ card.xfer = "writes" => card'.xfer = "writes"

(* xmit_datablock does no more than Transmitted.                           *)
LEMMA TransmittedBlock ==
  ASSUME card \in CardSet, Sound(card), late \in BOOLEAN, NEW block \in Nat, NEW ok \in BOOLEAN,
         xmit_datablock(block, ok)
  PROVE  Transmitted(block, ok)
<1>1. CASE ok /\ ~card.busy /\ WantsBlock(card) /\ card' = Accepted(card, block) /\ UNCHANGED late
  <2>1. card.pending = <<>> /\ card.at \in Sector /\ card.xfer \in {"write", "writes"}
    BY <1>1, CardAssumption DEF Sound, WantsBlock, CardSet, Sector
  <2>2. << <<card.at, block>> >> \in Queues /\ Append(<<>>, <<card.at, block>>) = << <<card.at, block>> >>
    BY <2>1 DEF Queues
  <2> DEFINE queue == << <<card.at, block>> >>
             after == IF card.xfer = "write" THEN "none" ELSE card.xfer
             next == card.at + 1
  <2>3. card' = [card EXCEPT !.pending = queue, !.busy = TRUE, !.xfer = after, !.at = next]
    BY <1>1, <2>1, <2>2 DEF Accepted
  <2>4. card' \in CardSet
    <3>1. queue \in Queues /\ after \in {"none", "writes"} /\ next \in Nat
      BY <2>1, <2>2 DEF CardSet
    <3> HIDE DEF queue, after, next
    <3> QED
      BY <2>3, <3>1 DEF CardSet
  <2>5. /\ card'.kind = card.kind /\ card'.mode = card.mode /\ card'.busy
        /\ card'.pending = << <<card.at, block>> >> /\ card'.store = card.store
        /\ card'.xfer = (IF card.xfer = "write" THEN "none" ELSE card.xfer) /\ card'.at = card.at + 1
    BY <2>3 DEF CardSet
  <2>6. Sound(card')
    BY <2>1, <2>5 DEF Sound
  <2>7. card.xfer = "writes" => card'.xfer = "writes" /\ card'.at = card.at + 1
    BY <2>5
  <2>8. card.xfer = "write" => card'.xfer = "none"
    BY <2>5
  <2>9. card.at < Sectors
    BY <1>1 DEF WantsBlock
  <2> QED
    BY <1>1, <2>1, <2>4, <2>5, <2>6, <2>7, <2>8, <2>9 DEF Transmitted
<1>2. CASE ~ok /\ ~card.busy /\ card' = Refused(card) /\ UNCHANGED late
  <2>1. card' = [card EXCEPT !.xfer = IF @ = "write" THEN "none" ELSE @]
    BY <1>2 DEF Refused
  <2>2. card' \in CardSet
    BY <2>1 DEF CardSet
  <2>3. /\ card'.kind = card.kind /\ card'.mode = card.mode /\ card'.busy = card.busy
        /\ card'.pending = card.pending /\ card'.store = card.store /\ card'.at = card.at
        /\ card'.xfer = IF card.xfer = "write" THEN "none" ELSE card.xfer
    BY <2>1 DEF CardSet
  <2> QED
    BY <1>2, <2>2, <2>3 DEF Transmitted, Sound
<1>3. CASE ~ok /\ UNCHANGED card /\ late' = TRUE
  BY <1>3 DEF Transmitted
<1> QED
  BY <1>1, <1>2, <1>3 DEF xmit_datablock

(* What the write has stored when left sectors are still to be written.    *)
Stored(c, left) ==
  \A s \in Sector : IF call.sector <= s /\ s < call.sector + call.count - left
                    THEN Settled(c)[s] = Meant(s) ELSE Settled(c)[s] \in may[s]

(* Before a block is written, those written before it are stored.          *)
LEMMA StoredNow ==
  ASSUME Ind, pc \in {"address_out", "block_out", "stop_out"}, ~swapped
  PROVE  Stored(card, count)
<1>1. CASE pc = "address_out"
  <2>1. count = call.count /\ call.sector \in Nat /\ call.count \in Nat
    BY <1>1 DEF Ind, CallInd, TypeInd
  <2>2. \A s \in Sector : ~(call.sector <= s /\ s < call.sector + call.count - count)
    BY <2>1, CardAssumption DEF Sector
  <2>3. \A s \in Sector : Settled(card)[s] \in may[s]
    BY <1>1 DEF Ind, StoreInd, Wrote
  <2> QED
    BY <2>2, <2>3 DEF Stored
<1>2. CASE pc \in {"block_out", "stop_out"}
  BY <1>2 DEF Ind, StoreInd, Wrote, At, Stored
<1> QED
  BY <1>1, <1>2

(* The block written is the one of its sector, and only that changes.      *)
LEMMA StoredNext ==
  ASSUME Ind, pc = "block_out", Transmitted(Block, TRUE)
  PROVE  ~swapped /\ card.at = At /\ Stored(card', count - 1)
<1>1. /\ card \in CardSet /\ Sound(card) /\ Stat = "0" /\ swapped \in BOOLEAN
      /\ call.sector \in Nat /\ call.count \in Nat /\ count \in Nat /\ calls \in Nat
  BY DEF Ind, TypeInd, CallInd, InitPC
<1>2. card.xfer # "none" /\ card.mode # "native" /\ ~card.busy
  BY <1>1 DEF Transmitted, Sound
<1>3. ~swapped
  BY <1>1, <1>2 DEF Ind, InitInd, InitPC
<1>4. card.at = At
  BY <1>3 DEF Ind, StoreInd
<1>5. At \in Sector /\ Block \in Nat
  <2>1. card.at < Sectors /\ card.at \in Nat
    BY <1>1 DEF Transmitted, CardSet
  <2> QED
    BY <1>1, <1>4, <2>1, CardAssumption DEF Sector, Block
<1>6. Settled(card) = card.store
  BY <1>1, <1>2, SettledIdle DEF Sound
<1>7. card' \in CardSet /\ card'.pending = << <<At, Block>> >> /\ card'.store = card.store
  BY <1>4 DEF Transmitted
<1>8. Settled(card') = [card.store EXCEPT ![At] = Block]
  BY <1>5, <1>7, SettledOne
<1>9. card.store \in [Sector -> Nat]
  BY <1>1 DEF CardSet
<1>10. ASSUME NEW s \in Sector
       PROVE  IF call.sector <= s /\ s < call.sector + call.count - (count - 1)
              THEN Settled(card')[s] = Meant(s) ELSE Settled(card')[s] \in may[s]
  <2>1. CASE s = At
    <3>1. Settled(card')[s] = Block
      BY <1>8, <1>9, <2>1
    <3>2. Meant(s) = Block /\ s < call.sector + call.count - (count - 1)
      <4>1. s = call.sector + call.count - count
        BY <2>1 DEF At
      <4>2. call.count - (s - call.sector) = count /\ s < call.sector + call.count - (count - 1)
        BY <1>1, <4>1
      <4> QED
        BY <4>2 DEF Meant, Block
    <3>3. call.sector <= s
      <4>1. s = call.sector + call.count - count
        BY <2>1 DEF At
      <4>2. count <= call.count
        BY DEF Ind, TypeInd
      <4> QED
        BY <1>1, <4>1, <4>2
    <3> QED
      BY <3>1, <3>2, <3>3
  <2>2. CASE s # At
    <3>1. Settled(card')[s] = Settled(card)[s]
      BY <1>6, <1>8, <1>9, <2>2
    <3>2. s < call.sector + call.count - (count - 1) <=> s < call.sector + call.count - count
      <4>1. s # call.sector + call.count - count /\ s \in Int
        BY <2>2 DEF At, Sector
      <4> QED
        BY <1>1, <4>1
    <3>3. IF call.sector <= s /\ s < call.sector + call.count - count
          THEN Settled(card)[s] = Meant(s) ELSE Settled(card)[s] \in may[s]
      BY <1>3, StoredNow DEF Stored
    <3> QED
      BY <3>1, <3>2, <3>3
  <2> QED
    BY <2>1, <2>2
<1> QED
  BY <1>3, <1>4, <1>10 DEF Stored

(* What a sector may hold is data.                                         *)
LEMMA ToldType ==
  ASSUME TypeInd, NEW left \in Nat
  PROVE  Told(left) \in [Sector -> SUBSET Nat]
<1>1. /\ call.sector \in Nat /\ call.count \in Nat /\ calls \in Nat /\ may \in [Sector -> SUBSET Nat]
  BY DEF TypeInd
<1>2. ASSUME NEW s \in Sector, s \in call.sector .. call.sector + call.count - 1
      PROVE  10 * calls + (call.count - (s - call.sector)) \in Nat
  <2>1. call.count - (s - call.sector) \in Nat /\ 10 * calls \in Nat
    BY <1>1, <1>2
  <2> QED
    BY <2>1
<1> QED
  BY <1>1, <1>2 DEF Told

(* What the caller is told covers what was stored.                         *)
LEMMA ToldStored ==
  ASSUME TypeInd, NEW c, NEW left \in Nat, NEW k \in 0..call.count, left = 0 => k = 0, Stored(c, k),
         NEW s \in Sector
  PROVE  Settled(c)[s] \in Told(left)[s]
<1> DEFINE new == 10 * calls + (call.count - (s - call.sector))
<1>1. /\ call.sector \in Nat /\ call.count \in Nat /\ may \in [Sector -> SUBSET Nat] /\ s \in Nat
  BY DEF TypeInd, Sector
<1>2. Told(left)[s] = IF s \notin call.sector .. call.sector + call.count - 1 THEN may[s]
                      ELSE IF left = 0 THEN {new} ELSE may[s] \cup {new}
  BY <1>1 DEF Told
<1>3. IF call.sector <= s /\ s < call.sector + call.count - k
      THEN Settled(c)[s] = new ELSE Settled(c)[s] \in may[s]
  BY DEF Stored, Meant
<1> HIDE DEF new
<1>4. CASE s \in call.sector .. call.sector + call.count - 1
  <2>1. CASE left = 0
    <3>1. call.sector <= s /\ s < call.sector + call.count - k
      BY <1>1, <1>4, <2>1
    <3> QED
      BY <1>2, <1>3, <1>4, <2>1, <3>1
  <2>2. CASE left # 0
    BY <1>2, <1>3, <1>4, <2>2
  <2> QED
    BY <2>1, <2>2
<1>5. CASE s \notin call.sector .. call.sector + call.count - 1
  <2>1. ~(call.sector <= s /\ s < call.sector + call.count - k)
    BY <1>1, <1>5
  <2> QED
    BY <1>2, <1>3, <1>5, <2>1
<1> QED
  BY <1>4, <1>5

(* A write that returns.                                                   *)
LEMMA WriteReturns ==
  ASSUME Ind, pc \in WritePC, UNCHANGED <<call, calls, swapped>>,
         NEW left \in Nat, Written(left), NEW k \in 0..call.count, left = 0 => k = 0,
         ~swapped => Stored(card', k)
  PROVE  /\ pc' = "out" /\ may' \in [Sector -> SUBSET Nat]
         /\ CallInd' /\ StoreInd' /\ SyncInd' /\ ReadInd'
<1>1. pc' = "out" /\ may' = Told(left)
  BY DEF Written, Done, Return
<1>2. may' \in [Sector -> SUBSET Nat]
  BY <1>1, ToldType DEF Ind
<1>3. call.name = "write"
  BY DEF Ind, CallInd
<1>4. CallInd' /\ SyncInd' /\ ReadInd'
  BY <1>1, <1>3 DEF CallInd, SyncInd, Returned, ReadInd, InitPC, ReadPC, WritePC, SizePC
<1>5. ~swapped => \A s \in Sector : Settled(card')[s] \in may'[s]
  BY <1>1, ToldStored DEF Ind
<1>6. StoreInd'
  <2>1. \A s \in Sector : ~Wrote(s)'
    BY <1>1 DEF Wrote
  <2> QED
    BY <1>1, <1>5, <2>1 DEF StoreInd
<1> QED
  BY <1>1, <1>2, <1>4, <1>6

(* A write that goes on.                                                   *)
LEMMA WriteGoesOn ==
  ASSUME Ind, UNCHANGED <<call, calls, swapped, may>>,
         pc' \in {"block_out", "stop_out"}, ~swapped => Stored(card', count'),
         pc' = "block_out" /\ ~swapped => card'.xfer = Writing /\ card'.at = At'
  PROVE  StoreInd' /\ SyncInd' /\ ReadInd'
<1>1. SyncInd' /\ ReadInd'
  BY DEF SyncInd, Returned, ReadInd
<1>2. \A s \in Sector : Wrote(s)' <=> call.sector <= s /\ s < call.sector + call.count - count'
  BY DEF Wrote, At
<1>3. \A s \in Sector : Meant(s)' = Meant(s)
  BY DEF Meant
<1>4. ASSUME ~swapped, NEW s \in Sector
      PROVE  IF Wrote(s)' THEN Settled(card')[s] = Meant(s)' ELSE Settled(card')[s] \in may'[s]
  BY <1>2, <1>3, <1>4 DEF Stored
<1>5. Writing' = Writing
  BY DEF Writing
<1> QED
  BY <1>1, <1>4, <1>5 DEF StoreInd

(* Announcing how many blocks will be written keeps Ind.                   *)
LEMMA FirstWriteInd ==
  ASSUME Ind, FirstWrite, UNCHANGED <<Stat, CardType, call, buff, calls, swapped>>
  PROVE  Ind'
<1>1. pc = "write" /\ pc' = "address_out" /\ UNCHANGED <<count, res, may>>
  BY DEF FirstWrite, Goto
<1>2. /\ card \in CardSet /\ Sound(card) /\ late \in BOOLEAN /\ count = call.count /\ Stat = "0"
      /\ call.name = "write"
  BY <1>1 DEF Ind, TypeInd, CallInd, InitPC, WritePC
<1>3. /\ card' \in CardSet /\ Sound(card') /\ card'.kind = card.kind /\ Settled(card') = Settled(card)
      /\ card.mode = "native" => card'.mode = "native"
      /\ late' \in BOOLEAN /\ (~late' => ~late)
      /\ ~late' /\ card.xfer = "none" => card'.xfer = "none"
  <2>1. CASE UNCHANGED <<card, faults, late>>
    BY <1>2, <2>1
  <2>2. CASE \E r \in Answers : Sends(ACMD23, 0, r)
    <3>1. PICK r \in Answers : Sends(ACMD23, 0, r)
      BY <2>2
    <3>2. ACMD23 \in Commands /\ ACMD23 \notin {CMD0, CMD9} \cup DOMAIN Transfer
      BY DEF Commands, Transfer, CMD0, CMD9, CMD17, CMD18, CMD24, CMD25, ACMD23
    <3>3. Said(ACMD23, 0, r)
      BY <1>2, <3>1, <3>2, SendsSaid
    <3>4. Settled(card') = Settled(card)
      BY <1>2, <3>3, SaidSettled
    <3> QED
      BY <3>2, <3>3, <3>4 DEF Said
  <2> QED
    BY <2>1, <2>2 DEF FirstWrite
<1>4. TypeInd'
  BY <1>1, <1>3 DEF Ind, TypeInd, PCs, WritePC
<1>5. CallInd'
  BY <1>1, <1>2 DEF CallInd, InitPC, ReadPC, WritePC, SizePC
<1>6. TransferInd'
  <2>1. ~late => card.xfer = "none"
    BY <1>1 DEF Ind, TransferInd, Phases
  <2> QED
    BY <1>1, <1>3, <2>1 DEF TransferInd, Phases
<1>7. InitInd' /\ StoreInd'
  BY <1>1, <1>3, KeptStore DEF InitPC
<1>8. SyncInd' /\ ReadInd'
  BY <1>1 DEF SyncInd, Returned, ReadInd
<1> QED
  BY <1>4, <1>5, <1>6, <1>7, <1>8 DEF Ind

(* The command that opens a write keeps Ind.                               *)
LEMMA AddressOutInd ==
  ASSUME Ind, AddressOut, UNCHANGED <<Stat, CardType, call, buff, calls, swapped>>
  PROVE  Ind'
<1> DEFINE cmd == IF call.count > 1 THEN CMD25 ELSE CMD24
<1>1. PICK r \in Answers :
        /\ send_cmd(cmd, Address(call.sector), r)
        /\ IF r = Ready THEN Goto("block_out") /\ UNCHANGED <<res, may>> ELSE Written(count)
  BY DEF AddressOut
<1>2. pc = "address_out" /\ UNCHANGED count
  BY DEF AddressOut
<1>3. /\ card \in CardSet /\ Sound(card) /\ late \in BOOLEAN /\ call.sector \in Nat /\ call.count \in Nat
      /\ count = call.count /\ count > 0 /\ count \in Nat /\ call.name = "write" /\ Stat = "0"
      /\ CardType.block \in BOOLEAN
  BY <1>2 DEF Ind, TypeInd, CallInd, WritePC, InitPC
<1>4. Address(call.sector) \in Nat
  BY <1>3, CardAssumption DEF Address
<1>5. cmd \in Commands /\ cmd # CMD0 /\ cmd \in DOMAIN Transfer /\ Transfer[cmd] = Writing
  BY DEF Commands, Transfer, Writing, CMD0, CMD17, CMD18, CMD24, CMD25
<1> HIDE DEF cmd
<1>6. Said(cmd, Address(call.sector), r)
  BY <1>1, <1>3, <1>4, <1>5, SendCmdSaid
<1>7. Settled(card') = Settled(card)
  BY <1>3, <1>6, SaidSettled
<1>8. ~swapped => Stored(card', count)
  BY <1>2, <1>7, StoredNow DEF Stored
<1>9. InitInd'
  <2>1. pc' \notin InitPC
    BY <1>1 DEF Goto, Written, Done, Return, InitPC
  <2>2. card'.kind = card.kind /\ (card.mode = "native" => card'.mode = "native")
    BY <1>5, <1>6 DEF Said
  <2> QED
    BY <1>2, <2>1, <2>2, KeptInit DEF InitPC
<1>10. TransferInd'
  <2>1. ~late => card.xfer = "none"
    BY <1>2 DEF Ind, TransferInd, Phases
  <2>2. ~late' => card'.xfer = "none" \/ (r = Ready /\ card'.xfer = Writing)
    BY <1>5, <1>6, <2>1 DEF Said, Outcome
  <2>3. pc' = IF r = Ready THEN "block_out" ELSE "out"
    BY <1>1 DEF Goto, Written, Done, Return
  <2>4. Writing' = Writing
    BY DEF Writing
  <2> QED
    BY <2>2, <2>3, <2>4 DEF TransferInd, Phases
<1>11. CASE r = Ready
  <2>1. pc' = "block_out" /\ UNCHANGED may
    BY <1>1, <1>11 DEF Goto
  <2>2. card'.xfer = Writing /\ card'.at = SectorOf(card, Address(call.sector))
    BY <1>5, <1>6, <1>11 DEF Said, Outcome
  <2>3. ~swapped => card'.at = call.sector
    <3>1. SectorSize \in Nat \ {0} /\ (call.sector * SectorSize) \div SectorSize = call.sector
      BY <1>3, CardAssumption
    <3>2. ~swapped => CardType.block = (card.kind = "SD2HC")
      BY <1>3 DEF Ind, InitInd
    <3> QED
      BY <2>2, <3>1, <3>2 DEF SectorOf, Address
  <2>4. At' = call.sector
    BY <1>2, <1>3 DEF At
  <2>5. StoreInd' /\ SyncInd' /\ ReadInd'
    BY <1>2, <1>8, <2>1, <2>2, <2>3, <2>4, WriteGoesOn
  <2>6. TypeInd'
    BY <1>2, <1>6, <2>1 DEF Ind, TypeInd, Said, PCs, WritePC
  <2>7. CallInd'
    BY <1>2, <1>3, <2>1 DEF CallInd, InitPC, ReadPC, WritePC, SizePC
  <2> QED
    BY <1>9, <1>10, <2>5, <2>6, <2>7 DEF Ind
<1>12. CASE r # Ready
  <2>1. Written(count)
    BY <1>1, <1>12
  <2>2. count \in 0..call.count
    BY <1>3
  <2>3. pc \in WritePC
    BY <1>2 DEF WritePC
  <2>4. pc' = "out" /\ may' \in [Sector -> SUBSET Nat] /\ CallInd' /\ StoreInd' /\ SyncInd' /\ ReadInd'
    BY <1>3, <1>8, <2>1, <2>2, <2>3, WriteReturns
  <2>5. TypeInd'
    BY <1>2, <1>6, <2>4 DEF Ind, TypeInd, Said, PCs
  <2> QED
    BY <1>9, <1>10, <2>4, <2>5 DEF Ind
<1> QED
  BY <1>11, <1>12

(* A block written, or refused, keeps Ind.                                 *)
LEMMA BlockOutInd ==
  ASSUME Ind, BlockOut, UNCHANGED <<Stat, CardType, call, buff, calls, swapped>>
  PROVE  Ind'
<1>1. PICK ok \in BOOLEAN :
        /\ xmit_datablock(Block, ok)
        /\ count' = IF ok THEN count - 1 ELSE count
        /\ IF ok /\ count' > 0 THEN UNCHANGED <<pc, res, may>>
           ELSE IF call.count > 1 THEN Goto("stop_out") /\ UNCHANGED <<res, may>>
           ELSE Written(count')
  BY DEF BlockOut
<1>2. pc = "block_out"
  BY DEF BlockOut
<1>3. /\ card \in CardSet /\ Sound(card) /\ late \in BOOLEAN /\ call.sector \in Nat /\ call.count \in Nat \ {0}
      /\ count \in 1..call.count /\ call.name = "write" /\ Stat = "0" /\ calls \in Nat
  BY <1>2 DEF Ind, TypeInd, CallInd, WritePC, InitPC
<1>4. Block \in Nat
  BY <1>3 DEF Block
<1>5. Transmitted(Block, ok)
  BY <1>1, <1>3, <1>4, TransmittedBlock
<1>6. count' \in 0..call.count /\ count' \in Nat /\ (ok => count' = count - 1) /\ (~ok => count' = count)
  BY <1>1, <1>3
<1>7. ~swapped => Stored(card', count')
  <2>1. CASE ok
    BY <1>2, <1>5, <1>6, <2>1, StoredNext
  <2>2. CASE ~ok
    <3>1. card'.pending = card.pending /\ card'.store = card.store
      BY <1>5, <2>2 DEF Transmitted
    <3>2. Settled(card') = Settled(card)
      BY <3>1, <1>3, <1>5 DEF Transmitted, Settled, Programmed, CardSet
    <3> QED
      BY <1>2, <1>6, <2>2, <3>2, StoredNow DEF Stored
  <2> QED
    BY <2>1, <2>2
<1>8. /\ pc' \in {"block_out", "stop_out", "out"}
      /\ pc' = "block_out" => ok /\ count' > 0 /\ call.count > 1
      /\ pc' = "stop_out" => call.count > 1
      /\ pc' = "out" => ~(call.count > 1) /\ Written(count')
      /\ pc' # "out" => UNCHANGED may
  BY <1>1, <1>2, <1>3, <1>6 DEF Goto, Written, Done, Return
<1>9. InitInd'
  <2>1. pc' \notin InitPC
    BY <1>8 DEF InitPC
  <2>2. card'.kind = card.kind /\ card'.mode = card.mode
    BY <1>5 DEF Transmitted
  <2> QED
    BY <1>2, <2>1, <2>2, KeptInit DEF InitPC
<1>10. TransferInd'
  <2>1. ~late => card.xfer \in {"none", Writing}
    BY <1>2 DEF Ind, TransferInd, Phases
  <2>2. ~late' => card'.xfer = "none" \/ (call.count > 1 /\ card'.xfer = "writes")
    BY <1>5, <2>1 DEF Transmitted, Writing
  <2> QED
    BY <1>8, <2>2 DEF TransferInd, Phases, Writing
<1>11. CASE pc' # "out"
  <2>1. pc' \in {"block_out", "stop_out"} /\ UNCHANGED may
    BY <1>8, <1>11
  <2>2. ASSUME pc' = "block_out", ~swapped PROVE card'.xfer = Writing /\ card'.at = At'
    <3>1. card.xfer = Writing /\ card.at = At
      BY <1>2, <2>2 DEF Ind, StoreInd
    <3>2. ok /\ call.count > 1
      BY <1>8, <2>2
    <3>3. card'.xfer = "writes" /\ card'.at = At + 1
      BY <1>5, <3>1, <3>2 DEF Transmitted, Writing
    <3>4. At' = At + 1
      <4>1. At' = call.sector + call.count - count' /\ At = call.sector + call.count - count
        BY DEF At
      <4>2. count' = count - 1 /\ count \in Nat
        BY <1>3, <1>6, <3>2
      <4>3. ASSUME NEW s \in Nat, NEW n \in Nat, NEW k \in Nat PROVE s + n - (k - 1) = s + n - k + 1
        OBVIOUS
      <4> QED
        BY <1>3, <4>1, <4>2, <4>3
    <3> QED
      BY <3>2, <3>3, <3>4 DEF Writing
  <2>3. StoreInd' /\ SyncInd' /\ ReadInd'
    BY <1>7, <2>1, <2>2, WriteGoesOn
  <2>4. TypeInd'
    BY <1>5, <1>6, <2>1 DEF Ind, TypeInd, Transmitted, PCs, WritePC
  <2>5. CallInd'
    BY <1>3, <1>6, <1>8, <2>1 DEF CallInd, InitPC, ReadPC, WritePC, SizePC
  <2> QED
    BY <1>9, <1>10, <2>3, <2>4, <2>5 DEF Ind
<1>12. CASE pc' = "out"
  <2>1. Written(count') /\ pc \in WritePC
    BY <1>2, <1>8, <1>12 DEF WritePC
  <2>2. may' \in [Sector -> SUBSET Nat] /\ CallInd' /\ StoreInd' /\ SyncInd' /\ ReadInd'
    BY <1>6, <1>7, <2>1, WriteReturns
  <2>3. TypeInd'
    BY <1>5, <1>6, <1>12, <2>2 DEF Ind, TypeInd, Transmitted, PCs
  <2> QED
    BY <1>9, <1>10, <2>2, <2>3 DEF Ind
<1> QED
  BY <1>11, <1>12

(* The stop token that ends a write of several sectors keeps Ind.          *)
LEMMA StopOutInd ==
  ASSUME Ind, StopOut, UNCHANGED <<Stat, CardType, call, buff, calls, swapped>>
  PROVE  Ind'
<1>1. PICK ok \in BOOLEAN : StopToken(ok) /\ count' = (IF ok THEN count ELSE 1) /\ Written(count')
  BY DEF StopOut
<1>2. pc = "stop_out"
  BY DEF StopOut
<1>3. /\ card \in CardSet /\ Sound(card) /\ late \in BOOLEAN /\ call.count \in Nat \ {0}
      /\ count \in 0..call.count
  BY <1>2 DEF Ind, TypeInd
<1>4. /\ card' \in CardSet /\ Sound(card') /\ card'.kind = card.kind /\ card'.mode = card.mode
      /\ card'.pending = card.pending /\ card'.store = card.store
      /\ late' \in BOOLEAN /\ (~late' => ~late)
      /\ ~late' /\ card.xfer \in {"none", "writes"} => card'.xfer = "none"
  <2>1. CASE ok /\ ~card.busy /\ card.xfer = "writes" /\ card' = Stopped(card) /\ UNCHANGED late
    <3>1. card' = [card EXCEPT !.xfer = "none", !.busy = TRUE]
      BY <2>1 DEF Stopped
    <3>2. card' \in CardSet
      BY <1>3, <3>1 DEF CardSet
    <3>3. /\ card'.kind = card.kind /\ card'.mode = card.mode /\ card'.pending = card.pending
          /\ card'.store = card.store /\ card'.xfer = "none" /\ card'.busy
      BY <1>3, <3>1 DEF CardSet
    <3> QED
      BY <1>3, <2>1, <3>2, <3>3 DEF Sound
  <2>2. CASE ok /\ card.xfer # "writes" /\ UNCHANGED <<card, late>>
    BY <1>3, <2>2
  <2>3. CASE ~ok /\ UNCHANGED card /\ late' = TRUE
    BY <1>3, <2>3
  <2> QED
    BY <1>1, <2>1, <2>2, <2>3 DEF StopToken
<1>5. Settled(card') = Settled(card)
  BY <1>3, <1>4 DEF Settled, Programmed, CardSet
<1>6. ~swapped => Stored(card', count)
  BY <1>2, <1>5, StoredNow DEF Stored
<1>7. count' \in 0..call.count /\ count' \in Nat /\ (count' = 0 => count = 0)
  BY <1>1, <1>3
<1>8. pc \in WritePC
  BY <1>2 DEF WritePC
<1>9. /\ pc' = "out" /\ may' \in [Sector -> SUBSET Nat]
      /\ CallInd' /\ StoreInd' /\ SyncInd' /\ ReadInd'
  BY <1>1, <1>3, <1>6, <1>7, <1>8, WriteReturns
<1>10. TypeInd'
  BY <1>4, <1>7, <1>9 DEF Ind, TypeInd, PCs
<1>11. InitInd'
  BY <1>2, <1>4, <1>9, KeptInit DEF InitPC
<1>12. TransferInd'
  <2>1. ~late => card.xfer \in {"none", "writes"}
    BY <1>2 DEF Ind, TransferInd, Phases
  <2> QED
    BY <1>4, <1>9, <2>1 DEF TransferInd, Phases
<1> QED
  BY <1>9, <1>10, <1>11, <1>12 DEF Ind

-----------------------------------------------------------------------------
(* disk_ioctl *)

(* CTRL_SYNC keeps Ind.                                                    *)
LEMMA SyncStepInd ==
  ASSUME Ind, Sync, UNCHANGED <<Stat, CardType, call, count, may, calls, swapped>>
  PROVE  Ind'
<1>1. /\ pc = "sync" /\ pc' = "out" /\ UNCHANGED <<card, buff>>
      /\ late' \in BOOLEAN /\ (~late' => ~late) /\ (res' = "OK" => ~card.busy)
  BY DEF Sync, Return, Ind, TypeInd
<1>2. TypeInd'
  BY <1>1 DEF Ind, TypeInd, PCs
<1>3. CallInd' /\ ReadInd'
  BY <1>1 DEF CallInd, ReadInd, InitPC, ReadPC, WritePC, SizePC
<1>4. TransferInd'
  BY <1>1 DEF Ind, TransferInd, Phases
<1>5. InitInd' /\ StoreInd'
  <2>1. card' \in CardSet /\ Settled(card') = Settled(card)
    BY <1>1 DEF Ind, TypeInd
  <2> QED
    BY <1>1, <2>1, KeptStore DEF InitPC
<1>6. SyncInd'
  BY <1>1 DEF SyncInd, Returned
<1> QED
  BY <1>2, <1>3, <1>4, <1>5, <1>6 DEF Ind

(* Asking for the register with the size keeps Ind.                        *)
LEMMA AskSizeInd ==
  ASSUME Ind, AskSize, UNCHANGED <<Stat, CardType, call, count, may, calls, swapped>>
  PROVE  Ind'
<1>1. PICK r \in Answers :
        /\ send_cmd(CMD9, 0, r)
        /\ IF r = Ready THEN Goto("csd_in") /\ UNCHANGED res ELSE Return("RES_ERROR")
  BY DEF AskSize
<1>2. pc = "size"
  BY DEF AskSize
<1>3. card \in CardSet /\ Sound(card) /\ late \in BOOLEAN /\ Stat = "0" /\ call.name = "size"
  BY <1>2 DEF Ind, TypeInd, CallInd, SizePC, InitPC
<1>4. CMD9 \in Commands /\ CMD9 # CMD0
  BY DEF Commands, CMD0, CMD9
<1>5. Said(CMD9, 0, r)
  BY <1>1, <1>3, <1>4, SendCmdSaid
<1>6. Settled(card') = Settled(card)
  BY <1>3, <1>5, SaidSettled
<1>7. pc' = IF r = Ready THEN "csd_in" ELSE "out"
  BY <1>1 DEF Goto, Return
<1>8. TypeInd'
  BY <1>5, <1>7 DEF Ind, TypeInd, Said, PCs, SizePC
<1>9. CallInd'
  BY <1>3, <1>7 DEF CallInd, InitPC, ReadPC, WritePC, SizePC
<1>10. TransferInd'
  <2>1. ~late => card.xfer = "none"
    BY <1>2 DEF Ind, TransferInd, Phases
  <2>2. ~late' => card'.xfer = "none" \/ (r = Ready /\ card'.xfer = "csd")
    BY <1>5, <2>1 DEF Said, Outcome
  <2> QED
    BY <1>7, <2>2 DEF TransferInd, Phases
<1>11. InitInd' /\ StoreInd'
  <2>1. card' \in CardSet /\ card'.kind = card.kind /\ (card.mode = "native" => card'.mode = "native")
    BY <1>4, <1>5 DEF Said
  <2> QED
    BY <1>2, <1>6, <1>7, <2>1, KeptStore DEF InitPC
<1>12. SyncInd' /\ ReadInd'
  BY <1>3, <1>7 DEF SyncInd, Returned, ReadInd
<1> QED
  BY <1>8, <1>9, <1>10, <1>11, <1>12 DEF Ind

(* Reading the register with the size keeps Ind.                           *)
LEMMA SizeInInd ==
  ASSUME Ind, SizeIn, UNCHANGED <<Stat, CardType, call, count, may, calls, swapped>>
  PROVE  Ind'
<1>1. PICK ok \in BOOLEAN : rcvr_datablock(ok)
  BY DEF SizeIn
<1>2. pc = "csd_in" /\ pc' = "out"
  BY DEF SizeIn, Return
<1>3. card \in CardSet /\ Sound(card) /\ late \in BOOLEAN /\ call.name = "size"
  BY <1>2 DEF Ind, TypeInd, CallInd, SizePC
<1>4. Received(ok)
  BY <1>1, <1>3, ReceivedBlock
<1>5. Settled(card') = Settled(card)
  BY <1>3, <1>4, ReceivedSettled
<1>6. TypeInd'
  BY <1>2, <1>4 DEF Ind, TypeInd, Received, PCs
<1>7. CallInd'
  BY <1>2 DEF CallInd, InitPC, ReadPC, WritePC, SizePC
<1>8. TransferInd'
  <2>1. ~late => card.xfer \in {"none", "csd"}
    BY <1>2 DEF Ind, TransferInd, Phases
  <2> QED
    BY <1>2, <1>4, <2>1 DEF TransferInd, Phases, Received
<1>9. InitInd' /\ StoreInd'
  <2>1. card' \in CardSet /\ card'.kind = card.kind /\ (card.mode = "native" => card'.mode = "native")
    BY <1>4 DEF Received
  <2> QED
    BY <1>2, <1>5, <2>1, KeptStore DEF InitPC
<1>10. SyncInd' /\ ReadInd'
  BY <1>2, <1>3 DEF SyncInd, Returned, ReadInd
<1> QED
  BY <1>6, <1>7, <1>8, <1>9, <1>10 DEF Ind

-----------------------------------------------------------------------------
(* The callers and the card. *)

(* A call of the file system keeps Ind: the driver is between calls then.  *)
LEMMA CallStepInd == ASSUME Ind, Call PROVE Ind'
<1>1. PICK name \in DOMAIN Entry, sector \in 0..Sectors - 1, n \in 1..Sectors :
        /\ sector + n <= Sectors
        /\ call' = [name |-> name, sector |-> sector, count |-> n]
        /\ count' = n
        /\ IF name # "initialize" /\ Stat = "STA_NOINIT" THEN Return("RES_NOTRDY")
           ELSE Goto(Entry[name]) /\ res' = "none"
  BY DEF Call
<1>2. /\ pc = "out" /\ calls' = calls + 1 /\ buff' = <<>>
      /\ UNCHANGED <<card, Stat, CardType, late, swapped, may>>
  BY DEF Call
<1>3. /\ call'.name = name /\ call'.sector = sector /\ call'.count = n
      /\ res' # "OK" /\ n \in Nat \ {0} /\ sector \in Nat
      /\ pc' = "out" \/ (pc' = Entry[name] /\ (name = "initialize" \/ Stat = "0"))
  BY <1>1, CardAssumption DEF Return, Goto, Ind, TypeInd
<1>4. /\ pc' \in {"out", "idle", "read", "write", "sync", "size"}
      /\ pc' # "out" /\ pc' # "idle" => Stat = "0"
      /\ pc' = "idle" => name = "initialize"
      /\ pc' \in {"read", "write", "sync", "size"} => pc' = name
  BY <1>3 DEF Entry
<1>5. TypeInd'
  <2>1. call' \in [name : {"none"} \cup DOMAIN Entry, sector : Nat, count : Nat \ {0}]
    BY <1>1, <1>3
  <2>2. count' \in 0..call'.count /\ call'.sector + call'.count <= Sectors
    BY <1>1, <1>3
  <2>3. pc' \in PCs
    BY <1>4 DEF PCs, InitPC, ReadPC, WritePC, SizePC
  <2> QED
    BY <1>2, <2>1, <2>2, <2>3 DEF Ind, TypeInd
<1>6. CallInd'
  BY <1>1, <1>2, <1>3, <1>4 DEF CallInd, InitPC, ReadPC, WritePC, SizePC
<1>7. TransferInd'
  <2>1. ~late => card.xfer = "none"
    BY <1>2 DEF Ind, TransferInd, Phases
  <2> QED
    BY <1>2, <1>4, <2>1 DEF TransferInd, Phases
<1>8. InitInd'
  BY <1>2, <1>4 DEF Ind, InitInd, InitPC
<1>9. StoreInd'
  <2>1. \A s \in Sector : ~Wrote(s) /\ ~Wrote(s)'
    BY <1>2, <1>4 DEF Wrote
  <2>2. ~swapped => \A s \in Sector : Settled(card)[s] \in may[s]
    BY <2>1 DEF Ind, StoreInd
  <2> QED
    BY <1>2, <1>4, <2>1, <2>2 DEF StoreInd
<1>10. SyncInd' /\ ReadInd'
  BY <1>2, <1>3, <1>4 DEF SyncInd, Returned, ReadInd
<1> QED
  BY <1>5, <1>6, <1>7, <1>8, <1>9, <1>10 DEF Ind

(* The card that ends its programming keeps Ind.                           *)
LEMMA ProgramInd == ASSUME Ind, Program PROVE Ind'
<1>1. /\ card' = Programmed(card)
      /\ UNCHANGED <<Stat, CardType, pc, call, count, buff, res, calls, late, swapped, may>>
  BY DEF Program
<1>2. card \in CardSet /\ Sound(card)
  BY DEF Ind, TypeInd
<1>3. /\ card' \in CardSet /\ Sound(card') /\ card'.kind = card.kind /\ card'.mode = card.mode
      /\ card'.xfer = card.xfer /\ card'.at = card.at /\ ~card'.busy /\ Settled(card') = Settled(card)
  BY <1>1, <1>2, ProgrammedCard
<1>4. TypeInd'
  BY <1>1, <1>3 DEF Ind, TypeInd
<1>5. CallInd'
  BY <1>1 DEF Ind, CallInd
<1>6. Reading' = Reading /\ Writing' = Writing /\ Phases(pc)' = Phases(pc) /\ At' = At
  BY <1>1 DEF Reading, Writing, Phases, At
<1>7. TransferInd'
  BY <1>1, <1>3, <1>6 DEF Ind, TransferInd
<1>8. InitInd'
  BY <1>1, <1>3 DEF Ind, InitInd
<1>9. StoreInd'
  <2>1. \A s \in Sector : (Wrote(s)' <=> Wrote(s)) /\ Meant(s)' = Meant(s)
    BY <1>1, <1>6 DEF Wrote, Meant
  <2> QED
    BY <1>1, <1>3, <1>6, <2>1 DEF Ind, StoreInd
<1>10. SyncInd' /\ ReadInd'
  BY <1>1, <1>3, <1>6 DEF Ind, SyncInd, Returned, ReadInd
<1> QED
  BY <1>4, <1>5, <1>7, <1>8, <1>9, <1>10 DEF Ind

(* Changing or removing the card keeps Ind, at any moment.                 *)
LEMMA SwapInd == ASSUME Ind, Swap PROVE Ind'
<1>1. /\ \E kind \in Kinds : card' \in {Absent, Fresh(kind, 0, [s \in 0..Sectors - 1 |-> 1])}
      /\ swapped' = TRUE /\ late' = FALSE
      /\ UNCHANGED <<Stat, CardType, pc, call, count, buff, res, calls, may>>
  BY DEF Swap
<1>2. /\ card' \in CardSet /\ Sound(card') /\ card'.mode = "native" /\ card'.xfer = "none" /\ ~card'.busy
  <2>1. CASE card' = Absent
    BY <2>1 DEF Absent, Fresh, CardSet, Sound, Queues, Sector
  <2>2. CASE \E kind \in Kinds : card' = Fresh(kind, 0, [s \in 0..Sectors - 1 |-> 1])
    BY <2>2, CardAssumption DEF Fresh, CardSet, Sound, Queues, Sector
  <2> QED
    BY <1>1, <2>1, <2>2
<1>3. TypeInd'
  BY <1>1, <1>2 DEF Ind, TypeInd
<1>4. CallInd'
  BY <1>1 DEF Ind, CallInd
<1>5. TransferInd'
  BY <1>1, <1>2 DEF Ind, TransferInd, Phases
<1>6. InitInd' /\ StoreInd' /\ SyncInd'
  BY <1>1, <1>2 DEF InitInd, StoreInd, SyncInd
<1>7. ReadInd'
  BY <1>1, <1>2 DEF Ind, ReadInd
<1> QED
  BY <1>3, <1>4, <1>5, <1>6, <1>7 DEF Ind

(* Ind is inductive.                                                       *)
LEMMA IndStep == Ind /\ [Next]_vars => Ind'
<1> SUFFICES ASSUME Ind, [Next]_vars PROVE Ind'
  OBVIOUS
<1>1. CASE disk_initialize
  BY <1>1, InitializeInd
<1>2. CASE disk_read
  BY <1>2, FirstReadInd, BlockInInd, StopInInd DEF disk_read, bound
<1>3. CASE disk_write
  BY <1>3, FirstWriteInd, AddressOutInd, BlockOutInd, StopOutInd DEF disk_write, bound
<1>4. CASE disk_ioctl
  BY <1>4, SyncStepInd, AskSizeInd, SizeInInd DEF disk_ioctl, bound
<1>5. CASE Call
  BY <1>5, CallStepInd
<1>6. CASE Program
  BY <1>6, ProgramInd
<1>7. CASE Swap
  BY <1>7, SwapInd
<1>8. CASE UNCHANGED vars
  <2>1. UNCHANGED <<card, Stat, CardType, pc, call, count, buff, res, calls, late, swapped, may>>
    BY <1>8 DEF vars
  <2>2. TypeInd' /\ CallInd'
    BY <2>1 DEF Ind, TypeInd, CallInd
  <2>3. Reading' = Reading /\ Writing' = Writing /\ Phases(pc)' = Phases(pc) /\ At' = At
    BY <2>1 DEF Reading, Writing, Phases, At
  <2>4. TransferInd' /\ InitInd' /\ SyncInd'
    BY <2>1, <2>3 DEF Ind, TransferInd, InitInd, SyncInd, Returned
  <2>5. StoreInd'
    <3>1. \A s \in Sector : (Wrote(s)' <=> Wrote(s)) /\ Meant(s)' = Meant(s)
      BY <2>1, <2>3 DEF Wrote, Meant
    <3> QED
      BY <2>1, <2>3, <3>1 DEF Ind, StoreInd
  <2>6. ReadInd'
    BY <2>1, <2>3 DEF Ind, ReadInd
  <2> QED
    BY <2>2, <2>4, <2>5, <2>6 DEF Ind
<1> QED
  BY <1>1, <1>2, <1>3, <1>4, <1>5, <1>6, <1>7, <1>8 DEF Next, Driver

-----------------------------------------------------------------------------

(* Whatever is called, whichever cards there are and however they fail, a  *)
(* call leaves no transfer open.                                           *)
THEOREM NeverMidTransfer == Spec => []InStep
<1>1. Ind => InStep
  BY DEF Ind, TransferInd, Phases, InStep
<1> QED
  BY <1>1, IndInit, IndStep, PTL DEF Spec

(* What disk_write said was written is on the card after CTRL_SYNC.        *)
THEOREM SyncStores == Spec => []SyncedMeansStored
<1>1. ASSUME Ind PROVE SyncedMeansStored
  <2>1. /\ card \in CardSet /\ Sound(card) /\ may \in [Sector -> SUBSET Nat]
        /\ SyncInd /\ StoreInd
    BY <1>1 DEF Ind, TypeInd
  <2>2. ASSUME Returned("sync"), ~swapped, NEW s \in Sector PROVE card.store[s] \in may[s]
    <3>1. Settled(card) = card.store
      BY <2>1, <2>2, SettledIdle DEF SyncInd, Sound
    <3>2. ~Wrote(s)
      BY <2>2 DEF Returned, Wrote
    <3> QED
      BY <2>1, <2>2, <3>1, <3>2 DEF StoreInd
  <2> QED
    BY <2>1, <2>2 DEF SyncedMeansStored
<1> QED
  BY <1>1, IndInit, IndStep, PTL DEF Spec

-----------------------------------------------------------------------------
(* What a call that succeeds has told. *)

(* The newer layout of the size register.                                  *)
LEMMA NewLayout ==
  ASSUME NEW size \in 0..2^22 - 2, NEW mult, NEW len
  PROVE  SectorCount(CSD(2, size, mult, len)) = Capacity(2, size, mult, len)
<1> DEFINE csd == CSD(2, size, mult, len)
<1>1. /\ csd[0] = 64 /\ csd[7] = (size \div 65536) % 64 /\ csd[8] = (size \div 256) % 256
      /\ csd[9] = size % 256
  BY DEF CSD
<1>2. 2^22 = 4194304
  OBVIOUS
<1>3. ASSUME NEW a, NEW b, NEW c, a = size % 256, b = (size \div 256) % 256, c = (size \div 65536) % 64
      PROVE  a + b * 256 + (c % 64) * 65536 = size
  <2>1. size \in Nat /\ size < 4194304
    BY <1>2
  <2> DEFINE q == size \div 256
             p == size \div 65536
  <2>2. q \in 0..16383 /\ size = 256 * q + a /\ p \in 0..63 /\ p = q \div 256
    BY <1>3, <2>1
  <2> HIDE DEF q
  <2>3. q = 256 * (q \div 256) + b
    BY <1>3, <2>2 DEF q
  <2>4. c = q \div 256 /\ c % 64 = c /\ c \in Nat
    BY <1>3, <2>2 DEF q
  <2>5. a \in Nat /\ b \in Nat
    BY <1>3
  <2>6. size = 256 * (256 * c + b) + a
    BY <2>2, <2>3, <2>4, <2>5
  <2> QED
    BY <2>4, <2>5, <2>6
<1> HIDE DEF csd
<1>4. SectorCount(csd) = ((csd[9] + csd[8] * 256 + (csd[7] % 64) * 65536 + 1) % 2^22) * 1024
  BY <1>1 DEF SectorCount
<1>5. SectorCount(csd) = ((size + 1) % 2^22) * 1024
  BY <1>1, <1>3, <1>4
<1>6. ASSUME NEW w \in Nat, w = 2^22
      PROVE  (size + 1) % w = size + 1
  <2>1. size + 1 \in 0..w - 1
    BY <1>6
  <2> QED
    BY <1>6, <2>1
<1>7. (size + 1) % 2^22 = size + 1
  BY <1>2, <1>6
<1>8. SectorCount(csd) = (size + 1) * 1024
  BY <1>5, <1>7
<1> QED
  BY <1>8 DEF csd, Capacity

Pow(n) == 2^n

(* Capacity divides by the 512 bytes of a sector, the driver shifts by less. *)
LEMMA Shifts ==
  ASSUME NEW k \in 9..18
  PROVE  Pow(k - 7) \in Nat /\ Pow(k + 2) = 512 * Pow(k - 7)
<1>1. /\ Pow(2) = 4 /\ Pow(3) = 8 /\ Pow(4) = 16 /\ Pow(5) = 32 /\ Pow(6) = 64
      /\ Pow(7) = 128 /\ Pow(8) = 256 /\ Pow(9) = 512 /\ Pow(10) = 1024 /\ Pow(11) = 2048
      /\ Pow(12) = 4096 /\ Pow(13) = 8192 /\ Pow(14) = 16384 /\ Pow(15) = 32768
      /\ Pow(16) = 65536 /\ Pow(17) = 131072 /\ Pow(18) = 262144 /\ Pow(19) = 524288
      /\ Pow(20) = 1048576
  BY DEF Pow
<1>2. PICK a \in 2..11 : a = k - 7
  OBVIOUS
<1>3. PICK b \in 11..20 : b = k + 2
  OBVIOUS
<1>4. Pow(a) \in Nat /\ Pow(b) = 512 * Pow(a)
  <2>1. b = a + 9
    BY <1>2, <1>3
  <2>2. a \in {2, 3, 4, 5, 6, 7, 8, 9, 10, 11}
    OBVIOUS
  <2> QED
    BY <1>1, <2>1, <2>2
<1> QED
  BY <1>2, <1>3, <1>4, Zenon

(* The older layout of the size register.                                  *)
LEMMA OldLayout ==
  ASSUME NEW size \in 0..2^12 - 1, NEW mult \in 0..7, NEW len \in 9..11
  PROVE  SectorCount(CSD(1, size, mult, len)) = Capacity(1, size, mult, len)
<1> DEFINE csd == CSD(1, size, mult, len)
<1>1. /\ csd[0] = 0 /\ csd[5] = 80 + len /\ csd[6] = 128 + (size \div 1024)
      /\ csd[7] = (size \div 4) % 256 /\ csd[8] = (size % 4) * 64 + 45
      /\ csd[9] = 180 + mult \div 2 /\ csd[10] = (mult % 2) * 128 + 63
  BY DEF CSD
<1> HIDE DEF csd
<1> DEFINE n == (csd[5] % 16) + (csd[10] \div 128) + (csd[9] % 4) * 2 + 2
           cs == (csd[8] \div 64) + csd[7] * 4 + (csd[6] % 4) * 1024 + 1
<1>2. n = len + mult + 2
  <2>1. (80 + len) % 16 = len
    OBVIOUS
  <2>2. ((mult % 2) * 128 + 63) \div 128 = mult % 2 /\ (180 + mult \div 2) % 4 = mult \div 2
        /\ (mult % 2) + (mult \div 2) * 2 = mult
    OBVIOUS
  <2> QED
    BY <1>1, <2>1, <2>2
<1>3. cs = size + 1
  <2>1. 2^12 = 4096
    OBVIOUS
  <2>2. size \in 0..4095
    BY <2>1
  <2> DEFINE q == size \div 4
  <2>3. q \in 0..1023 /\ size = 4 * q + (size % 4) /\ size % 4 \in 0..3
    BY <2>2
  <2>4. size \div 1024 = q \div 256 /\ size \div 1024 \in 0..3
    BY <2>2
  <2>5. ((size % 4) * 64 + 45) \div 64 = size % 4
    BY <2>3
  <2>6. (128 + (size \div 1024)) % 4 = size \div 1024
    BY <2>4
  <2>7. q = 256 * (q \div 256) + (q % 256)
    BY <2>3
  <2> HIDE DEF q
  <2>8. csd[7] = q % 256
    BY <1>1 DEF q
  <2> QED
    BY <1>1, <2>3, <2>4, <2>5, <2>6, <2>7, <2>8
<1> HIDE DEF n, cs
<1>4. SectorCount(csd) = Shifted(cs, n - 9)
  BY <1>1 DEF SectorCount, n, cs
<1>5. SectorCount(csd) = (size + 1) * Pow((len + mult) - 7)
  <2>1. n - 9 = (len + mult) - 7 /\ n - 9 >= 0
    BY <1>2
  <2>2. SectorCount(csd) = cs * Pow(n - 9)
    BY <1>4, <2>1 DEF Shifted, Pow
  <2> QED
    BY <1>3, <2>1, <2>2
<1>6. Capacity(1, size, mult, len) = ((size + 1) * Pow((len + mult) + 2)) \div 512
  <2>1. mult + 2 + len = (len + mult) + 2
    OBVIOUS
  <2>2. Capacity(1, size, mult, len) = ((size + 1) * Pow(mult + 2 + len)) \div 512
    BY DEF Capacity, Pow
  <2> QED
    BY <2>1, <2>2
<1>7. /\ len + mult \in 9..18 /\ size + 1 \in Nat
  OBVIOUS
<1>8. ASSUME NEW s \in Nat, NEW e \in Nat, NEW f, f = 512 * e PROVE s * e = (s * f) \div 512
  <2>1. s * f = 512 * (s * e) /\ s * e \in Nat
    BY <1>8
  <2>2. ASSUME NEW m \in Nat PROVE (512 * m) \div 512 = m
    OBVIOUS
  <2> QED
    BY <2>1, <2>2
<1>9. Pow((len + mult) - 7) \in Nat /\ Pow((len + mult) + 2) = 512 * Pow((len + mult) - 7)
  <2> DEFINE k == len + mult
  <2>1. k \in 9..18
    BY <1>7
  <2> HIDE DEF k
  <2>2. Pow(k - 7) \in Nat /\ Pow(k + 2) = 512 * Pow(k - 7)
    BY <2>1, Shifts
  <2> QED
    BY <2>2 DEF k
<1> QED
  BY <1>5, <1>6, <1>7, <1>8, <1>9 DEF csd

(* A call that returns RES_OK has told the truth: what it read is what the *)
(* sectors may hold, the size is the register's, and nothing came from a   *)
(* card that replaced the one initialised.                                 *)
THEOREM CallsTellTruth == Spec => TellsTruth
<1> DEFINE Truth ==
      pc # "out" /\ pc' = "out" /\ res' = "OK" =>
       /\ swapped /\ call.name \in {"read", "write", "size"} => count = 0
       /\ call.name = "read" =>
            /\ Len(buff') = call.count
            /\ \A i \in DOMAIN buff' : buff'[i] \in may[call.sector + i - 1]
       /\ call.name = "size" =>
            buff'[2] = Capacity(buff'[1][1], buff'[1][2], buff'[1][3], buff'[1][4])
<1>1. ASSUME Ind, Next PROVE Truth
  <2> SUFFICES ASSUME pc # "out", pc' = "out", res' = "OK"
               PROVE  /\ swapped /\ call.name \in {"read", "write", "size"} => count = 0
                      /\ call.name = "read" =>
                           /\ Len(buff') = call.count
                           /\ \A i \in DOMAIN buff' : buff'[i] \in may[call.sector + i - 1]
                      /\ call.name = "size" =>
                           buff'[2] = Capacity(buff'[1][1], buff'[1][2], buff'[1][3], buff'[1][4])
    OBVIOUS
  <2> USE <1>1
  <2>a. /\ card \in CardSet /\ Sound(card) /\ late \in BOOLEAN /\ call.count \in Nat \ {0}
        /\ count \in 0..call.count /\ calls \in Nat /\ swapped \in BOOLEAN
    BY DEF Ind, TypeInd
  <2>b. ASSUME NEW left, Done(left) PROVE left = 0
    BY <2>b DEF Done, Return
  <2>1. CASE disk_initialize
    <3>1. pc \in InitPC
      BY <2>1, InitializeCases
    <3> QED
      BY <3>1 DEF Ind, CallInd
  <2>2. CASE disk_read
    <3>1. pc \in ReadPC /\ UNCHANGED <<call, swapped>>
      BY <2>2 DEF disk_read, FirstRead, BlockIn, StopIn, ReadPC, bound
    <3>2. call.name = "read"
      BY <3>1 DEF Ind, CallInd
    <3>3. CASE FirstRead
      <4>1. Done(count) /\ pc = "read"
        BY <3>3 DEF FirstRead, Goto
      <4> QED
        BY <2>a, <2>b, <4>1 DEF Ind, CallInd
    <3>4. CASE BlockIn
      <4>1. PICK ok \in BOOLEAN :
              /\ rcvr_datablock(ok)
              /\ count' = IF ok THEN count - 1 ELSE count
              /\ IF ok /\ count' > 0 THEN UNCHANGED <<pc, res>>
                 ELSE IF call.count > 1 THEN Goto("stop_in") /\ UNCHANGED res
                 ELSE Done(count')
        BY <3>4 DEF BlockIn
      <4>2. pc = "block_in" /\ count > 0
        BY <3>4 DEF BlockIn, Ind, CallInd
      <4>3. Done(count')
        BY <4>1, <4>2 DEF Goto
      <4>4. count' = 0 /\ ok
        <5>1. count' = 0
          BY <2>b, <4>3
        <5>2. count' = IF ok THEN count - 1 ELSE count
          BY <4>1
        <5>3. count \in Nat /\ count > 0
          BY <2>a, <4>2
        <5> QED
          BY <5>1, <5>2, <5>3
      <4>5. ~swapped
        BY <2>a, <4>1, <4>2, <4>4, ReceivedBlock, BlockInTrue
      <4>6. /\ buff' \in Seq(Nat) /\ Len(buff') = call.count - count'
            /\ \A i \in 1..Len(buff') : buff'[i] \in may[call.sector + i - 1]
        BY <3>1, <3>4, BlockInBuffer
      <4>7. Len(buff') = call.count /\ DOMAIN buff' = 1..Len(buff')
        BY <2>a, <4>4, <4>6
      <4> QED
        BY <3>2, <4>5, <4>6, <4>7
    <3>5. CASE StopIn
      <4>1. pc = "stop_in" /\ Done(count) /\ UNCHANGED <<buff, may>>
        BY <3>5 DEF StopIn
      <4>2. count = 0
        BY <2>b, <4>1
      <4>3. /\ buff \in Seq(Nat) /\ Len(buff) = call.count - count
            /\ \A i \in 1..Len(buff) : buff[i] \in may[call.sector + i - 1]
        BY <4>1 DEF Ind, ReadInd
      <4>4. Len(buff) = call.count /\ DOMAIN buff = 1..Len(buff)
        BY <2>a, <4>2, <4>3
      <4> QED
        BY <3>2, <4>1, <4>2, <4>3, <4>4
    <3> QED
      BY <2>2, <3>3, <3>4, <3>5 DEF disk_read
  <2>3. CASE disk_write
    <3>1. pc \in WritePC
      BY <2>3 DEF disk_write, FirstWrite, AddressOut, BlockOut, StopOut, WritePC
    <3>2. call.name = "write"
      BY <3>1 DEF Ind, CallInd
    <3>3. CASE FirstWrite
      BY <3>3 DEF FirstWrite, Goto
    <3>4. CASE AddressOut
      <4>1. Done(count) /\ pc = "address_out"
        BY <3>4 DEF AddressOut, Goto, Written
      <4> QED
        BY <2>a, <2>b, <4>1 DEF Ind, CallInd
    <3>5. CASE BlockOut
      <4>1. PICK ok \in BOOLEAN :
              /\ xmit_datablock(Block, ok)
              /\ count' = IF ok THEN count - 1 ELSE count
              /\ IF ok /\ count' > 0 THEN UNCHANGED <<pc, res, may>>
                 ELSE IF call.count > 1 THEN Goto("stop_out") /\ UNCHANGED <<res, may>>
                 ELSE Written(count')
        BY <3>5 DEF BlockOut
      <4>2. pc = "block_out" /\ count > 0
        BY <3>5 DEF BlockOut, Ind, CallInd
      <4>3. Done(count')
        BY <4>1, <4>2 DEF Goto, Written
      <4>4. count' = 0 /\ ok
        <5>1. count' = 0
          BY <2>b, <4>3
        <5>2. count' = IF ok THEN count - 1 ELSE count
          BY <4>1
        <5>3. count \in Nat /\ count > 0
          BY <2>a, <4>2
        <5> QED
          BY <5>1, <5>2, <5>3
      <4>5. Block \in Nat
        BY <2>a DEF Block
      <4>6. ~swapped
        BY <2>a, <4>1, <4>2, <4>4, <4>5, TransmittedBlock, StoredNext
      <4> QED
        BY <3>2, <4>6
    <3>6. CASE StopOut
      <4>1. PICK ok \in BOOLEAN : count' = (IF ok THEN count ELSE 1) /\ Done(count')
        BY <3>6 DEF StopOut, Written
      <4>2. count = 0
        BY <2>b, <4>1
      <4> QED
        BY <3>2, <4>2
    <3> QED
      BY <2>3, <3>3, <3>4, <3>5, <3>6 DEF disk_write
  <2>4. CASE disk_ioctl
    <3>1. CASE Sync
      <4>1. call.name = "sync"
        BY <3>1 DEF Sync, Ind, CallInd
      <4> QED
        BY <4>1
    <3>2. CASE AskSize
      BY <3>2 DEF AskSize, Goto, Return
    <3>3. CASE SizeIn
      <4>1. pc = "csd_in"
        BY <3>3 DEF SizeIn
      <4>2. call.name = "size" /\ Stat = "0"
        BY <4>1 DEF Ind, CallInd, SizePC, InitPC
      <4>3. rcvr_datablock(TRUE) /\ \E z \in Sizes : buff' = <<z, SectorCount(CSD(z[1], z[2], z[3], z[4]))>>
        BY <3>3 DEF SizeIn, Return
      <4>4. ~swapped
        <5>1. Received(TRUE)
          BY <2>a, <4>3, ReceivedBlock
        <5>2. card.mode # "native"
          BY <2>a, <5>1 DEF Received, Sound
        <5> QED
          BY <2>a, <4>1, <4>2, <5>2 DEF Ind, InitInd, InitPC
      <4>5. PICK z \in Sizes : buff' = <<z, SectorCount(CSD(z[1], z[2], z[3], z[4]))>>
        BY <4>3
      <4>6. SectorCount(CSD(z[1], z[2], z[3], z[4])) = Capacity(z[1], z[2], z[3], z[4])
        <5>1. CASE z[1] = 2 /\ z[2] \in 0..2^22 - 2
          BY <5>1, NewLayout
        <5>2. CASE z[1] = 1 /\ z[2] \in 0..2^12 - 1 /\ z[3] \in 0..7 /\ z[4] \in 9..11
          BY <5>2, OldLayout
        <5> QED
          BY <5>1, <5>2, RegisterAssumption
      <4> QED
        BY <4>2, <4>4, <4>5, <4>6
    <3> QED
      BY <2>4, <3>1, <3>2, <3>3 DEF disk_ioctl
  <2>5. CASE Call
    BY <2>5 DEF Call
  <2>6. CASE Program \/ Swap
    BY <2>6 DEF Program, Swap
  <2> QED
    BY <1>1, <2>1, <2>2, <2>3, <2>4, <2>5, <2>6 DEF Next, Driver
<1>2. Ind /\ [Next]_vars => [Truth]_vars
  BY <1>1
<1> QED
  BY <1>2, IndInit, IndStep, PTL DEF Spec, TellsTruth
=============================================================================
