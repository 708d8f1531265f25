----------------------------- MODULE Handshake -----------------------------
(***************************************************************************)
(* How loadp2 gets hold of a P2: the search for a port with a chip that    *)
(* answers Prop_Chk, the first stage sent in hex to the ROM, and the       *)
(* autobaud characters by which the fast loader (MainLoader_chip.spin2)    *)
(* measures the line.  main() goes on in module Session.                   *)
(*                                                                         *)
(* A fixed text is one symbol beyond the bytes.  The ROM is modelled from  *)
(* what the host sends and expects.  rom is where the chip is:             *)
(*    rom, hex      the loader of the ROM, and its Prop_Hex command        *)
(*    boot, auto, space   the fast loader starting, measuring, confirming  *)
(*    request       next_request of the fast loader                        *)
(*    error         its loop for a bad request                             *)
(*    app           the program is running                                 *)
(***************************************************************************)
EXTENDS SerialLink

CONSTANTS
  CommandLines,  \* the command lines, see OptionType
  Tries,         \* retries of checkp2_and_init            (60 or 100)
  Retries,       \* autobaud characters after the first    (5)
  MaxHiccups     \* bound on early reads and on damage to the image

PropChk  == 256  \* "> Prop_Chk 0 0 0 0  "
PropHex  == 257  \* "> Prop_Hex 0 0 0 0"
HexBlock == 258  \* bytes of an image in hex
EnterRom == 260  \* "> " and the key of TAQOZ or of the debug monitor
VerHead  == 261  \* "\r\nProp_" and
VerTail  == 262  \* "Ver ": the eleven characters strncmp looks at
VersionA == 65
VersionB == 66
VersionG == 71
Tilde    == 126
Query    == 63
Dot      == 46
Bang     == 33
Autobaud == 128  \* 0x80

(* What main() has parsed.  A port is the version character of the chip    *)
(* behind it, or Dead when it cannot be opened, or Silent.                 *)
Dead   == 0
Silent == 1
Chips  == {VersionA, VersionB, VersionG}
OptionType ==
  [ports : Seq(Chips \cup {Dead, Silent}), reset : BOOLEAN,
   mode : {"none", "chip", "single"}, file : BOOLEAN, flash : BOOLEAN,
   enter : BOOLEAN, rebaud : BOOLEAN, script : Seq(Nat), runterm : BOOLEAN,
   serve : BOOLEAN, pst : BOOLEAN, mingw : BOOLEAN]

ASSUME HandshakeAssumption ==
  /\ CommandLines \subseteq OptionType
  /\ {Tries, Retries} \subseteq Nat \ {0} /\ MaxHiccups \in Nat

VARIABLES
  opt,      \* the command line
  mpc,      \* where main() is
  port,     \* index of the port being tried or used
  try,      \* retries so far, of Prop_Chk or of the autobaud character
  mode,     \* load_mode
  rom,      \* where the chip is, as above
  image,    \* whether the ROM has the image as it was sent
  hiccups   \* early reads and damages so far

shakeVars == <<opt, mpc, port, try, mode, rom, image, hiccups>>

Here  == port <= Len(opt.ports) /\ opt.ports[port] \in Chips
Goto(place) == mpc' = place

(* rx_timeout(n) is one read of what has come.  The msleep before each     *)
(* wait lets the chip finish; a hiccup is a read that comes before that.   *)
Least(a, b) == IF a < b THEN a ELSE b
ChipBusy == Here /\ (rom = "boot" \/ (h2d # <<>> /\ rom # "error"))
Answers(n) == {SubSeq(d2h, 1, k) : k \in 0..Least(n, Len(d2h))}
rx_timeout(n, got) ==
  /\ IF Len(got) = Least(n, Len(d2h)) /\ ~ChipBusy
     THEN UNCHANGED hiccups
     ELSE hiccups < MaxHiccups /\ hiccups' = hiccups + 1
  /\ d2h' = SubSeq(d2h, Len(got) + 1, Len(d2h))

-----------------------------------------------------------------------------
(* checkp2_and_init, and the loop of findp2 around it *)

(* serial_init and flush_input throw away what has come.  hwreset puts the *)
(* chip into its ROM, without -n.                                          *)
serial_init == h2d' = <<>> /\ d2h' = <<>>
flush_input == d2h' = <<>>
hwreset     == rom' = IF opt.reset THEN "rom" ELSE rom
NextPort    == port' = port + 1

OpenPort ==
  /\ mpc = "find" /\ port <= Len(opt.ports)
  /\ IF opt.ports[port] = Dead
     THEN NextPort /\ UNCHANGED <<mpc, try, rom, h2d, d2h>>
     ELSE /\ try' = 1
          /\ serial_init /\ hwreset
          /\ Goto(IF opt.reset THEN "chk" ELSE "load")
          /\ UNCHANGED port
  /\ UNCHANGED <<opt, mode, image, hiccups>>

NoPort ==
  /\ mpc = "find" /\ port > Len(opt.ports)
  /\ Goto("fail")
  /\ UNCHANGED <<h2d, d2h, opt, port, try, mode, rom, image, hiccups>>

tx(data) == h2d' = IF Here THEN h2d \o data ELSE h2d

SendChk ==
  /\ mpc = "chk"
  /\ flush_input
  /\ tx(<<PropChk>>)
  /\ Goto("version")
  /\ UNCHANGED <<opt, port, try, mode, rom, image, hiccups>>

(* load_mode is left to the version only when no option has set it; a      *)
(* version that is cut off is a warning.                                   *)
IsVersion(got) == Len(got) >= 2 /\ got[1] = VerHead /\ got[2] = VerTail
IsFPGA(got)    == mode = "none" /\ Len(got) > 2 /\ got[3] = VersionB

ReadVersion ==
  /\ mpc = "version"
  /\ \E got \in Answers(4) :
       /\ rx_timeout(4, got)
       /\ IF IsVersion(got)
          THEN /\ mode' = (IF mode = "none" /\ ~IsFPGA(got) THEN "chip" ELSE mode)
               /\ Goto(IF IsFPGA(got) THEN "fail" ELSE "load")
               /\ UNCHANGED <<port, try, h2d>>
          ELSE IF try < Tries
          THEN Goto("chk") /\ try' = try + 1 /\ UNCHANGED <<mode, port, h2d>>
          ELSE Goto("find") /\ NextPort /\ h2d' = <<>> /\ UNCHANGED <<mode, try>>
  /\ UNCHANGED <<opt, rom, image>>

-----------------------------------------------------------------------------
(* loadfilesingle: the program itself, in hex.  With -FLASH it goes behind *)
(* the flash programmer and its checksum, and "~" asks for no answer.      *)

LoadSingle ==
  /\ mpc = "load" /\ opt.file /\ mode # "chip"
  /\ mode' = "single"
  /\ tx(<<PropHex, HexBlock, IF opt.flash THEN Tilde ELSE Query>>)
  /\ Goto(IF opt.flash THEN "baud" ELSE "verdict")
  /\ UNCHANGED <<d2h, opt, port, try, rom, image, hiccups>>

(* The answer to "?" is compared with "." alone. *)
Verified(got) == got = <<Dot>>

SingleVerdict ==
  /\ mpc = "verdict"
  /\ \E got \in Answers(1) :
       /\ rx_timeout(1, got)
       /\ Goto(IF Verified(got) THEN "baud" ELSE "fail")
  /\ UNCHANGED <<h2d, opt, port, try, mode, rom, image>>

(* loadfile, up to the fast loader's first checksum *)

SendLoader ==
  /\ mpc = "load" /\ opt.file /\ mode = "chip"
  /\ tx(<<PropHex, HexBlock, Tilde>>)
  /\ Goto("measure")
  /\ UNCHANGED <<d2h, opt, port, try, mode, rom, image, hiccups>>

HelloTwice == <<Autobaud, Autobaud>>
Hello == <<Autobaud>>
FirstAutobaud ==
  /\ mpc = "measure"
  /\ flush_input
  /\ tx(Hello)
  /\ try' = 0
  /\ Goto("autobaud")
  /\ UNCHANGED <<opt, port, mode, rom, image, hiccups>>

NextAutobaud ==
  /\ mpc = "autobaud" /\ try < Retries
  /\ tx(<<Autobaud>>)
  /\ try' = try + 1
  /\ Goto("greeting")
  /\ UNCHANGED <<d2h, opt, port, mode, rom, image, hiccups>>

(* A 0 before the checksum is thrown away and the third character replaced *)
(* by one more read.                                                       *)
Glitched(got) == got[1] = 0 /\ got[3] = At
Greets(got) == IF Glitched(got) THEN got[2] = At ELSE got[1] = At /\ got[2] = At

ReadGreeting ==
  /\ mpc = "greeting"
  /\ \E got \in Answers(3) :
       /\ IF Len(got) = 3 /\ Glitched(got)
          THEN \E more \in Answers(4) : Len(more) \in {3, 4} /\ rx_timeout(4, more)
          ELSE rx_timeout(3, got)
       /\ Goto(CASE Len(got) = 3 /\ Greets(got)  -> "download"
                 [] Len(got) = 3 /\ ~Greets(got) -> "fail"
                 [] Len(got) < 3                 -> "autobaud")
  /\ UNCHANGED <<h2d, opt, port, try, mode, rom, image>>

NoGreeting ==
  /\ mpc = "autobaud" /\ try = Retries
  /\ Goto("fail")
  /\ UNCHANGED <<h2d, d2h, opt, port, try, mode, rom, image, hiccups>>

FindStep == OpenPort \/ NoPort \/ SendChk \/ ReadVersion
LoadStep == LoadSingle \/ SingleVerdict \/ SendLoader \/ FirstAutobaud
              \/ NextAutobaud \/ ReadGreeting \/ NoGreeting

-----------------------------------------------------------------------------
(* The chip *)

ChipSees(b) == Here /\ h2d # <<>> /\ Head(h2d) = b /\ h2d' = Tail(h2d)
Chip(from, to) == rom = from /\ rom' = to
                  /\ UNCHANGED <<opt, mpc, port, try, mode, hiccups>>

RomCommand ==
  \/ /\ Chip("rom", "rom") /\ ChipSees(PropChk)
     /\ d2h' = d2h \o <<VerHead, VerTail, opt.ports[port]>>
     /\ UNCHANGED image
  \/ Chip("rom", "hex") /\ ChipSees(PropHex) /\ image' = "good" /\ UNCHANGED d2h
  \/ Chip("rom", "app") /\ ChipSees(EnterRom) /\ UNCHANGED <<d2h, image>>

RomHex ==
  \/ Chip("hex", "hex") /\ ChipSees(HexBlock) /\ UNCHANGED <<d2h, image>>
  \/ Chip("hex", IF mode = "chip" THEN "boot" ELSE "app") /\ ChipSees(Tilde)
     /\ UNCHANGED <<d2h, image>>
  \/ /\ Chip("hex", IF image = "good" THEN "app" ELSE "rom") /\ ChipSees(Query)
     /\ d2h' = Append(d2h, IF image = "good" THEN Dot ELSE Bang)
     /\ UNCHANGED image

(* The ROM is not up yet when the first question comes. *)
RomAsleep ==
  /\ rom = "rom" /\ hiccups < MaxHiccups
  /\ ChipSees(PropChk) /\ hiccups' = hiccups + 1
  /\ UNCHANGED <<d2h, opt, mpc, port, try, mode, rom, image>>

(* The line changes or loses part of the hex text. *)
HexDamage ==
  /\ rom = "hex" /\ mode = "single" /\ hiccups < MaxHiccups
  /\ h2d # <<>> /\ Head(h2d) = HexBlock
  /\ hiccups' = hiccups + 1 /\ image' = "bad"
  /\ UNCHANGED <<h2d, d2h, opt, mpc, port, try, mode, rom>>

(* The fast loader is not listening yet: what arrives is lost. *)
LoaderBoots ==
  \/ Chip("boot", "auto") /\ UNCHANGED <<h2d, d2h, image>>
  \/ Chip("boot", "boot") /\ h2d # <<>> /\ h2d' = Tail(h2d) /\ UNCHANGED <<d2h, image>>

(* autobaud; setting up the transmitter may show as a 0 at the host. *)
LoaderMeasures ==
  /\ Chip("auto", "space") /\ h2d # <<>> /\ h2d' = Tail(h2d)
  /\ d2h' \in {d2h, Append(d2h, 0)}
  /\ UNCHANGED image

(* .space, and the checksum sent at setup *)
LoaderConfirms ==
  /\ h2d # <<>> /\ h2d' = Tail(h2d)
  /\ IF Head(h2d) = Autobaud
     THEN Chip("space", "request") /\ d2h' = d2h \o send_chksum(0)
     ELSE Chip("space", "auto") /\ UNCHANGED d2h
  /\ UNCHANGED image

(* An autobaud character too many is a bad request. *)
LoaderRefuses == Chip("request", "error") /\ ChipSees(Autobaud) /\ UNCHANGED <<d2h, image>>

ChipStep == RomCommand \/ RomHex \/ LoaderBoots \/ LoaderMeasures \/ LoaderConfirms \/ LoaderRefuses

HandshakeInit(o) ==
  /\ opt = o /\ mpc = "find" /\ port = 1 /\ try = 0
  /\ mode = o.mode /\ image = "none" /\ hiccups = 0
  /\ rom \in (IF o.reset THEN {"app"} ELSE {"rom", "app"})
=============================================================================
