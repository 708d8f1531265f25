------------------------------ MODULE Session ------------------------------
(***************************************************************************)
(* A run of loadp2 from the search for the chip to the end of the terminal *)
(* (main in loadp2.c): handshake, download, change of baud rate, script,   *)
(* terminal, with the chip and the program on it at the other end of the   *)
(* line.  The download itself is module LoadSystem; here it either starts  *)
(* the program or times out.                                               *)
(***************************************************************************)
EXTENDS Script, Terminal, FiniteSets

CONSTANTS
  Programs,  \* what the program on the chip may send, by command line; see Wait
  Means      \* the commands a script's text says, by text

VARIABLE
  prog    \* what the program has still to send

vars == <<h2d, d2h, shakeVars, scriptVars, termVars, prog>>

(* The mark in a program at which it waits for the server's reply.  A      *)
(* program without it after a message has another cog that goes on sending.*)
Wait == 264

Init ==
  /\ \E o \in CommandLines : HandshakeInit(o) /\ prog \in Programs[o]
  /\ ScriptInit /\ TermInit
  /\ h2d = <<>> /\ d2h = <<>>

Else == UNCHANGED <<scriptVars, termVars, prog>>

Find == FindStep /\ Else
Load == LoadStep /\ Else
Rom  == (ChipStep \/ RomAsleep \/ HexDamage) /\ Else

-----------------------------------------------------------------------------
(* main, after the handshake *)

Onward == UNCHANGED <<opt, port, try, mode, rom, image, hiccups>>

(* loadfile from here on: the program starts, or the loader, in its error  *)
(* loop, never answers the first request.                                  *)
Download ==
  /\ mpc = "download"
  /\ IF rom = "request" /\ h2d = <<>>
     THEN mpc' = "baud" /\ rom' = "app"
     ELSE mpc' = "fail" /\ UNCHANGED rom
  /\ UNCHANGED <<h2d, d2h, opt, port, try, mode, image, hiccups>>
  /\ Else

NoFile ==
  /\ mpc = "load" /\ ~opt.file
  /\ mpc' = "baud"
  /\ UNCHANGED <<h2d, d2h>> /\ Onward /\ Else

(* serial_baud opens the port again when the rate changes, which flushes   *)
(* it; then the key for the ROM's monitor, and the script.                 *)
serial_baud == IF opt.rebaud /\ ~opt.mingw THEN d2h' = <<>> ELSE UNCHANGED d2h

SetBaud ==
  /\ mpc = "baud"
  /\ mpc' = "script"
  /\ IF opt.runterm \/ opt.serve \/ opt.enter \/ opt.script # <<>>
     THEN serial_baud ELSE UNCHANGED d2h
  /\ IF opt.enter THEN tx(<<EnterRom>>) ELSE UNCHANGED h2d
  /\ spc' = (IF opt.script = <<>> THEN "done" ELSE "next")
  /\ text' = opt.script
  /\ Onward
  /\ UNCHANGED <<callers, cmd, arg, out, count, here, waited, phase, settings, ran, seen>>
  /\ UNCHANGED <<termVars, prog>>

RunScript ==
  /\ mpc = "script" /\ ScriptStep
  /\ UNCHANGED <<mpc, termVars, prog>> /\ Onward

(* -9 turns the terminal on as well. *)
RunTerm == opt.runterm \/ opt.serve

Afterwards ==
  /\ mpc = "script" /\ spc = "done"
  /\ IF RunTerm THEN mpc' = "terminal" /\ tpc' = "poll"
                ELSE mpc' = "end" /\ UNCHANGED tpc
  /\ UNCHANGED <<h2d, d2h, sawexit, exitcode, shown, rxbuf, served, spoilt, lost, heard, typed>>
  /\ UNCHANGED <<scriptVars, prog>> /\ Onward

TerminalStep == /\ mpc = "terminal"
                /\ ReadSerial(opt.serve, opt.pst, opt.mingw) \/ ReadMore \/ Serve
                /\ UNCHANGED <<mpc, scriptVars, prog>> /\ Onward

User == /\ mpc = "terminal" /\ Type
        /\ UNCHANGED <<mpc, scriptVars, prog>> /\ Onward

(* A program that has more to say says it within the second. *)
Silence == /\ mpc = "terminal" /\ Spoil
           /\ rom = "app" /\ prog # <<>> => Head(prog) = Wait
           /\ UNCHANGED <<mpc, scriptVars, prog>> /\ Onward

Leave ==
  /\ mpc = "terminal" /\ tpc = "left"
  /\ mpc' = "end"
  /\ UNCHANGED <<h2d, d2h, scriptVars, termVars, prog>> /\ Onward

-----------------------------------------------------------------------------
(* The program *)

Running == rom = "app" /\ Here /\ UNCHANGED <<shakeVars, scriptVars, termVars>>

ProgramSends ==
  /\ Running /\ prog # <<>> /\ Head(prog) # Wait
  /\ d2h' = Append(d2h, Head(prog)) /\ prog' = Tail(prog)
  /\ UNCHANGED h2d

(* The first byte that comes is taken for the reply's. *)
ProgramGetsReply ==
  /\ Running /\ prog # <<>> /\ Head(prog) = Wait /\ h2d # <<>>
  /\ h2d' = Tail(h2d) /\ prog' = Tail(prog)
  /\ UNCHANGED d2h

ProgramReads ==
  /\ Running /\ h2d # <<>> /\ (prog # <<>> => Head(prog) # Wait)
  /\ h2d' = Tail(h2d)
  /\ UNCHANGED <<d2h, prog>>

Program == ProgramSends \/ ProgramGetsReply \/ ProgramReads

Host == Find \/ Load \/ Download \/ NoFile \/ SetBaud \/ RunScript \/ Afterwards
          \/ TerminalStep \/ Silence \/ Leave

Next == Host \/ Rom \/ Program \/ User

(* The host and the chip run; the user need not type. *)
Spec == Init /\ [][Next]_vars /\ WF_vars(Host) /\ WF_vars(Rom) /\ WF_vars(Program)

-----------------------------------------------------------------------------
(* When the host has the loader's greeting, the loader is at its first     *)
(* request and no autobaud character is on its way to be taken for one.    *)
(* Only a read that came too early can have sent one too many, and then    *)
(* the loader is still where the host's timeout finds it (loadfile's loop, *)
(* loadp2.c, against setup and next_request of the loader).  And nothing   *)
(* is loaded without a reason to believe in it: a program sent in one      *)
(* stage without -FLASH runs only if the ROM found its checksum right, and *)
(* an FPGA board that said so gets nothing unless an option asked for it   *)
(* (loadfilesingle and checkp2_and_init).                                  *)
Agreement ==
  /\ mpc = "download" =>
       IF hiccups = 0 THEN rom = "request" /\ h2d = <<>> /\ d2h \in {<<>>, <<Space>>}
                      ELSE rom \in {"request", "error"}
  /\ mpc \in {"baud", "script", "terminal", "end"} /\ mode = "single" /\ ~opt.flash
       => image = "good"
  /\ mode # opt.mode /\ opt.reset /\ hiccups = 0 => opt.ports[port] # VersionB

(* The commands are those the script says, in its order, whatever comments,*)
(* spaces, brackets and escapes it is written with, but for the escape ^(  *)
(* that README.md:91 has for a left parenthesis: the code leaves it out,   *)
(* and Means with it (GetString).  A script named by another runs at that  *)
(* place, and the other goes on behind it; only a recv that has failed     *)
(* ends a script early, be it that the text it waits for has come, which   *)
(* RecvHears is about; and it goes on only after that text: the matcher    *)
(* always holds a prefix of it that the program has just sent (RunScript,  *)
(* GetCmd, GetString, scriptRecv, scriptScriptfile).                       *)
At0 == SelectSeq(ran, LAMBDA r : r.depth = 0)
Said(r) == <<r.cmd, r.arg>>
RunsAsWritten ==
  /\ here <= Len(seen) /\ IsSuffix(SubSeq(arg, 1, here), seen)
  /\ opt.script # <<>> =>
       /\ Len(At0) <= Len(Means[opt.script])
       /\ \A i \in DOMAIN At0 : Said(At0[i]) = Means[opt.script][i]
       /\ spc = "done" => \/ Len(At0) = Len(Means[opt.script])
                          \/ cmd = wordRecv /\ here < Len(arg)
  /\ \A i \in DOMAIN ran : ran[i].depth > 0 =>
       LET first == CHOOSE k \in 1..i-1 : /\ ran[k].depth < ran[i].depth
                                          /\ \A j \in k+1..i : ran[j].depth >= ran[i].depth
           same  == {j \in first+1..i : ran[j].depth = ran[i].depth}
       IN /\ ran[first].cmd = wordScriptfile
          /\ Said(ran[i]) = Means[FileData[ran[first].arg]][Cardinality(same)]

(* What a reader of the documentation takes the program's output for: a    *)
(* text with escapes in it.                                                *)
RECURSIVE Reading(_)
Reading(s) ==
  IF s = <<>> THEN [shown |-> <<>>, served |-> <<>>, saw |-> "no", code |-> 0]
  ELSE LET Behind(n) == Reading(From(s, n + 1))
           Shows(n, text1) == [Behind(n) EXCEPT !.shown = text1 \o @]
       IN CASE s[1] # Esc -> Shows(1, IF opt.pst /\ s[1] = Return13 THEN <<13, 10>> ELSE <<s[1]>>)
            [] s = <<Esc>> -> [Reading(<<>>) EXCEPT !.saw = "char"]
            [] s = <<Esc, 0>> -> [Reading(<<>>) EXCEPT !.saw = "valid"]
            [] Len(s) > 2 /\ s[1] = Esc /\ s[2] = 0 ->
                 [Reading(<<>>) EXCEPT !.saw = "valid", !.code = s[3]]
            [] Len(s) > 2 /\ s[1] = Esc /\ s[2] = 1 /\ opt.serve ->
                 [Behind(2 + s[3]) EXCEPT !.served = <<SubSeq(s, 3, 2 + s[3])>> \o @]
            [] OTHER -> Shows(2, <<s[1], s[2]>>)

(* However the bytes were cut into reads, the terminal has shown, served   *)
(* and understood exactly that: as long as the program does not send on    *)
(* behind a message (lost) or go silent within one (spoilt), and the user  *)
(* does not type into the program's wait for a reply (terminal_mode of     *)
(* osint_linux.c, u9fs_process, getfcallnew, readn).                       *)
ReadsAsWritten ==
  tpc = "poll" /\ ~opt.mingw /\ spoilt = <<>> /\ lost = 0 /\ typed = 0 =>
    LET r == Reading(heard)
    IN shown = r.shown /\ served = r.served /\ sawexit = r.saw /\ exitcode = r.code

(* README.md:77 and 121: recv waits until the string is received.  So it   *)
(* does not wait on, and in the end fail, when the last it has read is the *)
(* string (scriptRecv).                                                    *)
RecvHears == spc = "recv" /\ arg # <<>> => ~IsSuffix(arg, seen)

(* The session gets to the terminal or to an end: no try, script or reply  *)
(* that does not come holds it for ever, unless a recv was given no        *)
(* timeout (checkp2_and_init, loadfile, RunScript); and a message that has *)
(* begun in the terminal is answered or given up (u9fs_process, readn).    *)
GetsThrough ==
  /\ <>(mpc \in {"terminal", "end", "fail"} \/ (spc = "recv" /\ scriptVarRecvTimeout = 0))
  /\ tpc = "message" ~> tpc # "message"
=============================================================================
