----------------------------- MODULE Terminal -----------------------------
(***************************************************************************)
(* The terminal loop (terminal_mode in osint_linux.c and osint_mingw.c)    *)
(* and the way a 9P message reaches the server from it (u9fs_process,      *)
(* getfcallnew and readn).  The serial input is text, with three escapes:  *)
(*    ff 00 n   leave with exit code n                                     *)
(*    ff 01     a 9P message follows                                       *)
(*    ff x      the two characters themselves                              *)
(* A message is its length, itself counted, in one byte, and its contents. *)
(***************************************************************************)
EXTENDS SerialLink, SequencesExt

CONSTANTS
  TermBuf,   \* bytes read at once           (sizeof(buf), 128)
  Keys,      \* what the user may type at once
  MaxTyped   \* bound on how often

Esc       == 255   \* EXIT_CHAR
ExitChars == {29, 26}
Return13  == 13
Reply     == 263   \* a reply of the 9P server, as one symbol
BIT32SZ   == 1     \* bytes of a message's length  (4)

VARIABLES
  tpc,       \* "off", "poll", "message" (in u9fs_process) or "left"
  sawexit,   \* "no", "char" or "valid": sawexit_char and sawexit_valid
  exitcode,
  shown,     \* what has been written to stdout
  rxbuf,     \* the bytes of the message under way
  served,    \* history: messages handed to the server
  spoilt,    \* history: messages that came in part, or not at all
  lost,      \* history: bytes read with a message and dropped behind it
  heard,     \* history: all the terminal has read, messages included
  typed      \* how often the user has typed

termVars == <<tpc, sawexit, exitcode, shown, rxbuf, served, spoilt, lost, heard, typed>>

-----------------------------------------------------------------------------
(* One byte of what was read.  s holds the loop's variables; once a        *)
(* message begins (s.nine), the rest of the buffer belongs to it.          *)

Put(s, data) == [s EXCEPT !.put = @ \o data]
Plain(s, pst, b) == Put(s, IF pst /\ b = Return13 THEN <<b, 10>> ELSE <<b>>)

OrdinaryMingw(s, b) == Put(s, <<Esc, b>>)
OrdinaryLinux(s, b) == Put([s EXCEPT !.saw = "no"], <<Esc, b>>)

LinuxByte(files, pst, s, b) ==
  CASE s.nine -> [s EXCEPT !.rest = Append(@, b)]
    [] ~s.nine /\ s.saw = "valid" -> [s EXCEPT !.code = b, !.going = FALSE]
    [] ~s.nine /\ s.saw = "char"  ->
         IF b = 0 THEN [s EXCEPT !.saw = "valid"]
         ELSE IF b = 1 /\ files THEN [s EXCEPT !.saw = "no", !.nine = TRUE]
         ELSE OrdinaryLinux(s, b)
    [] ~s.nine /\ s.saw = "no" ->
         IF b = Esc THEN [s EXCEPT !.saw = "char"] ELSE Plain(s, pst, b)

(* The Windows loop reads one byte at a time, and keeps sawexit_char when  *)
(* the character after EXIT_CHAR is an ordinary one.                       *)
MingwByte(files, pst, s, b) ==
  CASE s.saw = "valid" -> [s EXCEPT !.code = b, !.going = FALSE]
    [] s.saw = "char"  ->
         IF b = 0 THEN [s EXCEPT !.saw = "valid"]
         ELSE IF b = 1 /\ files THEN [s EXCEPT !.saw = "no", !.nine = TRUE]
         ELSE OrdinaryMingw(s, b)
    [] s.saw = "no" ->
         IF b = Esc THEN [s EXCEPT !.saw = "char"] ELSE Plain(s, pst, b)

ReadSerial(files, pst, mingw) ==
  /\ tpc = "poll"
  /\ \E n \in 1..(IF mingw THEN 1 ELSE TermBuf) :
       /\ n <= Len(d2h)
       /\ d2h' = SubSeq(d2h, n + 1, Len(d2h))
       /\ heard' = heard \o SubSeq(d2h, 1, n)
       /\ LET old == [saw |-> sawexit, code |-> exitcode, put |-> <<>>,
                      rest |-> <<>>, nine |-> FALSE, going |-> TRUE]
              new == FoldLeft(LAMBDA s, b : IF mingw THEN MingwByte(files, pst, s, b)
                                                     ELSE LinuxByte(files, pst, s, b),
                              old, SubSeq(d2h, 1, n))
          IN /\ sawexit' = new.saw /\ exitcode' = new.code
             /\ shown' = shown \o new.put
             /\ rxbuf' = new.rest
             /\ tpc' = CASE ~new.going -> "left"
                         [] new.going /\ new.nine  -> "message"
                         [] new.going /\ ~new.nine -> "poll"
  /\ UNCHANGED <<h2d, served, spoilt, lost, typed>>

-----------------------------------------------------------------------------
(* u9fs_process *)

(* How many bytes getfcallnew still asks readn for. *)
Wanted == IF Len(rxbuf) < BIT32SZ THEN BIT32SZ - Len(rxbuf) ELSE rxbuf[1] - Len(rxbuf)

BackToPoll == tpc' = "poll" /\ rxbuf' = <<>>

(* One rx_timeout of readn. *)
ReadMore ==
  /\ tpc = "message" /\ Wanted > 0
  /\ \E n \in 1..Wanted :
       /\ n <= Len(d2h)
       /\ d2h' = SubSeq(d2h, n + 1, Len(d2h))
       /\ rxbuf' = rxbuf \o SubSeq(d2h, 1, n)
       /\ heard' = heard \o SubSeq(d2h, 1, n)
  /\ UNCHANGED <<h2d, tpc, sawexit, exitcode, shown, served, spoilt, lost, typed>>

(* The message is there.  What was read behind it from the terminal's      *)
(* buffer is left there, and nobody looks at it again.                     *)
Serve ==
  /\ tpc = "message" /\ Wanted <= 0 /\ rxbuf[1] > BIT32SZ
  /\ served' = Append(served, SubSeq(rxbuf, 1, rxbuf[1]))
  /\ lost' = lost + Len(rxbuf) - rxbuf[1]
  /\ h2d' = Append(h2d, Reply)
  /\ BackToPoll
  /\ UNCHANGED <<d2h, sawexit, exitcode, shown, spoilt, heard, typed>>

GivesUp == Wanted > 0 /\ d2h = <<>>

(* A second without a byte, or a length that cannot be: sysfatal returns,  *)
(* and the handlers run on an Fcall that was never filled in.  It may or   *)
(* may not come to a reply.                                                *)
Spoil ==
  /\ tpc = "message"
  /\ \/ GivesUp
     \/ Len(rxbuf) > 0 /\ rxbuf[1] <= BIT32SZ
  /\ spoilt' = Append(spoilt, rxbuf)
  /\ h2d' \in {h2d, Append(h2d, Reply)}
  /\ BackToPoll
  /\ UNCHANGED <<d2h, sawexit, exitcode, shown, served, lost, heard, typed>>

(* The user types; an exit character anywhere in it ends the session, and  *)
(* so does the end of stdin (Eof).                                         *)
Eof == <<>>
Type ==
  /\ tpc = "poll" /\ typed < MaxTyped
  /\ typed' = typed + 1
  /\ \E keys \in Keys :
       IF keys = Eof \/ ToSet(keys) \cap ExitChars # {}
       THEN tpc' = "left" /\ UNCHANGED h2d
       ELSE h2d' = h2d \o keys /\ UNCHANGED tpc
  /\ UNCHANGED <<d2h, sawexit, exitcode, shown, rxbuf, served, spoilt, lost, heard>>

TermInit ==
  /\ tpc = "off" /\ sawexit = "no" /\ exitcode = 0
  /\ shown = <<>> /\ rxbuf = <<>> /\ served = <<>> /\ spoilt = <<>>
  /\ lost = 0 /\ heard = <<>> /\ typed = 0
=============================================================================
