----------------------------- MODULE MCSession -----------------------------
(***************************************************************************)
(* Small instances of Session: each command line is about one part of a    *)
(* session, and has the programs that exercise it.                         *)
(***************************************************************************)
EXTENDS Session

Line == [ports |-> <<VersionG>>, reset |-> FALSE, mode |-> "none", file |-> FALSE,
         flash |-> FALSE, enter |-> FALSE, rebaud |-> FALSE, script |-> <<>>,
         runterm |-> FALSE, serve |-> FALSE, pst |-> FALSE, mingw |-> FALSE]

(* Finding the chip: a dead and a silent port before it, an FPGA, no chip. *)
ToFile   == [Line EXCEPT !.reset = TRUE, !.file = TRUE]
Finding  == {[ToFile EXCEPT !.ports = <<Dead, Silent, VersionG>>],
             [ToFile EXCEPT !.ports = <<Silent>>],
             [ToFile EXCEPT !.ports = <<VersionB>>],
             [ToFile EXCEPT !.ports = <<VersionB>>, !.mode = "single"],
             [ToFile EXCEPT !.mode = "single", !.flash = TRUE],
             [ToFile EXCEPT !.mode = "single", !.ports = <<VersionA>>],
             [Line EXCEPT !.reset = TRUE, !.enter = TRUE, !.runterm = TRUE]}

(* Scripts.  a b are letters of their text, n the digit 7.  Time is in half *)
(* seconds.                                                                 *)
a == 97
b == 98
n == 55
Text(c, s) == <<c, 40>> \o s \o <<41>>
Nested == <<b>>
Plain1 == Text(wordSend, <<a>>) \o Text(wordRecv, <<a, b>>) \o <<10>>
            \o Text(wordPauseafter, <<49>>) \o Text(wordBinfile, <<a>>)
Odd    == <<Hash, a, 10, 32, wordSend, 32, 91, a, 93, 10, a, 32, wordRecvtimeout, 123, 48 + 1, 125>>
            \o Text(wordRecv, <<Caret, 57, 55, Caret, 41>>) \o Text(wordSend, <<b, Caret, 40>>)
Deep   == Text(wordScriptfile, Nested) \o Text(wordTextfile, <<a>>) \o Text(wordPausems, <<n>>)
Inner  == Text(wordRecv, <<b, b>>) \o Text(wordSend, <<b, Caret, 91, Caret, 64, a>>)
MCFileData == (<<a>> :> <<a, 13, 10>>) @@ (Nested :> Inner)
MCMeans ==
  (Plain1 :> << <<wordSend, <<a>>>>, <<wordRecv, <<a, b>>>>, <<wordPauseafter, <<49>>>>,
                <<wordBinfile, <<a>>>> >>) @@
  (Odd :> << <<wordSend, <<a>>>>, <<wordRecvtimeout, <<49>>>>, <<wordRecv, <<97, 41>>>>,
             <<wordSend, <<b>>>> >>) @@
  (Deep :> << <<wordScriptfile, Nested>>, <<wordTextfile, <<a>>>>, <<wordPausems, <<n>>>> >>) @@
  (Inner :> << <<wordRecv, <<b, b>>>>, <<wordSend, <<b, 27>>>> >>)
Scripted == {[Line EXCEPT !.script = t] : t \in {Plain1, Odd, Deep}}

(* The terminal. *)
Term      == [Line EXCEPT !.runterm = TRUE]
Serving   == [Line EXCEPT !.serve = TRUE]
Terminals == {Term, [Term EXCEPT !.pst = TRUE, !.rebaud = TRUE], [Term EXCEPT !.mingw = TRUE],
              Serving, [Serving EXCEPT !.mingw = TRUE]}

MCCommandLines == Finding \cup Scripted \cup Terminals

Texts == {<<a, Esc, b, 13, Esc, Esc, a, Esc, 0, 5>>, <<Esc, 1, 2, 7, Esc, 0, 5>>}
Messages == {<<a, Esc, 1, 3, 255, 1, Wait, b, Esc, 1, 2, 9, Wait, Esc, 0, 5>>,
             <<Esc, 1, 3, 255, 1, a, b, Esc, 1, 2, 9, b>>, <<Esc, 1, 1, a>>, <<Esc, 1, 3, a>>}
MCPrograms ==
  [o \in MCCommandLines |->
     CASE o \in Finding   -> {<<a>>}
       [] o \in Scripted  -> {<<a, b>>, <<a, a, b, b>>, <<b, b>>, <<a, 41>>}
       [] o \in Terminals -> IF o.serve THEN Messages ELSE Texts]

MCKeys == {<<>>, <<a>>, <<a, 29>>}
=============================================================================
