------------------------------ MODULE Script ------------------------------
(***************************************************************************)
(* The script of option -e (RunScript in loadp2.c): a text of commands,    *)
(* each with one bracketed argument, run against the program's output.     *)
(*                                                                         *)
(* The text is a sequence of ASCII codes in which the name of a command,   *)
(* a run of letters where one is expected, is one symbol from 1000 on.     *)
(***************************************************************************)
EXTENDS Handshake, SequencesExt

CONSTANTS
  FileData,    \* the files a script may name, by argument
  DefaultWait, \* first value of scriptVarRecvTimeout      (2000 ms)
  Second       \* a second, in the same unit              (1000 ms)

wordSend == 1000
wordRecv == 1001
wordPausems == 1002
wordPauseafter == 1003
wordRecvtimeout == 1004
wordBinfile == 1005
wordTextfile == 1006
wordScriptfile == 1007
cmdlist == wordSend..wordScriptfile

VARIABLES
  spc,          \* "off", "next", "send", "recv", or "done"
  text,         \* the script from where it is read next
  callers,      \* the texts of the scripts that have named this one
  cmd, arg,     \* the command under way
  out,          \* bytes of send or of a file still to go
  count,        \* of them, since the last pause
  here, waited, \* recv: characters matched, time waited
  phase,        \* recv: when within a second it began
  scriptVarPauseAfter, scriptVarRecvTimeout,
  ran,          \* history: commands begun, with the depth of their script
  seen          \* history: what the last recv has read

settings   == <<scriptVarPauseAfter, scriptVarRecvTimeout>>
scriptVars == <<spc, text, callers, cmd, arg, out, count, here, waited, phase, settings, ran, seen>>

-----------------------------------------------------------------------------
(* The text *)

Cr == 13
Lf == 10
Caret == 94
Hash == 35
LBracket == 91
Brackets == (40 :> 41) @@ (91 :> 93) @@ (123 :> 125)   \* ( ) [ ] { }
isspace(c) == c \in {9, 10, 11, 12, 13, 32}
isdigit(c) == c \in 48..57
isalpha(c) == c \in (65..90) \cup (97..122) \cup cmdlist

From(s, i) == SubSeq(s, i, Len(s))

(* The first i at which P is false, or one past the end. *)
FirstNot(s, P(_)) ==
  CHOOSE i \in 1..Len(s) + 1 : (i <= Len(s) => ~P(s[i])) /\ \A j \in 1..i-1 : P(s[j])

(* atoi, and the number of a decimal escape. *)
Value(s) == FoldLeft(LAMBDA n, c : 10 * n + (c - 48), 0, SubSeq(s, 1, FirstNot(s, isdigit) - 1))

(* The next command, the character after its name, and the text behind     *)
(* that.  An unknown name is reported and skipped like a comment.          *)
GetCmd[s \in Seq(Nat)] ==
  IF s = <<>> THEN [cmd |-> 0, start |-> 0, text |-> s]
  ELSE LET c     == Head(s)
           line  == FirstNot(s, LAMBDA x : x # Lf)
           after == From(s, FirstNot(s, isalpha))
           start == IF after = <<>> THEN 0 ELSE Head(after)
           rest  == From(after, 2)
       IN CASE isspace(c)   -> GetCmd[Tail(s)]
            [] c = Hash     -> GetCmd[From(s, line + 1)]
            [] c \in cmdlist -> [cmd |-> c, start |-> start, text |-> rest]
            [] isalpha(c) /\ c \notin cmdlist -> GetCmd[rest]
            [] OTHER        -> [cmd |-> 0, start |-> 0, text |-> Tail(s)]

BracketTight(start, s) == [open |-> start, text |-> s]
(* The bracket, past spaces, and the text behind it. *)
Bracket(start, s) ==
  IF ~isspace(start) THEN [open |-> start, text |-> s]
  ELSE LET i == FirstNot(s, isspace)
       IN [open |-> IF i > Len(s) THEN 0 ELSE s[i], text |-> From(s, i + 1)]

(* What the escape ^c.. at the head of s stands for, and its length; any   *)
(* other character behind ^, a left parenthesis too, is reported and left  *)
(* out.                                                                    *)
Escape(term, s) ==
  CASE s[2] \in {Caret, term}                   -> [means |-> <<s[2]>>, length |-> 2]
    [] isalpha(s[2]) \/ s[2] \in {LBracket, 64} -> [means |-> <<s[2] % 32>>, length |-> 2]
    [] isdigit(s[2]) -> [means  |-> <<Value(Tail(s)) % 256>>,
                         length |-> FirstNot(Tail(s), isdigit)]
    [] OTHER         -> [means |-> <<>>, length |-> 2]

(* The argument up to term, or to the end of the text. *)
Unescaped[term \in Nat, s \in Seq(Nat), got \in Seq(Nat)] ==
  CASE s = <<>> \/ s = <<Caret>> -> [arg |-> got, text |-> <<>>]
    [] s # <<>> /\ Head(s) = term -> [arg |-> got, text |-> Tail(s)]
    [] Len(s) > 1 /\ Head(s) = Caret ->
         LET e == Escape(term, s) IN Unescaped[term, From(s, e.length + 1), got \o e.means]
    [] OTHER -> Unescaped[term, Tail(s), Append(got, Head(s))]

(* An argument must have a character; a C string, it ends before the first *)
(* that its escapes make 0.                                                *)
CString[s \in Seq(Nat)] == SubSeq(s, 1, FirstNot(s, LAMBDA c : c # 0) - 1)
GetString(term, s) ==
  IF s = <<>> \/ Head(s) = term THEN [ok |-> FALSE, arg |-> <<>>, text |-> s]
  ELSE LET u == Unescaped[term, s, <<>>]
       IN [ok |-> TRUE, arg |-> CString[u.arg], text |-> u.text]

-----------------------------------------------------------------------------
(* RunScript *)

(* A script ends: the one that named it goes on, whether it failed or not. *)
ReturnStays == spc' = "next" /\ UNCHANGED <<text, callers>>
Return ==
  IF callers = <<>> THEN spc' = "done" /\ UNCHANGED <<text, callers>>
  ELSE spc' = "next" /\ text' = Last(callers) /\ callers' = Front(callers)

(* The line ends of a text file: CR is dropped, LF becomes CR. *)
Translated(data) ==
  [i \in DOMAIN SelectSeq(data, LAMBDA c : c # Cr) |->
     LET c == SelectSeq(data, LAMBDA x : x # Cr)[i] IN IF c = Lf THEN Cr ELSE c]

Number(a) == a # <<>> /\ (Value(a) # 0 \/ isdigit(Head(a)))

(* The function of a command.  One that fails ends its script. *)
Execute(c, a, rest) ==
  CASE c = wordSend ->
         spc' = "send" /\ out' = a /\ text' = rest /\ UNCHANGED <<callers, settings>>
    [] c \in {wordBinfile, wordTextfile} /\ a \in DOMAIN FileData ->
         /\ spc' = "send" /\ text' = rest
         /\ out' = (IF c = wordBinfile THEN FileData[a] ELSE Translated(FileData[a]))
         /\ UNCHANGED <<callers, settings>>
    [] c = wordRecv ->
         spc' = "recv" /\ text' = rest /\ UNCHANGED <<callers, out, settings>>
    [] c = wordPausems ->
         spc' = "next" /\ text' = rest /\ UNCHANGED <<callers, out, settings>>
    [] c = wordPauseafter /\ Number(a) ->
         /\ spc' = "next" /\ text' = rest /\ scriptVarPauseAfter' = Value(a)
         /\ UNCHANGED <<callers, out, scriptVarRecvTimeout>>
    [] c = wordRecvtimeout /\ Number(a) ->
         /\ spc' = "next" /\ text' = rest /\ scriptVarRecvTimeout' = Value(a)
         /\ UNCHANGED <<callers, out, scriptVarPauseAfter>>
    [] c = wordScriptfile /\ a \in DOMAIN FileData /\ FileData[a] # <<>> ->
         /\ spc' = "next" /\ text' = FileData[a] /\ callers' = Append(callers, rest)
         /\ UNCHANGED <<out, settings>>
    [] OTHER -> Return /\ UNCHANGED <<out, settings>>

NextCommand ==
  /\ spc = "next"
  /\ \E g \in {GetCmd[text]} :
     \E b \in {Bracket(g.start, g.text)} :
     \E s \in {IF b.open \in DOMAIN Brackets THEN GetString(Brackets[b.open], b.text)
              ELSE [ok |-> FALSE, arg |-> <<>>, text |-> <<>>]} :
        IF g.cmd = 0 \/ ~s.ok
        THEN /\ Return
             /\ UNCHANGED <<cmd, arg, out, count, here, waited, phase, settings, ran, seen>>
        ELSE /\ cmd' = g.cmd /\ arg' = s.arg
             /\ ran' = Append(ran, [depth |-> Len(callers), cmd |-> g.cmd, arg |-> s.arg])
             /\ count' = 0 /\ here' = 0 /\ waited' = 0 /\ seen' = <<>>
             /\ phase' \in 0..Second-1
             /\ Execute(g.cmd, s.arg, s.text)
  /\ UNCHANGED <<h2d, d2h>>

(* scriptSend and SendFile: the pause after N characters; SendFile does    *)
(* not look for a 0 that turns it off.                                     *)
Pauses == count + 1 >= scriptVarPauseAfter /\ (cmd = wordSend => scriptVarPauseAfter # 0)

SendByte ==
  /\ spc = "send"
  /\ IF out = <<>> THEN spc' = "next" /\ UNCHANGED <<h2d, out, count>>
     ELSE /\ h2d' = Append(h2d, Head(out)) /\ out' = Tail(out)
          /\ count' = (IF Pauses THEN 0 ELSE count + 1)
          /\ UNCHANGED spc
  /\ UNCHANGED <<d2h, text, callers, cmd, arg, here, waited, phase, settings, ran, seen>>

(* scriptRecv *)
(* The Linux elapsedms takes gettimeofday's 0 for its failure, and falls   *)
(* back on time(), whole seconds.                                          *)
elapsedms(t) == IF opt.mingw THEN t ELSE (t \div Second) * Second
Expired == /\ scriptVarRecvTimeout # 0
           /\ elapsedms(phase + waited) - elapsedms(phase) > scriptVarRecvTimeout

Matched(b) == IF here < Len(arg) /\ b = arg[here + 1] THEN here + 1 ELSE 0

RecvByte ==
  /\ spc = "recv" /\ ~Expired
  /\ d2h # <<>> /\ d2h' = Tail(d2h)
  /\ here' = Matched(Head(d2h))
  /\ seen' = Append(seen, Head(d2h))
  /\ spc' = (IF here' = Len(arg) /\ arg # <<>> THEN "next" ELSE "recv")
  /\ UNCHANGED <<h2d, text, callers, cmd, arg, out, count, waited, phase, settings, ran>>

RecvTick ==
  /\ spc = "recv" /\ ~Expired /\ scriptVarRecvTimeout # 0
  /\ d2h = <<>>
  /\ waited' = waited + 1
  /\ UNCHANGED <<h2d, d2h, spc, text, callers, cmd, arg, out, count, here, phase, settings, ran, seen>>

RecvExpires ==
  /\ spc = "recv" /\ Expired
  /\ Return
  /\ UNCHANGED <<h2d, d2h, cmd, arg, out, count, here, waited, phase, settings, ran, seen>>

ScriptStep == NextCommand \/ SendByte \/ RecvByte \/ RecvTick \/ RecvExpires

ScriptInit ==
  /\ spc = "off" /\ text = <<>> /\ callers = <<>>
  /\ cmd = 0 /\ arg = <<>> /\ out = <<>> /\ count = 0 /\ here = 0 /\ waited = 0 /\ phase = 0
  /\ scriptVarPauseAfter = 0 /\ scriptVarRecvTimeout = DefaultWait
  /\ ran = <<>> /\ seen = <<>>
=============================================================================
