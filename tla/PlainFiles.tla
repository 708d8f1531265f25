------------------------------ MODULE PlainFiles ------------------------------
(***************************************************************************)
(* What ff.h promises a program that uses one file at a time: files are    *)
(* sequences of units, the open one has a place in it, and each call does  *)
(* to them what its name says.  No sectors, clusters or buffers.  A card   *)
(* may be full: then less is written, or a file is not created.            *)
(***************************************************************************)
EXTENDS Integers, Sequences, FiniteSetsExt, Functions

CONSTANT None

VARIABLES
  call,     \* the last call and its argument
  ok,       \* whether it succeeded
  files,    \* the contents of those there are
  opened,   \* the name of the open one, or None
  mode,     \* what it was opened for
  place,    \* where in it the next call starts
  got       \* what the last read delivered

Sub(s, from, n) == SubSeq(s, from + 1, Min({from + n, Len(s)}))
Put(s, from, new) ==
  [i \in 1..Max({Len(s), from + Len(new)}) |->
     IF i \in from + 1 .. from + Len(new) THEN new[i - from] ELSE s[i]]
Here == files[opened]
Set(name, content) == [n \in DOMAIN files \cup {name} |-> IF n = name THEN content ELSE files[n]]
Stays == UNCHANGED <<files, opened, mode, place>>
Nothing == got' = <<>>

Init == opened = None /\ mode = {} /\ place = 0 /\ got = <<>>

Open(name, how) ==
  LET there == name \in DOMAIN files
      may == IF there THEN "CREATE_NEW" \notin how
             ELSE how \cap {"CREATE_ALWAYS", "CREATE_NEW", "OPEN_ALWAYS"} # {}
  IN  IF ok' THEN /\ may
                  /\ files' = IF ~there \/ "CREATE_ALWAYS" \in how THEN Set(name, <<>>) ELSE files
                  /\ opened' = name /\ mode' = how
                  /\ place' = IF "SEEKEND" \in how THEN Len(files'[name]) ELSE 0
             ELSE (may => ~there) /\ Stays       \* or no entry for a new one

Read(n) ==
  LET units == Sub(Here, place, n)
  IN  IF ok' THEN got' = units /\ place' = place + Len(units) /\ UNCHANGED <<files, opened, mode>>
             ELSE Nothing /\ Stays
Write(units) ==
  IF ok' THEN \E n \in 0..Len(units) :
                /\ place' = place + n
                /\ files' = IF n = 0 THEN files ELSE Set(opened, Put(Here, place, SubSeq(units, 1, n)))
                /\ UNCHANGED <<opened, mode>>
         ELSE Stays
(* Beyond the end the file grows as far as the card can hold it, with      *)
(* whatever happens to be there.                                           *)
Seek(to) ==
  /\ UNCHANGED <<opened, mode>> /\ DOMAIN files' = DOMAIN files
  /\ \A name \in DOMAIN files \ {opened} : files'[name] = files[name]
  /\ Sub(files'[opened], 0, Len(Here)) = Here
  /\ Len(files'[opened]) = Max({Len(Here), place'})
  /\ place' <= to
  /\ place' = to \/ to > Len(Here)
  /\ "WRITE" \notin mode => place' <= Len(Here)
Truncate ==
  IF ok' THEN files' = Set(opened, Sub(Here, 0, place)) /\ UNCHANGED <<opened, mode, place>> ELSE Stays
Close == opened' = None /\ mode' = {} /\ place' = 0 /\ UNCHANGED files
Unlink(name) ==
  IF ok' THEN /\ name \in DOMAIN files
              /\ files' = [n \in DOMAIN files \ {name} |-> files[n]]
              /\ UNCHANGED <<opened, mode, place>>
         ELSE Stays

(* Each call does only what it is for, and fails only when it may not.     *)
(* Whatever else happens to the program, no file changes.                  *)
Called(op, arg) ==
  CASE op = "open" -> Open(arg[1], arg[2]) /\ Nothing
    [] op = "read" -> Read(arg) /\ (ok' <=> "READ" \in mode)
    [] op = "write" -> Write(arg) /\ Nothing /\ (ok' <=> "WRITE" \in mode)
    [] op = "seek" -> Seek(arg) /\ Nothing /\ ok'
    [] op = "truncate" -> Truncate /\ Nothing /\ (ok' <=> "WRITE" \in mode)
    [] op = "sync" -> Stays /\ Nothing /\ ok'
    [] op = "close" -> Close /\ Nothing /\ ok'
    [] op = "unlink" -> Unlink(arg) /\ Nothing /\ (ok' <=> arg \in DOMAIN files)
    [] op = "off" -> Stays /\ Nothing

Next == Called(call'[1], call'[2])
Spec == Init /\ [][Next]_<<call, ok, files, opened, mode, place, got>>
=============================================================================
