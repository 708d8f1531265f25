----------------------------- MODULE NinePWire -----------------------------
(***************************************************************************)
(* The bytes of a 9P message: u9fs's conversions (convS2M.c, convM2S.c,    *)
(* convD2M.c, convM2D.c) and the bytes the program's library puts together *)
(* and takes apart by hand (fs9p.cc).                                      *)
(*                                                                         *)
(* A digit of a number is a byte, the lowest first, but to the base Radix, *)
(* so that numbers of 8 digits stay within TLC's; a single byte, and a     *)
(* character, is a symbol.  A field is <<kind, name>>; a counted kind puts *)
(* its own count in front.                                                 *)
(***************************************************************************)
EXTENDS Integers, SequencesExt, TLC

CONSTANTS
  Radix,     \* numbers a byte can tell apart           (256)
  FidNo,     \* the 32 bits of each fid
  Spelling,  \* the characters of each name
  Absent     \* no name, no length

BIT8SZ == 1
BIT16SZ == 2
BIT32SZ == 4
BIT64SZ == 8
QIDSZ      == BIT8SZ + BIT32SZ + BIT64SZ
STATFIXLEN == BIT16SZ + QIDSZ + 5 * BIT16SZ + 4 * BIT32SZ + BIT64SZ
MAXWELEM   == 16
NOFID      == Radix * Radix * Radix * Radix - 1
NOTAG      == Radix * Radix - 1
VERSION9P  == <<57, 80>>

Code == [Tversion |-> 100, Rversion |-> 101, Tauth |-> 102, Rauth |-> 103,
         Tattach |-> 104, Rattach |-> 105, Rerror |-> 107, Tflush |-> 108, Rflush |-> 109,
         Twalk |-> 110, Rwalk |-> 111, Topen |-> 112, Ropen |-> 113, Tcreate |-> 114,
         Rcreate |-> 115, Tread |-> 116, Rread |-> 117, Twrite |-> 118, Rwrite |-> 119,
         Tclunk |-> 120, Rclunk |-> 121, Tremove |-> 122, Rremove |-> 123,
         Tstat |-> 124, Rstat |-> 125, Twstat |-> 126, Rwstat |-> 127]

-----------------------------------------------------------------------------
(* PBIT8 .. PBIT64 and GBIT8 .. GBIT64 *)

PBIT[v \in Int, n \in Nat] == IF n = 0 THEN <<>> ELSE <<v % Radix>> \o PBIT[v \div Radix, n - 1]
GBIT(s) ==
  LET Above[i \in Nat] == IF i > Len(s) THEN 0 ELSE s[i] + Radix * Above[i + 1] IN Above[1]

(* The low half of a 64 bit number is an int before it is a ulong: where   *)
(* its top bit is set a ulong of 64 bits has every higher bit set as well. *)
GBIT64(s) ==
  LET low == GBIT(SubSeq(s, 1, 4))
  IN IF 2 * low > NOFID THEN low - NOFID - 1 ELSE low + (NOFID + 1) * GBIT(SubSeq(s, 5, 8))

pstring(s) == PBIT[Len(s), BIT16SZ] \o s
pqid(q)    == PBIT[q.type, BIT8SZ] \o PBIT[q.vers, BIT32SZ] \o PBIT[q.path, BIT64SZ]
stringsz(s) == BIT16SZ + Len(s)

(* What sizeS2M adds for a field, and what convS2M puts. *)
SizeOf(f, kind, name) ==
  CASE kind = "u8"    -> BIT8SZ
    [] kind = "u16"   -> BIT16SZ
    [] kind = "u32"   -> BIT32SZ
    [] kind = "u64"   -> BIT64SZ
    [] kind = "qid"   -> QIDSZ
    [] kind = "str"   -> stringsz(f[name])
    [] kind = "strs"  -> BIT16SZ + FoldLeft(LAMBDA n, s : n + stringsz(s), 0, f[name])
    [] kind = "qids"  -> BIT16SZ + Len(f[name]) * QIDSZ
    [] kind = "data"  -> BIT32SZ + Len(f[name])
    [] kind = "stat"  -> BIT16SZ + Len(f[name])

Put(f, kind, name) ==
  CASE kind = "u8"    -> <<f[name]>>
    [] kind = "u16"   -> PBIT[f[name], BIT16SZ]
    [] kind = "u32"   -> PBIT[f[name], BIT32SZ]
    [] kind = "u64"   -> PBIT[f[name], BIT64SZ]
    [] kind = "qid"   -> pqid(f[name])
    [] kind = "str"   -> pstring(f[name])
    [] kind = "strs"  -> PBIT[Len(f[name]), BIT16SZ]
                           \o FoldLeft(LAMBDA p, s : p \o pstring(s), <<>>, f[name])
    [] kind = "qids"  -> PBIT[Len(f[name]), BIT16SZ]
                           \o FoldLeft(LAMBDA p, q : p \o pqid(q), <<>>, f[name])
    [] kind = "data"  -> PBIT[Len(f[name]), BIT32SZ] \o f[name]
    [] kind = "stat"  -> PBIT[Len(f[name]), BIT16SZ] \o f[name]

(* Three switches over the message type have to agree: the one of sizeS2M, *)
SizeT(type) ==
  CASE type = "Tversion" -> << <<"u32", "msize">>, <<"str", "version">> >>
    [] type = "Tflush"   -> << <<"u16", "oldtag">> >>
    [] type = "Tauth"    -> << <<"u32", "afid">>, <<"str", "uname">>, <<"str", "aname">> >>
    [] type = "Tattach"  -> << <<"u32", "fid">>, <<"u32", "afid">>,
                               <<"str", "uname">>, <<"str", "aname">> >>
    [] type = "Twalk"    -> << <<"u32", "fid">>, <<"u32", "newfid">>, <<"strs", "wname">> >>
    [] type = "Topen"    -> << <<"u32", "fid">>, <<"u8", "mode">> >>
    [] type = "Tcreate"  -> << <<"u32", "fid">>, <<"str", "name">>, <<"u32", "perm">>, <<"u8", "mode">> >>
    [] type = "Tread"    -> << <<"u32", "fid">>, <<"u64", "offset">>, <<"u32", "count">> >>
    [] type = "Twrite"   -> << <<"u32", "fid">>, <<"u64", "offset">>, <<"data", "data">> >>
    [] type \in {"Tclunk", "Tremove", "Tstat"} -> << <<"u32", "fid">> >>
    [] type = "Twstat"   -> << <<"u32", "fid">>, <<"stat", "stat">> >>

SizeR(type) ==
  CASE type = "Rversion" -> << <<"u32", "msize">>, <<"str", "version">> >>
    [] type = "Rerror"   -> << <<"str", "ename">> >>
    [] type = "Rauth"    -> << <<"qid", "aqid">> >>
    [] type = "Rattach"  -> << <<"qid", "qid">> >>
    [] type = "Rwalk"    -> << <<"qids", "wqid">> >>
    [] type \in {"Ropen", "Rcreate"} -> << <<"qid", "qid">>, <<"u32", "iounit">> >>
    [] type = "Rread"    -> << <<"data", "data">> >>
    [] type = "Rwrite"   -> << <<"u32", "count">> >>
    [] type = "Rstat"    -> << <<"stat", "stat">> >>
    [] type \in {"Rflush", "Rclunk", "Rremove", "Rwstat"} -> <<>>

(* the one of convS2M, *)
PutT(type) ==
  CASE type = "Tversion" -> << <<"u32", "msize">>, <<"str", "version">> >>
    [] type = "Tflush"   -> << <<"u16", "oldtag">> >>
    [] type = "Tauth"    -> << <<"u32", "afid">>, <<"str", "uname">>, <<"str", "aname">> >>
    [] type = "Tattach"  -> << <<"u32", "fid">>, <<"u32", "afid">>,
                               <<"str", "uname">>, <<"str", "aname">> >>
    [] type = "Twalk"    -> << <<"u32", "fid">>, <<"u32", "newfid">>, <<"strs", "wname">> >>
    [] type = "Topen"    -> << <<"u32", "fid">>, <<"u8", "mode">> >>
    [] type = "Tcreate"  -> << <<"u32", "fid">>, <<"str", "name">>, <<"u32", "perm">>, <<"u8", "mode">> >>
    [] type = "Tread"    -> << <<"u32", "fid">>, <<"u64", "offset">>, <<"u32", "count">> >>
    [] type = "Twrite"   -> << <<"u32", "fid">>, <<"u64", "offset">>, <<"data", "data">> >>
    [] type \in {"Tclunk", "Tremove", "Tstat"} -> << <<"u32", "fid">> >>
    [] type = "Twstat"   -> << <<"u32", "fid">>, <<"stat", "stat">> >>

PutR(type) ==
  CASE type = "Rversion" -> << <<"u32", "msize">>, <<"str", "version">> >>
    [] type = "Rerror"   -> << <<"str", "ename">> >>
    [] type = "Rauth"    -> << <<"qid", "aqid">> >>
    [] type = "Rattach"  -> << <<"qid", "qid">> >>
    [] type = "Rwalk"    -> << <<"qids", "wqid">> >>
    [] type \in {"Ropen", "Rcreate"} -> << <<"qid", "qid">>, <<"u32", "iounit">> >>
    [] type = "Rread"    -> << <<"data", "data">> >>
    [] type = "Rwrite"   -> << <<"u32", "count">> >>
    [] type = "Rstat"    -> << <<"stat", "stat">> >>
    [] type \in {"Rflush", "Rclunk", "Rremove", "Rwstat"} -> <<>>

(* and the one of convM2S, which knows no Rauth. *)
GetT(type) ==
  CASE type = "Tversion" -> << <<"u32", "msize">>, <<"str", "version">> >>
    [] type = "Tflush"   -> << <<"u16", "oldtag">> >>
    [] type = "Tauth"    -> << <<"u32", "afid">>, <<"str", "uname">>, <<"str", "aname">> >>
    [] type = "Tattach"  -> << <<"u32", "fid">>, <<"u32", "afid">>,
                               <<"str", "uname">>, <<"str", "aname">> >>
    [] type = "Twalk"    -> << <<"u32", "fid">>, <<"u32", "newfid">>, <<"strs", "wname">> >>
    [] type = "Topen"    -> << <<"u32", "fid">>, <<"u8", "mode">> >>
    [] type = "Tcreate"  -> << <<"u32", "fid">>, <<"str", "name">>, <<"u32", "perm">>, <<"u8", "mode">> >>
    [] type = "Tread"    -> << <<"u32", "fid">>, <<"u64", "offset">>, <<"u32", "count">> >>
    [] type = "Twrite"   -> << <<"u32", "fid">>, <<"u64", "offset">>, <<"data", "data">> >>
    [] type \in {"Tclunk", "Tremove", "Tstat"} -> << <<"u32", "fid">> >>
    [] type = "Twstat"   -> << <<"u32", "fid">>, <<"stat", "stat">> >>

GetR(type) ==
  CASE type = "Rversion" -> << <<"u32", "msize">>, <<"str", "version">> >>
    [] type = "Rerror"   -> << <<"str", "ename">> >>
    [] type = "Rattach"  -> << <<"qid", "qid">> >>
    [] type = "Rwalk"    -> << <<"qids", "wqid">> >>
    [] type \in {"Ropen", "Rcreate"} -> << <<"qid", "qid">>, <<"u32", "iounit">> >>
    [] type = "Rread"    -> << <<"data", "data">> >>
    [] type = "Rwrite"   -> << <<"u32", "count">> >>
    [] type = "Rstat"    -> << <<"stat", "stat">> >>
    [] type \in {"Rflush", "Rclunk", "Rremove", "Rwstat"} -> <<>>
-----------------------------------------------------------------------------
(* convS2M: nothing when the message does not fit or the two switches      *)
(* disagree about its size.                                                *)
NoBytes == <<>>
Header  == BIT32SZ + BIT8SZ + BIT16SZ

IsT(type) == type \in {"Tversion", "Tflush", "Tauth", "Tattach", "Twalk", "Topen", "Tcreate",
                       "Tread", "Twrite", "Tclunk", "Tremove", "Tstat", "Twstat"}

sizeS2M(f) ==
  FoldLeft(LAMBDA n, field : n + SizeOf(f, field[1], field[2]), Header,
           IF IsT(f.type) THEN SizeT(f.type) ELSE SizeR(f.type))

TooManyWalks(f) == \/ f.type = "Twalk" /\ Len(f.wname) > MAXWELEM
                   \/ f.type = "Rwalk" /\ Len(f.wqid) > MAXWELEM

Checked(f, size, nap, ap) == IF size > nap \/ TooManyWalks(f) \/ Len(ap) # size THEN NoBytes ELSE ap
convS2M(f, nap) ==
  LET size == sizeS2M(f)
  IN Checked(f, size, nap,
             FoldLeft(LAMBDA p, field : p \o Put(f, field[1], field[2]),
                      PBIT[size, BIT32SZ] \o <<Code[f.type]>> \o PBIT[f.tag, BIT16SZ],
                      IF IsT(f.type) THEN PutT(f.type) ELSE PutR(f.type)))

-----------------------------------------------------------------------------
(* convM2S: every field is first tested against the end of the buffer.     *)

Short == [ok |-> FALSE, val |-> 0, rest |-> <<>>]
Got(v, rest) == [ok |-> TRUE, val |-> v, rest |-> rest]
From(s, n) == SubSeq(s, n + 1, Len(s))
Upto(s, n) == SubSeq(s, 1, n)

GetNumber(s, n) == IF Len(s) < n THEN Short ELSE Got(GBIT(Upto(s, n)), From(s, n))

(* A count and that many bytes. *)
GetCounted(s, n) ==
  IF Len(s) < n \/ Len(s) < n + GBIT(Upto(s, n)) THEN Short
  ELSE Got(SubSeq(s, n + 1, n + GBIT(Upto(s, n))), From(s, n + GBIT(Upto(s, n))))

gstring(s) == GetCounted(s, BIT16SZ)
gqid(s) ==
  IF Len(s) < QIDSZ THEN Short
  ELSE Got([type |-> s[1], vers |-> GBIT(SubSeq(s, 2, 5)), path |-> GBIT64(SubSeq(s, 6, 13))],
           From(s, QIDSZ))

(* A count and that many names or qids. *)
GetList(s, kind) ==
  LET n == GBIT(Upto(s, BIT16SZ))
      One(got, g) == IF got.ok /\ g.ok THEN Got(Append(got.val, g.val), g.rest) ELSE Short
  IN IF Len(s) < BIT16SZ \/ n > MAXWELEM THEN Short
     ELSE FoldLeft(LAMBDA got, i : One(got, IF kind = "strs" THEN gstring(got.rest) ELSE gqid(got.rest)),
                   Got(<<>>, From(s, BIT16SZ)), [i \in 1..n |-> i])

Get(kind, s) ==
  CASE kind = "u8"   -> IF s = <<>> THEN Short ELSE Got(s[1], Tail(s))
    [] kind = "u16"  -> GetNumber(s, BIT16SZ)
    [] kind = "u32"  -> GetNumber(s, BIT32SZ)
    [] kind = "u64"  -> IF Len(s) < BIT64SZ THEN Short ELSE Got(GBIT64(s), From(s, BIT64SZ))
    [] kind = "qid"  -> gqid(s)
    [] kind = "str"  -> gstring(s)
    [] kind \in {"strs", "qids"} -> GetList(s, kind)
    [] kind = "data" -> GetCounted(s, BIT32SZ)
    [] kind = "stat" -> GetCounted(s, BIT16SZ)

Knows(code) == \E type \in DOMAIN Code \ {"Rauth"} : Code[type] = code
TypeOf(code) == CHOOSE type \in DOMAIN Code : Code[type] = code

WholeEnough(ap, taken) == taken.ok
Whole(ap, taken) == taken.ok /\ Len(ap) - Len(taken.rest) = GBIT(Upto(ap, BIT32SZ))

Accepted(ap, taken) == IF Whole(ap, taken) THEN taken.val ELSE NoBytes
Field(got, name, g) == IF got.ok /\ g.ok THEN Got(got.val @@ (name :> g.val), g.rest) ELSE Short

(* The message in the buffer ap, or nothing. *)
convM2S(ap) ==
  IF \/ Len(ap) < Header
     \/ GBIT(Upto(ap, BIT32SZ)) > Len(ap) \/ GBIT(Upto(ap, BIT32SZ)) < Header
     \/ ~Knows(ap[BIT32SZ + 1])
  THEN NoBytes
  ELSE LET type == TypeOf(ap[BIT32SZ + 1])
           start == [type |-> type, tag |-> GBIT(SubSeq(ap, 6, 7))]
       IN Accepted(ap, FoldLeft(LAMBDA got, field : Field(got, field[2], Get(field[1], got.rest)),
                                Got(start, From(ap, Header)),
                                IF IsT(type) THEN GetT(type) ELSE GetR(type)))

-----------------------------------------------------------------------------
(* A directory entry: convD2M, convM2D and what stat2dir puts into one. *)

DirNumbers == << <<"type", BIT16SZ>>, <<"dev", BIT32SZ>>, <<"qtype", BIT8SZ>>, <<"qvers", BIT32SZ>>,
                 <<"qpath", BIT64SZ>>, <<"mode", BIT32SZ>>, <<"atime", BIT32SZ>>,
                 <<"mtime", BIT32SZ>>, <<"length", BIT64SZ>> >>
DirStrings == <<"name", "uid", "gid", "muid">>

sizeD2M(d) == STATFIXLEN + FoldLeft(LAMBDA n, s : n + Len(d[s]), 0, DirStrings)

(* Where it does not fit, only the count that says how much is needed. *)
convD2M(d, nbuf) ==
  LET count == PBIT[sizeD2M(d) - BIT16SZ, BIT16SZ]
  IN CASE nbuf < BIT16SZ                          -> NoBytes
       [] nbuf >= BIT16SZ /\ sizeD2M(d) > nbuf    -> count
       [] nbuf >= BIT16SZ /\ sizeD2M(d) <= nbuf   ->
            FoldLeft(LAMBDA p, s : p \o pstring(d[s]),
              FoldLeft(LAMBDA p, n : p \o PBIT[d[n[1]], n[2]], count, DirNumbers),
              DirStrings)

(* The count in front is ignored. *)
convM2D(buf) ==
  LET numbers == FoldLeft(LAMBDA got, n :
                    Got(got.val @@ (n[1] :> IF n[2] = BIT64SZ THEN GBIT64(got.rest)
                                            ELSE GBIT(Upto(got.rest, n[2]))),
                        From(got.rest, n[2])),
                  Got(<<>>, From(buf, BIT16SZ)), DirNumbers)
  IN FoldLeft(LAMBDA got, s : Field(got, s, gstring(got.rest)), numbers, DirStrings)

statcheck(buf) ==
  LET strings == FoldLeft(LAMBDA got, s :
                    LET g == gstring(got.rest) IN IF got.ok /\ g.ok THEN g ELSE Short,
                  Got(0, From(buf, STATFIXLEN - 4 * BIT16SZ)), DirStrings)
  IN strings.ok /\ strings.rest = <<>>

DMDIR == (NOFID + 1) \div 2
Perm  == 54                                 \* rw for all
ThreeQ == <<63, 63, 63>>
stat2dir(name, length, isdir) ==
  [type |-> 0, dev |-> 0, qtype |-> IF isdir THEN 4 ELSE 0, qvers |-> 1, qpath |-> 2,
   mode |-> IF isdir THEN DMDIR + Perm ELSE Perm, atime |-> 1, mtime |-> 1, length |-> length,
   name |-> Spelling[name], uid |-> ThreeQ, gid |-> ThreeQ, muid |-> <<>>]
-----------------------------------------------------------------------------
(* The Fcall of a request or reply of the conversation.  What a qid says   *)
(* of its file is not modelled.                                            *)

SomeQid == [type |-> 0, vers |-> 1, path |-> 2]
OTRUNC == 16
ORCLOSE == 64
ModeByte(m) == (CASE m.mode = "read" -> 0 [] m.mode = "write" -> 1 [] m.mode = "rdwr" -> 2
                  [] m.mode = "exec" -> 3)
               + (IF m.trunc THEN OTRUNC ELSE 0) + (IF m.rclose THEN ORCLOSE ELSE 0)

(* A Twstat leaves alone what is all ones or empty. *)
DontTouch == -1
WstatDir(m) ==
  [type |-> DontTouch, dev |-> DontTouch, qtype |-> Radix - 1, qvers |-> DontTouch,
   qpath |-> DontTouch, mode |-> DontTouch, atime |-> DontTouch, mtime |-> DontTouch,
   length |-> IF m.length = Absent THEN DontTouch ELSE m.length,
   name |-> IF m.name = Absent THEN <<>> ELSE Spelling[m.name],
   uid |-> <<>>, gid |-> <<>>, muid |-> <<>>]

Entries(names) == FoldLeft(LAMBDA p, n : p \o convD2M(stat2dir(n, 0, FALSE), NOFID), <<>>, names)

Body(m) ==
  CASE m.type \in {"Tversion", "Rversion"} -> [msize |-> m.msize, version |-> VERSION9P]
    [] m.type = "Tauth"   -> [afid |-> NOFID, uname |-> ThreeQ, aname |-> <<>>]
    [] m.type = "Tflush"  -> [oldtag |-> NOTAG]
    [] m.type = "Tattach" -> [fid |-> FidNo[m.fid], afid |-> NOFID, uname |-> ThreeQ, aname |-> <<>>]
    [] m.type = "Twalk"   -> [fid |-> FidNo[m.fid], newfid |-> FidNo[m.newfid],
                              wname |-> [i \in DOMAIN m.wname |-> Spelling[m.wname[i]]]]
    [] m.type = "Topen"   -> [fid |-> FidNo[m.fid], mode |-> ModeByte(m)]
    [] m.type = "Tcreate" -> [fid |-> FidNo[m.fid], name |-> Spelling[m.name], mode |-> ModeByte(m),
                              perm |-> IF m.isdir THEN DMDIR + Perm ELSE Perm]
    [] m.type = "Tread"   -> [fid |-> FidNo[m.fid], offset |-> m.offset, count |-> m.count]
    [] m.type = "Twrite"  -> [fid |-> FidNo[m.fid], offset |-> m.offset, data |-> m.data]
    [] m.type = "Twstat"  -> [fid |-> FidNo[m.fid], stat |-> convD2M(WstatDir(m), NOFID)]
    [] m.type \in {"Tclunk", "Tremove", "Tstat"} -> [fid |-> FidNo[m.fid]]
    [] m.type = "Rattach" -> [qid |-> SomeQid]
    [] m.type = "Rwalk"   -> [wqid |-> [i \in 1..m.nwqid |-> SomeQid]]
    [] m.type \in {"Ropen", "Rcreate"} -> [qid |-> SomeQid, iounit |-> 0]
    [] m.type = "Rread"   -> [data |-> IF "names" \in DOMAIN m THEN Entries(m.names) ELSE m.data]
    [] m.type = "Rwrite"  -> [count |-> m.count]
    [] m.type = "Rstat"   -> [stat |-> convD2M(stat2dir("..", m.length, m.kind = "dir"), NOFID)]
    [] m.type = "Rerror"  -> [ename |-> ThreeQ]
    [] m.type \in {"Rflush", "Rclunk", "Rremove", "Rwstat"} -> <<>>

FcallOf(m) == [type |-> m.type, tag |-> NOTAG] @@ Body(m)

-----------------------------------------------------------------------------
(* The program's library: the bytes of its requests, put down one by one,  *)
(* the size last, and the places where it looks in a reply.                *)

doPut(x, n) == PBIT[x, n]
doPutStr(s) == doPut(Len(s), 2) \o s
FETCH(s, at, n) == GBIT(SubSeq(s, at + 1, at + n))

t_code == [Tversion |-> 100, Rversion |-> 101, Tattach |-> 104, Rattach |-> 105,
           Twalk |-> 110, Rwalk |-> 111, Topen |-> 112, Ropen |-> 113, Tcreate |-> 114,
           Rcreate |-> 115, Tread |-> 116, Rread |-> 117, Twrite |-> 118, Rwrite |-> 119,
           Tclunk |-> 120, Rclunk |-> 121]

fs_initBytes(m) ==
  IF m.type = "Tversion" THEN doPut(m.msize, 4) \o doPutStr(VERSION9P)
  ELSE doPut(FidNo[m.fid], 4) \o doPut(NOFID, 4) \o doPutStr(ThreeQ) \o doPutStr(<<>>)
do_fs_walkBytes(m) ==
  doPut(FidNo[m.fid], 4) \o doPut(FidNo[m.newfid], 4) \o
  (IF m.wname = <<>> THEN doPut(0, 2) ELSE doPut(1, 2) \o doPutStr(Spelling[Head(m.wname)]))
fs_openBytes(m)   == doPut(FidNo[m.fid], 4) \o <<ModeByte(m)>>
fs_createBytes(m) == doPut(FidNo[m.fid], 4) \o doPutStr(Spelling[m.name])
                       \o doPut(Perm, 4) \o <<OTRUNC + 1>>
fs_closeBytes(m)  == doPut(FidNo[m.fid], 4)
OffsetSwapped(o) == doPut(o \div (NOFID + 1), 4) \o doPut(o % (NOFID + 1), 4)
Offset(o) == doPut(o % (NOFID + 1), 4) \o doPut(o \div (NOFID + 1), 4)
fs_readBytes(m)   == doPut(FidNo[m.fid], 4) \o Offset(m.offset) \o doPut(m.count, 4)
fs_writeBytes(m)  == doPut(FidNo[m.fid], 4) \o Offset(m.offset) \o doPut(Len(m.data), 4) \o m.data

ClientBytes(m) ==
  LET body == doPut(NOTAG, 2) \o
        CASE m.type \in {"Tversion", "Tattach"} -> fs_initBytes(m)
          [] m.type = "Twalk"   -> do_fs_walkBytes(m)
          [] m.type = "Topen"   -> fs_openBytes(m)
          [] m.type = "Tcreate" -> fs_createBytes(m)
          [] m.type = "Tclunk"  -> fs_closeBytes(m)
          [] m.type = "Tread"   -> fs_readBytes(m)
          [] m.type = "Twrite"  -> fs_writeBytes(m)
  IN doPut(5 + Len(body), 4) \o <<t_code[m.type]>> \o body

(* What it makes of a reply of the type it waits for; others are failures. *)
ClientSees(ap, wanted) ==
  CASE ap[5] # t_code[wanted] -> "failure"
    [] ap[5] = t_code[wanted] /\ wanted = "Rversion" ->
         IF FETCH(ap, 11, 2) = Len(VERSION9P) /\ SubSeq(ap, 14, 13 + Len(VERSION9P)) = VERSION9P
         THEN FETCH(ap, 7, 4) ELSE "failure"
    [] ap[5] = t_code[wanted] /\ wanted = "Rread" -> SubSeq(ap, 12, 11 + FETCH(ap, 7, 4))
    [] ap[5] = t_code[wanted] /\ wanted = "Rwrite" -> FETCH(ap, 7, 4)
    [] OTHER -> "ok"
-----------------------------------------------------------------------------
(* What the properties say of a message m: its bytes read back as m;       *)
(* (convM2S takes no Rauth, which the server never sends)                  *)
ReadsBack(m) == convM2S(convS2M(FcallOf(m), NOFID)) = FcallOf(m)

(* no other number of bytes passes for it, whether the size in front is    *)
(* the old one or the new; nor does it fit a smaller buffer.               *)
Sized(bytes) == PBIT[Len(bytes), BIT32SZ] \o From(bytes, BIT32SZ)
Near(ap) ==
  {Upto(ap, n) : n \in 0..Len(ap) - 1} \cup {Sized(Upto(ap, n)) : n \in BIT32SZ..Len(ap) - 1}
    \cup {Sized(Append(ap, 0))}
OnlyWhole(m) ==
  \A ap \in {convS2M(FcallOf(m), NOFID)} :
    /\ \A other \in Near(ap) : convM2S(other) = NoBytes
    /\ convS2M(FcallOf(m), Len(ap) - 1) = NoBytes

(* Directory entries put one after the other are found again; one that     *)
(* does not fit leaves its size, and a Twstat carries name and length.     *)
EntryReadsBack(name) ==
  LET d == stat2dir(name, 2, FALSE)
  IN \A buf \in {convD2M(d, NOFID)} :
       /\ statcheck(buf)
       /\ convM2D(buf) = Got(d, <<>>)
       /\ convD2M(d, Len(buf)) = buf
       /\ BIT16SZ + GBIT(convD2M(d, Len(buf) - 1)) = Len(buf)
WstatReadsBack(m) ==
  \A d \in {convM2D(convM2S(convS2M(FcallOf(m), NOFID)).stat).val} :
    /\ d.name = IF m.name = Absent THEN <<>> ELSE Spelling[m.name]
    /\ d.length = IF m.length = Absent THEN DontTouch ELSE m.length
=============================================================================
