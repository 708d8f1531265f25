------------------------------ MODULE FileSpec ------------------------------
(***************************************************************************)
(* What the file calls promise a program, without fids, requests or        *)
(* message sizes: each open file is a place (off) in one file of the host, *)
(* a read delivers what is at that place and moves on, a write puts there  *)
(* the next of the bytes it was given and moves on.  Both may end early.   *)
(* The files are known by what they are, not by name, and nobody else      *)
(* writes to them.                                                         *)
(***************************************************************************)
EXTENDS ByteSeq

CONSTANTS
  Handles, FileIds, Bytes, NoFile,
  MaxLen  \* bound on the bytes of one step and on places

VARIABLES
  content,   \* of each file
  handle,    \* where each handle is, or NoFile
  delivered, \* what the last call has delivered so far
  given      \* what the call under way has still to write

At(f, i, o) == handle' = [handle EXCEPT ![f] = [file |-> i, off |-> o]]

Init ==
  /\ content \in [FileIds -> Seq(Bytes)]
  /\ handle = [f \in Handles |-> NoFile]
  /\ delivered = <<>> /\ given = <<>>

Open(f, i, trunc) ==
  /\ handle[f] = NoFile
  /\ At(f, i, 0)
  /\ content' = IF trunc THEN [content EXCEPT ![i] = <<>>] ELSE content
  /\ UNCHANGED <<delivered, given>>

(* A file just created is empty; fs_create leaves the place as it was. *)
Create(f, i, o) ==
  /\ handle[f] = NoFile
  /\ content[i] = <<>>
  /\ At(f, i, o)
  /\ UNCHANGED <<content, delivered, given>>

Close(f) ==
  /\ handle[f] # NoFile
  /\ handle' = [handle EXCEPT ![f] = NoFile]
  /\ UNCHANGED <<content, delivered, given>>

NewCall == delivered' = <<>> /\ given' \in Seq(Bytes) /\ UNCHANGED <<content, handle>>

(* The call fails with the rest unwritten. *)
GiveUp == given # <<>> /\ given' = <<>> /\ UNCHANGED <<content, handle, delivered>>

Get(f, n) ==
  /\ handle[f] # NoFile
  /\ LET bytes == Slice(content[handle[f].file], handle[f].off, n)
     IN /\ Len(bytes) = n
        /\ delivered' = delivered \o bytes
        /\ At(f, handle[f].file, handle[f].off + n)
  /\ UNCHANGED <<content, given>>

Put(f, n) ==
  /\ handle[f] # NoFile
  /\ n <= Len(given)
  /\ LET h == handle[f]
     IN /\ content' = [content EXCEPT ![h.file] = Overlay(@, h.off, SubSeq(given, 1, n))]
        /\ At(f, h.file, h.off + n)
  /\ given' = SubSeq(given, n + 1, Len(given))
  /\ UNCHANGED delivered

Next ==
  \/ NewCall \/ GiveUp
  \/ \E f \in Handles :
       \/ Close(f)
       \/ \E i \in FileIds :
            (\E trunc \in BOOLEAN : Open(f, i, trunc)) \/ (\E o \in 0..MaxLen : Create(f, i, o))
       \/ \E n \in 1..MaxLen : Get(f, n) \/ Put(f, n)

Spec == Init /\ [][Next]_<<content, handle, delivered, given>>
=============================================================================
