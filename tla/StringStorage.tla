--------------------------- MODULE StringStorage ----------------------------
(***************************************************************************)
(* CapString of Cap.Containers (string.rs): text inside the value up to    *)
(* SSO_CAP bytes, in a block of an allocator beyond it.  Every growth of   *)
(* the block is exact, and copies.  Memory is modelled by its bytes: a     *)
(* reallocation gives another block that starts with the old bytes.        *)
(***************************************************************************)
EXTENDS Naturals, Sequences, Functions

CONSTANTS Pieces,     \* the strings that are pushed
          SsoCap,     \* SSO_CAP, 24 in the code
          Longest     \* bound on the length of the text

StringAssumption ==
  /\ \A s \in Pieces : s \in Seq(Range(s))
  /\ SsoCap \in Nat /\ Longest \in Nat

VARIABLES
  repr,     \* "inline" or "heap"
  bytes,    \* the memory of the text: the buffer or the block
  len,
  text,     \* history: what was pushed since clear
  blocks    \* history: blocks of this string that the allocator counts as used

vars == <<repr, bytes, len, text, blocks>>

Garbage(n) == [i \in 1..n |-> "?"]

Init ==
  /\ \/ repr = "inline" /\ bytes = Garbage(SsoCap) /\ blocks = 0
     \/ repr = "heap" /\ bytes = Garbage(SsoCap + 1) /\ blocks = 1
  /\ len = 0 /\ text = <<>>

\* s copied to position at of memory m.
Copy(m, at, s) ==
  [i \in DOMAIN m |-> IF i \in (at + 1)..(at + Len(s)) THEN s[i - at] ELSE m[i]]

Text == SubSeq(bytes, 1, len)

PushInline(s) ==
  /\ repr = "inline" /\ len + Len(s) <= SsoCap
  /\ bytes' = Copy(bytes, len, s)
  /\ UNCHANGED <<repr, blocks>>

\* Mutant: only the new piece is copied to the block.
SpillForgetful(s) ==
  /\ repr = "inline" /\ len + Len(s) > SsoCap
  /\ repr' = "heap" /\ blocks' = blocks + 1
  /\ bytes' = Copy(Garbage(len + Len(s)), len, s)

Spill(s) ==
  /\ repr = "inline" /\ len + Len(s) > SsoCap
  /\ repr' = "heap" /\ blocks' = blocks + 1
  /\ bytes' = Copy(Copy(Garbage(len + Len(s)), 0, Text), len, s)

\* realloc frees the block it replaces.
PushHeap(s) ==
  /\ repr = "heap"
  /\ LET room == IF len + Len(s) > Len(bytes)
                 THEN Copy(Garbage(len + Len(s)), 0, bytes) ELSE bytes
     IN bytes' = Copy(room, len, s)
  /\ UNCHANGED <<repr, blocks>>

\* A call whose allocation fails changes nothing.
PushStr(s) ==
  /\ Len(text) + Len(s) <= Longest
  /\ PushInline(s) \/ Spill(s) \/ PushHeap(s)
  /\ len' = len + Len(s)
  /\ text' = text \o s

\* The capacity stays.
Clear ==
  /\ len' = 0 /\ text' = <<>>
  /\ UNCHANGED <<repr, bytes, blocks>>

Next == Clear \/ \E s \in Pieces : PushStr(s)

Spec == Init /\ [][Next]_vars

\* Through the move from the inline buffer to a block, growth, and clear before
\* or after either, the text reads as what was pushed, and the string owns one
\* block exactly when it is not inline.
TextIsWhatWasPushed ==
  /\ Text = text
  /\ len <= Len(bytes)
  /\ blocks = IF repr = "heap" THEN 1 ELSE 0
=============================================================================
