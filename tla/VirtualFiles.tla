----------------------------- MODULE VirtualFiles -----------------------------
(* Vfs (src/Foundation/Sys/VFS/API/lib.rs): aliases mounted on directories, and*)
(* paths "alias:rest" resolved through them. Mounting an alias again is        *)
(* accepted, and the first mount keeps answering. An alias is modelled by its  *)
(* length and a letter, a path by the place of its colon.                      *)
EXTENDS Naturals, Sequences

CONSTANTS
  VfsCap,    \* with_capacity
  Aliases,   \* records [len, name]
  Roots      \* directories

VARIABLES
  entries,   \* the mounted entries, in order
  reply,     \* the result of the last call
  mounts     \* for each alias the root of its first mount that succeeded

vfsvars == <<entries, reply, mounts>>
NotMounted == "not mounted"
FilesAssumption == NotMounted \notin Roots
Longest == 16

Init == entries = <<>> /\ reply = "none" /\ mounts = [a \in Aliases |-> NotMounted]

(* Full, a bad alias, or no memory for the root: nothing changes.              *)
Mount(a, root) ==
  /\ Len(entries) < VfsCap /\ a.len \in 1 .. Longest
  /\ entries' = Append(entries, [alias |-> a, root |-> root])
  /\ mounts' = [mounts EXCEPT ![a] = IF @ = NotMounted THEN root ELSE @]
  /\ reply' = "ok"
MountFails(a) ==
  /\ reply' = "failed"
  /\ UNCHANGED <<entries, mounts>>

\* Mutant: the last mount of the alias is found.
FindAliasBackwards(a) ==
  LET at == {i \in 1 .. Len(entries) : entries[i].alias = a}
  IN  IF at = {} THEN 0 ELSE CHOOSE i \in at : \A j \in at : j <= i

FindAlias(a) ==
  LET at == {i \in 1 .. Len(entries) : entries[i].alias = a}
  IN  IF at = {} THEN 0 ELSE CHOOSE i \in at : \A j \in at : i <= j

(* A path without a colon, or that starts with one, is refused before it is    *)
(* looked up; one too long for the buffer is refused after.                    *)
Resolve(a) ==
  /\ reply' \in (IF a.len = 0 THEN {"failed"}
                 ELSE IF FindAlias(a) = 0 THEN {NotMounted}
                 ELSE {entries[FindAlias(a)].root, "too small"})
  /\ UNCHANGED <<entries, mounts>>
(* open_read resolves into 1024 bytes; every error becomes the same.           *)
OpenRead(a) ==
  /\ reply' \in IF a.len = 0 \/ FindAlias(a) = 0 THEN {"failed"}
                ELSE {entries[FindAlias(a)].root, "failed"}
  /\ UNCHANGED <<entries, mounts>>

Next == \E a \in Aliases : \/ \E r \in Roots : Mount(a, r)
                           \/ MountFails(a) \/ Resolve(a) \/ OpenRead(a)
Spec == Init /\ [][Next]_vfsvars
-----------------------------------------------------------------------------
(* An alias leads to the directory of its first mount, and keeps leading there *)
(* whatever is mounted after: a path opened once cannot come to name another   *)
(* file.                                                                       *)
FirstMountAnswers ==
  \A a \in Aliases :
    IF FindAlias(a) = 0 THEN mounts[a] = NotMounted
    ELSE entries[FindAlias(a)].root = mounts[a]
=============================================================================
