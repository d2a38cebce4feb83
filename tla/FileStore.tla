----------------------------- MODULE FileStore -----------------------------
(***************************************************************************)
(* What the root file system promises: objects that live at paths.  Every  *)
(* object gets a number that was never used before, the object at a path   *)
(* can be removed, and with a directory everything below it leaves the     *)
(* name space.  Writes overwrite or extend a file and leave no hole.       *)
(***************************************************************************)
EXTENDS Naturals, Sequences, SequencesExt

CONSTANTS Bytes, MaxWrite

VARIABLES place,     \* the path of each object that has one
          objects,   \* type and data of each object
          born       \* the number of the next object

vars == <<place, objects, born>>

Extend(f, x, value) == [y \in DOMAIN f \union {x} |-> IF y = x THEN value ELSE f[y]]

Without(f, S) == [x \in DOMAIN f \ S |-> f[x]]

IsDirectory(at, path) ==
  \E i \in DOMAIN at : at[i] = path /\ objects[i].type = "Directory"

(***************************************************************************)
(* at is place: bound variables make TLC evaluate it once per step.        *)
(***************************************************************************)
Create(at, path, type) ==
  /\ \A i \in DOMAIN at : at[i] # path
  /\ path # <<>> /\ IsDirectory(at, Front(path))
  /\ place' = Extend(at, born, path)
  /\ objects' = Extend(objects, born, [type |-> type, data |-> <<>>])
  /\ born' = born + 1

Unlink(at, i) ==
  /\ at[i] # <<>>
  /\ place' = Without(at, {j \in DOMAIN at : IsPrefix(at[i], at[j])})
  /\ objects' = Without(objects, {i})
  /\ UNCHANGED born

Overwrite(old, offset, bytes) ==
  SubSeq(old, 1, offset) \o bytes \o SubSeq(old, offset + Len(bytes) + 1, Len(old))

Write(i, offset, bytes) ==
  /\ objects[i].type = "Regular"
  /\ objects' = [objects EXCEPT ![i].data = Overwrite(@, offset, bytes)]
  /\ UNCHANGED <<place, born>>

Buffers == UNION {[1..n -> Bytes] : n \in 1..MaxWrite}

Next ==
  \/ /\ born' = born + 1
     /\ \E at \in {place}, path \in {place'[born]}, type \in {"Regular", "Directory"} :
          Create(at, path, type)
  \/ /\ born' = born
     /\ \E i \in DOMAIN objects \ DOMAIN objects' : \E at \in {place} : i \in DOMAIN at /\ Unlink(at, i)
  \/ /\ born' = born
     /\ \E i \in DOMAIN objects, bytes \in Buffers :
          \E offset \in 0 .. Len(objects[i].data) : Write(i, offset, bytes)

Init ==
  /\ DOMAIN place = DOMAIN objects
  /\ \A i, j \in DOMAIN place : place[i] = place[j] => i = j
  /\ \A i \in DOMAIN place : i < born /\ (place[i] = <<>> \/ IsDirectory(place, Front(place[i])))

Spec == Init /\ [][Next]_vars

=============================================================================
