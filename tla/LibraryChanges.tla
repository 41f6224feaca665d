--------------------------- MODULE LibraryChanges ---------------------------
(***************************************************************************)
(* What a reader of the libraries may rely on: "A failed replacement must  *)
(* not destroy the last usable published version". A library goes through  *)
(* one change at a time, taken in one step: a package is added or taken    *)
(* out, a saved list is brought back, or the list of another library is    *)
(* copied in. A change stands, or is undone; nothing else alters a list.   *)
(***************************************************************************)
CONSTANTS Libraries, Packages

VARIABLES
  list,    \* the packages each library lists
  saved,   \* the lists that were backed up
  open,    \* the libraries whose last change may still be undone
  back     \* what the undo of an open change will bring back

vars == <<list, saved, open, back>>

Init ==
  /\ list = [r \in Libraries |-> {}]
  /\ saved = {}
  /\ open = {}
  /\ back = [r \in Libraries |-> {}]

Save(r) ==
  /\ saved' = saved \cup {list[r]}
  /\ UNCHANGED <<list, open, back>>

(* A change begins when no other is open, and says how it is undone.       *)
Change(r, new, undone) ==
  /\ r \notin open
  /\ list' = [list EXCEPT ![r] = new]
  /\ open' = open \cup {r}
  /\ back' = [back EXCEPT ![r] = undone]
  /\ UNCHANGED saved

(* An edit is undone by a list that was backed up before.                  *)
Edit(r, p) ==
  \E undone \in saved :
    Change(r, list[r] \cup {p}, undone) \/ Change(r, list[r] \ {p}, undone)

(* A restored or a copied library is discarded if it is spoilt; a copy is  *)
(* of a library in which no change is open, to one that lists nothing.     *)
BringBack(r) == \E old \in saved : Change(r, old, {})

Copy(from, r) ==
  /\ from \notin open /\ list[r] = {}
  /\ Change(r, list[from], {})

Close(r) == open' = open \ {r} /\ back' = [back EXCEPT ![r] = {}] /\ UNCHANGED saved

Settle(r) == r \in open /\ Close(r) /\ UNCHANGED list
Undo(r)   == r \in open /\ Close(r) /\ list' = [list EXCEPT ![r] = back[r]]

Next ==
  \E r \in Libraries :
    \/ Save(r) \/ Settle(r) \/ Undo(r) \/ BringBack(r)
    \/ \E p \in Packages : Edit(r, p)
    \/ \E from \in Libraries : Copy(from, r)

Spec == Init /\ [][Next]_vars
=============================================================================
