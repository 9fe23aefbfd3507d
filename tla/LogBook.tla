------------------------------- MODULE LogBook -------------------------------
(***************************************************************************)
(* What the execution log promises its writers: a sequence of entries to   *)
(* which calls append atomically.  A fault while an entry is written may   *)
(* lose the whole book, and nothing but the whole of it.                   *)
(***************************************************************************)
EXTENDS Sequences

CONSTANT Entry

VARIABLE book

Init == book = <<>>

AppendEntry == \E e \in Entry : book' = Append(book, e)

LoseAll == book' = <<>>

Next == AppendEntry \/ LoseAll

Spec == Init /\ [][Next]_book
=============================================================================
