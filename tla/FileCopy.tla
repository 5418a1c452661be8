------------------------------ MODULE FileCopy ------------------------------
(***************************************************************************)
(* What copying one regular file promises to the operation that asked for  *)
(* it (FileOperationsWorker::ExecuteCopyJob up to the rename): the         *)
(* temporary file only ever grows by the next bytes of the source, and the *)
(* copy ends exactly once.  It ends "copied" only when the temporary file  *)
(* holds the whole source, and "canceled" only when somebody asked for it. *)
(*                                                                         *)
(* A byte of the source is named by its offset, 1 .. FileSize.             *)
(***************************************************************************)
EXTENDS Naturals, Sequences

CONSTANT FileSize    \* bytes in the source file

VARIABLES out,       \* the temporary file: a sequence of source offsets
          asked,     \* a cancellation was requested
          result     \* "running" until the copy ends

vars == <<out, asked, result>>

FirstBytes(n) == [i \in 1..n |-> i]

Init == /\ out = <<>>
        /\ asked = FALSE
        /\ result = "running"

Extend == /\ result = "running"
          /\ \E n \in (Len(out) + 1)..FileSize : out' = FirstBytes(n)
          /\ UNCHANGED <<asked, result>>

Ask == /\ asked' = TRUE
       /\ UNCHANGED <<out, result>>

Succeed == /\ result = "running"
           /\ out = FirstBytes(FileSize)
           /\ ~asked
           /\ result' = "copied"
           /\ UNCHANGED <<out, asked>>

Abort == /\ result = "running"
         /\ asked
         /\ result' = "canceled"
         /\ UNCHANGED <<out, asked>>

Break == /\ result = "running"
         /\ ~asked
         /\ result' = "failed"
         /\ UNCHANGED <<out, asked>>

Next == Extend \/ Ask \/ Succeed \/ Abort \/ Break

Spec == Init /\ [][Next]_vars
=============================================================================
