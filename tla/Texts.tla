------------------------------- MODULE Texts -------------------------------
(***************************************************************************)
(* Texts put together from parts.  Joined and Reversed are FlattenSeq and   *)
(* Reverse of SequencesExt; they stand here because that module brings in   *)
(* Bags, with which every proof step of the console takes three times as    *)
(* long.                                                                    *)
(***************************************************************************)
EXTENDS Integers, Sequences, FiniteSetsExt

Joined(parts) ==
  LET upTo[x \in 0 .. Len(parts)] == IF x = 0 THEN <<>> ELSE upTo[x - 1] \o parts[x]
  IN  upTo[Len(parts)]

Reversed(s) == [x \in 1 .. Len(s) |-> s[(Len(s) - x) + 1]]
============================================================================
