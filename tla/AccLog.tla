------------------------------- MODULE AccLog -------------------------------
(***************************************************************************)
(* What the accumulator promises: it holds a sequence of elements, no      *)
(* element twice, which changes only at its end: an update appends at most *)
(* E elements or cuts off at most E.                                       *)
(***************************************************************************)
EXTENDS Integers, SequencesExt

CONSTANT E
VARIABLE log

LogInit == log = <<>>

Extend ==
  /\ IsStrictPrefix(log, log')
  /\ Len(log') - Len(log) \in 1..E
  /\ IsInjective(log')

Cut ==
  /\ IsStrictPrefix(log', log)
  /\ Len(log) - Len(log') \in 1..E

LogSpec == LogInit /\ [][Extend \/ Cut]_log
=============================================================================
