------------------------------- MODULE MCJobs -------------------------------
EXTENDS Jobs, TLC

ThreeDays == 1..3

Daily == [starts |-> 1, ends |-> 3, interval |-> 1, most |-> 0]

(* Daily, once only, and from the second day on. *)
SomeSchedules ==
  {Daily, [Daily EXCEPT !.starts = 2, !.interval = 2, !.most = 1]}

Symmetric == Permutations(Workers) \union Permutations(Contributions)

=============================================================================
