------------------------------ MODULE LinkOps ------------------------------
(***************************************************************************)
(* The CPU-GPU link of sim/event_sim.py (class C2CLink), as operators on a *)
(* value [busy, q, flying]: the flag and the queue of the object, and the  *)
(* jobs whose end of transfer (_fin) is an event that the loop still has   *)
(* to fire.  A job stands for the pair (nbytes, done) of the code; what    *)
(* `done` does is left to the module that uses the link.                   *)
(***************************************************************************)
EXTENDS Integers, Sequences

(* The values a link can take.                                             *)
Links(J) == [busy : BOOLEAN, q : Seq(J), flying : SUBSET J]

IdleLink == [busy |-> FALSE, q |-> <<>>, flying |-> {}]

(* Mutants of NextTransfer: the flag is not reset when the queue runs      *)
(* empty, the newest job is taken, and a slice is taken for a job.         *)
NextTransferStaysBusy(l) ==
  IF l.q = <<>> THEN l
  ELSE [busy |-> TRUE, q |-> Tail(l.q), flying |-> l.flying \cup {Head(l.q)}]

NextTransferLifo(l) ==
  IF l.q = <<>> THEN [l EXCEPT !.busy = FALSE]
  ELSE [busy |-> TRUE, q |-> SubSeq(l.q, 1, Len(l.q) - 1),
        flying |-> l.flying \cup {l.q[Len(l.q)]}]

NextTransferSlice(l) ==
  IF l.q = <<>> THEN [l EXCEPT !.busy = FALSE]
  ELSE [busy |-> TRUE, q |-> Tail(l.q), flying |-> l.flying \cup {<<Head(l.q)>>}]

(* _next: take the oldest job, or fall idle.                               *)
NextTransfer(l) ==
  IF l.q = <<>> THEN [l EXCEPT !.busy = FALSE]
  ELSE [busy |-> TRUE, q |-> Tail(l.q), flying |-> l.flying \cup {Head(l.q)}]

(* Mutant of Transfer: a busy link starts the job too.                     *)
TransferAnyway(l, job) == NextTransfer([l EXCEPT !.q = Append(@, job)])

(* transfer: queue the job; an idle link starts it at once.                *)
Transfer(l, job) ==
  LET queued == [l EXCEPT !.q = Append(@, job)]
  IN  IF l.busy THEN queued ELSE NextTransfer(queued)

(* _fin, once its callback has run: the job is gone, the next one starts.  *)
Fin(l, job) == NextTransfer([l EXCEPT !.flying = @ \ {job}])

=============================================================================
