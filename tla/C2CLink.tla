------------------------------ MODULE C2CLink ------------------------------
(***************************************************************************)
(* The link of sim/event_sim.py with the jobs it carries: loads of old KV  *)
(* to the GPU and flushes of new KV to the CPU.  Each job is submitted     *)
(* once, at any time, and ends when the loop fires its _fin.               *)
(***************************************************************************)
EXTENDS LinkOps

CONSTANT Jobs

VARIABLES link,      \* the object's own state, with its pending _fin event
          submitted, \* the jobs given to transfer, in order (history)
          ended      \* the jobs whose callback ran, in order (history)
vars == <<link, submitted, ended>>

Init == link = IdleLink /\ submitted = <<>> /\ ended = <<>>

Submit(job) ==
  /\ \A i \in 1..Len(submitted) : submitted[i] # job
  /\ link' = Transfer(link, job)
  /\ submitted' = Append(submitted, job)
  /\ UNCHANGED ended

End(job) ==
  /\ job \in link.flying
  /\ link' = Fin(link, job)
  /\ ended' = Append(ended, job)
  /\ UNCHANGED submitted

Next == \E job \in Jobs : Submit(job) \/ End(job)

(* The loop runs until its heap is empty, so a pending _fin is fired.      *)
Spec == Init /\ [][Next]_vars /\ WF_vars(\E job \in Jobs : End(job))

-----------------------------------------------------------------------------
(* Type invariant.                                                         *)
TypeOK ==
  /\ link \in Links(Jobs)
  /\ submitted \in Seq(Jobs) /\ ended \in Seq(Jobs)

(* The link is a single server: the flag tells exactly whether a transfer  *)
(* is under way, and there is never a second one.                          *)
SingleServer ==
  IF link.busy THEN \E job \in Jobs : link.flying = {job} ELSE link.flying = {}

(* No lost wake-up: an idle link has nothing to do.                        *)
IdleMeansEmpty == ~link.busy => link.q = <<>>

(* The link is FIFO and loses nothing: the jobs submitted are those that   *)
(* ended, then the one under way, then those that wait, in this order.     *)
FifoDelivery ==
  \/ link.flying = {} /\ submitted = ended \o link.q
  \/ \E job \in Jobs : /\ link.flying = {job}
                       /\ submitted = ended \o (<<job>> \o link.q)

(* Every job that is submitted ends.                                       *)
Delivered ==
  \A job \in Jobs : (\E i \in 1..Len(submitted) : submitted[i] = job)
                      ~> (\E i \in 1..Len(ended) : ended[i] = job)
=============================================================================
