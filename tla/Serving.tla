------------------------------ MODULE Serving ------------------------------
(***************************************************************************)
(* What both simulators promise, without their queues, link and engines:   *)
(* a session runs its calls one after the other; a call asks for HBM,      *)
(* holds it, may leave it to decode elsewhere, and completes; whenever a   *)
(* call is admitted, the calls in HBM fit there; and every call completes  *)
(* if each one alone fits what it asks for.                                *)
(*                                                                         *)
(* One step may move several sessions, each by one stage: the end of a     *)
(* decode step completes some calls and admits others in their place.      *)
(***************************************************************************)
EXTENDS PoolOps, FiniteSets

CONSTANTS Sessions,
          Size,     \* Size[s]: the bytes of HBM each call of s asks for
          Cap,      \* the bytes of HBM
          Offloads  \* whether a call may leave HBM before it completes

Stages == {"thinking", "waiting", "resident", "away", "done"}

VARIABLE at  \* at[s] = [call, stage]: the call of s and what it is doing

Init == at = [s \in Sessions |-> [call |-> 1, stage |-> "thinking"]]

(* The stages a call can reach from stage x in one step; "thinking" there  *)
(* is that of the next call.                                               *)
Following(x) ==
  CASE x = "thinking" -> {"waiting", "resident"}
    [] x = "waiting"  -> {"resident"}
    [] x = "resident" -> {"thinking", "done"} \cup (IF Offloads THEN {"away"} ELSE {})
    [] x = "away"     -> {"thinking", "done"}
    [] x = "done"     -> {}

(* A session moves on: to the next call only from the end of this one, and *)
(* to "done" only from the last; a session without calls is done at once.  *)
Moves(s, old, new) ==
  \/ /\ old.stage = "thinking" /\ old.call > Len(Size[s])
     /\ new = [old EXCEPT !.stage = "done"]
  \/ /\ old.call <= Len(Size[s])
     /\ \E x \in Following(old.stage) :
          /\ x = "thinking" => old.call < Len(Size[s])
          /\ x = "done" => old.call = Len(Size[s])
          /\ new = [call  |-> IF x = "thinking" THEN old.call + 1 ELSE old.call,
                    stage |-> x]

Resident == {s \in Sessions : at[s].stage = "resident"}
Asked    == [s \in Sessions |->
               IF at[s].call \in DOMAIN Size[s] THEN Size[s][at[s].call] ELSE 0]
FitsHbm  == Cardinality(Bytes(Resident, Asked)) <= Cap

Step ==
  /\ \A s \in Sessions : at'[s] = at[s] \/ Moves(s, at[s], at'[s])
  /\ at' = [s \in Sessions |-> at'[s]]
  /\ ~(Resident' \subseteq Resident) => FitsHbm'

Done == \A s \in Sessions : at[s].stage = "done"

Safety == Init /\ [][Step]_at
Spec   == Safety /\ <>Done
=============================================================================
