--------------------------- MODULE C2CLinkProofs ---------------------------
(***************************************************************************)
(* Theorems about the link, for any set of jobs.                           *)
(***************************************************************************)
EXTENDS C2CLink, SequenceTheorems, TLAPS

(* The inductive invariant.  Delivery in order needs the single server (a  *)
(* second transfer could overtake) and the empty queue of an idle link (a  *)
(* newcomer would start before the jobs that wait).                        *)
IInv == TypeOK /\ SingleServer /\ IdleMeansEmpty /\ FifoDelivery

(* What the type invariant says of each part of the state.                 *)
LEMMA TypedLink ==
  ASSUME TypeOK
  PROVE  /\ link.busy \in BOOLEAN /\ link.q \in Seq(Jobs) /\ link.flying \subseteq Jobs
         /\ link = [busy |-> link.busy, q |-> link.q, flying |-> link.flying]
         /\ submitted \in Seq(Jobs) /\ ended \in Seq(Jobs)
  BY DEF TypeOK, Links

(* A job that is queued while another is under way goes behind all others. *)
LEMMA AppendBehind ==
  ASSUME NEW s \in Seq(Jobs), NEW j \in Jobs, NEW q \in Seq(Jobs), NEW x \in Jobs
  PROVE  Append(s \o (<<j>> \o q), x) = s \o (<<j>> \o Append(q, x))
<1>1. <<j>> \in Seq(Jobs) /\ <<x>> \in Seq(Jobs) /\ <<j>> \o q \in Seq(Jobs)
  BY ConcatProperties
<1>2. Append(s \o (<<j>> \o q), x) = (s \o (<<j>> \o q)) \o <<x>>
  BY <1>1, ConcatProperties, AppendIsConcat
<1>3. (s \o (<<j>> \o q)) \o <<x>> = s \o ((<<j>> \o q) \o <<x>>)
  BY <1>1, ConcatAssociative
<1>4. (<<j>> \o q) \o <<x>> = <<j>> \o (q \o <<x>>)
  BY <1>1, ConcatAssociative
<1>5. q \o <<x>> = Append(q, x)
  BY AppendIsConcat
<1> QED BY <1>2, <1>3, <1>4, <1>5

(* The end of the job under way moves it from there to those that ended.   *)
LEMMA EndInOrder ==
  ASSUME NEW s \in Seq(Jobs), NEW j \in Jobs, NEW q \in Seq(Jobs)
  PROVE  s \o (<<j>> \o q) = Append(s, j) \o q
<1>1. <<j>> \in Seq(Jobs)
  OBVIOUS
<1>2. (s \o <<j>>) \o q = s \o (<<j>> \o q)
  BY <1>1, ConcatAssociative
<1>3. s \o <<j>> = Append(s, j)
  BY AppendIsConcat
<1> QED BY <1>2, <1>3

(* A queue is its head and then the rest.                                  *)
LEMMA HeadThenTail ==
  ASSUME NEW q \in Seq(Jobs), q # <<>>
  PROVE  q = <<Head(q)>> \o Tail(q) /\ Head(q) \in Jobs /\ Tail(q) \in Seq(Jobs)
<1>1. Head(q) \in Jobs /\ Tail(q) \in Seq(Jobs)
  BY HeadTailProperties
<1>2. Len(<<Head(q)>> \o Tail(q)) = Len(q)
  BY <1>1, ConcatProperties, HeadTailProperties
<1> QED BY <1>1, <1>2, SMTT(30)

(* An idle link without jobs satisfies the invariant.                      *)
LEMMA InitHolds == Init => IInv
<1> SUFFICES ASSUME Init PROVE IInv
  OBVIOUS
<1>1. link = [busy |-> FALSE, q |-> <<>>, flying |-> {}] /\ submitted = <<>> /\ ended = <<>>
  BY DEF Init, IdleLink
<1>2. TypeOK /\ SingleServer /\ IdleMeansEmpty
  BY <1>1 DEF TypeOK, Links, SingleServer, IdleMeansEmpty
<1>3. FifoDelivery
  <2>1. submitted = ended \o link.q /\ link.flying = {}
    BY <1>1
  <2> QED BY <2>1 DEF FifoDelivery
<1> QED BY <1>2, <1>3 DEF IInv

(* transfer keeps the invariant, on an idle link and on a busy one.        *)
LEMMA SubmitKeeps ==
  ASSUME IInv, NEW job \in Jobs, Submit(job)
  PROVE  IInv'
<1>1. /\ link.busy \in BOOLEAN /\ link.q \in Seq(Jobs) /\ link.flying \subseteq Jobs
      /\ link = [busy |-> link.busy, q |-> link.q, flying |-> link.flying]
      /\ submitted \in Seq(Jobs) /\ ended \in Seq(Jobs)
  BY TypedLink DEF IInv
<1>2. submitted' = Append(submitted, job) /\ ended' = ended
      /\ submitted' \in Seq(Jobs) /\ Append(link.q, job) \in Seq(Jobs)
  BY <1>1 DEF Submit
<1>3. CASE link.busy
  <2>1. link' = [busy |-> TRUE, q |-> Append(link.q, job), flying |-> link.flying]
    BY <1>1, <1>3 DEF Submit, Transfer
  <2>2. TypeOK'
    BY <1>1, <1>2, <2>1 DEF TypeOK, Links
  <2>3. PICK j \in Jobs : link.flying = {j}
    BY <1>3 DEF IInv, SingleServer
  <2>4. submitted = ended \o (<<j>> \o link.q)
    BY <2>3 DEF IInv, FifoDelivery
  <2>5. submitted' = ended' \o (<<j>> \o link'.q)
    <3>1. Append(ended \o (<<j>> \o link.q), job) = ended \o (<<j>> \o Append(link.q, job))
      BY <1>1, AppendBehind
    <3>2. link'.q = Append(link.q, job)
      BY <2>1
    <3> QED BY <1>2, <2>4, <3>1, <3>2
  <2>6. FifoDelivery'
    BY <2>1, <2>3, <2>5 DEF FifoDelivery
  <2>7. SingleServer' /\ IdleMeansEmpty'
    BY <2>1, <2>3 DEF SingleServer, IdleMeansEmpty
  <2> QED BY <2>2, <2>6, <2>7 DEF IInv
<1>4. CASE ~link.busy
  <2>1. link.q = <<>> /\ link.flying = {}
    BY <1>4 DEF IInv, SingleServer, IdleMeansEmpty
  <2>2. link' = [busy |-> TRUE, q |-> <<>>, flying |-> {job}]
    <3>1. Append(<<>>, job) # <<>> /\ Tail(Append(<<>>, job)) = <<>>
          /\ Head(Append(<<>>, job)) = job
      BY HeadTailAppend
    <3> DEFINE queued == [link EXCEPT !.q = Append(@, job)]
    <3>2. queued.q = Append(link.q, job) /\ queued.flying = link.flying
      BY <1>1
    <3>3. link' = NextTransfer(queued)
      BY <1>4 DEF Submit, Transfer
    <3> HIDE DEF queued
    <3>4. queued.flying \cup {Head(queued.q)} = {job}
      BY <2>1, <3>1, <3>2
    <3>5. queued.q # <<>> /\ Tail(queued.q) = <<>>
      BY <2>1, <3>1, <3>2
    <3> QED BY <3>3, <3>4, <3>5 DEF NextTransfer
  <2>3. TypeOK'
    BY <1>1, <1>2, <2>2 DEF TypeOK, Links
  <2>4. submitted = ended
    BY <1>1, <2>1, ConcatEmptySeq DEF IInv, FifoDelivery
  <2>5. <<job>> \o <<>> = <<job>>
    BY ConcatEmptySeq
  <2>6. submitted' = ended' \o (<<job>> \o link'.q)
    <3>1. Append(ended, job) = ended \o <<job>>
      BY <1>1, AppendIsConcat
    <3> QED BY <1>2, <2>2, <2>4, <2>5, <3>1
  <2>7. FifoDelivery'
    BY <2>2, <2>6 DEF FifoDelivery
  <2>8. SingleServer' /\ IdleMeansEmpty'
    BY <2>2 DEF SingleServer, IdleMeansEmpty
  <2> QED BY <2>3, <2>7, <2>8 DEF IInv
<1> QED BY <1>1, <1>3, <1>4

(* _fin keeps the invariant, with and without a job that waits.            *)
LEMMA EndKeeps ==
  ASSUME IInv, NEW job \in Jobs, End(job)
  PROVE  IInv'
<1>1. /\ link.busy \in BOOLEAN /\ link.q \in Seq(Jobs) /\ link.flying \subseteq Jobs
      /\ link = [busy |-> link.busy, q |-> link.q, flying |-> link.flying]
      /\ submitted \in Seq(Jobs) /\ ended \in Seq(Jobs)
  BY TypedLink DEF IInv
<1>2. submitted' = submitted /\ ended' = Append(ended, job) /\ ended' \in Seq(Jobs)
  BY <1>1 DEF End
<1>3. link.flying = {job} /\ submitted = ended \o (<<job>> \o link.q)
  BY DEF End, IInv, SingleServer, FifoDelivery
<1>4. submitted' = ended' \o link.q
  BY <1>1, <1>2, <1>3, EndInOrder
<1> DEFINE left == [link EXCEPT !.flying = @ \ {job}]
<1>5. left.q = link.q /\ left.flying = {} /\ link' = NextTransfer(left)
  <2>1. link.flying \ {job} = {}
    BY <1>3
  <2>2. left.q = link.q /\ left.flying = link.flying \ {job}
    BY <1>1
  <2>3. link' = NextTransfer(left)
    BY DEF End, Fin
  <2> QED BY <2>1, <2>2, <2>3
<1>8. left \in Links(Jobs)
  BY <1>1 DEF IInv, TypeOK, Links
<1> HIDE DEF left
<1>6. CASE link.q = <<>>
  <2>1. link' = [busy |-> FALSE, q |-> <<>>, flying |-> {}]
    <3>1. link' = [left EXCEPT !.busy = FALSE]
      BY <1>5, <1>6 DEF NextTransfer
    <3> QED BY <1>5, <1>6, <1>8, <3>1 DEF Links
  <2>2. TypeOK' /\ SingleServer' /\ IdleMeansEmpty'
    BY <1>1, <1>2, <2>1 DEF TypeOK, Links, SingleServer, IdleMeansEmpty
  <2>3. FifoDelivery'
    BY <1>4, <1>6, <2>1 DEF FifoDelivery
  <2> QED BY <2>2, <2>3 DEF IInv
<1>7. CASE link.q # <<>>
  <2>1. link' = [busy |-> TRUE, q |-> Tail(link.q), flying |-> {Head(link.q)}]
    <3>1. left.flying \cup {Head(left.q)} = {Head(link.q)}
      BY <1>5
    <3> QED BY <1>5, <1>7, <3>1 DEF NextTransfer
  <2>2. link.q = <<Head(link.q)>> \o Tail(link.q) /\ Head(link.q) \in Jobs
        /\ Tail(link.q) \in Seq(Jobs)
    BY <1>1, <1>7, HeadThenTail
  <2>3. TypeOK' /\ SingleServer' /\ IdleMeansEmpty'
    BY <1>1, <1>2, <2>1, <2>2 DEF TypeOK, Links, SingleServer, IdleMeansEmpty
  <2>4. link'.flying = {Head(link.q)} /\ submitted' = ended' \o (<<Head(link.q)>> \o link'.q)
    BY <1>4, <2>1, <2>2
  <2>5. FifoDelivery'
    BY <2>2, <2>4 DEF FifoDelivery
  <2> QED BY <2>3, <2>5 DEF IInv
<1> QED BY <1>6, <1>7

(* The invariant holds in every state.                                     *)
LEMMA InvariantHolds == Spec => []IInv
<1>1. ASSUME IInv, [Next]_vars PROVE IInv'
  <2>1. ASSUME NEW job \in Jobs, Submit(job) PROVE IInv'
    BY <1>1, <2>1, SubmitKeeps
  <2>2. ASSUME NEW job \in Jobs, End(job) PROVE IInv'
    BY <1>1, <2>2, EndKeeps
  <2>3. CASE UNCHANGED vars
    BY <1>1, <2>3 DEF vars, IInv, TypeOK, SingleServer, IdleMeansEmpty, FifoDelivery
  <2> QED BY <1>1, <2>1, <2>2, <2>3 DEF Next
<1> QED BY <1>1, InitHolds, PTL DEF Spec

(* The state of the link keeps its type.                                   *)
THEOREM LinkTypeCorrect == Spec => []TypeOK
<1>1. IInv => TypeOK
  BY DEF IInv
<1> QED BY <1>1, InvariantHolds, PTL

(* There is never more than one transfer under way, and the flag busy      *)
(* tells whether there is one.                                             *)
THEOREM OneAtATime == Spec => []SingleServer
<1>1. IInv => SingleServer
  BY DEF IInv
<1> QED BY <1>1, InvariantHolds, PTL

(* No wake-up is lost: an idle link has no job that waits.                 *)
THEOREM IdleLinkIsEmpty == Spec => []IdleMeansEmpty
<1>1. IInv => IdleMeansEmpty
  BY DEF IInv
<1> QED BY <1>1, InvariantHolds, PTL

(* Jobs end in the order in which they were submitted, and none is lost.   *)
THEOREM EndsInOrder == Spec => []FifoDelivery
<1>1. IInv => FifoDelivery
  BY DEF IInv
<1> QED BY <1>1, InvariantHolds, PTL
=============================================================================
