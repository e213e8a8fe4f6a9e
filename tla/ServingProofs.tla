--------------------------- MODULE ServingProofs ---------------------------
(***************************************************************************)
(* What follows from the promise alone, for every simulator that keeps it: *)
(* the calls that are resident always fit HBM.                             *)
(***************************************************************************)
EXTENDS Serving, OpsProofs

(* The promise speaks of finitely many sessions of calls with sizes, and   *)
(* of a capacity that is not negative.                                     *)
Sane ==
  /\ IsFiniteSet(Sessions)
  /\ \A s \in Sessions : Size[s] \in Seq(Nat)
  /\ Cap \in Nat

Typed == at \in [Sessions -> [call : Nat \ {0}, stage : Stages]]

(* The inductive invariant.                                                *)
IInv == Typed /\ FitsHbm

(* The demand of a session is a number of bytes.                           *)
LEMMA AskedIsNat ==
  ASSUME Sane, Typed, NEW s \in Sessions
  PROVE  Asked[s] \in Nat
  BY DEF Sane, Typed, Asked

(* A move leads from a well-formed position to a well-formed one, and not  *)
(* from residence to residence.                                            *)
LEMMA MovesTyped ==
  ASSUME NEW old \in [call : Nat \ {0}, stage : Stages], NEW s, NEW new, Moves(s, old, new)
  PROVE  /\ new \in [call : Nat \ {0}, stage : Stages]
         /\ old.stage = "resident" => new.stage # "resident"
  BY DEF Moves, Following, Stages

(* Fewer resident calls take fewer bytes: a call that stays resident asks  *)
(* for what it asked before.                                               *)
LEMMA LeavingKeepsFit ==
  ASSUME Sane, IInv, Step, Typed', Resident' \subseteq Resident
  PROVE  FitsHbm'
<1>1. ASSUME NEW s \in Resident' PROVE Asked'[s] = Asked[s]
  <2>1. s \in Sessions /\ at[s].stage = "resident" /\ at'[s].stage = "resident"
        /\ at[s] \in [call : Nat \ {0}, stage : Stages]
    BY <1>1 DEF Resident, IInv, Typed
  <2>2. at'[s] = at[s] \/ Moves(s, at[s], at'[s])
    BY <2>1 DEF Step
  <2>3. ~Moves(s, at[s], at'[s])
    BY <2>1, MovesTyped
  <2>4. at'[s].call = at[s].call
    BY <2>2, <2>3
  <2> QED BY <2>1, <2>4 DEF Asked
<1>2. Bytes(Resident', Asked') \subseteq Bytes(Resident, Asked)
  BY <1>1 DEF Bytes
<1>3. IsFiniteSet(Resident) /\ \A s \in Resident : Asked[s] \in Nat
  <2>1. Resident \subseteq Sessions
    BY DEF Resident
  <2> QED BY <2>1, AskedIsNat, FS_Subset DEF Sane, IInv
<1>4. IsFiniteSet(Bytes(Resident, Asked))
  BY <1>3, BytesFinite
<1>5. /\ Cardinality(Bytes(Resident', Asked')) <= Cardinality(Bytes(Resident, Asked))
      /\ Cardinality(Bytes(Resident', Asked')) \in Nat
      /\ Cardinality(Bytes(Resident, Asked)) \in Nat
  BY <1>2, <1>4, FS_Subset, FS_CardinalityType
<1>6. Cardinality(Bytes(Resident, Asked)) <= Cap
  BY DEF IInv, FitsHbm
<1> QED BY <1>5, <1>6 DEF FitsHbm, Sane

(* No step of a simulator that keeps the promise leaves the invariant.     *)
LEMMA StepKeeps ==
  ASSUME Sane, IInv, [Step]_at
  PROVE  IInv'
<1>1. CASE Step
  <2>1. Typed'
    <3>1. ASSUME NEW s \in Sessions PROVE at'[s] \in [call : Nat \ {0}, stage : Stages]
      <4>1. at[s] \in [call : Nat \ {0}, stage : Stages]
        BY DEF IInv, Typed
      <4>2. at'[s] = at[s] \/ Moves(s, at[s], at'[s])
        BY <1>1 DEF Step
      <4> QED BY <4>1, <4>2, MovesTyped
    <3>2. at' = [s \in Sessions |-> at'[s]]
      BY <1>1 DEF Step
    <3> QED BY <3>1, <3>2 DEF Typed
  <2>2. FitsHbm'
    BY <1>1, <2>1, LeavingKeepsFit DEF Step
  <2> QED BY <2>1, <2>2 DEF IInv
<1>2. CASE UNCHANGED at
  <2>1. Resident' = Resident /\ Asked' = Asked
    BY <1>2 DEF Resident, Asked
  <2>2. FitsHbm' = FitsHbm
    BY <2>1, Zenon DEF FitsHbm
  <2> QED BY <1>2, <2>2 DEF IInv, Typed
<1> QED BY <1>1, <1>2

(* Nothing is resident at the start.                                       *)
LEMMA InitHolds ==
  ASSUME Sane, Init
  PROVE  IInv
<1>1. Typed
  BY DEF Init, Typed, Stages
<1>2. Resident = {}
  BY DEF Init, Resident
<1>3. Bytes(Resident, Asked) = {}
  BY <1>2 DEF Bytes
<1>4. Cardinality(Bytes(Resident, Asked)) = 0
  BY <1>3, FS_EmptySet
<1> QED BY <1>1, <1>4 DEF IInv, FitsHbm, Sane

(* The resident calls of a simulator that keeps the promise always fit in  *)
(* HBM: admission control is enough, because sizes do not change while a   *)
(* call is resident.                                                       *)
THEOREM ResidentsFit ==
  ASSUME Sane
  PROVE  Spec => []FitsHbm
<1>1. Init => IInv
  BY InitHolds
<1>2. IInv /\ [Step]_at => IInv'
  BY StepKeeps
<1>3. IInv => FitsHbm
  BY DEF IInv
<1> QED BY <1>1, <1>2, <1>3, PTL DEF Spec, Safety
=============================================================================
