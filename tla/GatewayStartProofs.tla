------------------------- MODULE GatewayStartProofs -------------------------
(***************************************************************************)
(* Proof that a gateway only serves when it is configured, for any number  *)
(* of restarts and for each choice of families.                            *)
(***************************************************************************)
EXTENDS GatewayStart, TLAPS

\* The invariant survives every step.
LEMMA StartInductive ==
    ASSUME StartInv, [Next]_vars
    PROVE  StartInv'
  <1> USE DEF StartInv
  <1>0. /\ first \in Local /\ last \in Local /\ Local \subseteq Families
        /\ \A f \in Local : f \in {first, last}
    BY LocalAssumption DEF first, last, Families
  <1>1. CASE Start \/ FouInit \/ EgressInit
    BY <1>0, <1>1 DEF Start, FouInit, EgressInit, Goto, kernel, TypeOK, Stages,
                      FouStages, EgressStages, FouDone, EgressDone
  <1>2. CASE FouAdd
    BY <1>0, <1>2 DEF FouAdd, Goto, TypeOK, Stages, FouStages, EgressStages, FouDone,
                      EgressDone
  <1>3. CASE Sysctl
    BY <1>0, <1>3 DEF Sysctl, Goto, TypeOK, Stages, FouStages, EgressStages, FouDone,
                      EgressDone
  <1>4. CASE Insert
    <2>1. /\ checksum' \in [Families -> 0..Many] /\ checksum'[fam] > 0
          /\ \A f \in Families : checksum[f] > 0 => checksum'[f] > 0
      BY <1>0, <1>4 DEF Insert, TypeOK, more, Many
    <2>2. fam \in ports /\ fam \in forward /\ fam \in Families
      BY <1>0, <1>4 DEF Insert, TypeOK
    <2>3. CASE fam = last
      BY <1>0, <1>4, <2>1, <2>2, <2>3 DEF Insert, Goto, TypeOK, Stages, FouStages,
                                          EgressStages, FouDone, EgressDone
    <2>4. CASE fam # last
      <3>1. fam = first
        BY <1>0, <2>4 DEF TypeOK
      <3> QED
        BY <1>0, <1>4, <2>1, <2>2, <2>4, <3>1 DEF Insert, Goto, TypeOK, Stages,
               FouStages, EgressStages, FouDone, EgressDone
    <2> QED
      BY <2>3, <2>4
  <1>5. CASE FouDummy
    BY <1>0, <1>5 DEF FouDummy, Goto, TypeOK, Stages, FouStages, EgressStages, FouDone,
                      EgressDone
  <1>6. CASE Append
    <2>1. /\ masquerade' \in [Families -> 0..Many] /\ masquerade'[fam] > 0
          /\ \A f \in Families : masquerade[f] > 0 => masquerade'[f] > 0
      BY <1>0, <1>6 DEF Append, TypeOK, more, Many
    <2> QED
      BY <1>0, <1>6, <2>1 DEF Append, Goto, TypeOK, Stages, FouStages, EgressStages,
                              FouDone, EgressDone
  <1>7. CASE RuleAdd
    BY <1>0, <1>7 DEF RuleAdd, Goto, TypeOK, Stages, FouStages, EgressStages, FouDone,
                      EgressDone
  <1>8. CASE EgressDummy
    BY <1>0, <1>8 DEF EgressDummy, Goto, TypeOK, Stages, FouStages, EgressStages,
                      FouDone, EgressDone
  <1>9. CASE Crash
    BY <1>0, <1>9, CrashAssumption DEF Crash, kernel, TypeOK, Stages, FouStages,
                      EgressStages, FouDone, EgressDone
  <1>10. CASE UNCHANGED vars
    BY <1>10 DEF vars, kernel, TypeOK, FouDone, EgressDone
  <1> QED
    BY <1>1, <1>2, <1>3, <1>4, <1>5, <1>6, <1>7, <1>8, <1>9, <1>10
       DEF Next, Step, Serve

\* The invariant holds at first.
LEMMA InitStart == Init => StartInv
  <1>1. first \in Local
    BY LocalAssumption DEF first, Families
  <1>2. Init => TypeOK
    BY <1>1, CrashAssumption DEF Init, TypeOK, Stages, Many
  <1> QED
    BY <1>2 DEF Init, StartInv, FouStages, EgressStages

\* A gateway serves only with the whole kernel configuration of each of its
\* families, after any number of failed starts.
THEOREM OnlyServesConfigured == Spec => []ServingConfigured
  <1>1. StartInv /\ [Next]_vars => StartInv'
    BY StartInductive
  <1>2. StartInv => ServingConfigured
    BY DEF StartInv, ServingConfigured, FouDone, EgressDone, EgressStages
  <1> QED
    BY InitStart, <1>1, <1>2, PTL DEF Spec
=============================================================================
