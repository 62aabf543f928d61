---------------------- MODULE RepeatedTimerTaskProofs ----------------------
(***************************************************************************)
(* The properties of RepeatedTimerTask follow from its invariant, which    *)
(* every step of every thread preserves.                                   *)
(***************************************************************************)
EXTENDS RepeatedTimerTask, TLAPS

\* It holds of a timer that has just been made.
LEMMA InitInv == Init => Inv
BY DEF Init, Inv, TypeOK, RunningMeansOne, FlagsAgree, DestroysAgree, ChecksHold,
       Flag, stopped, running, destroyed

\* Every step keeps the invariant.
LEMMA StepInv == Inv /\ [Next]_vars => Inv'
<1> SUFFICES ASSUME Inv, [Next]_vars PROVE Inv'
  OBVIOUS
<1> USE DEF Inv, TypeOK, RunningMeansOne, FlagsAgree, DestroysAgree, ChecksHold,
            Flag, stopped, running, destroyed, Check, Schedule
<1>1. CASE Start
  <2>1. TypeOK'
    BY <1>1 DEF Start
  <2>2. RunningMeansOne'
    BY <1>1 DEF Start
  <2>3. FlagsAgree'
    BY <1>1 DEF Start
  <2>4. DestroysAgree'
    BY <1>1 DEF Start
  <2>5. ChecksHold'
    BY <1>1 DEF Start
  <2> QED
    BY <2>1, <2>2, <2>3, <2>4, <2>5
<1>2. CASE Stop
  <2>1. CASE pending > 0
    <3>1. TypeOK'
      <4>1. flags' \in SUBSET Flag
        BY <1>2, <2>1 DEF Stop
      <4>2. pending' \in Nat /\ due' \in Nat /\ runs' \in Nat
        BY <1>2, <2>1 DEF Stop
      <4> QED
        BY <4>1, <4>2
    <3>2. RunningMeansOne'
      BY <1>2, <2>1 DEF Stop
    <3>3. FlagsAgree'
      BY <1>2, <2>1 DEF Stop
    <3>4. DestroysAgree'
      BY <1>2, <2>1 DEF Stop
    <3>5. ChecksHold'
      BY <1>2, <2>1 DEF Stop
    <3> QED
      BY <3>1, <3>2, <3>3, <3>4, <3>5
  <2>2. CASE pending = 0
    <3>1. TypeOK'
      <4>1. flags' \in SUBSET Flag
        BY <1>2, <2>2 DEF Stop
      <4>2. pending' \in Nat /\ due' \in Nat /\ runs' \in Nat
        BY <1>2, <2>2 DEF Stop
      <4> QED
        BY <4>1, <4>2
    <3>2. RunningMeansOne'
      BY <1>2, <2>2 DEF Stop
    <3>3. FlagsAgree'
      BY <1>2, <2>2 DEF Stop
    <3>4. DestroysAgree'
      BY <1>2, <2>2 DEF Stop
    <3>5. ChecksHold'
      BY <1>2, <2>2 DEF Stop
    <3> QED
      BY <3>1, <3>2, <3>3, <3>4, <3>5
  <2> QED
    BY <2>1, <2>2
<1>3. CASE Reset
  <2>1. TypeOK'
    BY <1>3 DEF Reset
  <2>2. RunningMeansOne'
    BY <1>3 DEF Reset
  <2>3. FlagsAgree'
    BY <1>3 DEF Reset
  <2>4. DestroysAgree'
    BY <1>3 DEF Reset
  <2>5. ChecksHold'
    BY <1>3 DEF Reset
  <2> QED
    BY <2>1, <2>2, <2>3, <2>4, <2>5
<1>4. CASE RunOnceNow
  <2>1. TypeOK'
    BY <1>4 DEF RunOnceNow
  <2>2. RunningMeansOne'
    BY <1>4 DEF RunOnceNow
  <2>3. FlagsAgree'
    BY <1>4 DEF RunOnceNow
  <2>4. DestroysAgree'
    BY <1>4 DEF RunOnceNow
  <2>5. ChecksHold'
    BY <1>4 DEF RunOnceNow
  <2> QED
    BY <2>1, <2>2, <2>3, <2>4, <2>5
<1>5. CASE Timeout
  <2>1. TypeOK'
    BY <1>5 DEF Timeout
  <2>2. RunningMeansOne'
    BY <1>5 DEF Timeout
  <2>3. FlagsAgree'
    BY <1>5 DEF Timeout
  <2>4. DestroysAgree'
    BY <1>5 DEF Timeout
  <2>5. ChecksHold'
    BY <1>5 DEF Timeout
  <2> QED
    BY <2>1, <2>2, <2>3, <2>4, <2>5
<1>6. CASE Destroy
  <2>1. CASE ~running
    <3>1. TypeOK'
      <4>1. flags' \in SUBSET Flag
        BY <1>6, <2>1 DEF Destroy
      <4>2. pending' \in Nat /\ due' \in Nat /\ runs' \in Nat
        BY <1>6, <2>1 DEF Destroy
      <4> QED
        BY <4>1, <4>2
    <3>2. RunningMeansOne'
      BY <1>6, <2>1 DEF Destroy
    <3>3. FlagsAgree'
      BY <1>6, <2>1 DEF Destroy
    <3>4. DestroysAgree'
      BY <1>6, <2>1 DEF Destroy
    <3>5. ChecksHold'
      BY <1>6, <2>1 DEF Destroy
    <3> QED
      BY <3>1, <3>2, <3>3, <3>4, <3>5
  <2>2. CASE running /\ (stopped \/ pending = 0)
    <3>1. TypeOK'
      <4>1. flags' \in SUBSET Flag
        BY <1>6, <2>2 DEF Destroy
      <4>2. pending' \in Nat /\ due' \in Nat /\ runs' \in Nat
        BY <1>6, <2>2 DEF Destroy
      <4> QED
        BY <4>1, <4>2
    <3>2. RunningMeansOne'
      BY <1>6, <2>2 DEF Destroy
    <3>3. FlagsAgree'
      BY <1>6, <2>2 DEF Destroy
    <3>4. DestroysAgree'
      BY <1>6, <2>2 DEF Destroy
    <3>5. ChecksHold'
      BY <1>6, <2>2 DEF Destroy
    <3> QED
      BY <3>1, <3>2, <3>3, <3>4, <3>5
  <2>3. CASE running /\ ~stopped /\ pending > 0
    <3>1. TypeOK'
      <4>1. flags' \in SUBSET Flag
        BY <1>6, <2>3 DEF Destroy
      <4>2. pending' \in Nat /\ due' \in Nat /\ runs' \in Nat
        BY <1>6, <2>3 DEF Destroy
      <4> QED
        BY <4>1, <4>2
    <3>2. RunningMeansOne'
      BY <1>6, <2>3 DEF Destroy
    <3>3. FlagsAgree'
      BY <1>6, <2>3 DEF Destroy
    <3>4. DestroysAgree'
      BY <1>6, <2>3 DEF Destroy
    <3>5. ChecksHold'
      BY <1>6, <2>3 DEF Destroy
    <3> QED
      BY <3>1, <3>2, <3>3, <3>4, <3>5
  <2> QED
    BY <2>1, <2>2, <2>3
<1>7. CASE Invoke
  <2>1. TypeOK'
    BY <1>7 DEF Invoke
  <2>2. RunningMeansOne'
    BY <1>7 DEF Invoke
  <2>3. FlagsAgree'
    BY <1>7 DEF Invoke
  <2>4. DestroysAgree'
    BY <1>7 DEF Invoke
  <2>5. ChecksHold'
    BY <1>7 DEF Invoke
  <2> QED
    BY <2>1, <2>2, <2>3, <2>4, <2>5
<1>8. CASE Return
  <2>1. CASE stopped
    <3>1. TypeOK'
      <4>1. flags' \in SUBSET Flag
        BY <1>8, <2>1 DEF Return
      <4>2. pending' \in Nat /\ due' \in Nat /\ runs' \in Nat
        BY <1>8, <2>1 DEF Return
      <4> QED
        BY <4>1, <4>2
    <3>2. RunningMeansOne'
      BY <1>8, <2>1 DEF Return
    <3>3. FlagsAgree'
      BY <1>8, <2>1 DEF Return
    <3>4. DestroysAgree'
      BY <1>8, <2>1 DEF Return
    <3>5. ChecksHold'
      BY <1>8, <2>1 DEF Return
    <3> QED
      BY <3>1, <3>2, <3>3, <3>4, <3>5
  <2>2. CASE ~stopped
    <3>1. TypeOK'
      <4>1. flags' \in SUBSET Flag
        BY <1>8, <2>2 DEF Return
      <4>2. pending' \in Nat /\ due' \in Nat /\ runs' \in Nat
        BY <1>8, <2>2 DEF Return
      <4> QED
        BY <4>1, <4>2
    <3>2. RunningMeansOne'
      BY <1>8, <2>2 DEF Return
    <3>3. FlagsAgree'
      BY <1>8, <2>2 DEF Return
    <3>4. DestroysAgree'
      BY <1>8, <2>2 DEF Return
    <3>5. ChecksHold'
      BY <1>8, <2>2 DEF Return
    <3> QED
      BY <3>1, <3>2, <3>3, <3>4, <3>5
  <2> QED
    BY <2>1, <2>2
<1>9. CASE UNCHANGED vars
  BY <1>9 DEF vars
<1> QED
  BY <1>1, <1>2, <1>3, <1>4, <1>5, <1>6, <1>7, <1>8, <1>9 DEF Next

\* The handlers of a node's timer never overlap, and a started timer keeps going.
THEOREM OneRunAtATime == Spec => [](OneRun /\ GoesOn)
<1>1. Inv => OneRun /\ GoesOn
  BY DEF Inv, TypeOK, RunningMeansOne, FlagsAgree, OneRun, GoesOn
<1> QED
  BY <1>1, InitInv, StepInv, PTL DEF Spec

\* A timer lets go of its node once, after its last run, and none of its CHECKs fails.
THEOREM DestroyedOnceAtTheEnd == Spec => [](DestroyedLast /\ ChecksHold)
<1>1. Inv => DestroyedLast /\ ChecksHold
  BY DEF Inv, TypeOK, RunningMeansOne, FlagsAgree, DestroysAgree, DestroyedLast,
         ChecksHold
<1> QED
  BY <1>1, InitInv, StepInv, PTL DEF Spec
=============================================================================
