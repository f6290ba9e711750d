-------------------------- MODULE MqttIngressProofs --------------------------
(***************************************************************************)
(* Theorems about MqttIngress, for any finite number of messages, any      *)
(* contents and any limit.                                                 *)
(***************************************************************************)
EXTENDS MqttIngress, FiniteSetTheorems, TLAPS

LEMMA HoldingIsFinite == IsFiniteSet(Holding) /\ Cardinality(Holding) \in Nat
  <1>1. Holding \subseteq Calls
    BY DEF Holding, Busy
  <1>2. IsFiniteSet(Holding)
    BY <1>1, IngressAssumption, FS_Subset
  <1>3. QED
    BY <1>2, FS_CardinalityType

(* A call that takes a slot adds itself to the holders. *)
LEMMA OneMore ==
    ASSUME TypeOK, NEW c \in Calls, c \notin Holding,
           Holding' = Holding \cup {c}
    PROVE  Cardinality(Holding') = Cardinality(Holding) + 1
  BY HoldingIsFinite, FS_AddElement

(* A call that gives its slot back was one of the holders. *)
LEMMA OneLess ==
    ASSUME NEW c \in Holding, Holding' = Holding \ {c}
    PROVE  /\ Cardinality(Holding') = Cardinality(Holding) - 1
           /\ Cardinality(Holding) > 0
  <1>1. Cardinality(Holding \ {c}) = Cardinality(Holding) - 1
    BY HoldingIsFinite, FS_RemoveElement
  <1>2. IsFiniteSet(Holding \ {c}) /\ Cardinality(Holding \ {c}) \in Nat
    BY HoldingIsFinite, FS_RemoveElement, FS_CardinalityType
  <1>3. QED
    BY <1>1, <1>2, HoldingIsFinite

(* The step that every path to an end but dropping and CancelUnbegun takes. *)
LEMMA GivesBack ==
    ASSUME IInv, NEW c \in Calls, NEW to \in Ended \ {"unbegun"},
           at[c] \in Working, Move(c, to), Release, UNCHANGED stopped
    PROVE  IInv'
  <1>t. TypeOK /\ CountExact /\ UnbegunOnlyAfterStop
    BY DEF IInv
  <1>a. at' = [at EXCEPT ![c] = to] /\ at \in [Calls -> {"new"} \cup Working \cup Ended]
    BY <1>t DEF TypeOK, Move
  <1>h. c \in Holding /\ Holding' = Holding \ {c}
    BY <1>a DEF Holding, Busy, Working, Ended
  <1>c. /\ Cardinality(Holding') = Cardinality(Holding) - 1
        /\ Cardinality(Holding) > 0
    BY <1>h, OneLess
  <1>i. inflight \in Nat /\ inflight > 0 /\ inflight' = inflight - 1
    BY <1>t, <1>c DEF CountExact, Release, TypeOK
  <1>1. TypeOK'
    BY <1>t, <1>a, <1>i, IngressAssumption DEF TypeOK
  <1>2. CountExact'
    BY <1>t, <1>c, <1>i DEF CountExact
  <1>3. UnbegunOnlyAfterStop'
    BY <1>t, <1>a DEF UnbegunOnlyAfterStop
  <1>4. QED
    BY <1>1, <1>2, <1>3 DEF IInv

(* A step from one working state to another, or to the end of a coroutine  *)
(* that never began, leaves the holders alone.                             *)
LEMMA KeepsSlot ==
    ASSUME IInv, NEW c \in Calls, NEW to \in Working \cup {"unbegun"},
           at[c] \in Working, Move(c, to), to = "unbegun" => stopped,
           UNCHANGED <<inflight, stopped>>
    PROVE  IInv'
  <1>t. TypeOK /\ CountExact /\ UnbegunOnlyAfterStop
    BY DEF IInv
  <1>a. at' = [at EXCEPT ![c] = to] /\ at \in [Calls -> {"new"} \cup Working \cup Ended]
    BY <1>t DEF TypeOK, Move
  <1>h. Holding' = Holding
    BY <1>a DEF Holding, Busy, Working, Ended
  <1>1. TypeOK'
    BY <1>t, <1>a DEF TypeOK, Ended
  <1>2. CountExact'
    BY <1>t, <1>h DEF CountExact
  <1>3. UnbegunOnlyAfterStop'
    BY <1>t, <1>a DEF UnbegunOnlyAfterStop
  <1>4. QED
    BY <1>1, <1>2, <1>3 DEF IInv

LEMMA TakeSlotStep ==
    ASSUME IInv, NEW c \in Calls, TakeSlot(c)
    PROVE  IInv'
  <1>t. TypeOK /\ CountExact /\ UnbegunOnlyAfterStop
    BY DEF IInv
  <1>a. /\ at' = [at EXCEPT ![c] = "thread"] /\ at[c] = "new"
        /\ at \in [Calls -> {"new"} \cup Working \cup Ended]
    BY <1>t DEF TypeOK, Move, TakeSlot
  <1>h. c \notin Holding /\ Holding' = Holding \cup {c}
    BY <1>a DEF Holding, Busy, Working
  <1>c. Cardinality(Holding') = Cardinality(Holding) + 1
    BY <1>t, <1>h, OneMore
  <1>1. TypeOK'
    BY <1>t, <1>a, IngressAssumption DEF TypeOK, TakeSlot, Working
  <1>2. CountExact'
    BY <1>t, <1>c DEF CountExact, TakeSlot
  <1>3. UnbegunOnlyAfterStop'
    BY <1>t, <1>a DEF UnbegunOnlyAfterStop, TakeSlot
  <1>4. QED
    BY <1>1, <1>2, <1>3 DEF IInv

LEMMA DropStep ==
    ASSUME IInv, NEW c \in Calls, Drop(c)
    PROVE  IInv'
  <1>t. TypeOK /\ CountExact /\ UnbegunOnlyAfterStop
    BY DEF IInv
  <1>a. /\ at' = [at EXCEPT ![c] = "dropped"] /\ at[c] = "new"
        /\ at \in [Calls -> {"new"} \cup Working \cup Ended]
    BY <1>t DEF TypeOK, Move, Drop
  <1>h. Holding' = Holding
    BY <1>a DEF Holding, Busy, Working
  <1>1. TypeOK'
    BY <1>t, <1>a DEF TypeOK, Drop, Ended
  <1>2. CountExact'
    BY <1>t, <1>h DEF CountExact, Drop
  <1>3. UnbegunOnlyAfterStop'
    BY <1>t, <1>a DEF UnbegunOnlyAfterStop, Drop
  <1>4. QED
    BY <1>1, <1>2, <1>3 DEF IInv

(* The counter is exact in every reachable state: the inductive invariant. *)
THEOREM IngressInvariance == Spec => []IInv
  <1>1. Init => IInv
    <2> SUFFICES ASSUME Init PROVE IInv
      OBVIOUS
    <2>1. Holding = {}
      BY DEF Init, Holding, Busy, Working
    <2>2. Cardinality(Holding) = 0
      BY <2>1, FS_EmptySet
    <2>3. TypeOK
      <3>1. at \in [Calls -> {"new"} \cup Working \cup Ended] /\ stopped \in BOOLEAN
        BY DEF Init
      <3>2. inflight \in 0..Limit
        BY IngressAssumption DEF Init
      <3>3. QED
        BY <3>1, <3>2 DEF TypeOK
    <2>4. QED
      BY <2>2, <2>3 DEF Init, IInv, CountExact, UnbegunOnlyAfterStop
  <1>2. IInv /\ [Next]_vars => IInv'
    <2> SUFFICES ASSUME IInv, [Next]_vars PROVE IInv'
      OBVIOUS
    <2>1. ASSUME NEW c \in Calls, TakeSlot(c) PROVE IInv'
      BY <2>1, TakeSlotStep
    <2>2. ASSUME NEW c \in Calls, Drop(c) PROVE IInv'
      BY <2>2, DropStep
    <2>3. ASSUME NEW c \in Calls, Thread(c) PROVE IInv'
      <3>1. CASE RejectGarbled(c)
        BY <3>1, GivesBack DEF RejectGarbled, Working, Ended
      <3>2. CASE Schedule(c)
        BY <3>2, KeepsSlot DEF Schedule, Working
      <3>3. QED
        BY <2>3, <3>1, <3>2 DEF Thread
    <2>4. ASSUME NEW c \in Calls, Begin(c) PROVE IInv'
      <3>1. CASE RejectInvalid(c)
        BY <3>1, GivesBack DEF RejectInvalid, Working, Ended
      <3>2. CASE StartSend(c)
        BY <3>2, KeepsSlot DEF StartSend, Working
      <3>3. QED
        BY <2>4, <3>1, <3>2 DEF Begin
    <2>5. ASSUME NEW c \in Calls, Finish(c) PROVE IInv'
      <3>1. CASE Relay(c)
        BY <3>1, GivesBack DEF Relay, Working, Ended
      <3>2. CASE SendFails(c)
        BY <3>2, GivesBack DEF SendFails, Working, Ended
      <3>3. QED
        BY <2>5, <3>1, <3>2 DEF Finish
    <2>6. ASSUME NEW c \in Calls, Cancel(c) PROVE IInv'
      <3>1. CASE CancelBegun(c)
        BY <3>1, GivesBack DEF CancelBegun, Working, Ended
      <3>2. CASE CancelUnbegun(c)
        BY <3>2, KeepsSlot DEF CancelUnbegun, Working
      <3>3. QED
        BY <2>6, <3>1, <3>2 DEF Cancel
    <2>7. CASE Stop
      BY <2>7 DEF Stop, IInv, TypeOK, CountExact, UnbegunOnlyAfterStop, Holding, Busy
    <2>8. CASE UNCHANGED vars
      BY <2>8 DEF vars, IInv, TypeOK, CountExact, UnbegunOnlyAfterStop, Holding, Busy
    <2>9. QED
      BY <2>1, <2>2, <2>3, <2>4, <2>5, <2>6, <2>7, <2>8 DEF Next
  <1>3. QED
    BY <1>1, <1>2, PTL DEF Spec

(* No step leaves the types: a message is always in one state of its way.  *)
THEOREM IngressTypeCorrect == Spec => []TypeOK
  <1>1. IInv => TypeOK
    BY DEF IInv
  <1>2. QED
    BY <1>1, IngressInvariance, PTL

(* No slot leaks and none is given back twice. *)
THEOREM NoSlotLeaks == Spec => []CountExact
  <1>1. IInv => CountExact
    BY DEF IInv
  <1>2. QED
    BY <1>1, IngressInvariance, PTL

(* Those inside are no more than the counter says, and while the bridge    *)
(* runs exactly as many.                                                   *)
LEMMA CountedInside ==
    ASSUME IInv
    PROVE  /\ Cardinality(Busy) \in Nat /\ inflight \in Nat
           /\ Cardinality(Busy) <= inflight
           /\ ~stopped => Cardinality(Busy) = inflight
<1>1. Busy \subseteq Holding
  BY DEF Holding
<1>2. Cardinality(Busy) \in Nat /\ Cardinality(Busy) <= Cardinality(Holding)
  BY <1>1, HoldingIsFinite, FS_Subset, FS_CardinalityType
<1>3. Cardinality(Holding) = inflight /\ inflight \in Nat
  BY IngressAssumption DEF IInv, CountExact, TypeOK
<1>4. ~stopped => Busy = Holding
  BY DEF IInv, UnbegunOnlyAfterStop, Holding
<1> QED  BY <1>2, <1>3, <1>4

(* The memory between paho and send_or_buffer is bounded, for any limit. *)
THEOREM MemoryIsBounded == Spec => []Backpressure
  <1>1. IInv => Backpressure
    <2> SUFFICES ASSUME IInv PROVE Backpressure
      OBVIOUS
    <2>1. inflight <= Limit
      BY IngressAssumption DEF IInv, TypeOK
    <2>2. QED
      BY <2>1, CountedInside, IngressAssumption DEF Backpressure
  <1>2. QED
    BY <1>1, IngressInvariance, PTL

(* Nothing is dropped on account of a slot that an earlier message lost. *)
THEOREM DropsAreHonest == Spec => DroppedOnlyWhenFull
  <1>1. ASSUME IInv, [Next]_vars, NEW c \in Calls, at[c] = "new", at'[c] = "dropped"
        PROVE  Cardinality(Busy) >= Limit
    <2>t. TypeOK /\ CountExact /\ UnbegunOnlyAfterStop
      BY <1>1 DEF IInv
    <2>1. Drop(c)
      <3>1. at \in [Calls -> {"new"} \cup Working \cup Ended]
        BY <2>t DEF TypeOK
      <3>2. ~ UNCHANGED at
        BY <1>1
      <3>3. PICK d \in Calls :
              TakeSlot(d) \/ Drop(d) \/ Thread(d) \/ Begin(d) \/ Finish(d) \/ Cancel(d)
        BY <1>1, <3>2 DEF Next, vars, Stop
      <3>4. c = d /\ ~TakeSlot(d) /\ ~Thread(d) /\ ~Begin(d) /\ ~Finish(d) /\ ~Cancel(d)
        <4>1. PICK to : at' = [at EXCEPT ![d] = to]
          BY <3>3 DEF TakeSlot, Drop, Thread, RejectGarbled, Schedule, Begin, RejectInvalid,
                      StartSend, Finish, Relay, SendFails, Cancel, CancelBegun, CancelUnbegun,
                      Move
        <4>2. c = d
          BY <1>1, <3>1, <4>1
        <4>3. QED
          BY <1>1, <3>1, <4>2 DEF TakeSlot, Thread, RejectGarbled, Schedule, Begin,
                      RejectInvalid, StartSend, Finish, Relay, SendFails, Cancel,
                      CancelBegun, CancelUnbegun, Move
      <3>5. QED
        BY <3>3, <3>4
    <2>2. QED
      BY <1>1, <2>1, CountedInside, IngressAssumption DEF Drop
  <1>2. IInv /\ [Next]_vars =>
          [\A c \in Calls : at[c] = "new" /\ at'[c] = "dropped" => Cardinality(Busy) >= Limit]_vars
    BY <1>1
  <1>3. QED
    BY <1>2, IngressInvariance, PTL DEF Spec, DroppedOnlyWhenFull

-------------------------------------------------------------------------------
(* The ingress is a gate. *)

LEMMA GateOpens == Init => Gate!Init
<1> SUFFICES ASSUME Init PROVE Gate!Init
  OBVIOUS
<1>1. Busy = {} /\ Left = {} /\ Dropped = {}
  BY DEF Init, Busy, Left, Dropped, Working, Ended
<1> QED  BY <1>1 DEF Init, Gate!Init, Left, Dropped

(* Both modules count with the same operator of FiniteSets. *)
LEMMA SameCount == Gate!Cardinality(Busy) = Cardinality(Busy)
  BY DEF Cardinality, Gate!Cardinality

LEMMA EntersGate ==
    ASSUME IInv, NEW c \in Calls, TakeSlot(c)
    PROVE  Gate!Enter(c)
<1>1. /\ at' = [at EXCEPT ![c] = "thread"] /\ at[c] = "new"
      /\ at \in [Calls -> {"new"} \cup Working \cup Ended]
  BY DEF IInv, TypeOK, Move, TakeSlot
<1>2. /\ Busy' = Busy \cup {c} /\ Left' = Left /\ Dropped' = Dropped
      /\ c \notin Busy \cup Left \cup Dropped
  BY <1>1 DEF Busy, Left, Dropped, Working, Ended
<1>3. Cardinality(Busy) < Limit
  BY CountedInside, IngressAssumption DEF TakeSlot
<1>4. ~stopped /\ stopped' = stopped
  BY DEF TakeSlot
<1>5. Gate!Comes(c)
  BY <1>2, <1>4 DEF Gate!Comes, Left, Dropped
<1> QED  BY <1>2, <1>3, <1>4, <1>5, SameCount DEF Gate!Enter, Left, Dropped

LEMMA TurnedAwayFromGate ==
    ASSUME IInv, NEW c \in Calls, Drop(c)
    PROVE  Gate!TurnAway(c)
<1>1. /\ at' = [at EXCEPT ![c] = "dropped"] /\ at[c] = "new"
      /\ at \in [Calls -> {"new"} \cup Working \cup Ended]
  BY DEF IInv, TypeOK, Move, Drop
<1>2. /\ Busy' = Busy /\ Left' = Left /\ Dropped' = Dropped \cup {c}
      /\ c \notin Busy \cup Left \cup Dropped
  BY <1>1 DEF Busy, Left, Dropped, Working, Ended
<1>3. ~stopped /\ stopped' = stopped /\ inflight >= Limit
  BY DEF Drop
<1>4. Cardinality(Busy) >= Limit
  BY <1>3, CountedInside, IngressAssumption
<1>5. Gate!Comes(c)
  BY <1>2, <1>3 DEF Gate!Comes, Left, Dropped
<1> QED  BY <1>2, <1>3, <1>4, <1>5, SameCount DEF Gate!TurnAway, Left, Dropped

(* A call at work that comes to an end leaves, and to another place stays. *)
LEMMA LeavesGate ==
    ASSUME IInv, NEW c \in Calls, NEW to \in Ended \ {"dropped"},
           at[c] \in Working, Move(c, to), UNCHANGED stopped
    PROVE  Gate!Leave(c)
<1>1. at' = [at EXCEPT ![c] = to] /\ at \in [Calls -> {"new"} \cup Working \cup Ended]
  BY DEF IInv, TypeOK, Move
<1>2. /\ Busy' = Busy \ {c} /\ Left' = Left \cup {c} /\ Dropped' = Dropped
      /\ c \in Busy
  BY <1>1 DEF Busy, Left, Dropped, Working, Ended
<1> QED  BY <1>2 DEF Gate!Leave, Left, Dropped

LEMMA StaysInside ==
    ASSUME IInv, NEW c \in Calls, NEW to \in Working,
           at[c] \in Working, Move(c, to), UNCHANGED stopped
    PROVE  UNCHANGED Gate!gateVars
<1>1. at' = [at EXCEPT ![c] = to] /\ at \in [Calls -> {"new"} \cup Working \cup Ended]
  BY DEF IInv, TypeOK, Move
<1>2. Busy' = Busy /\ Left' = Left /\ Dropped' = Dropped
  BY <1>1 DEF Busy, Left, Dropped, Working, Ended
<1> QED  BY <1>2 DEF Gate!gateVars, Left, Dropped

LEMMA GateStep == IInv /\ [Next]_vars => [Gate!Next]_(Gate!gateVars)
<1> SUFFICES ASSUME IInv, [Next]_vars PROVE Gate!Next \/ UNCHANGED Gate!gateVars
  OBVIOUS
<1>1. ASSUME NEW c \in Calls, TakeSlot(c) \/ Drop(c)
      PROVE  Gate!Enter(c) \/ Gate!TurnAway(c)
  BY <1>1, EntersGate, TurnedAwayFromGate
<1>2. ASSUME NEW c \in Calls, Thread(c)
      PROVE  Gate!Leave(c) \/ UNCHANGED Gate!gateVars
  <2>1. CASE RejectGarbled(c)
    BY <2>1, LeavesGate DEF RejectGarbled, Working, Ended
  <2>2. CASE Schedule(c)
    BY <2>2, StaysInside DEF Schedule, Working
  <2> QED  BY <1>2, <2>1, <2>2 DEF Thread
<1>3. ASSUME NEW c \in Calls, Begin(c)
      PROVE  Gate!Leave(c) \/ UNCHANGED Gate!gateVars
  <2>1. CASE RejectInvalid(c)
    BY <2>1, LeavesGate DEF RejectInvalid, Working, Ended
  <2>2. CASE StartSend(c)
    BY <2>2, StaysInside DEF StartSend, Working
  <2> QED  BY <1>3, <2>1, <2>2 DEF Begin
<1>4. ASSUME NEW c \in Calls, Finish(c) PROVE Gate!Leave(c)
  BY <1>4, LeavesGate DEF Finish, Relay, SendFails, Working, Ended
<1>5. ASSUME NEW c \in Calls, Cancel(c) PROVE Gate!Leave(c)
  BY <1>5, LeavesGate DEF Cancel, CancelBegun, CancelUnbegun, Working, Ended
<1>6. CASE Stop
  BY <1>6 DEF Stop, Gate!Next, Gate!Shut, Busy, Left, Dropped
<1>7. CASE UNCHANGED vars
  BY <1>7 DEF vars, Gate!gateVars, Busy, Left, Dropped
<1> QED
  BY <1>1, <1>2, <1>3, <1>4, <1>5, <1>6, <1>7 DEF Next, Gate!Next

(* Two threads, a lock, seven paths and a counter promise what BoundedGate *)
(* says, for any messages, any contents and any limit.                     *)
THEOREM IngressIsAGate == Spec => ImplementsGate
  BY GateOpens, GateStep, IngressInvariance, PTL DEF Spec, ImplementsGate, Gate!Spec
===============================================================================
