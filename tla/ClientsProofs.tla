--------------------------- MODULE ClientsProofs ---------------------------
(***************************************************************************)
(* The client programs only call the services: every step of any of them   *)
(* is a step of MembershipChain, leaves it alone, or sets the genesis      *)
(* signers again.  What does not depend on a first start therefore holds   *)
(* of all of them, for any nodes and any number of rounds.  The requests   *)
(* of RunSystemNormally come first: every step of a round is a step of     *)
(* MembershipChain or leaves it alone.                                     *)
(***************************************************************************)
EXTENDS Clients, MembershipProofs

LEMMA CallIsChainStep ==
  ASSUME NEW n \in Node, NEW from, NEW to, NEW after,
         \/ Registering(n, from, to, after) \/ Leading(n, from, to, after)
         \/ Starting(n, from, to)
  PROVE  [Next]_vars
<1>1. CASE Registering(n, from, to, after)
  BY <1>1 DEF Registering, Register, Next
<1>2. CASE Leading(n, from, to, after)
  BY <1>2 DEF Leading, Consensus, Next
<1>3. CASE Starting(n, from, to)
  BY <1>3 DEF Starting, Start, Next
<1> QED
  BY <1>1, <1>2, <1>3

LEMMA ReqStepIsChainStep == [ReqNext]_allVars => [Next]_vars
<1> SUFFICES ASSUME [ReqNext]_allVars PROVE [Next]_vars
  OBVIOUS
<1>1. CASE ReqTick \/ UNCHANGED allVars \/ NextRound
  BY <1>1 DEF ReqTick, allVars, NextRound, Next
<1>2. ASSUME NEW n \in Node, ReqUpdate(n) PROVE [Next]_vars
  BY <1>2 DEF ReqUpdate, Update, Next
<1>3. ASSUME NEW n \in Node, ReqCalls(n) PROVE [Next]_vars
  BY <1>3, CallIsChainStep DEF ReqCalls
<1>4. ASSUME NEW n \in Node, Serve(n) PROVE [Next]_vars
  BY <1>4 DEF Serve, Register, Update, Consensus, Next
<1>5. ASSUME NEW n \in Node, GiveUp(n) PROVE [Next]_vars
  BY <1>5 DEF GiveUp, Register, Update, Consensus, Next
<1> QED
  BY <1>1, <1>2, <1>3, <1>4, <1>5 DEF ReqNext, ReqStep

LEMMA RequestsRunTheChain == ReqSpec => Spec
<1>1. ReqInit => Init
  BY DEF ReqInit
<1> QED
  BY <1>1, ReqStepIsChainStep, PTL DEF ReqSpec, Spec

\* In the rounds of the client, too, a committee is closed once its consensus
\* slot begins, and the signers of epoch 0 stay.
THEOREM RequestsRespectCommittees == ReqSpec => NoLateSigner /\ []GenesisFrozen
  BY RequestsRunTheChain, CommitteeCloses, GenesisStays, PTL

-----------------------------------------------------------------------------
LEMMA CallByCallIsChainStep ==
  ASSUME NEW n \in Node, CallByCall(n)
  PROVE  [Next]_vars
<1>1. CASE UpdateForNewNode(n) \/ UpdateNode(n)
  BY <1>1 DEF UpdateForNewNode, UpdateNode, Update, Next
<1>2. CASE Answered(n) \/ AloneTimesOut(n)
  BY <1>2 DEF Answered, AloneTimesOut, Register, Next
<1>3. CASE \E from, to, after : \/ Registering(n, from, to, after)
                                \/ Leading(n, from, to, after)
                                \/ Starting(n, from, to)
  BY <1>3, CallIsChainStep
<1> QED
  BY <1>1, <1>2, <1>3 DEF CallByCall

LEMMA ClientNextIsChainStep == [ClientNext]_every => [Next \/ GenesisAgain]_vars
<1> SUFFICES ASSUME [ClientNext]_every PROVE [Next \/ GenesisAgain]_vars
  OBVIOUS
<1>1. CASE UNCHANGED every \/ GenesisAgain
  BY <1>1 DEF every, allVars
<1>2. CASE ClientTick
  BY <1>2 DEF ClientTick, ReqTick, Next
<1>3. CASE NormalRound \/ RegisterStage \/ StartStage \/ UpdateStage
  BY <1>3 DEF NormalRound, NextRound, RegisterStage, StartStage, UpdateStage
<1>4. ASSUME NEW n \in Node, ReqUpdate(n) \/ ReqCalls(n) \/ Serve(n)
      PROVE  [Next \/ GenesisAgain]_vars
  <2>1. ReqNext
    BY <1>4 DEF ReqNext, ReqStep
  <2> QED
    BY <2>1, ReqStepIsChainStep
<1>5. ASSUME NEW n \in Node, CallByCall(n) PROVE [Next \/ GenesisAgain]_vars
  BY <1>5, CallByCallIsChainStep
<1>6. ASSUME NEW n \in Node, SetupWaits(n) PROVE [Next \/ GenesisAgain]_vars
  BY <1>6 DEF SetupWaits, Start, Next
<1> QED
  BY <1>1, <1>2, <1>3, <1>4, <1>5, <1>6 DEF ClientNext, ClientStep

-----------------------------------------------------------------------------
(***************************************************************************)
(* Setting the genesis signers again is no exception to types and genesis. *)
(***************************************************************************)
LEMMA AgainTypeOK == TypeOK /\ GenesisAgain => TypeOK'
<1> SUFFICES ASSUME TypeOK, GenesisAgain PROVE TypeOK'
  OBVIOUS
<1>1. 0 \in Epoch /\ MaxEpoch \in Nat \ {0}
  BY MaxEpochAssumption DEF Epoch
<1>2. GenesisStorage \in Store
  <2>1. NoSigners \in History /\ Genesis \in SUBSET Node
    BY NodeAssumption DEF NoSigners, History
  <2> QED
    BY <1>1, <2>1 DEF GenesisStorage, Store, History
<1>3. NodeTypeOK'
  <2>1. e' \in [Node -> Epoch]
    BY <1>1 DEF GenesisAgain, EpochReset, TypeOK, NodeTypeOK
  <2>2. storage' \in [Node -> Store]
    BY <1>2 DEF GenesisAgain, TypeOK, NodeTypeOK
  <2>3. servers' \in [Node -> SUBSET Node] /\ names' \in [Node -> SUBSET Node]
    BY NodeAssumption DEF GenesisAgain, TypeOK, NodeTypeOK
  <2>4. view' \in [Node -> View] /\ confirmed' \in [Node -> SUBSET Epoch]
    BY <1>1 DEF GenesisAgain, NoView, View
  <2>5. epochChan' \in [Node -> Seq(Epoch)]
    BY DEF GenesisAgain, TypeOK, NodeTypeOK
  <2> QED
    BY <2>1, <2>2, <2>3, <2>4, <2>5 DEF NodeTypeOK
<1>4. ClockTypeOK'
  BY <1>1 DEF GenesisAgain, ClockTypeOK, Slot
<1> QED
  BY <1>3, <1>4
  DEF GenesisAgain, TypeOK, CallTypeOK, NetTypeOK, callVars, netVars

LEMMA AgainGenesis == GenesisFrozen /\ GenesisAgain => GenesisFrozen'
<1> SUFFICES ASSUME GenesisFrozen, GenesisAgain PROVE GenesisFrozen'
  OBVIOUS
<1>1. GenesisStorage.len > 0 /\ GenesisStorage.set[0] = Genesis
  BY MaxEpochAssumption DEF GenesisStorage, NoSigners, Epoch
<1> QED
  BY <1>1 DEF GenesisAgain, GenesisFrozen, netVars

\* Run after run, whichever program it is, the types hold and no registration,
\* history or reset changes who the signers of epoch 0 are.
THEOREM ClientsKeepGenesis == ClientSpec => [](TypeOK /\ GenesisFrozen)
<1>1. ClientInit => TypeOK /\ GenesisFrozen
  BY InitTypeOK, InitGenesis DEF ClientInit
<1>2. TypeOK /\ GenesisFrozen /\ [ClientNext]_every
        => TypeOK' /\ GenesisFrozen'
  BY ClientNextIsChainStep, NextTypeOK, NextGenesis, AgainTypeOK, AgainGenesis
<1> QED
  BY <1>1, <1>2, PTL DEF ClientSpec
=============================================================================
