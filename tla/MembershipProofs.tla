-------------------------- MODULE MembershipProofs --------------------------
(***************************************************************************)
(* Theorems about MembershipChain, for any nodes, committee, bounds and    *)
(* number of epochs.                                                       *)
(***************************************************************************)
EXTENDS MembershipProperties, TLAPS

-----------------------------------------------------------------------------
(***************************************************************************)
(* The types.  The sets of records stay folded except where a record is    *)
(* built, so that each leaf is about one variable.                         *)
(***************************************************************************)
LEMMA InitTypeOK == Init => TypeOK
<1>1. 0 \in Epoch /\ MaxEpoch \in Nat \ {0}
  BY MaxEpochAssumption DEF Epoch
<1>2. NoSigners \in History /\ Genesis \in SUBSET Node
  BY NodeAssumption DEF NoSigners, History
<1> SUFFICES ASSUME Init PROVE TypeOK
  OBVIOUS
<1>3. storage \in [Node -> Store]
  BY <1>1, <1>2 DEF Init, GenesisStorage, Store, History
<1>4. view \in [Node -> View]
  BY <1>1 DEF Init, NoView, View
<1>5. NodeTypeOK
  <2>1. <<>> \in Seq(Epoch)
    OBVIOUS
  <2>2. epochChan \in [Node -> Seq(Epoch)]
    BY <2>1 DEF Init
  <2> QED
    BY <1>1, <1>2, <1>3, <1>4, <2>2 DEF Init, NodeTypeOK
<1>6. CallTypeOK
  BY <1>1 DEF Init, CallTypeOK, Idle, NoRound, Registration, Round, Count
<1>7. ClockTypeOK
  BY <1>1 DEF Init, ClockInit, ClockTypeOK, Slot
<1>8. NetTypeOK
  BY DEF Init, NetTypeOK
<1> QED
  BY <1>5, <1>6, <1>7, <1>8 DEF TypeOK

LEMMA TickTypeOK == ClockTypeOK /\ Tick => ClockTypeOK'
  BY MaxEpochAssumption
  DEF ClockTypeOK, Tick, CloseRegistration, BeginLive, BeginCycle, Epoch, Slot

\* What the helpers on the storage and on an announce return.
LEMMA LockedType ==
  ASSUME storage \in [Node -> Store], NEW n \in Node, NEW b \in BOOLEAN
  PROVE  [storage EXCEPT ![n].locked = b] \in [Node -> Store]
  BY DEF Store

LEMMA ExtendedType ==
  ASSUME storage \in [Node -> Store], NEW n \in Node, NEW k \in Epoch
  PROVE  Extended(n, k) \in Store
  BY MaxEpochAssumption DEF Extended, Store, Epoch

LEMMA StoredType ==
  ASSUME storage \in [Node -> Store], NEW n \in Node, NEW m \in Announce
  PROVE  Stored(n, m) \in Store
<1> DEFINE s == Extended(n, m.epoch)
<1>1. m.epoch \in Epoch /\ m.from \in Node
  BY DEF Announce
<1>2. s \in Store
  BY <1>1, ExtendedType
<1> HIDE DEF s
<1>3. [s.set EXCEPT ![m.epoch] = @ \cup {m.from}] \in History
  BY <1>1, <1>2 DEF Store, History
<1>4. [s EXCEPT !.set = [s.set EXCEPT ![m.epoch] = @ \cup {m.from}]] \in Store
  BY <1>2, <1>3 DEF Store
<1> QED
  BY <1>4 DEF Stored, s

LEMMA RefusedType ==
  ASSUME storage \in [Node -> Store], NEW n \in Node, NEW k \in Epoch
  PROVE  [Extended(n, k) EXCEPT !.locked = TRUE] \in Store
<1> DEFINE s == Extended(n, k)
<1>1. s \in Store
  BY ExtendedType
<1> HIDE DEF s
<1>2. [s EXCEPT !.locked = TRUE] \in Store
  BY <1>1 DEF Store
<1> QED
  BY <1>2 DEF s

LEMMA PassedOnType ==
  ASSUME NEW m \in Announce PROVE PassedOn(m) \subseteq Announce
  BY DEF PassedOn, Announce

\* Counting an answer, whichever set of answers it goes to.
LEMMA AnsweredType ==
  ASSUME reg \in [Node -> Registration], NEW n \in Node, NEW x \in Node
  PROVE  /\ [reg EXCEPT ![n].stored = @ \cup {x}] \in [Node -> Registration]
         /\ [reg EXCEPT ![n].refused = @ \cup {x}] \in [Node -> Registration]
<1>1. [reg EXCEPT ![n].stored = @ \cup {x}] \in [Node -> Registration]
  BY DEF Registration
<1>2. [reg EXCEPT ![n].refused = @ \cup {x}] \in [Node -> Registration]
  BY DEF Registration
<1> QED
  BY <1>1, <1>2

LEMMA CountType ==
  ASSUME calls \in [Node -> Count], NEW n \in Node
  PROVE  /\ [calls EXCEPT ![n].update = @ + 1] \in [Node -> Count]
         /\ [calls EXCEPT ![n].register = @ + 1] \in [Node -> Count]
         /\ [calls EXCEPT ![n].consensus = @ + 1] \in [Node -> Count]
<1>1. [calls EXCEPT ![n].update = @ + 1] \in [Node -> Count]
  BY DEF Count
<1>2. [calls EXCEPT ![n].register = @ + 1] \in [Node -> Count]
  BY DEF Count
<1>3. [calls EXCEPT ![n].consensus = @ + 1] \in [Node -> Count]
  BY DEF Count
<1> QED
  BY <1>1, <1>2, <1>3

LEMMA VotesType ==
  ASSUME cons \in [Node -> Round], NEW n \in Node, NEW m \in Node
  PROVE  [cons EXCEPT ![n].votes = @ \cup {m}] \in [Node -> Round]
  BY DEF Round

LEMMA IdleType == Idle \in Registration /\ NoRound \in Round
  BY MaxEpochAssumption DEF Idle, NoRound, Registration, Round, Epoch

-----------------------------------------------------------------------------
LEMMA RegisterTypeOK ==
  ASSUME TypeOK, NEW n \in Node, Register(n) PROVE TypeOK'
<1>1. /\ storage \in [Node -> Store]
      /\ reg \in [Node -> Registration]
      /\ calls \in [Node -> Count]
  BY DEF TypeOK, NodeTypeOK, CallTypeOK
<1>2. ASSUME NEW m \in announces PROVE m \in Announce /\ m.from \in Node
                                       /\ m.epoch \in Epoch
  BY DEF TypeOK, NetTypeOK, Announce
<1>3. ASSUME NEW m \in announces, LearnServer(n, m)
      PROVE  /\ servers' \in [Node -> SUBSET Node]
             /\ names' \in [Node -> SUBSET Node]
  BY <1>2, <1>3 DEF LearnServer, TypeOK, NodeTypeOK
<1>4. CASE RegisterBegins(n)
  <2>1. e[n] + 1 \in Epoch
    BY <1>4, MaxEpochAssumption
    DEF RegisterBegins, MayRegister, Epoch, TypeOK, NodeTypeOK
  <2>2. CurrentSigners(n) \cup {n} \in SUBSET Node
    BY <1>1 DEF CurrentSigners, Store, History, TypeOK, NodeTypeOK
  <2>3. [Idle EXCEPT !.pc = "cosi", !.epoch = e[n] + 1,
                     !.roster = CurrentSigners(n) \cup {n}] \in Registration
    BY <2>1, <2>2 DEF Idle, Registration
  <2>4. reg' \in [Node -> Registration]
    BY <1>1, <1>4, <2>3 DEF RegisterBegins
  <2>5. [calls EXCEPT ![n].register = @ + 1] \in [Node -> Count]
    BY <1>1, CountType
  <2> QED
    BY <1>4, <2>4, <2>5 DEF RegisterBegins, nodeVars, netVars,
       TypeOK, NodeTypeOK, CallTypeOK, NetTypeOK, ClockTypeOK
<1>5. CASE RegisterLeaksLock(n)
  <2>1. storage' \in [Node -> Store]
    BY <1>1, <1>5, LockedType DEF RegisterLeaksLock
  <2> QED
    BY <1>5, <2>1 DEF RegisterLeaksLock, callVars, netVars,
       TypeOK, NodeTypeOK, CallTypeOK, NetTypeOK, ClockTypeOK
<1>6. CASE SignatureReturns(n)
  <2>1. Announced(n) \in Epoch
    BY <1>6, MaxEpochAssumption
    DEF SignatureReturns, Announced, Epoch, TypeOK, NodeTypeOK
  <2>2. [reg EXCEPT ![n].pc = "gossip"] \in [Node -> Registration]
    BY <1>1 DEF Registration
  <2>3. reg[n].roster \in SUBSET Node /\ calls[n].register \in Nat
    BY <1>1 DEF Registration, Count
  <2>4. [from |-> n, to |-> n, epoch |-> Announced(n),
         roster |-> reg[n].roster, call |-> calls[n].register] \in Announce
    BY <2>1, <2>3 DEF Announce
  <2>5. announces' \subseteq Announce
    BY <1>6, <2>4 DEF SignatureReturns, TypeOK, NetTypeOK
  <2> QED
    BY <1>6, <2>2, <2>5 DEF SignatureReturns, nodeVars,
       TypeOK, NodeTypeOK, CallTypeOK, NetTypeOK, ClockTypeOK
<1>7. CASE AnnounceStored(n)
  <2>1. PICK m \in announces : AnnounceStored(n)!(m)
    BY <1>7 DEF AnnounceStored
  <2>2. storage' \in [Node -> Store]
    BY <1>1, <1>2, <2>1, StoredType
  <2>3. announces' \subseteq Announce
    BY <1>2, <2>1, PassedOnType DEF TypeOK, NetTypeOK
  <2>4. reg' \in [Node -> Registration]
    BY <1>1, <1>2, <2>1, AnsweredType
  <2> QED
    BY <1>3, <2>1, <2>2, <2>3, <2>4
    DEF TypeOK, NodeTypeOK, CallTypeOK, NetTypeOK, ClockTypeOK
<1>8. CASE AnnounceRefused(n)
  <2>1. PICK m \in announces : AnnounceRefused(n)!(m)
    BY <1>8 DEF AnnounceRefused
  <2>2. [Extended(n, m.epoch) EXCEPT !.locked = TRUE] \in Store
    BY <1>1, <1>2, RefusedType
  <2>3. storage' \in [Node -> Store]
    BY <1>1, <2>1, <2>2
  <2>4. announces' \subseteq Announce
    BY <1>2, <2>1, PassedOnType DEF TypeOK, NetTypeOK
  <2>5. reg' \in [Node -> Registration]
    BY <1>1, <1>2, <2>1, AnsweredType
  <2> QED
    BY <1>3, <2>1, <2>3, <2>4, <2>5
    DEF TypeOK, NodeTypeOK, CallTypeOK, NetTypeOK, ClockTypeOK
<1>9. CASE AnnounceStuck(n)
  <2>1. PICK m \in announces : AnnounceStuck(n)!(m)
    BY <1>9 DEF AnnounceStuck
  <2>2. storage' \in [Node -> Store]
    BY <1>1, <2>1, LockedType
  <2> QED
    BY <1>3, <2>1, <2>2 DEF callVars,
       TypeOK, NodeTypeOK, CallTypeOK, NetTypeOK, ClockTypeOK
<1>10. CASE RegisterEnds(n)
  <2>1. reg' \in [Node -> Registration]
    BY <1>1, <1>10, IdleType DEF RegisterEnds
  <2>2. reg[n].epoch \in Epoch
    BY <1>1 DEF Registration
  <2>3. confirmed' \in [Node -> SUBSET Epoch]
    BY <1>10, <2>2 DEF RegisterEnds, TypeOK, NodeTypeOK
  <2> QED
    BY <1>10, <2>1, <2>3 DEF RegisterEnds, netVars,
       TypeOK, NodeTypeOK, CallTypeOK, NetTypeOK, ClockTypeOK
<1>11. CASE RegisterTimesOut(n)
  <2>1. reg' \in [Node -> Registration]
    BY <1>1, <1>11, IdleType DEF RegisterTimesOut
  <2> QED
    BY <1>11, <2>1 DEF RegisterTimesOut, nodeVars, netVars,
       TypeOK, NodeTypeOK, CallTypeOK, NetTypeOK, ClockTypeOK
<1> QED
  BY <1>4, <1>5, <1>6, <1>7, <1>8, <1>9, <1>10, <1>11 DEF Register

-----------------------------------------------------------------------------
LEMMA AskType ==
  ASSUME TypeOK, NEW n \in Node, NEW t \in Node, Ask(n, t)
  PROVE  requests' \subseteq Request
<1>1. calls[n].update \in Nat
  BY DEF TypeOK, CallTypeOK, Count
<1> QED
  BY <1>1 DEF Ask, Request, TypeOK, NetTypeOK

LEMMA RebuiltType ==
  ASSUME NEW set \in History, NEW k \in Epoch PROVE Rebuilt(k, set) \in Store
  BY MaxEpochAssumption DEF Rebuilt, Store, Epoch

LEMMA UpdateTypeOK ==
  ASSUME TypeOK, NEW n \in Node, Update(n) PROVE TypeOK'
<1>1. /\ storage \in [Node -> Store]
      /\ calls \in [Node -> Count]
      /\ epochChan \in [Node -> Seq(Epoch)]
  BY DEF TypeOK, NodeTypeOK, CallTypeOK
<1>2. [calls EXCEPT ![n].update = @ + 1] \in [Node -> Count]
  BY <1>1, CountType
<1>3. ASSUME NEW h \in histories
      PROVE  /\ h.set \in History
             /\ LearnAll(n, h) => /\ servers' \in [Node -> SUBSET Node]
                                  /\ names' \in [Node -> SUBSET Node]
  <2>1. h \in Reply
    BY DEF TypeOK, NetTypeOK
  <2>2. /\ h.set \in History
        /\ h.servers \in SUBSET Node
        /\ h.names \in SUBSET Node
    BY <2>1 DEF Reply
  <2>3. /\ servers \in [Node -> SUBSET Node]
        /\ names \in [Node -> SUBSET Node]
    BY DEF TypeOK, NodeTypeOK
  <2> QED
    BY <2>2, <2>3 DEF LearnAll
<1>4. CASE UpdateBegins(n)
  <2>1. PICK t \in servers[n] \ {n} : Ask(n, t)
    BY <1>4 DEF UpdateBegins
  <2>2. requests' \subseteq Request
    BY <2>1, AskType DEF TypeOK, NodeTypeOK
  <2> QED
    BY <1>2, <1>4, <2>2 DEF UpdateBegins, nodeVars,
       TypeOK, NodeTypeOK, CallTypeOK, NetTypeOK, ClockTypeOK
<1>5. CASE UpdateTimesOut(n)
  <2>1. requests' \subseteq Request
    BY <1>5, AskType, NodeAssumption DEF UpdateTimesOut
  <2> QED
    BY <1>2, <1>5, <2>1 DEF UpdateTimesOut, nodeVars,
       TypeOK, NodeTypeOK, CallTypeOK, NetTypeOK, ClockTypeOK
<1>6. CASE UpdateEnds(n)
  <2>1. e' \in [Node -> Epoch] /\ epochChan' \in [Node -> Seq(Epoch)]
    BY <1>1, <1>6 DEF UpdateEnds, TypeOK, NodeTypeOK
  <2> QED
    BY <1>6, <2>1 DEF UpdateEnds, netVars,
       TypeOK, NodeTypeOK, CallTypeOK, NetTypeOK, ClockTypeOK
<1>7. CASE HistoryRead(n)
  <2>1. PICK r \in requests : HistoryRead(n)!(r)
    BY <1>7 DEF HistoryRead
  <2>2. r \in Request /\ storage[n].set \in History
    BY <1>1 DEF TypeOK, NetTypeOK, Store
  <2>3. snapshots' \subseteq Snapshot
    BY <2>1, <2>2 DEF Snapshot, TypeOK, NetTypeOK
  <2> QED
    BY <2>1, <2>3 DEF nodeVars, callVars,
       TypeOK, NodeTypeOK, CallTypeOK, NetTypeOK, ClockTypeOK
<1>8. CASE HistorySent(n)
  <2>1. PICK s \in snapshots : HistorySent(n)!(s)
    BY <1>8 DEF HistorySent
  <2>2. s \in Snapshot
    BY DEF TypeOK, NetTypeOK
  <2>3. [req |-> s.req, set |-> s.set,
         servers |-> servers[n], names |-> names[n]] \in Reply
    BY <2>2 DEF Snapshot, Reply, TypeOK, NodeTypeOK
  <2>4. histories' \subseteq Reply
    BY <2>1, <2>3 DEF TypeOK, NetTypeOK
  <2> QED
    BY <2>1, <2>4 DEF nodeVars, callVars,
       TypeOK, NodeTypeOK, CallTypeOK, NetTypeOK, ClockTypeOK
<1>9. CASE HistoryReceived(n)
  <2>1. PICK h \in histories, last \in Epoch : HistoryReceived(n)!(h, last)
    BY <1>9 DEF HistoryReceived
  <2>2. storage' \in [Node -> Store]
    BY <1>1, <1>3, <2>1, RebuiltType
  <2>3. (IF e[n] < last THEN last ELSE e[n]) \in Epoch
    BY DEF TypeOK, NodeTypeOK
  <2>4. epochChan' \in [Node -> Seq(Epoch)]
    BY <1>1, <2>1, <2>3
  <2> QED
    BY <1>3, <2>1, <2>2, <2>4 DEF callVars,
       TypeOK, NodeTypeOK, CallTypeOK, NetTypeOK, ClockTypeOK
<1>10. CASE HistoryStuck(n)
  <2>1. PICK h \in histories : HistoryStuck(n)!(h)
    BY <1>10 DEF HistoryStuck
  <2> QED
    BY <1>3, <2>1 DEF callVars,
       TypeOK, NodeTypeOK, CallTypeOK, NetTypeOK, ClockTypeOK
<1> QED
  BY <1>4, <1>5, <1>6, <1>7, <1>8, <1>9, <1>10 DEF Update

-----------------------------------------------------------------------------
LEMMA ConsensusTypeOK ==
  ASSUME TypeOK, NEW n \in Node, Consensus(n) PROVE TypeOK'
<1>1. /\ storage \in [Node -> Store]
      /\ cons \in [Node -> Round]
      /\ calls \in [Node -> Count]
      /\ epochChan \in [Node -> Seq(Epoch)]
  BY DEF TypeOK, NodeTypeOK, CallTypeOK
<1>2. CASE ConsensusBegins(n)
  <2>1. e[n] \in Epoch /\ CurrentSigners(n) \in SUBSET Node
    BY <1>1 DEF CurrentSigners, Store, History, TypeOK, NodeTypeOK
  <2>2. cons' \in [Node -> Round]
    BY <1>1, <1>2, <2>1 DEF ConsensusBegins, Round
  <2>3. [calls EXCEPT ![n].consensus = @ + 1] \in [Node -> Count]
    BY <1>1, CountType
  <2> QED
    BY <1>2, <2>2, <2>3 DEF ConsensusBegins, nodeVars, netVars,
       TypeOK, NodeTypeOK, CallTypeOK, NetTypeOK, ClockTypeOK
<1>3. CASE ConsensusPanics(n)
  <2>1. storage' \in [Node -> Store]
    BY <1>1, <1>3, LockedType DEF ConsensusPanics
  <2> QED
    BY <1>3, <2>1 DEF ConsensusPanics, callVars, netVars,
       TypeOK, NodeTypeOK, CallTypeOK, NetTypeOK, ClockTypeOK
<1>4. ASSUME NEW m \in Node, SignersAgreed(m, n) PROVE TypeOK'
  <2>1. [cons EXCEPT ![n].votes = @ \cup {m}] \in [Node -> Round]
    BY <1>1, VotesType
  <2> QED
    BY <1>4, <2>1 DEF SignersAgreed, nodeVars, netVars,
       TypeOK, NodeTypeOK, CallTypeOK, NetTypeOK, ClockTypeOK
<1>5. CASE ConsensusReached(n)
  <2>1. e[n] + 1 \in Epoch /\ calls[n].consensus \in Nat
    BY <1>1, <1>5, MaxEpochAssumption
    DEF ConsensusReached, Epoch, Count, TypeOK, NodeTypeOK
  <2>2. NewSigners(n) \subseteq Node
    BY <1>1, <2>1 DEF NewSigners, Store, History
  <2>3. requests' \subseteq Request
    BY <1>5, <2>1, <2>2 DEF ConsensusReached, Request, TypeOK, NetTypeOK
  <2>4. epochChan' \in [Node -> Seq(Epoch)]
    BY <1>1, <1>5, <2>1 DEF ConsensusReached
  <2>5. cons' \in [Node -> Round]
    BY <1>1, <1>5, IdleType DEF ConsensusReached
  <2> QED
    BY <1>5, <2>3, <2>4, <2>5 DEF ConsensusReached,
       TypeOK, NodeTypeOK, CallTypeOK, NetTypeOK, ClockTypeOK
<1>6. CASE ConsensusFails(n)
  <2>1. cons' \in [Node -> Round]
    BY <1>1, <1>6, IdleType DEF ConsensusFails
  <2> QED
    BY <1>6, <2>1 DEF ConsensusFails, nodeVars, netVars,
       TypeOK, NodeTypeOK, CallTypeOK, NetTypeOK, ClockTypeOK
<1> QED
  BY <1>2, <1>3, <1>4, <1>5, <1>6 DEF Consensus

-----------------------------------------------------------------------------
LEMMA StartTypeOK ==
  ASSUME TypeOK, NEW n \in Node, Start(n) PROVE TypeOK'
<1>1. /\ storage \in [Node -> Store]
      /\ epochChan \in [Node -> Seq(Epoch)]
  BY DEF TypeOK, NodeTypeOK
<1>2. ASSUME NEW k \in Epoch, TokenTaken(n, k)
      PROVE  e' \in [Node -> Epoch] /\ epochChan' \in [Node -> Seq(Epoch)]
  BY <1>1, <1>2 DEF TokenTaken, TypeOK, NodeTypeOK
<1>3. CASE StartBegins(n)
  BY <1>3 DEF StartBegins, nodeVars, netVars,
     TypeOK, NodeTypeOK, CallTypeOK, NetTypeOK, ClockTypeOK
<1>4. CASE StartSucceeds(n)
  <2>1. PICK k \in Epoch : StartSucceeds(n)!(k)
    BY <1>4 DEF StartSucceeds
  <2>2. storage[n].set[k] \in SUBSET Node
    BY <1>1 DEF Store, History
  <2>3. view' \in [Node -> View]
    BY <2>1, <2>2 DEF View, TypeOK, NodeTypeOK
  <2> QED
    BY <1>2, <2>1, <2>3 DEF TokenTaken, netVars,
       TypeOK, NodeTypeOK, CallTypeOK, NetTypeOK, ClockTypeOK
<1>5. CASE StartFails(n)
  <2>1. PICK k \in Epoch : StartFails(n)!(k)
    BY <1>5 DEF StartFails
  <2>2. IndexPanics(n, k) \in BOOLEAN
    BY DEF IndexPanics
  <2>3. storage' \in [Node -> Store]
    BY <1>1, <2>1, <2>2, LockedType
  <2> QED
    BY <1>2, <2>1, <2>3 DEF TokenTaken, netVars,
       TypeOK, NodeTypeOK, CallTypeOK, NetTypeOK, ClockTypeOK
<1>6. CASE StartStuck(n)
  <2>1. PICK k \in Epoch : StartStuck(n)!(k)
    BY <1>6 DEF StartStuck
  <2> QED
    BY <1>2, <2>1 DEF TokenTaken, netVars,
       TypeOK, NodeTypeOK, CallTypeOK, NetTypeOK, ClockTypeOK
<1> QED
  BY <1>3, <1>4, <1>5, <1>6 DEF Start

-----------------------------------------------------------------------------
LEMMA NextTypeOK == TypeOK /\ [Next]_vars => TypeOK'
<1> SUFFICES ASSUME TypeOK, [Next]_vars PROVE TypeOK'
  OBVIOUS
<1>1. CASE PassTime
  BY <1>1, TickTypeOK DEF PassTime, nodeVars, callVars, netVars,
     TypeOK, NodeTypeOK, CallTypeOK, NetTypeOK
<1>2. CASE UNCHANGED vars
  BY <1>2 DEF vars, nodeVars, callVars, netVars,
     TypeOK, NodeTypeOK, CallTypeOK, NetTypeOK, ClockTypeOK
<1> QED
  BY <1>1, <1>2, RegisterTypeOK, UpdateTypeOK, ConsensusTypeOK, StartTypeOK
  DEF Next

\* The state and the messages keep their types.
THEOREM TypeCorrect == Spec => []TypeOK
  BY InitTypeOK, NextTypeOK, PTL DEF Spec

-----------------------------------------------------------------------------
(***************************************************************************)
(* Safety, on top of the types.  Only four actions change who is believed  *)
(* to be a signer; the others are Quiet, and every proof below treats      *)
(* these five cases.                                                       *)
(***************************************************************************)
\* A step that touches nobody's signers, in a storage or in a message.
Quiet ==
    /\ \A n \in Node : /\ storage'[n].set = storage[n].set
                       /\ storage'[n].len >= storage[n].len
    /\ snapshots' \subseteq snapshots
    /\ histories' \subseteq histories

LEMMA LockedQuiet ==
  ASSUME storage \in [Node -> Store], NEW n \in Node, NEW b \in BOOLEAN,
         storage' = [storage EXCEPT ![n].locked = b]
  PROVE  \A m \in Node : /\ storage'[m].set = storage[m].set
                         /\ storage'[m].len >= storage[m].len
  BY MaxEpochAssumption DEF Store

LEMMA SameQuiet ==
  ASSUME storage \in [Node -> Store], storage' = storage
  PROVE  \A m \in Node : /\ storage'[m].set = storage[m].set
                         /\ storage'[m].len >= storage[m].len
  BY MaxEpochAssumption DEF Store

LEMMA RefusedQuiet ==
  ASSUME storage \in [Node -> Store], NEW n \in Node, NEW k \in Epoch,
         storage' = [storage EXCEPT ![n] =
                       [Extended(n, k) EXCEPT !.locked = TRUE]]
  PROVE  \A m \in Node : /\ storage'[m].set = storage[m].set
                         /\ storage'[m].len >= storage[m].len
<1> DEFINE s == Extended(n, k)
<1>1. s \in Store /\ s.set = storage[n].set /\ s.len >= storage[n].len
  <2>1. storage[n] \in Store
    OBVIOUS
  <2> QED
    BY <2>1, ExtendedType, MaxEpochAssumption DEF Extended, Store, Epoch
<1> HIDE DEF s
<1>2. storage' = [storage EXCEPT ![n] = [s EXCEPT !.locked = TRUE]]
  BY DEF s
<1>3. \A m \in Node : storage[m].len >= storage[m].len
  BY MaxEpochAssumption DEF Store
<1> QED
  BY <1>1, <1>2, <1>3 DEF Store

\* Every action but four is quiet.
LEMMA StepKinds ==
  ASSUME TypeOK, [Next]_vars
  PROVE  \/ Quiet
         \/ \E n \in Node : \/ AnnounceStored(n) \/ HistoryRead(n)
                            \/ HistorySent(n) \/ HistoryReceived(n)
<1>1. storage \in [Node -> Store]
  BY DEF TypeOK, NodeTypeOK
<1>2. ASSUME NEW m \in announces PROVE m.epoch \in Epoch
  BY DEF TypeOK, NetTypeOK, Announce
<1>3. CASE PassTime \/ UNCHANGED vars
  BY <1>1, <1>3, SameQuiet DEF PassTime, vars, nodeVars, netVars, Quiet
<1>4. ASSUME NEW n \in Node, Register(n) PROVE Quiet \/ AnnounceStored(n)
  <2>1. CASE RegisterBegins(n) \/ SignatureReturns(n)
             \/ RegisterEnds(n) \/ RegisterTimesOut(n)
    BY <1>1, <2>1, SameQuiet DEF RegisterBegins, SignatureReturns,
       RegisterEnds, RegisterTimesOut, nodeVars, netVars, Quiet
  <2>2. CASE RegisterLeaksLock(n)
    BY <1>1, <2>2, LockedQuiet DEF RegisterLeaksLock, netVars, Quiet
  <2>3. CASE AnnounceRefused(n)
    <3>1. PICK m \in announces : AnnounceRefused(n)!(m)
      BY <2>3 DEF AnnounceRefused
    <3> QED
      BY <1>1, <1>2, <3>1, RefusedQuiet DEF Quiet
  <2>4. CASE AnnounceStuck(n)
    BY <1>1, <2>4, LockedQuiet DEF AnnounceStuck, Quiet
  <2> QED
    BY <1>4, <2>1, <2>2, <2>3, <2>4 DEF Register
<1>5. ASSUME NEW n \in Node, Update(n)
      PROVE  Quiet \/ HistoryRead(n) \/ HistorySent(n) \/ HistoryReceived(n)
  <2>1. CASE UpdateBegins(n) \/ UpdateTimesOut(n) \/ UpdateEnds(n)
    BY <1>1, <2>1, SameQuiet DEF UpdateBegins, UpdateTimesOut, UpdateEnds,
       nodeVars, netVars, Quiet
  <2>2. CASE HistoryStuck(n)
    BY <1>1, <2>2, SameQuiet DEF HistoryStuck, Quiet
  <2> QED
    BY <1>5, <2>1, <2>2 DEF Update
<1>6. ASSUME NEW n \in Node, Consensus(n) PROVE Quiet
  <2>1. CASE ConsensusPanics(n)
    BY <1>1, <2>1, LockedQuiet DEF ConsensusPanics, netVars, Quiet
  <2>2. CASE ~ ConsensusPanics(n)
    BY <1>1, <1>6, <2>2, SameQuiet DEF Consensus, ConsensusBegins,
       SignersAgreed, ConsensusReached, ConsensusFails, nodeVars, netVars,
       Quiet
  <2> QED
    BY <2>1, <2>2
<1>7. ASSUME NEW n \in Node, Start(n) PROVE Quiet
  <2>1. CASE StartBegins(n) \/ StartSucceeds(n) \/ StartStuck(n)
    BY <1>1, <2>1, SameQuiet DEF StartBegins, StartSucceeds, StartStuck,
       TokenTaken, nodeVars, netVars, Quiet
  <2>2. CASE StartFails(n)
    <3>1. PICK k \in Epoch : StartFails(n)!(k)
      BY <2>2 DEF StartFails
    <3>2. IndexPanics(n, k) \in BOOLEAN
      BY DEF IndexPanics
    <3> QED
      BY <1>1, <3>1, <3>2, LockedQuiet DEF TokenTaken, netVars, Quiet
  <2> QED
    BY <1>7, <2>1, <2>2 DEF Start
<1> QED
  BY <1>3, <1>4, <1>5, <1>6, <1>7 DEF Next

\* The signers after each of the four others.
LEMMA StoredSets ==
  ASSUME TypeOK, NEW n \in Node, NEW m \in announces,
         storage' = [storage EXCEPT ![n] = Stored(n, m)]
  PROVE  /\ m.epoch \in Epoch /\ m.from \in Node
         /\ storage'[n].set = [storage[n].set EXCEPT ![m.epoch] = @ \cup {m.from}]
         /\ storage'[n].len >= storage[n].len
         /\ \A a \in Node \ {n} : storage'[a] = storage[a]
<1>1. m.epoch \in Epoch /\ m.from \in Node
  BY DEF TypeOK, NetTypeOK, Announce
<1>2. storage \in [Node -> Store]
  BY DEF TypeOK, NodeTypeOK
<1> DEFINE s == Extended(n, m.epoch)
<1>3. s \in Store /\ s.set = storage[n].set /\ s.len >= storage[n].len
  <2>1. storage[n] \in Store
    BY <1>2
  <2> QED
    BY <1>1, <1>2, <2>1, ExtendedType, MaxEpochAssumption
    DEF Extended, Store, Epoch
<1>4. storage' = [storage EXCEPT ![n] =
                    [s EXCEPT !.set = [s.set EXCEPT ![m.epoch] = @ \cup {m.from}]]]
  BY DEF Stored
<1> HIDE DEF s
<1> QED
  BY <1>1, <1>2, <1>3, <1>4 DEF Store

LEMMA ReceivedSets ==
  ASSUME TypeOK, NEW n \in Node, NEW h \in histories, NEW last \in Epoch,
         storage' = [storage EXCEPT ![n] = Rebuilt(last, h.set)]
  PROVE  /\ storage'[n].set = h.set
         /\ storage'[n].len > 0
         /\ \A a \in Node \ {n} : storage'[a] = storage[a]
<1>1. storage \in [Node -> Store]
  BY DEF TypeOK, NodeTypeOK
<1>2. /\ Rebuilt(last, h.set).set = h.set
      /\ Rebuilt(last, h.set).len > 0
  BY MaxEpochAssumption DEF Rebuilt, Epoch
<1> QED
  BY <1>1, <1>2

-----------------------------------------------------------------------------
(***************************************************************************)
(* The committee of the genesis epoch never changes.                       *)
(***************************************************************************)
LEMMA InitGenesis == Init => GenesisFrozen
  BY MaxEpochAssumption DEF Init, GenesisStorage, GenesisFrozen, NoSigners, Epoch

LEMMA NextGenesis == TypeOK /\ GenesisFrozen /\ [Next]_vars => GenesisFrozen'
<1> SUFFICES ASSUME TypeOK, GenesisFrozen, [Next]_vars PROVE GenesisFrozen'
  OBVIOUS
<1>1. \A n \in Node : /\ storage[n].len \in Nat /\ storage[n].len > 0
                      /\ storage[n].set[0] = Genesis
  BY MaxEpochAssumption DEF GenesisFrozen, TypeOK, NodeTypeOK, Store
<1>2. CASE Quiet
  <2>1. ASSUME NEW n \in Node PROVE storage'[n].len \in Nat
    BY NextTypeOK, MaxEpochAssumption DEF TypeOK, NodeTypeOK, Store
  <2>2. \A n \in Node : storage'[n].len > 0 /\ storage'[n].set[0] = Genesis
    BY <1>1, <1>2, <2>1 DEF Quiet
  <2> QED
    BY <1>2, <2>2 DEF Quiet, GenesisFrozen
<1>3. ASSUME NEW n \in Node, AnnounceStored(n) PROVE GenesisFrozen'
  <2>1. PICK m \in announces : AnnounceStored(n)!(m)
    BY <1>3 DEF AnnounceStored
  <2>2. /\ m.epoch \in Epoch
        /\ storage'[n].set =
             [storage[n].set EXCEPT ![m.epoch] = @ \cup {m.from}]
        /\ storage'[n].len >= storage[n].len
        /\ \A a \in Node \ {n} : storage'[a] = storage[a]
    BY <2>1, StoredSets
  <2>3. m.epoch # 0
    BY <2>1, <2>2, MaxEpochAssumption
    DEF Refused, TypeOK, ClockTypeOK, Epoch
  <2>4. storage'[n].len \in Nat
    BY NextTypeOK, MaxEpochAssumption DEF TypeOK, NodeTypeOK, Store
  <2>5. storage'[n].set[0] = Genesis
    BY <1>1, <2>2, <2>3 DEF TypeOK, NodeTypeOK, Store, History
  <2>6. storage'[n].len > 0
    BY <1>1, <2>2, <2>4
  <2>7. \A a \in Node : storage'[a].len > 0 /\ storage'[a].set[0] = Genesis
    BY <1>1, <2>2, <2>5, <2>6
  <2> QED
    BY <2>1, <2>7 DEF GenesisFrozen
<1>4. ASSUME NEW n \in Node, HistoryRead(n) PROVE GenesisFrozen'
  BY <1>1, <1>4 DEF HistoryRead, GenesisFrozen, nodeVars
<1>5. ASSUME NEW n \in Node, HistorySent(n) PROVE GenesisFrozen'
  BY <1>5 DEF HistorySent, GenesisFrozen, nodeVars
<1>6. ASSUME NEW n \in Node, HistoryReceived(n) PROVE GenesisFrozen'
  <2>1. PICK h \in histories, last \in Epoch : HistoryReceived(n)!(h, last)
    BY <1>6 DEF HistoryReceived
  <2>2. h.set[0] = Genesis
    BY DEF GenesisFrozen
  <2>3. /\ storage'[n].set = h.set
        /\ storage'[n].len > 0
        /\ \A a \in Node \ {n} : storage'[a] = storage[a]
    BY <2>1, ReceivedSets
  <2>4. \A a \in Node : storage'[a].len > 0 /\ storage'[a].set[0] = Genesis
    BY <1>1, <2>2, <2>3
  <2> QED
    BY <2>1, <2>4 DEF GenesisFrozen
<1> QED
  BY <1>2, <1>3, <1>4, <1>5, <1>6, StepKinds

\* Whatever is announced, stored and copied, the signers of epoch 0 stay the
\* ones SetGenesisSigners installed, in every storage and every history.
THEOREM GenesisStays == Spec => []GenesisFrozen
  BY InitTypeOK, NextTypeOK, InitGenesis, NextGenesis, PTL DEF Spec

-----------------------------------------------------------------------------
(***************************************************************************)
(* A committee is closed once its consensus slot begins.                   *)
(***************************************************************************)
\* Announces are stored in the open slot only; the other steps copy signers
\* somebody already believes in.
LEMMA NextNoLateSigner ==
  ASSUME TypeOK, [Next]_vars, NEW k \in Epoch, Closed(k)
  PROVE  Believed(k)' \subseteq Believed(k)
<1>1. ASSUME \A a \in Node : storage'[a].set[k] \subseteq Believed(k),
             \A s \in snapshots' \cup histories' : s.set[k] \subseteq Believed(k)
      PROVE  Believed(k)' \subseteq Believed(k)
  BY <1>1 DEF Believed
<1>2. /\ \A a \in Node : storage[a].set[k] \subseteq Believed(k)
      /\ \A s \in snapshots \cup histories : s.set[k] \subseteq Believed(k)
  BY DEF Believed
<1>3. CASE Quiet
  BY <1>1, <1>2, <1>3 DEF Quiet
<1>4. ASSUME NEW n \in Node, AnnounceStored(n)
      PROVE  Believed(k)' \subseteq Believed(k)
  <2>1. PICK m \in announces : AnnounceStored(n)!(m)
    BY <1>4 DEF AnnounceStored
  <2>2. /\ m.epoch \in Epoch
        /\ storage'[n].set =
             [storage[n].set EXCEPT ![m.epoch] = @ \cup {m.from}]
        /\ \A a \in Node \ {n} : storage'[a] = storage[a]
    BY <2>1, StoredSets
  <2>3. m.epoch # k
    BY <2>1, <2>2, MaxEpochAssumption
    DEF Refused, TooLate, Closed, TypeOK, ClockTypeOK, Epoch
  <2>4. storage'[n].set[k] = storage[n].set[k]
    BY <2>2, <2>3 DEF TypeOK, NodeTypeOK, Store, History
  <2> QED
    BY <1>1, <1>2, <2>1, <2>2, <2>4
<1>5. ASSUME NEW n \in Node, HistoryRead(n)
      PROVE  Believed(k)' \subseteq Believed(k)
  BY <1>1, <1>2, <1>5 DEF HistoryRead, nodeVars
<1>6. ASSUME NEW n \in Node, HistorySent(n)
      PROVE  Believed(k)' \subseteq Believed(k)
  BY <1>1, <1>2, <1>6 DEF HistorySent, nodeVars
<1>7. ASSUME NEW n \in Node, HistoryReceived(n)
      PROVE  Believed(k)' \subseteq Believed(k)
  <2>1. PICK h \in histories, last \in Epoch : HistoryReceived(n)!(h, last)
    BY <1>7 DEF HistoryReceived
  <2>2. /\ storage'[n].set = h.set
        /\ \A a \in Node \ {n} : storage'[a] = storage[a]
    BY <2>1, ReceivedSets
  <2> QED
    BY <1>1, <1>2, <2>1, <2>2
<1> QED
  BY <1>3, <1>4, <1>5, <1>6, <1>7, StepKinds

\* From the consensus slot of epoch k-1 on, nobody becomes a signer of epoch k
\* for anybody who did not take it for one before.
THEOREM CommitteeCloses == Spec => NoLateSigner
<1>1. TypeOK /\ [Next]_vars =>
        [\A k \in Epoch : Closed(k) => Believed(k)' \subseteq Believed(k)]_vars
  BY NextNoLateSigner
<1> QED
  BY <1>1, InitTypeOK, NextTypeOK, PTL DEF Spec, NoLateSigner

-----------------------------------------------------------------------------
(***************************************************************************)
(* Every signer can be named and reached.                                  *)
(***************************************************************************)
\* Names and servers are learnt together and never forgotten.
LEMMA LearnKinds ==
  ASSUME TypeOK, [Next]_vars
  PROVE  \/ UNCHANGED <<servers, names>>
         \/ \E n \in Node : \E m \in announces : LearnServer(n, m)
         \/ \E n \in Node : \E h \in histories : LearnAll(n, h)
<1>1. CASE PassTime \/ UNCHANGED vars
  BY <1>1 DEF PassTime, vars, nodeVars
<1>2. ASSUME NEW n \in Node, Register(n)
      PROVE  \/ UNCHANGED <<servers, names>>
             \/ \E m \in announces : LearnServer(n, m)
  <2>1. CASE AnnounceStored(n) \/ AnnounceRefused(n) \/ AnnounceStuck(n)
    BY <2>1 DEF AnnounceStored, AnnounceRefused, AnnounceStuck
  <2>2. CASE ~ (AnnounceStored(n) \/ AnnounceRefused(n) \/ AnnounceStuck(n))
    BY <1>2, <2>2 DEF Register, RegisterBegins, RegisterLeaksLock,
       SignatureReturns, RegisterEnds, RegisterTimesOut, nodeVars
  <2> QED
    BY <2>1, <2>2
<1>3. ASSUME NEW n \in Node, Update(n)
      PROVE  \/ UNCHANGED <<servers, names>>
             \/ \E h \in histories : LearnAll(n, h)
  <2>1. CASE HistoryReceived(n) \/ HistoryStuck(n)
    BY <2>1 DEF HistoryReceived, HistoryStuck
  <2>2. CASE ~ (HistoryReceived(n) \/ HistoryStuck(n))
    BY <1>3, <2>2 DEF Update, UpdateBegins, UpdateTimesOut, UpdateEnds,
       HistoryRead, HistorySent, nodeVars
  <2> QED
    BY <2>1, <2>2
<1>4. ASSUME NEW n \in Node, Consensus(n) PROVE UNCHANGED <<servers, names>>
  BY <1>4 DEF Consensus, ConsensusBegins, ConsensusPanics,
     SignersAgreed, ConsensusReached, ConsensusFails, nodeVars
<1>5. ASSUME NEW n \in Node, Start(n) PROVE UNCHANGED <<servers, names>>
  BY <1>5 DEF Start, StartBegins, StartSucceeds, StartFails, StartStuck,
     TokenTaken, nodeVars
<1> QED
  BY <1>1, <1>2, <1>3, <1>4, <1>5 DEF Next

LEMMA NextNames ==
  ASSUME TypeOK, KnownSigners, [Next]_vars
  PROVE  \A n \in Node : /\ names[n] \subseteq names'[n]
                         /\ names'[n] \subseteq servers'[n]
<1>1. /\ servers \in [Node -> SUBSET Node]
      /\ names \in [Node -> SUBSET Node]
      /\ \A n \in Node : names[n] \subseteq servers[n]
      /\ \A h \in histories : h.names \subseteq h.servers
  BY DEF TypeOK, NodeTypeOK, KnownSigners
<1>2. CASE UNCHANGED <<servers, names>>
  BY <1>1, <1>2
<1>3. CASE \E n \in Node : \E m \in announces : LearnServer(n, m)
  BY <1>1, <1>3 DEF LearnServer
<1>4. CASE \E n \in Node : \E h \in histories : LearnAll(n, h)
  BY <1>1, <1>4 DEF LearnAll
<1> QED
  BY <1>2, <1>3, <1>4, LearnKinds

LEMMA InitKnown == Init => KnownSigners
<1> SUFFICES ASSUME Init PROVE KnownSigners
  OBVIOUS
<1>1. ASSUME NEW n \in Node PROVE Signers(storage[n].set) \subseteq names[n]
  <2>1. /\ storage[n].set = [NoSigners EXCEPT ![0] = Genesis]
        /\ names[n] = Genesis
    BY DEF Init, GenesisStorage
  <2>2. \A k \in Epoch : storage[n].set[k] \subseteq Genesis
    BY <2>1 DEF NoSigners
  <2> QED
    BY <2>1, <2>2 DEF Signers
<1> QED
  BY <1>1 DEF Init, KnownSigners

LEMMA NextKnown == TypeOK /\ KnownSigners /\ [Next]_vars => KnownSigners'
<1> SUFFICES ASSUME TypeOK, KnownSigners, [Next]_vars PROVE KnownSigners'
  OBVIOUS
<1>1. \A n \in Node : /\ names[n] \subseteq names'[n]
                      /\ names'[n] \subseteq servers'[n]
  BY NextNames
<1>2. /\ \A n \in Node : Signers(storage[n].set) \subseteq names[n]
      /\ \A s \in snapshots : Signers(s.set) \subseteq names[s.req.by]
      /\ \A h \in histories : /\ Signers(h.set) \subseteq h.names
                              /\ h.names \subseteq h.servers
  BY DEF KnownSigners
<1>3. \A s \in snapshots : s.req.by \in Node
  BY DEF TypeOK, NetTypeOK, Snapshot, Request
<1>4. CASE Quiet
  <2>1. \A n \in Node : Signers(storage'[n].set) \subseteq names'[n]
    BY <1>1, <1>2, <1>4 DEF Quiet
  <2> QED
    BY <1>1, <1>2, <1>3, <1>4, <2>1 DEF Quiet, KnownSigners
<1>5. ASSUME NEW n \in Node, AnnounceStored(n) PROVE KnownSigners'
  <2>1. PICK m \in announces : AnnounceStored(n)!(m)
    BY <1>5 DEF AnnounceStored
  <2>2. /\ m.epoch \in Epoch /\ m.from \in Node
        /\ storage'[n].set =
             [storage[n].set EXCEPT ![m.epoch] = @ \cup {m.from}]
        /\ \A a \in Node \ {n} : storage'[a] = storage[a]
    BY <2>1, StoredSets
  <2>3. storage[n].set \in [Epoch -> SUBSET Node]
    BY DEF TypeOK, NodeTypeOK, Store, History
  <2>4. Signers(storage'[n].set) \subseteq Signers(storage[n].set) \cup {m.from}
    BY <2>2, <2>3 DEF Signers
  <2>5. m.from \in names'[n]
    BY <2>1 DEF LearnServer, TypeOK, NodeTypeOK
  <2>6. \A a \in Node : Signers(storage'[a].set) \subseteq names'[a]
    <3>1. Signers(storage'[n].set) \subseteq names'[n]
      BY <1>1, <1>2, <2>4, <2>5
    <3>2. ASSUME NEW a \in Node \ {n}
          PROVE  Signers(storage'[a].set) \subseteq names'[a]
      <4>1. Signers(storage'[a].set) = Signers(storage[a].set)
        BY <2>2 DEF Signers
      <4> QED
        BY <1>1, <1>2, <4>1
    <3> QED
      BY <3>1, <3>2
  <2> QED
    BY <1>1, <1>2, <1>3, <2>1, <2>6 DEF KnownSigners
<1>6. ASSUME NEW n \in Node, HistoryRead(n) PROVE KnownSigners'
  <2>1. PICK r \in requests : HistoryRead(n)!(r)
    BY <1>6 DEF HistoryRead
  <2> QED
    BY <1>1, <1>2, <1>3, <2>1 DEF nodeVars, KnownSigners
<1>7. ASSUME NEW n \in Node, HistorySent(n) PROVE KnownSigners'
  <2>1. PICK s \in snapshots : HistorySent(n)!(s)
    BY <1>7 DEF HistorySent
  <2> QED
    BY <1>1, <1>2, <1>3, <2>1 DEF nodeVars, KnownSigners
<1>8. ASSUME NEW n \in Node, HistoryReceived(n) PROVE KnownSigners'
  <2>1. PICK h \in histories, last \in Epoch : HistoryReceived(n)!(h, last)
    BY <1>8 DEF HistoryReceived
  <2>2. /\ storage'[n].set = h.set
        /\ \A a \in Node \ {n} : storage'[a] = storage[a]
    BY <2>1, ReceivedSets
  <2>3. h.names \subseteq names'[n]
    BY <2>1 DEF LearnAll, TypeOK, NodeTypeOK
  <2>4. \A a \in Node : Signers(storage'[a].set) \subseteq names'[a]
    BY <1>1, <1>2, <2>2, <2>3
  <2> QED
    BY <1>1, <1>2, <1>3, <2>1, <2>4 DEF KnownSigners
<1> QED
  BY <1>4, <1>5, <1>6, <1>7, <1>8, StepKinds

\* Every node can name and reach every signer it stores, although signers and
\* names reach it and leave it in different messages and critical sections.
THEOREM SignersAreKnown == Spec => []KnownSigners
  BY InitTypeOK, NextTypeOK, InitKnown, NextKnown, PTL DEF Spec
=============================================================================
