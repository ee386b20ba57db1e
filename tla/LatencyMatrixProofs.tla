------------------------ MODULE LatencyMatrixProofs ------------------------
(***************************************************************************)
(* The members of an epoch end Setup with one whole matrix of distances,   *)
(* and sign no other, for any nodes, members and number of rounds; and the *)
(* types of LatencyExchange.                                               *)
(***************************************************************************)
EXTENDS LatencyProofs

RowOK(n) == \A p \in Members[round] \ {n} :
                p \in DOMAIN own[n] /\ own[n][p] = round

\* What n has measured and entered.
OwnOK(n) ==
    /\ ~ USE_SPACE_TIME /\ pc[n] = "measuring" =>
         \A p \in DOMAIN own[n] : own[n][p] = round
    /\ pc[n] = "measuring" => distances[n] = EmptyBag
    /\ n \in Members[round] /\ pc[n] \in Answering => RowOK(n)

\* What n has received.
MatrixOK(n) ==
    /\ pc[n] = "waiting" =>
         /\ \A m \in Counts(n) : pc[m] \in Answering
         /\ distances[n] = Matrix(own, {n} \cup Counts(n))
    /\ n \in Members[round] /\ Finished(n) =>
         /\ \A m \in Members[round] : pc[m] \in Answering
         /\ distances[n] = Matrix(own, Members[round])

\* A reply carries the row of its sender, which it will not measure again.
RepliesOK == \A a \in replies : pc[a.from] \in Answering /\ a.row = own[a.from]

MatrixFlow ==
    /\ RepliesOK
    /\ \A n \in Node : OwnOK(n) /\ MatrixOK(n)

Domains == DOMAIN own = Node /\ DOMAIN distances = Node

MatrixInv == FlowInv /\ Domains /\ (Reset => MatrixFlow)

-----------------------------------------------------------------------------
(***************************************************************************)
(* Rows added up                                                           *)
(***************************************************************************)
LEMMA SameRows ==
  ASSUME NEW o, NEW p, NEW S, \A m \in S : o[m] = p[m]
  PROVE  Matrix(o, S) = Matrix(p, S)
<1>1. {<<m, o[m]>> : m \in {q \in S : DOMAIN o[q] # {}}}
        = {<<m, p[m]>> : m \in {q \in S : DOMAIN p[q] # {}}}
  OBVIOUS
<1> QED
  BY <1>1 DEF Matrix

LEMMA AddRow ==
  ASSUME NEW o, NEW S, NEW n, n \notin S
  PROVE  Matrix(o, S) (+) RowOf(n, o[n]) = Matrix(o, {n} \cup S)
<1> DEFINE E(T) == {<<m, o[m]>> : m \in {q \in T : DOMAIN o[q] # {}}}
           D == IF DOMAIN o[n] = {} THEN {} ELSE {<<n, o[n]>>}
<1>1. E({n} \cup S) = E(S) \cup D /\ E(S) \cap D = {}
  OBVIOUS
<1>2. RowOf(n, o[n]) = SetToBag(D)
  BY DEF RowOf, EmptyBag
<1> HIDE DEF D, E
<1>3. SetToBag(E(S)) (+) SetToBag(D) = SetToBag(E(S) \cup D)
  BY <1>1 DEF SetToBag, (+)
<1> QED
  BY <1>1, <1>2, <1>3 DEF Matrix, E

LEMMA NoRows ==
  ASSUME NEW o PROVE Matrix(o, {}) = EmptyBag
  BY DEF Matrix, EmptyBag
-----------------------------------------------------------------------------
LEMMA InitMatrix == Init => MatrixInv
<1> SUFFICES ASSUME Init PROVE MatrixInv
  OBVIOUS
<1>1. \A n \in Node : pc[n] = IF n \in Members[1] THEN "called" ELSE "returned"
  BY DEF Init, Called
<1>2. RepliesOK
  BY DEF Init, RepliesOK
<1>3. round = 1
  BY DEF Init
<1>4. \A n \in Node : OwnOK(n) /\ MatrixOK(n)
  BY <1>1, <1>3 DEF OwnOK, MatrixOK, Answering, Finished
<1>5. Domains
  BY DEF Init, Domains
<1> QED
  BY <1>2, <1>4, <1>5, InitFlow DEF MatrixInv, MatrixFlow

\* A step of n keeps what belongs to the others, as long as nobody's row
\* changes once it may have been sent.
StepBy(n) ==
    /\ UNCHANGED <<USE_SPACE_TIME, round>>
    /\ \A m \in Node \ {n} : /\ pc'[m] = pc[m] /\ own'[m] = own[m]
                            /\ distances'[m] = distances[m]
                            /\ Counts(m)' = Counts(m)
    /\ pc[n] \in Answering => pc'[n] \in Answering /\ own'[n] = own[n]

LEMMA OthersKept ==
  ASSUME FlowTypeOK, MatrixFlow, NEW n \in Node, StepBy(n)
  PROVE  /\ \A m \in Node \ {n} : OwnOK(m)' /\ MatrixOK(m)'
         /\ \A m \in Node : pc[m] \in Answering =>
              pc'[m] \in Answering /\ own'[m] = own[m]
<1>1. \A m \in Node : pc[m] \in Answering =>
         pc'[m] \in Answering /\ own'[m] = own[m]
  BY DEF StepBy
<1>2. ASSUME NEW m \in Node \ {n} PROVE OwnOK(m)'
  BY DEF StepBy, MatrixFlow, OwnOK, RowOK
<1>3. ASSUME NEW m \in Node \ {n} PROVE MatrixOK(m)'
  <2>1. CASE pc[m] = "waiting"
    <3>1. \A q \in {m} \cup Counts(m) : q \in Node /\ pc[q] \in Answering
      BY <2>1, MembersType DEF MatrixFlow, MatrixOK, Answering, FlowTypeOK
    <3>2. Matrix(own', {m} \cup Counts(m)) = Matrix(own, {m} \cup Counts(m))
      BY <1>1, <3>1, SameRows
    <3> QED
      BY <1>1, <2>1, <3>1, <3>2
      DEF StepBy, MatrixFlow, MatrixOK, Finished
  <2>2. CASE m \in Members[round] /\ Finished(m)
    <3>1. \A q \in Members[round] : q \in Node /\ pc[q] \in Answering
      BY <2>2, MembersType DEF MatrixFlow, MatrixOK
    <3>2. Matrix(own', Members[round]) = Matrix(own, Members[round])
      BY <1>1, <3>1, SameRows
    <3> QED
      BY <1>1, <2>2, <3>1, <3>2
      DEF StepBy, MatrixFlow, MatrixOK, Finished
  <2>3. CASE pc[m] # "waiting" /\ ~ (m \in Members[round] /\ Finished(m))
    BY <2>3 DEF StepBy, MatrixOK, Finished
  <2> QED
    BY <2>1, <2>2, <2>3
<1> QED
  BY <1>1, <1>2, <1>3

LEMMA RepliesKept ==
  ASSUME FlowTypeOK, Flow, MatrixFlow, NEW n \in Node, StepBy(n),
         replies' \subseteq replies
  PROVE  RepliesOK'
<1>1. \A a \in replies : a.from \in Node
  BY MembersType DEF Flow, MessagesOK
<1> QED
  BY <1>1, OthersKept DEF MatrixFlow, RepliesOK

LEMMA BeforeMatrix ==
  ASSUME FlowTypeOK, Domains, Flow, MatrixFlow, NEW n \in Node,
         Register(n) \/ Enter(n) \/ Setup(n) \/ MeasurePing(n)
  PROVE  MatrixFlow'
<1>1. /\ UNCHANGED <<USE_SPACE_TIME, round, requests, replies>>
      /\ pc[n] \in Before /\ pc'[n] \in Before
      /\ \A m \in Node \ {n} : /\ pc'[m] = pc[m] /\ own'[m] = own[m]
                              /\ distances'[m] = distances[m]
                              /\ known'[m] = known[m]
      /\ pc'[n] = "measuring" =>
           /\ distances'[n] = EmptyBag
           /\ ~ USE_SPACE_TIME => \A p \in DOMAIN own'[n] : own'[n][p] = round
  <2>1. CASE Register(n) \/ Enter(n)
    BY <2>1 DEF Register, Enter, GoTo, Before, FlowTypeOK
  <2>2. CASE Setup(n)
    BY <2>2 DEF Setup, GoTo, Before, FlowTypeOK, NoRow, Domains
  <2>3. CASE MeasurePing(n)
    BY <2>3
    DEF MeasurePing, Before, FlowTypeOK, countVars, MatrixFlow, OwnOK, Entered,
        Domains
  <2> QED
    BY <2>1, <2>2, <2>3
<1>2. StepBy(n)
  BY <1>1 DEF StepBy, Counts, Pending, Before, Answering
<1>3. OwnOK(n)' /\ MatrixOK(n)'
  BY <1>1 DEF OwnOK, MatrixOK, Before, Answering, Finished
<1> QED
  BY <1>1, <1>2, <1>3, OthersKept, RepliesKept DEF MatrixFlow

LEMMA AskMatrix ==
  ASSUME FlowTypeOK, Domains, Flow, MatrixFlow, NEW n \in Node, Ask(n)
  PROVE  MatrixFlow'
<1>1. /\ UNCHANGED <<USE_SPACE_TIME, round, known, replies>>
      /\ pc[n] = "measuring" /\ pc'[n] = "waiting"
      /\ \A m \in Node \ {n} : /\ pc'[m] = pc[m] /\ distances'[m] = distances[m]
      /\ requests' = requests \cup
           {[from |-> n, to |-> m, asked |-> round] : m \in known[n] \ {n}}
      /\ n \in Members[round] /\ known[n] = Members[round]
  BY DEF Ask, GoTo, FlowTypeOK, countVars, Flow, PhaseOK, ListOK
<1>2. Counts(n)' = {} /\ \A m \in Node \ {n} : Counts(m)' = Counts(m)
  <2>1. ASSUME NEW m \in known[n] \ {n} PROVE Pending(n, m)'
    <3>1. [from |-> n, to |-> m, asked |-> round] \in requests'
      BY <1>1
    <3> QED
      BY <3>1 DEF Pending
  <2> QED
    BY <1>1, <2>1 DEF Counts, Pending
<1>3. distances'[n] = Matrix(own', {n} \cup Counts(n)')
  <2>1. distances'[n] = EmptyBag (+) RowOf(n, own'[n])
    BY <1>1 DEF Ask, MatrixFlow, OwnOK, Domains
  <2>2. EmptyBag (+) RowOf(n, own'[n]) = Matrix(own', {n} \cup {})
    BY AddRow, NoRows
  <2> QED
    BY <1>2, <2>1, <2>2
<1>4. /\ \A m \in Node \ {n} : own'[m] = own[m]
      /\ RowOK(n)'
  BY <1>1 DEF Ask, RowOK, Unmeasured, Counted, Entered, Domains, MatrixFlow, OwnOK
<1>5. StepBy(n)
  BY <1>1, <1>2, <1>4 DEF StepBy, Answering
<1>6. OwnOK(n)' /\ MatrixOK(n)'
  BY <1>1, <1>2, <1>3, <1>4 DEF OwnOK, MatrixOK, Finished
<1> QED
  BY <1>1, <1>5, <1>6, OthersKept, RepliesKept DEF MatrixFlow

LEMMA AnswerMatrix ==
  ASSUME FlowTypeOK, Domains, Flow, MatrixFlow, NEW n \in Node, Answer(n)
  PROVE  MatrixFlow'
<1> PICK r \in requests : Answer(n)!(r)
  BY DEF Answer
<1> DEFINE a == [from |-> n, to |-> r.from, asked |-> r.asked, row |-> own[n]]
<1>1. /\ requests' = requests \ {r} /\ replies' = replies \cup {a}
      /\ UNCHANGED <<USE_SPACE_TIME, round, pc, known, own, distances>>
      /\ r.to = n /\ done[n]
  BY DEF countVars
<1>2. /\ r.from \in Node /\ n \in Members[round] /\ r.from \in Members[round]
      /\ pc[r.from] = "waiting"
  BY <1>1, MembersType DEF Flow, MessagesOK
<1>3. pc[n] \in Answering
  BY <1>1, <1>2 DEF Flow, PhaseOK, FlagOK, FlowTypeOK, Started, Before
<1>4. a.from = n /\ a.to = r.from /\ a.row = own[n]
  OBVIOUS
<1> HIDE DEF a
<1>5. \A m, p \in Node : Pending(m, p)' <=> Pending(m, p)
  BY <1>1, <1>2, <1>4 DEF Pending, Flow, MessagesOK
<1>6. \A m \in Node : Counts(m)' = Counts(m)
  BY <1>1, <1>5 DEF Counts, FlowTypeOK
<1>7. RepliesOK'
  BY <1>1, <1>3, <1>4 DEF MatrixFlow, RepliesOK
<1>8. \A m \in Node : OwnOK(m)' /\ MatrixOK(m)'
  BY <1>1, <1>6 DEF MatrixFlow, OwnOK, RowOK, MatrixOK, Finished
<1> QED
  BY <1>7, <1>8 DEF MatrixFlow

LEMMA ReceiveMatrix ==
  ASSUME FlowTypeOK, Domains, Flow, MatrixFlow, NEW n \in Node, Receive(n)
  PROVE  MatrixFlow'
<1> PICK a \in replies : Receive(n)!(a)
  BY DEF Receive
<1>1. /\ replies' = replies \ {a} /\ a.to = n
      /\ distances' = [distances EXCEPT ![n] = @ (+) RowOf(a.from, a.row)]
      /\ UNCHANGED <<USE_SPACE_TIME, round, pc, known, own, requests>>
  BY DEF countVars
<1>2. /\ a.from \in Members[round] \ {n} /\ n \in Members[round]
      /\ pc[n] = "waiting"
      /\ \A b \in replies : b.from = a.from /\ b.to = n => b = a
      /\ \A r \in requests : ~ (r.from = n /\ r.to = a.from)
  BY <1>1 DEF Flow, MessagesOK
<1>3. known[n] = Members[round]
  BY <1>2 DEF Flow, ListOK, Answering
<1>4. \A m \in Node \ {n} : Counts(m)' = Counts(m)
  BY <1>1 DEF Counts, Pending
<1>5. /\ Counts(n)' = Counts(n) \cup {a.from}
      /\ a.from \notin {n} \cup Counts(n)
  BY <1>1, <1>2, <1>3 DEF Counts, Pending
<1>6. StepBy(n)
  BY <1>1, <1>4 DEF StepBy, Domains
<1>7. pc[a.from] \in Answering /\ a.row = own[a.from]
  BY DEF MatrixFlow, RepliesOK
<1>8. distances'[n] = Matrix(own, {n} \cup Counts(n)')
  <2>1. distances'[n] = Matrix(own, {n} \cup Counts(n))
                           (+) RowOf(a.from, own[a.from])
    BY <1>1, <1>2, <1>7 DEF Domains, MatrixFlow, MatrixOK
  <2>2. {n} \cup Counts(n)' = {a.from} \cup ({n} \cup Counts(n))
    BY <1>5
  <2> QED
    BY <1>5, <2>1, <2>2, AddRow
<1>9. OwnOK(n)'
  BY <1>1, <1>2 DEF MatrixFlow, OwnOK, RowOK
<1>10. MatrixOK(n)'
  BY <1>1, <1>2, <1>5, <1>7, <1>8 DEF MatrixFlow, MatrixOK, Finished
<1> QED
  BY <1>1, <1>6, <1>9, <1>10, OthersKept, RepliesKept DEF MatrixFlow

\* Whoever stops waiting has everybody's row.
LEMMA EndsMatrix ==
  ASSUME FlowTypeOK, Domains, Flow, MatrixFlow, NEW n \in Node, SetupEnds(n)
  PROVE  MatrixFlow'
<1>1. /\ UNCHANGED <<USE_SPACE_TIME, round, known, own, distances, requests,
                     replies>>
      /\ pc[n] = "waiting" /\ pc'[n] \in {"ready", "returned"}
      /\ \A m \in Node \ {n} : pc'[m] = pc[m]
      /\ answers[n] = Expected(n)
  BY DEF SetupEnds, GoTo, FlowTypeOK, countVars
<1>2. n \in Members[round] /\ known[n] = Members[round]
  BY <1>1 DEF Flow, PhaseOK, ListOK, Answering
<1>3. \A m \in Node : Counts(m)' = Counts(m)
  BY <1>1 DEF Counts, Pending
<1>4. {n} \cup Counts(n) = Members[round]
  BY <1>1, <1>2, AllCounted DEF Counts, Pending
<1>5. /\ \A m \in Members[round] : pc[m] \in Answering
      /\ distances[n] = Matrix(own, Members[round])
  BY <1>1, <1>4 DEF MatrixFlow, MatrixOK, Answering
<1>6. StepBy(n)
  BY <1>1, <1>3 DEF StepBy, Answering
<1>7. \A m \in Members[round] : pc'[m] \in Answering
  BY <1>1, <1>5, MembersType DEF Answering
<1>8. OwnOK(n)' /\ MatrixOK(n)'
  BY <1>1, <1>2, <1>5, <1>7
  DEF MatrixFlow, OwnOK, RowOK, MatrixOK, Answering
<1> QED
  BY <1>1, <1>6, <1>8, OthersKept, RepliesKept DEF MatrixFlow

LEMMA AgreeMatrix ==
  ASSUME FlowTypeOK, Domains, Flow, MatrixFlow, NEW n \in Node,
         Propose(n) \/ Sign(n) \/ Agreed(n) \/ AgreementFails(n)
  PROVE  MatrixFlow'
<1>1. UNCHANGED <<USE_SPACE_TIME, round, known, own, distances, requests,
                  replies>>
  BY DEF Propose, Sign, Agreed, AgreementFails, countVars
<1>2. \A m \in Node : Counts(m)' = Counts(m)
  BY <1>1 DEF Counts, Pending
<1>3. CASE Sign(n)
  <2>1. pc' = pc
    BY <1>3 DEF Sign
  <2> QED
    BY <1>1, <1>2, <2>1
    DEF MatrixFlow, OwnOK, RowOK, MatrixOK, RepliesOK, Finished
<1>4. CASE Propose(n) \/ Agreed(n) \/ AgreementFails(n)
  <2>1. /\ pc[n] \in {"ready", "agreeing"} /\ pc'[n] \in {"agreeing", "returned"}
        /\ \A m \in Node \ {n} : pc'[m] = pc[m]
    BY <1>4 DEF Propose, Agreed, AgreementFails, GoTo, FlowTypeOK
  <2>2. n \in Members[round]
    BY <2>1 DEF Flow, PhaseOK
  <2>3. StepBy(n)
    BY <1>1, <1>2, <2>1 DEF StepBy, Answering
  <2>4. /\ \A m \in Members[round] : pc[m] \in Answering
        /\ distances[n] = Matrix(own, Members[round])
    BY <2>1, <2>2 DEF MatrixFlow, MatrixOK, Finished
  <2>5. \A m \in Members[round] : pc'[m] \in Answering
    BY <2>1, <2>4, MembersType DEF Answering
  <2>6. OwnOK(n)' /\ MatrixOK(n)'
    BY <1>1, <2>1, <2>2, <2>4, <2>5
    DEF MatrixFlow, OwnOK, RowOK, MatrixOK, Answering
  <2> QED
    BY <1>1, <2>3, <2>6, OthersKept, RepliesKept DEF MatrixFlow
<1> QED
  BY <1>3, <1>4

LEMMA NextRoundMatrix ==
  ASSUME FlowTypeOK, Reset => Flow, NextRound, Reset' PROVE MatrixFlow'
<1>1. USE_SPACE_TIME /\ Flow
  BY LatencyAssumption DEF Reset, FlowTypeOK, NextRound
<1>2. replies' = {}
  BY <1>1, MembersType DEF Flow, MessagesOK, NextRound
<1>3. \A n \in Node : pc'[n] = IF n \in Members[round'] THEN "called"
                              ELSE "returned"
  BY DEF Called, NextRound
<1> QED
  BY <1>2, <1>3
  DEF MatrixFlow, RepliesOK, OwnOK, MatrixOK, Answering, Finished

LEMMA DomainsStep == FlowTypeOK /\ Domains /\ [Next]_vars => Domains'
  BY DEF Domains, Next, vars, NextRound, Register, Enter, Setup, MeasurePing,
     Ask, AskPanics, Answer, AnswerPanics, Receive, SetupEnds, Propose, Sign,
     Agreed, AgreementFails

LEMMA MatrixStep == MatrixInv /\ [Next]_vars => MatrixInv'
<1> SUFFICES ASSUME MatrixInv, [Next]_vars PROVE MatrixInv'
  OBVIOUS
<1>1. FlowInv /\ FlowInv' /\ FlowTypeOK /\ Domains /\ Domains'
  BY FlowStep, DomainsStep DEF MatrixInv, FlowInv
<1>2. CASE NextRound
  BY <1>1, <1>2, NextRoundMatrix DEF MatrixInv, FlowInv
<1>3. CASE ~ NextRound
  <2> SUFFICES ASSUME Reset' PROVE MatrixFlow'
    BY <1>1 DEF MatrixInv
  <2>1. UNCHANGED <<USE_SPACE_TIME, round>>
    BY <1>3 DEF Next, vars, Register, Enter, Setup, MeasurePing, Ask,
       AskPanics, Answer, AnswerPanics, Receive, SetupEnds, Propose, Sign,
       Agreed, AgreementFails
  <2>2. Flow /\ MatrixFlow
    BY <1>1, <2>1 DEF Reset, FlowInv, MatrixInv
  <2>3. CASE UNCHANGED vars
    BY <2>2, <2>3 DEF vars, MatrixFlow, OwnOK, RowOK, MatrixOK, RepliesOK,
       Finished, Counts, Pending
  <2> QED
    BY <1>1, <1>3, <2>2, <2>3, BeforeMatrix, AskMatrix, AnswerMatrix,
       ReceiveMatrix, EndsMatrix, AgreeMatrix, NoAskPanics, NoAnswerPanics
    DEF Next
<1> QED
  BY <1>2, <1>3

\* Whoever leaves Setup holds the row of every member, once, with the values
\* of this epoch, as far as the flag and the count are reset: nobody measures
\* again once it may have answered, and nobody stops waiting before it has
\* counted everybody (treeservice.go:149-153, interactiondistance.go:89-94).
THEOREM MatricesAreComplete == Spec => []CompleteMatrix
<1>1. MatrixInv => CompleteMatrix
  <2> SUFFICES ASSUME MatrixInv, Reset, NEW n \in Members[round], Finished(n)
               PROVE  Complete(n)
    BY DEF CompleteMatrix
  <2>1. /\ \A m \in Members[round] : m \in Node /\ pc[m] \in Answering
        /\ distances[n] = Matrix(own, Members[round])
    BY MembersType DEF MatrixInv, FlowInv, MatrixFlow, MatrixOK
  <2>2. \A m \in Members[round] : RowOK(m)
    BY <2>1 DEF MatrixInv, MatrixFlow, OwnOK
  <2> QED
    BY <2>1, <2>2 DEF Complete, RowOK
<1> QED
  BY <1>1, InitMatrix, MatrixStep, PTL DEF Spec

-----------------------------------------------------------------------------
(***************************************************************************)
(* The signed matrix                                                       *)
(***************************************************************************)
Whole == Matrix(own, Members[round])

AgreementType ==
    /\ agreement = [matrix |-> agreement.matrix, votes |-> agreement.votes,
                    signed |-> agreement.signed]
    /\ agreement.signed \in BOOLEAN

\* Only the proposer has the distances signed, and by those who have them all.
SignOK ==
    /\ \A n \in Node : pc[n] \in {"ready", "agreeing"} => n = Proposer[round]
    /\ agreement.votes \subseteq {m \in Members[round] : distances[m] = Whole}
    /\ agreement.votes # {} => \A m \in Members[round] : pc[m] \in Answering
    /\ pc[Proposer[round]] = "agreeing" =>
         agreement.matrix = Whole /\ agreement.votes # {}
    /\ agreement.signed => Cardinality(agreement.votes)
                             >= Threshold(Cardinality(Members[round]))

SignInv == MatrixInv /\ AgreementType /\ (Reset => SignOK)

LEMMA InitSign == Init => SignInv
<1> SUFFICES ASSUME Init PROVE SignInv
  OBVIOUS
<1>1. Proposer[1] \in Node
  BY LatencyAssumption
<1>2. /\ \A n \in Node : pc[n] \in {"called", "returned"}
      /\ agreement = NoneYet /\ round = 1
  BY DEF Init, Called
<1>3. AgreementType /\ SignOK
  BY <1>1, <1>2 DEF AgreementType, SignOK, NoneYet
<1> QED
  BY <1>3, InitMatrix DEF SignInv

\* Whoever has all the rows is sent no other.
LEMMA NothingMissing ==
  ASSUME FlowTypeOK, Flow, MatrixFlow, NEW n \in Members[round],
         pc[n] = "waiting", distances[n] = Whole,
         \A m \in Members[round] : pc[m] \in Answering
  PROVE  Counts(n) = Members[round] \ {n}
<1>1. n \in Node /\ known[n] = Members[round]
  BY MembersType DEF Flow, ListOK, Answering
<1>2. SUFFICES ASSUME NEW q \in Members[round] \ {n}, q \notin Counts(n)
               PROVE  FALSE
  BY <1>1 DEF Counts
<1>3. n \in DOMAIN own[q]
  BY MembersType DEF MatrixFlow, OwnOK, RowOK
<1>4. <<q, own[q]>> \in DOMAIN Matrix(own, Members[round])
  BY <1>3 DEF Matrix, SetToBag
<1>5. <<q, own[q]>> \notin DOMAIN Matrix(own, {n} \cup Counts(n))
  BY <1>2 DEF Matrix, SetToBag
<1>6. distances[n] = Matrix(own, {n} \cup Counts(n))
  BY <1>1 DEF MatrixFlow, MatrixOK
<1> QED
  BY <1>4, <1>5, <1>6 DEF Whole

\* Steps before the agreement leave those who hold all rows as they are.
LEMMA ExchangeSign ==
  ASSUME FlowTypeOK, Domains, Flow, MatrixFlow, SignOK, NEW n \in Node,
         \/ Register(n) \/ Enter(n) \/ Setup(n) \/ MeasurePing(n) \/ Ask(n)
         \/ Answer(n) \/ Receive(n) \/ SetupEnds(n)
  PROVE  SignOK'
<1>1. /\ UNCHANGED <<USE_SPACE_TIME, round, agreement>>
      /\ \A m \in Node \ {n} : /\ pc'[m] = pc[m] /\ own'[m] = own[m]
                              /\ distances'[m] = distances[m]
      /\ pc[n] \in Answering => pc'[n] \in Answering /\ own'[n] = own[n]
      /\ pc'[n] \in {"ready", "agreeing"} =>
           pc[n] = pc'[n] \/ n = Proposer[round]
      /\ pc'[n] = "agreeing" => pc[n] = "agreeing"
  BY DEF Register, Enter, Setup, MeasurePing, Ask, Answer, Receive, SetupEnds,
         GoTo, countVars, FlowTypeOK, Domains, Answering, Before
<1>2. \A m \in Node : pc[m] \in Answering =>
         pc'[m] \in Answering /\ own'[m] = own[m]
  BY <1>1
<1>3. CASE agreement.votes = {}
  BY <1>1, <1>3, LatencyAssumption, MembersType DEF SignOK, FlowTypeOK
<1>4. CASE agreement.votes # {}
  <2>1. \A m \in Members[round] : m \in Node /\ pc[m] \in Answering
    BY <1>4, MembersType DEF SignOK
  <2>2. Whole' = Whole
    BY <1>1, <1>2, <2>1, SameRows DEF Whole
  <2>3. ASSUME n \in agreement.votes PROVE distances'[n] = distances[n]
    <3>1. n \in Members[round] /\ distances[n] = Whole
      BY <2>3 DEF SignOK
    <3>2. pc[n] \in Answering
      BY <2>1, <3>1
    <3>3. ~ Receive(n)
      <4> SUFFICES ASSUME NEW a \in replies, a.to = n PROVE FALSE
        BY DEF Receive
      <4>1. pc[n] = "waiting" /\ a.from \in Members[round] \ {n}
        BY DEF Flow, MessagesOK
      <4>2. a.from \in Counts(n)
        BY <2>1, <3>1, <4>1, NothingMissing
      <4> QED
        BY <4>2 DEF Counts, Pending
    <3> QED
      BY <3>2, <3>3
      DEF Register, Enter, Setup, MeasurePing, Ask, Answer, SetupEnds, GoTo,
          Answering
  <2>4. \A m \in agreement.votes : distances'[m] = distances[m] /\ m \in Node
    BY <1>1, <2>3, MembersType DEF SignOK
  <2> QED
    BY <1>1, <1>2, <2>1, <2>2, <2>4, LatencyAssumption DEF SignOK, FlowTypeOK
<1> QED
  BY <1>3, <1>4

LEMMA AgreeSign ==
  ASSUME FlowTypeOK, Domains, Flow, MatrixFlow, AgreementType, SignOK,
         NEW n \in Node,
         Propose(n) \/ Sign(n) \/ Agreed(n) \/ AgreementFails(n)
  PROVE  SignOK'
<1>1. UNCHANGED <<USE_SPACE_TIME, round, own, distances>>
  BY DEF Propose, Sign, Agreed, AgreementFails, countVars
<1>2. Whole' = Whole /\ Proposer[round] \in Node
  BY <1>1, LatencyAssumption DEF Whole, FlowTypeOK
<1>3. CASE Propose(n)
  <2>1. /\ pc[n] = "ready" /\ pc' = [pc EXCEPT ![n] = "agreeing"]
        /\ agreement' = [matrix |-> distances[n], votes |-> {n}, signed |-> FALSE]
    BY <1>3 DEF Propose, GoTo
  <2>2. n = Proposer[round] /\ n \in Members[round]
    BY <2>1 DEF SignOK, Flow, PhaseOK
  <2>3. distances[n] = Whole /\ \A m \in Members[round] : pc[m] \in Answering
    BY <2>1, <2>2 DEF MatrixFlow, MatrixOK, Finished, Whole
  <2>4. \A m \in Members[round] : pc'[m] \in Answering
    BY <2>1, <2>3, MembersType DEF Answering, FlowTypeOK
  <2> QED
    BY <1>1, <1>2, <2>1, <2>2, <2>3, <2>4 DEF SignOK, FlowTypeOK
<1>4. CASE Sign(n)
  <2>1. /\ pc[Proposer[round]] = "agreeing" /\ n \in Members[round]
        /\ distances[n] = agreement.matrix /\ pc' = pc
        /\ agreement' = [agreement EXCEPT !.votes = @ \cup {n}]
        /\ n \notin agreement.votes
    BY <1>4 DEF Sign, SameHash
  <2>2. /\ agreement'.votes = agreement.votes \cup {n}
        /\ agreement'.matrix = agreement.matrix
        /\ agreement'.signed = agreement.signed
    BY <2>1 DEF AgreementType
  <2>3. distances[n] = Whole
    BY <2>1 DEF SignOK
  <2>4. Cardinality(agreement'.votes) >= Cardinality(agreement.votes)
    <3>1. IsFiniteSet(agreement.votes)
      BY LatencyAssumption, MembersType, FS_Subset DEF SignOK
    <3>2. Cardinality(agreement.votes \cup {n}) = Cardinality(agreement.votes) + 1
      BY <2>1, <3>1, FS_AddElement
    <3>3. Cardinality(agreement.votes) \in Nat
      BY <3>1, FS_CardinalityType
    <3> QED
      BY <2>2, <3>2, <3>3
  <2>5. agreement'.signed => Cardinality(agreement'.votes)
                               >= Threshold(Cardinality(Members[round]))
    <3>1. IsFiniteSet(agreement.votes) /\ IsFiniteSet(agreement'.votes)
          /\ IsFiniteSet(Members[round])
      BY <2>1, <2>2, LatencyAssumption, MembersType, FS_Subset DEF SignOK
    <3>2. /\ Cardinality(agreement.votes) \in Nat
          /\ Cardinality(agreement'.votes) \in Nat
          /\ Threshold(Cardinality(Members[round])) \in Int
      BY <3>1, FS_CardinalityType DEF Threshold
    <3> QED
      BY <2>2, <2>4, <3>2 DEF SignOK
  <2> QED
    BY <1>1, <1>2, <2>1, <2>2, <2>3, <2>5 DEF SignOK
<1>5. CASE Agreed(n) \/ AgreementFails(n)
  <2>1. /\ pc[n] = "agreeing" /\ pc' = [pc EXCEPT ![n] = "returned"]
        /\ agreement'.votes = agreement.votes
        /\ agreement'.matrix = agreement.matrix
        /\ agreement'.signed =>
             \/ agreement.signed
             \/ Cardinality(agreement.votes)
                  >= Threshold(Cardinality(Members[round]))
    BY <1>5 DEF Agreed, AgreementFails, GoTo, AgreementType
  <2>2. \A m \in Members[round] : pc[m] \in Answering => pc'[m] \in Answering
    BY <2>1, MembersType DEF Answering, FlowTypeOK
  <2> QED
    BY <1>1, <1>2, <2>1, <2>2 DEF SignOK, FlowTypeOK
<1> QED
  BY <1>3, <1>4, <1>5

LEMMA AgreementTypeStep == AgreementType /\ [Next]_vars => AgreementType'
<1> SUFFICES ASSUME AgreementType, [Next]_vars PROVE AgreementType'
  OBVIOUS
<1>1. CASE UNCHANGED agreement
  BY <1>1 DEF AgreementType
<1>2. CASE NextRound
  BY <1>2 DEF NextRound, NoneYet, AgreementType
<1>3. ASSUME NEW n \in Node, Propose(n) PROVE AgreementType'
  BY <1>3 DEF Propose, AgreementType
<1>4. ASSUME NEW n \in Node, Sign(n) \/ Agreed(n) PROVE AgreementType'
  BY <1>4 DEF Sign, Agreed, AgreementType
<1>5. ASSUME NEW n \in Node,
             \/ Register(n) \/ Enter(n) \/ Setup(n) \/ MeasurePing(n) \/ Ask(n)
             \/ AskPanics(n) \/ Answer(n) \/ AnswerPanics(n) \/ Receive(n)
             \/ SetupEnds(n) \/ AgreementFails(n)
      PROVE  UNCHANGED agreement
  BY <1>5 DEF Register, Enter, Setup, MeasurePing, Ask, AskPanics, Answer,
     AnswerPanics, Receive, SetupEnds, AgreementFails
<1> QED
  BY <1>1, <1>2, <1>3, <1>4, <1>5 DEF Next, vars

LEMMA SignStep == SignInv /\ [Next]_vars => SignInv'
<1> SUFFICES ASSUME SignInv, [Next]_vars PROVE SignInv'
  OBVIOUS
<1>1. /\ MatrixInv /\ MatrixInv' /\ FlowTypeOK /\ FlowTypeOK' /\ Domains
      /\ AgreementType /\ AgreementType'
  BY MatrixStep, AgreementTypeStep DEF SignInv, MatrixInv, FlowInv
<1>2. CASE NextRound
  <2>1. Proposer[round'] \in Node
    BY <1>1, LatencyAssumption DEF FlowTypeOK
  <2>2. /\ \A n \in Node : pc'[n] \in {"called", "returned"}
        /\ agreement' = NoneYet
    BY <1>2 DEF NextRound, Called
  <2>3. SignOK'
    BY <2>1, <2>2 DEF SignOK, NoneYet
  <2> QED
    BY <1>1, <2>3 DEF SignInv
<1>3. CASE ~ NextRound
  <2> SUFFICES ASSUME Reset' PROVE SignOK'
    BY <1>1 DEF SignInv
  <2>1. UNCHANGED <<USE_SPACE_TIME, round>>
    BY <1>3 DEF Next, vars, Register, Enter, Setup, MeasurePing, Ask,
       AskPanics, Answer, AnswerPanics, Receive, SetupEnds, Propose, Sign,
       Agreed, AgreementFails
  <2>2. Flow /\ MatrixFlow /\ SignOK
    BY <1>1, <2>1 DEF Reset, FlowInv, MatrixInv, SignInv
  <2>3. CASE UNCHANGED vars
    BY <2>2, <2>3 DEF vars, SignOK, Whole
  <2> QED
    BY <1>1, <1>3, <2>2, <2>3, ExchangeSign, AgreeSign, NoAskPanics,
       NoAnswerPanics DEF Next
<1> QED
  BY <1>2, <1>3

\* If the distances are signed, a threshold of the members hold the row of
\* every member: a member compares the hash of what it holds, and holds what
\* the proposer does only when no row is missing (blscosiservice.go:96-167).
THEOREM SignedByHolders == Spec => []SignedMatrix
<1>1. SignInv => SignedMatrix
  <2> SUFFICES ASSUME SignInv, Reset, agreement.signed
               PROVE  Cardinality({n \in Members[round] : Complete(n)})
                        >= Threshold(Cardinality(Members[round]))
    BY DEF SignedMatrix
  <2> DEFINE C == {n \in Members[round] : Complete(n)}
  <2>1. /\ FlowTypeOK /\ MatrixFlow /\ SignOK
    BY DEF SignInv, MatrixInv, FlowInv
  <2>2. agreement.votes \subseteq C
    <3> SUFFICES ASSUME NEW n \in agreement.votes PROVE n \in C
      OBVIOUS
    <3>1. \A m \in Members[round] : m \in Node /\ pc[m] \in Answering
      BY <2>1, MembersType DEF SignOK
    <3>2. \A m \in Members[round] : RowOK(m)
      BY <2>1, <3>1 DEF MatrixFlow, OwnOK
    <3> QED
      BY <2>1, <3>2 DEF SignOK, Whole, Complete, RowOK
  <2>3. IsFiniteSet(C) /\ IsFiniteSet(Members[round])
    BY <2>1, LatencyAssumption, MembersType, FS_Subset
  <2>4. /\ Cardinality(C) \in Nat /\ Cardinality(agreement.votes) \in Nat
        /\ Cardinality(agreement.votes) <= Cardinality(C)
        /\ Threshold(Cardinality(Members[round])) \in Int
    BY <2>2, <2>3, FS_Subset, FS_CardinalityType DEF Threshold
  <2>5. Cardinality(agreement.votes) >= Threshold(Cardinality(Members[round]))
    BY <2>1 DEF SignOK
  <2> QED
    BY <2>4, <2>5
<1> QED
  BY <1>1, InitSign, SignStep, PTL DEF Spec

-----------------------------------------------------------------------------
(***************************************************************************)
(* Types                                                                   *)
(***************************************************************************)
LatencyTypes ==
    /\ TypeOK /\ Domains /\ AgreementType
    /\ \A n \in Node : pc[n] \in {"returned", "dead"} \/ n \in Members[round]
    /\ \A a \in replies : a.from \in Node

LEMMA EnteredType ==
  ASSUME NEW row \in Row, NEW ps \in SUBSET Node, NEW v \in 0 .. MaxEpoch
  PROVE  Entered(row, ps, v) \in Row
<1>1. PICK S \in SUBSET Node : row \in [S -> 0 .. MaxEpoch]
  BY DEF Row
<1>2. Entered(row, ps, v) \in [ps \cup S -> 0 .. MaxEpoch]
  BY <1>1 DEF Entered
<1> QED
  BY <1>2 DEF Row

LEMMA RowAdded ==
  ASSUME NEW B, BagToSet(B) \subseteq Node \X Row, NEW n \in Node, NEW row \in Row
  PROVE  BagToSet(B (+) RowOf(n, row)) \subseteq Node \X Row
<1>1. BagToSet(B (+) RowOf(n, row)) \subseteq BagToSet(B) \cup {<<n, row>>}
  BY DEF BagToSet, (+), RowOf, EmptyBag, SetToBag
<1> QED
  BY <1>1

LEMMA NoRowType == NoRow \in Row
<1>1. NoRow \in [{} -> 0 .. MaxEpoch]
  BY DEF NoRow
<1>2. {} \in SUBSET Node
  OBVIOUS
<1> QED
  BY <1>1, <1>2 DEF Row

LEMMA LatencyTypesStep == LatencyTypes /\ [Next]_vars => LatencyTypes'
<1> SUFFICES ASSUME LatencyTypes, [Next]_vars PROVE LatencyTypes'
  OBVIOUS
<1> USE DEF LatencyTypes, TypeOK
<1>1. /\ Domains' /\ AgreementType' /\ FlowTypeOK
      /\ round \in Nat /\ MaxEpoch \in Nat
      /\ round \in 0 .. MaxEpoch /\ round - 1 \in 0 .. MaxEpoch
      /\ \A r \in 1 .. MaxEpoch : Members[r] \in SUBSET Node
  <2>1. FlowTypeOK
    BY LatencyAssumption DEF FlowTypeOK, Before, Answering
  <2> QED
    BY <2>1, DomainsStep, AgreementTypeStep, LatencyAssumption
<1>2. NoRow \in Row
  BY NoRowType
<1>3. CASE UNCHANGED vars
  BY <1>3 DEF vars, countVars, Domains, AgreementType
<1>4. CASE NextRound
  BY <1>1, <1>4 DEF NextRound, Called, countVars, NoneYet
<1>5. ASSUME NEW n \in Node, Register(n) \/ Enter(n) PROVE LatencyTypes'
  <2>1. /\ epoch' \in [Node -> 0 .. MaxEpoch] /\ counts' \in [Node -> Nat]
        /\ UNCHANGED <<USE_SPACE_TIME, round, known, own, answers, distances,
                       requests, replies, agreement>>
    BY <1>1, <1>5 DEF Register, Enter
  <2>2. /\ pc[n] \in {"called", "registered"}
        /\ \E to \in {"registered", "entered"} : pc' = [pc EXCEPT ![n] = to]
        /\ done' \in [Node -> BOOLEAN]
    BY <1>5 DEF Register, Enter, GoTo, FlagOnRegister
  <2> QED
    BY <1>1, <2>1, <2>2
<1>6. ASSUME NEW n \in Node, Setup(n) PROVE LatencyTypes'
  BY <1>1, <1>2, <1>6
  DEF Setup, GoTo, Domains, BagToSet, EmptyBag, SetToBag
<1>7. ASSUME NEW n \in Node, MeasurePing(n) PROVE LatencyTypes'
  BY <1>1, <1>7, EnteredType DEF MeasurePing, countVars, Unmeasured, Domains
<1>8. ASSUME NEW n \in Node, Ask(n) PROVE LatencyTypes'
  <2>1. \A m \in Node : own'[m] \in Row
    <3>1. Counted(n) \in Row
      <4>1. Entered(own[n], known[n], round) \in Row
        BY <1>1, EnteredType
      <4> QED
        BY <1>1, <4>1, EnteredType DEF Counted
    <3> QED
      BY <1>8, <3>1 DEF Ask, Domains
  <2>2. \A m \in Node : BagToSet(distances'[m]) \subseteq Node \X Row
    BY <1>8, <2>1, RowAdded DEF Ask, Domains
  <2>3. requests' \subseteq [from : Node, to : Node, asked : 1 .. MaxEpoch]
    BY <1>8 DEF Ask
  <2> QED
    BY <1>1, <1>8, <2>1, <2>2, <2>3 DEF Ask, GoTo, countVars
<1>9. ASSUME NEW n \in Node, AskPanics(n) \/ AnswerPanics(n) PROVE LatencyTypes'
  BY <1>1, <1>9 DEF AskPanics, AnswerPanics, GoTo, countVars
<1>10. ASSUME NEW n \in Node, Answer(n) PROVE LatencyTypes'
  BY <1>1, <1>10 DEF Answer, countVars
<1>11. ASSUME NEW n \in Node, Receive(n) PROVE LatencyTypes'
  <2>1. \A m \in Node : BagToSet(distances'[m]) \subseteq Node \X Row
    BY <1>11, RowAdded DEF Receive, Domains
  <2> QED
    BY <1>1, <1>11, <2>1 DEF Receive, countVars
<1>12. ASSUME NEW n \in Node, SetupEnds(n) PROVE LatencyTypes'
  BY <1>1, <1>12 DEF SetupEnds, GoTo, CountOnEnd, countVars
<1>13. ASSUME NEW n \in Node,
              Propose(n) \/ Sign(n) \/ Agreed(n) \/ AgreementFails(n)
       PROVE  LatencyTypes'
  BY <1>1, <1>13
  DEF Propose, Sign, Agreed, AgreementFails, GoTo, countVars, AgreementType
<1> QED
  BY <1>3, <1>4, <1>5, <1>6, <1>7, <1>8, <1>9, <1>10, <1>11, <1>12, <1>13
  DEF Next

\* What the fields of Service that Setup uses may hold (service.go:74-88), in
\* both builds.
THEOREM LatencyTypeCorrect == Spec => []TypeOK
<1>1. Init => LatencyTypes
  <2> SUFFICES ASSUME Init PROVE LatencyTypes
    OBVIOUS
  <2>1. NoRow \in Row /\ 1 \in 1 .. MaxEpoch /\ 0 \in 0 .. MaxEpoch
    BY LatencyAssumption, NoRowType
  <2>2. TypeOK
    BY <2>1 DEF Init, TypeOK, Called, BagToSet, EmptyBag, SetToBag, NoneYet
  <2> QED
    BY <2>2 DEF Init, LatencyTypes, Domains, AgreementType, NoneYet, Called
<1>2. LatencyTypes => TypeOK
  BY DEF LatencyTypes
<1> QED
  BY <1>1, <1>2, LatencyTypesStep, PTL DEF Spec
=============================================================================
