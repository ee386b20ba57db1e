--------------------------- MODULE LatencyProofs ---------------------------
(***************************************************************************)
(* No handler of LatencyExchange panics, for any nodes, members and number *)
(* of rounds, as far as the flag and the count are reset.                  *)
(***************************************************************************)
EXTENDS LatencyExchange, FiniteSetTheorems, TLAPS

Before    == {"called", "registered", "entered", "measuring"}
Started   == {"entered", "measuring", "waiting", "ready", "agreeing"}
Answering == {"waiting", "ready", "agreeing", "returned"}

FlowTypeOK ==
    /\ USE_SPACE_TIME \in BOOLEAN
    /\ round \in 1 .. MaxEpoch
    /\ pc \in [Node -> Before \cup Answering \cup {"dead"}]
    /\ epoch \in [Node -> Nat]
    /\ counts \in [Node -> Nat]
    /\ known \in [Node -> SUBSET Node]
    /\ done \in [Node -> BOOLEAN]
    /\ answers \in [Node -> Nat]

\* Every message belongs to a Setup of this round that waits for it, and is
\* the only one between its two nodes.
MessagesOK ==
    /\ \A r \in requests :
         /\ r = [from |-> r.from, to |-> r.to, asked |-> round]
         /\ r.from \in Members[round]
         /\ r.to \in Members[round] \ {r.from}
         /\ pc[r.from] = "waiting"
    /\ \A a \in replies :
         /\ a.from \in Members[round]
         /\ a.to \in Members[round] \ {a.from}
         /\ pc[a.to] = "waiting"
    /\ \A a, b \in replies : a.from = b.from /\ a.to = b.to => a = b
    /\ \A r \in requests, a \in replies : ~ (r.from = a.to /\ r.to = a.from)

\* The answers n waits for, and those it has counted.
Pending(n, m) ==
    \/ \E r \in requests : r.from = n /\ r.to = m
    \/ \E a \in replies : a.from = m /\ a.to = n
Counts(n) == {m \in known[n] \ {n} : ~ Pending(n, m)}

FlagOK(n) ==
    /\ pc[n] \in {"registered", "entered", "measuring"} => ~ done[n]
    /\ ~ USE_SPACE_TIME /\ pc[n] = "called" => ~ done[n]

ListOK(n) ==
    /\ pc[n] \in {"registered", "entered"} => counts[n] >= round
    /\ pc[n] = "entered" => epoch[n] = round
    /\ n \in Members[round] /\ pc[n] \in Answering \cup {"measuring"} =>
         /\ known[n] = Members[round]
         /\ epoch[n] = round
         /\ counts[n] > round

AnswersOK(n) ==
    /\ pc[n] = "waiting" => answers[n] = Cardinality(Counts(n))
    /\ pc[n] \in Before \/ (USE_SPACE_TIME /\ pc[n] # "waiting")
         => answers[n] = 0

PhaseOK(n) ==
    /\ pc[n] # "dead"
    /\ n \notin Members[round] => pc[n] = "returned"
    /\ pc[n] = "called" => \A m \in Node : pc[m] \notin Started

Flow ==
    /\ MessagesOK
    /\ \A n \in Node : FlagOK(n) /\ ListOK(n) /\ AnswersOK(n) /\ PhaseOK(n)

FlowInv == FlowTypeOK /\ (Reset => Flow)

-----------------------------------------------------------------------------
LEMMA InitFlow == Init => FlowInv
<1> SUFFICES ASSUME Init PROVE FlowInv
  OBVIOUS
<1>1. 1 \in 1 .. MaxEpoch /\ round = 1
  BY LatencyAssumption DEF Init
<1>2. \A n \in Node : pc[n] = IF n \in Members[1] THEN "called" ELSE "returned"
  BY DEF Init, Called
<1>3. FlowTypeOK
  BY <1>1 DEF Init, Called, FlowTypeOK, Before, Answering
<1>4. MessagesOK
  BY DEF Init, MessagesOK
<1>5. ASSUME NEW n \in Node
      PROVE  FlagOK(n) /\ ListOK(n) /\ AnswersOK(n) /\ PhaseOK(n)
  BY <1>1, <1>2
  DEF Init, FlagOK, ListOK, AnswersOK, PhaseOK, Started, Answering
<1> QED
  BY <1>3, <1>4, <1>5 DEF FlowInv, Flow

LEMMA MembersType ==
  ASSUME FlowTypeOK
  PROVE  /\ Members[round] \in SUBSET Node /\ round \in Nat
         /\ \A n \in Node : /\ IsFiniteSet(known[n] \ {n})
                             /\ IsFiniteSet(Counts(n))
                             /\ Counts(n) \in SUBSET (known[n] \ {n})
<1>1. \A S : S \in SUBSET Node => IsFiniteSet(S)
  BY LatencyAssumption, FS_Subset
<1>2. Members[round] \in SUBSET Node /\ round \in Nat
  BY LatencyAssumption DEF FlowTypeOK
<1>3. ASSUME NEW n \in Node
      PROVE  /\ known[n] \ {n} \in SUBSET Node /\ Counts(n) \in SUBSET Node
             /\ Counts(n) \in SUBSET (known[n] \ {n})
  BY DEF FlowTypeOK, Counts
<1> QED
  BY <1>1, <1>2, <1>3

LEMMA FlowTypeStep == FlowTypeOK /\ [Next]_vars => FlowTypeOK'
<1> SUFFICES ASSUME FlowTypeOK, [Next]_vars PROVE FlowTypeOK'
  OBVIOUS
<1> USE DEF FlowTypeOK, Before, Answering
<1>1. CASE UNCHANGED vars
  BY <1>1 DEF vars, countVars
<1>2. CASE NextRound
  BY <1>2, LatencyAssumption DEF NextRound, Called, countVars
<1>3. ASSUME NEW n \in Node, Register(n) \/ Enter(n) \/ Setup(n)
      PROVE  FlowTypeOK'
  <2>1. round \in Nat /\ round - 1 \in Nat /\ Members[round] \in SUBSET Node
    BY LatencyAssumption
  <2>2. CASE Register(n)
    BY <2>1, <2>2 DEF Register, GoTo, FlagOnRegister
  <2>3. CASE Enter(n)
    BY <2>1, <2>3 DEF Enter, GoTo
  <2>4. CASE Setup(n)
    BY <2>1, <2>4 DEF Setup, GoTo
  <2> QED
    BY <1>3, <2>2, <2>3, <2>4
<1>4. ASSUME NEW n \in Node, MeasurePing(n) \/ Ask(n) \/ AskPanics(n)
      PROVE  FlowTypeOK'
  BY <1>4 DEF MeasurePing, Ask, AskPanics, GoTo, countVars
<1>5. ASSUME NEW n \in Node, Answer(n) \/ AnswerPanics(n) \/ Receive(n)
      PROVE  FlowTypeOK'
  BY <1>5 DEF Answer, AnswerPanics, Receive, countVars
<1>6. ASSUME NEW n \in Node, SetupEnds(n) PROVE FlowTypeOK'
  BY <1>6 DEF SetupEnds, GoTo, CountOnEnd, countVars
<1>7. ASSUME NEW n \in Node,
             Propose(n) \/ Sign(n) \/ Agreed(n) \/ AgreementFails(n)
      PROVE  FlowTypeOK'
  BY <1>7 DEF Propose, Sign, Agreed, AgreementFails, GoTo, countVars
<1> QED
  BY <1>1, <1>2, <1>3, <1>4, <1>5, <1>6, <1>7 DEF Next

-----------------------------------------------------------------------------
\* A step that touches no message, and no node that waits for one.
Apart(n) ==
    /\ UNCHANGED <<USE_SPACE_TIME, round, requests, replies>>
    /\ pc[n] # "waiting" /\ pc'[n] # "waiting"
    /\ \A m \in Node \ {n} : pc'[m] = pc[m] /\ known'[m] = known[m]

LEMMA ApartMessages ==
  ASSUME FlowTypeOK, Flow, NEW n \in Node, Apart(n)
  PROVE  /\ MessagesOK'
         /\ \A m \in Node \ {n} : Counts(m)' = Counts(m)
<1>1. \A m \in Node \ {n} : Counts(m)' = Counts(m)
  BY DEF Apart, Counts, Pending
<1>2. /\ \A r \in requests : r.from \in Node /\ r.from # n
      /\ \A a \in replies : a.to \in Node /\ a.to # n
  BY MembersType DEF Apart, Flow, MessagesOK
<1> QED
  BY <1>1, <1>2 DEF Apart, Flow, MessagesOK

LEMMA RegisterFlow ==
  ASSUME FlowTypeOK, Flow, NEW n \in Node, Register(n) PROVE Flow'
<1> USE DEF Register, GoTo, countVars
<1>1. Apart(n)
  BY DEF Apart, FlowTypeOK
<1>2. MessagesOK' /\ \A m \in Node \ {n} : Counts(m)' = Counts(m)
  BY <1>1, ApartMessages
<1>3. \A m \in Node : PhaseOK(m)'
  BY DEF Flow, PhaseOK, Started, FlowTypeOK
<1>4. ASSUME NEW m \in Node PROVE FlagOK(m)'
  BY DEF Flow, FlagOK, FlagOnRegister, FlowTypeOK
<1>5. ASSUME NEW m \in Node PROVE AnswersOK(m)'
  BY <1>2 DEF Flow, AnswersOK, Before, FlowTypeOK
<1>6. ASSUME NEW m \in Node PROVE ListOK(m)'
  BY MembersType DEF Flow, ListOK, Answering, FlowTypeOK
<1> QED
  BY <1>2, <1>3, <1>4, <1>5, <1>6 DEF Flow

LEMMA EnterFlow ==
  ASSUME FlowTypeOK, Flow, NEW n \in Node, Enter(n) PROVE Flow'
<1> USE DEF Enter, GoTo
<1>1. Apart(n)
  BY DEF Apart, FlowTypeOK
<1>2. MessagesOK' /\ \A m \in Node \ {n} : Counts(m)' = Counts(m)
  BY <1>1, ApartMessages
<1>3. \A m \in Node : PhaseOK(m)'
  BY DEF Flow, PhaseOK, Started, FlowTypeOK
<1>4. ASSUME NEW m \in Node PROVE FlagOK(m)'
  BY DEF Flow, FlagOK, FlowTypeOK
<1>5. ASSUME NEW m \in Node PROVE AnswersOK(m)'
  BY <1>2 DEF Flow, AnswersOK, Before, FlowTypeOK
<1>6. ASSUME NEW m \in Node PROVE ListOK(m)'
  BY MembersType DEF Flow, ListOK, Answering, FlowTypeOK
<1> QED
  BY <1>2, <1>3, <1>4, <1>5, <1>6 DEF Flow

LEMMA SetupFlow ==
  ASSUME FlowTypeOK, Flow, NEW n \in Node, Setup(n) PROVE Flow'
<1> USE DEF Setup, GoTo
<1>1. Apart(n)
  BY DEF Apart, FlowTypeOK
<1>2. MessagesOK' /\ \A m \in Node \ {n} : Counts(m)' = Counts(m)
  BY <1>1, ApartMessages
<1>3. \A m \in Node : PhaseOK(m)'
  BY DEF Flow, PhaseOK, Started, FlowTypeOK
<1>4. ASSUME NEW m \in Node PROVE FlagOK(m)'
  BY DEF Flow, FlagOK, FlowTypeOK
<1>5. ASSUME NEW m \in Node PROVE AnswersOK(m)'
  BY <1>2 DEF Flow, AnswersOK, Before, FlowTypeOK
<1>6. ASSUME NEW m \in Node PROVE ListOK(m)'
  BY MembersType DEF Flow, ListOK, Answering, FlowTypeOK
<1> QED
  BY <1>2, <1>3, <1>4, <1>5, <1>6 DEF Flow

LEMMA MeasureFlow ==
  ASSUME FlowTypeOK, Flow, NEW n \in Node, MeasurePing(n) PROVE Flow'
<1>1. UNCHANGED <<USE_SPACE_TIME, round, pc, epoch, counts, known, done,
                  answers, requests, replies>>
  BY DEF MeasurePing, countVars
<1> QED
  BY <1>1 DEF Flow, MessagesOK, FlagOK, ListOK, AnswersOK, PhaseOK, Counts,
              Pending

LEMMA AskFlow ==
  ASSUME FlowTypeOK, Flow, NEW n \in Node, Ask(n) PROVE Flow'
<1> USE DEF Ask, GoTo, countVars
<1>1. /\ pc[n] = "measuring" /\ n \in Members[round]
      /\ known[n] = Members[round]
  BY DEF Flow, PhaseOK, ListOK
<1>2. /\ \A r \in requests : r.from \in Node /\ r.from # n
      /\ \A a \in replies : a.to \in Node /\ a.to # n
  BY <1>1, MembersType DEF Flow, MessagesOK
<1>3. MessagesOK'
  <2>1. \A r \in requests' :
          \/ r \in requests
          \/ \E m \in Members[round] \ {n} :
               r = [from |-> n, to |-> m, asked |-> round]
    BY <1>1
  <2>2. \A m \in Node : pc[m] = "waiting" => pc'[m] = "waiting"
    BY DEF FlowTypeOK
  <2>3. pc'[n] = "waiting"
    BY DEF FlowTypeOK
  <2> QED
    BY <1>1, <1>2, <2>1, <2>2, <2>3 DEF Flow, MessagesOK
<1>4. \A m \in Node \ {n} : Counts(m)' = Counts(m)
  BY DEF Counts, Pending
<1>5. Counts(n)' = {}
  <2>1. ASSUME NEW m \in known[n] \ {n} PROVE Pending(n, m)'
    <3>1. [from |-> n, to |-> m, asked |-> round] \in requests'
      OBVIOUS
    <3> QED
      BY <3>1 DEF Pending
  <2> QED
    BY <2>1 DEF Counts
<1>6. \A m \in Node : PhaseOK(m)'
  BY DEF Flow, PhaseOK, Started, FlowTypeOK
<1>7. ASSUME NEW m \in Node PROVE FlagOK(m)'
  BY DEF Flow, FlagOK, FlowTypeOK
<1>8. ASSUME NEW m \in Node PROVE AnswersOK(m)'
  BY <1>4, <1>5, FS_EmptySet DEF Flow, AnswersOK, Before, FlowTypeOK
<1>9. ASSUME NEW m \in Node PROVE ListOK(m)'
  BY DEF Flow, ListOK, Answering, FlowTypeOK
<1> QED
  BY <1>3, <1>6, <1>7, <1>8, <1>9 DEF Flow

LEMMA NoAskPanics ==
  ASSUME FlowTypeOK, Flow, NEW n \in Node PROVE ~ AskPanics(n)
  BY DEF AskPanics, Flow, PhaseOK, FlowTypeOK

\* What is asked is answered: nobody is asked by strangers, before it has
\* measured or before it can count.
LEMMA NoAnswerPanics ==
  ASSUME FlowTypeOK, Flow, NEW n \in Node PROVE ~ AnswerPanics(n)
<1> SUFFICES ASSUME NEW r \in requests, r.to = n, done[n], MayPanic(n, r)
             PROVE  FALSE
  BY DEF AnswerPanics
<1>1. /\ r.from \in Node /\ n \in Members[round] /\ r.from \in Members[round]
      /\ pc[r.from] = "waiting"
  BY MembersType DEF Flow, MessagesOK
<1>2. pc[n] \in Answering
  BY <1>1 DEF Flow, PhaseOK, FlagOK, FlowTypeOK, Started, Before
<1>3. known[n] = Members[round] /\ epoch[n] < counts[n]
  BY <1>1, <1>2, MembersType DEF Flow, ListOK, FlowTypeOK
<1> QED
  BY <1>1, <1>2, <1>3 DEF MayPanic, Countable, Answering

LEMMA AnswerFlow ==
  ASSUME FlowTypeOK, Flow, NEW n \in Node, Answer(n) PROVE Flow'
<1> PICK r \in requests : Answer(n)!(r)
  BY DEF Answer
<1> DEFINE a == [from |-> n, to |-> r.from, asked |-> r.asked, row |-> own[n]]
<1>1. /\ requests' = requests \ {r} /\ replies' = replies \cup {a}
      /\ UNCHANGED <<USE_SPACE_TIME, round, pc, epoch, counts, known, done,
                     answers>>
      /\ r.to = n
  BY DEF countVars
<1>2. /\ r.from \in Members[round] /\ n \in Members[round] \ {r.from}
      /\ pc[r.from] = "waiting"
      /\ \A s \in requests : s.from = r.from /\ s.to = n => s = r
      /\ \A b \in replies : ~ (b.from = n /\ b.to = r.from)
  BY <1>1 DEF Flow, MessagesOK
<1>3. a.from = n /\ a.to = r.from
  OBVIOUS
<1> HIDE DEF a
<1>4. MessagesOK'
  BY <1>1, <1>2, <1>3 DEF Flow, MessagesOK
<1>5. \A m, p \in Node : Pending(m, p)' <=> Pending(m, p)
  BY <1>1, <1>2, <1>3 DEF Pending
<1>6. \A m \in Node : Counts(m)' = Counts(m)
  BY <1>1, <1>5 DEF Counts, FlowTypeOK
<1> QED
  BY <1>1, <1>4, <1>6 DEF Flow, FlagOK, ListOK, AnswersOK, PhaseOK

LEMMA ReceiveFlow ==
  ASSUME FlowTypeOK, Flow, NEW n \in Node, Receive(n) PROVE Flow'
<1> PICK a \in replies : Receive(n)!(a)
  BY DEF Receive
<1>1. /\ replies' = replies \ {a} /\ a.to = n
      /\ answers' = [answers EXCEPT ![n] = @ + 1]
      /\ UNCHANGED <<USE_SPACE_TIME, round, pc, epoch, counts, known, done,
                     requests>>
  BY DEF countVars
<1>2. /\ a.from \in Members[round] \ {n} /\ n \in Members[round]
      /\ pc[n] = "waiting"
      /\ \A b \in replies : b.from = a.from /\ b.to = n => b = a
      /\ \A r \in requests : ~ (r.from = n /\ r.to = a.from)
  BY <1>1 DEF Flow, MessagesOK
<1>3. known[n] = Members[round]
  BY <1>2 DEF Flow, ListOK, Answering
<1>4. MessagesOK'
  BY <1>1, <1>2 DEF Flow, MessagesOK
<1>5. \A m \in Node \ {n} : Counts(m)' = Counts(m)
  BY <1>1 DEF Counts, Pending
<1>6. Counts(n)' = Counts(n) \cup {a.from} /\ a.from \notin Counts(n)
  BY <1>1, <1>2, <1>3 DEF Counts, Pending
<1>7. answers'[n] = Cardinality(Counts(n)')
  <2>1. answers[n] = Cardinality(Counts(n)) /\ answers'[n] = answers[n] + 1
    BY <1>1, <1>2 DEF Flow, AnswersOK, FlowTypeOK
  <2>2. IsFiniteSet(Counts(n))
    BY MembersType
  <2>3. Cardinality(Counts(n) \cup {a.from}) = Cardinality(Counts(n)) + 1
    BY <1>6, <2>2, FS_AddElement
  <2> QED
    BY <1>6, <2>1, <2>3
<1>8. ASSUME NEW m \in Node PROVE AnswersOK(m)'
  BY <1>1, <1>2, <1>5, <1>7 DEF Flow, AnswersOK, FlowTypeOK, Before
<1> QED
  BY <1>1, <1>4, <1>8 DEF Flow, FlagOK, ListOK, PhaseOK

\* A wait that ends has counted everybody: no message of its round is left.
LEMMA AllCounted ==
  ASSUME FlowTypeOK, Flow, NEW n \in Node, pc[n] = "waiting",
         answers[n] = Expected(n)
  PROVE  /\ \A r \in requests : r.from # n
         /\ \A a \in replies : a.to # n
<1>1. n \in Members[round] /\ known[n] = Members[round]
  BY DEF Flow, PhaseOK, ListOK, Answering
<1>2. IsFiniteSet(known[n]) /\ IsFiniteSet(known[n] \ {n})
  BY LatencyAssumption, MembersType, FS_Subset DEF FlowTypeOK
<1>3. Cardinality(known[n] \ {n}) = Expected(n)
  BY <1>1, <1>2, FS_RemoveElement DEF Expected
<1>4. Cardinality(Counts(n)) = Expected(n)
  BY DEF Flow, AnswersOK
<1>5. Counts(n) = known[n] \ {n}
  BY <1>2, <1>3, <1>4, MembersType, FS_Subset
<1> QED
  BY <1>1, <1>5 DEF Counts, Pending, Flow, MessagesOK

LEMMA EndsFlow ==
  ASSUME FlowTypeOK, Flow, NEW n \in Node, SetupEnds(n) PROVE Flow'
<1> USE DEF SetupEnds, GoTo, CountOnEnd, countVars
<1>1. /\ \A r \in requests : r.from # n
      /\ \A a \in replies : a.to # n
  BY AllCounted
<1>2. MessagesOK'
  BY <1>1, MembersType DEF Flow, MessagesOK, FlowTypeOK
<1>3. \A m \in Node : Counts(m)' = Counts(m)
  BY DEF Counts, Pending
<1>4. n \in Members[round]
  BY DEF Flow, PhaseOK
<1>5. \A m \in Node : PhaseOK(m)'
  BY <1>4 DEF Flow, PhaseOK, Started, FlowTypeOK
<1>6. ASSUME NEW m \in Node PROVE FlagOK(m)'
  BY DEF Flow, FlagOK, FlowTypeOK
<1>7. ASSUME NEW m \in Node PROVE AnswersOK(m)'
  BY <1>3 DEF Flow, AnswersOK, Before, FlowTypeOK
<1>8. ASSUME NEW m \in Node PROVE ListOK(m)'
  BY DEF Flow, ListOK, Answering, FlowTypeOK
<1> QED
  BY <1>2, <1>5, <1>6, <1>7, <1>8 DEF Flow

LEMMA AgreeFlow ==
  ASSUME FlowTypeOK, Flow, NEW n \in Node,
         Propose(n) \/ Sign(n) \/ Agreed(n) \/ AgreementFails(n)
  PROVE  Flow'
<1>1. CASE Sign(n)
  <2>1. UNCHANGED <<USE_SPACE_TIME, round, pc, epoch, counts, known, done,
                    answers, requests, replies>>
    BY <1>1 DEF Sign, countVars
  <2>2. MessagesOK'
    BY <2>1 DEF Flow, MessagesOK
  <2>3. \A m \in Node : Counts(m)' = Counts(m)
    BY <2>1 DEF Counts, Pending
  <2>4. \A m \in Node : FlagOK(m)' /\ ListOK(m)' /\ PhaseOK(m)'
    BY <2>1 DEF Flow, FlagOK, ListOK, PhaseOK
  <2>5. \A m \in Node : AnswersOK(m)'
    BY <2>1, <2>3 DEF Flow, AnswersOK
  <2> QED
    BY <2>2, <2>4, <2>5 DEF Flow
<1>2. CASE Propose(n) \/ Agreed(n) \/ AgreementFails(n)
  <2>1. /\ pc[n] \in {"ready", "agreeing"}
        /\ \E to \in {"agreeing", "returned"} : pc' = [pc EXCEPT ![n] = to]
        /\ UNCHANGED <<USE_SPACE_TIME, round, epoch, counts, known, done,
                       answers, requests, replies>>
    BY <1>2 DEF Propose, Agreed, AgreementFails, GoTo, countVars
  <2>2. Apart(n)
    BY <2>1 DEF Apart, FlowTypeOK
  <2>3. MessagesOK' /\ \A m \in Node \ {n} : Counts(m)' = Counts(m)
    BY <2>2, ApartMessages
  <2>4. n \in Members[round]
    BY <2>1 DEF Flow, PhaseOK
  <2>5. \A m \in Node : PhaseOK(m)'
    BY <2>1, <2>4 DEF Flow, PhaseOK, Started, FlowTypeOK
  <2>6. ASSUME NEW m \in Node PROVE FlagOK(m)'
    BY <2>1 DEF Flow, FlagOK, FlowTypeOK
  <2>7. ASSUME NEW m \in Node PROVE AnswersOK(m)'
    BY <2>1, <2>3 DEF Flow, AnswersOK, Before, FlowTypeOK
  <2>8. ASSUME NEW m \in Node PROVE ListOK(m)'
    BY <2>1 DEF Flow, ListOK, Answering, FlowTypeOK
  <2> QED
    BY <2>3, <2>5, <2>6, <2>7, <2>8 DEF Flow
<1> QED
  BY <1>1, <1>2

LEMMA NextRoundFlow ==
  ASSUME FlowTypeOK, Reset => Flow, NextRound, Reset' PROVE Flow'
<1> USE DEF NextRound, countVars
<1>1. USE_SPACE_TIME /\ Flow
  BY LatencyAssumption DEF Reset, FlowTypeOK
<1>2. requests = {} /\ replies = {}
  BY <1>1, MembersType DEF Flow, MessagesOK
<1>3. /\ round' \in 1 .. MaxEpoch
      /\ \A n \in Node : pc'[n] = IF n \in Members[round'] THEN "called"
                                  ELSE "returned"
  BY LatencyAssumption DEF Called, FlowTypeOK
<1>4. MessagesOK'
  BY <1>2 DEF MessagesOK
<1>5. ASSUME NEW n \in Node
      PROVE  FlagOK(n)' /\ ListOK(n)' /\ AnswersOK(n)' /\ PhaseOK(n)'
  BY <1>1, <1>3
  DEF Flow, FlagOK, ListOK, AnswersOK, PhaseOK, Started, Answering, Before
<1> QED
  BY <1>4, <1>5 DEF Flow

LEMMA FlowStep == FlowInv /\ [Next]_vars => FlowInv'
<1> SUFFICES ASSUME FlowInv, [Next]_vars PROVE FlowInv'
  OBVIOUS
<1>1. FlowTypeOK /\ FlowTypeOK'
  BY FlowTypeStep DEF FlowInv
<1>2. CASE NextRound
  BY <1>1, <1>2, NextRoundFlow DEF FlowInv
<1>3. CASE ~ NextRound
  <2> SUFFICES ASSUME Reset' PROVE Flow'
    BY <1>1 DEF FlowInv
  <2>1. UNCHANGED <<USE_SPACE_TIME, round>>
    BY <1>3 DEF Next, vars, Register, Enter, Setup, MeasurePing, Ask,
       AskPanics, Answer, AnswerPanics, Receive, SetupEnds, Propose, Sign,
       Agreed, AgreementFails
  <2>2. Flow
    BY <2>1 DEF Reset, FlowInv
  <2>3. CASE UNCHANGED vars
    BY <2>2, <2>3 DEF vars, countVars, Flow, MessagesOK, FlagOK, ListOK,
       AnswersOK, PhaseOK, Counts, Pending
  <2> QED
    BY <1>1, <1>3, <2>2, <2>3, RegisterFlow, EnterFlow, SetupFlow,
       MeasureFlow, AskFlow, NoAskPanics, AnswerFlow, NoAnswerPanics,
       ReceiveFlow, EndsFlow, AgreeFlow DEF Next
<1> QED
  BY <1>2, <1>3

\* No handler and no sender ends its process, whoever joins whenever: as long
\* as the flag and the count are reset, a member answers only those it knows,
\* with what it has measured, and counts in a list that has grown.
THEOREM NoPanics == Spec => []NobodyPanics
<1>1. FlowInv => NobodyPanics
  BY DEF FlowInv, Flow, PhaseOK, NobodyPanics
<1> QED
  BY <1>1, InitFlow, FlowStep, PTL DEF Spec
=============================================================================
