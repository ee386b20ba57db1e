-------------------------- MODULE LatencyExchange --------------------------
(***************************************************************************)
(* What the members of an epoch do once it starts: Setup                   *)
(* (membershipchainservice/treeservice.go) measures the distances to the   *)
(* other members, asks them for theirs and waits for all the answers; then *)
(* one member has the matrix of distances signed (AgreeOnState).  The      *)
(* build decides with USE_SPACE_TIME what the distances are: pings         *)
(* (getPings) or counts of messages (GetInteractionDistances).             *)
(*                                                                         *)
(* Rounds are those of RunSystemNormally: everybody registers before       *)
(* anybody starts, and the client waits for all.  Handlers run in          *)
(* goroutines of their own: a message arrives after any delay.  A measured *)
(* value is named by the round it was measured in.                         *)
(***************************************************************************)
EXTENDS Naturals, FiniteSets, Bags

CONSTANTS
    Node,
    MaxEpoch,           \* bound: the number of rounds
    Members,            \* Members[r]: who registered for epoch r
    Proposer            \* Proposer[r]: who has the distances of r signed

ASSUME LatencyAssumption ==
    /\ IsFiniteSet(Node)
    /\ MaxEpoch \in Nat \ {0}
    /\ Members \in [1 .. MaxEpoch -> SUBSET Node]
    /\ Proposer \in [1 .. MaxEpoch -> Node]

VARIABLES
    USE_SPACE_TIME,  \* the build: interactions instead of pings
    round,       \* the epoch the client asked for
    pc,          \* "called", "registered", "entered", "measuring", "waiting",
                 \* "ready", "agreeing", "returned" or "dead"
    epoch,       \* epoch[n]: Service.e
    counts,      \* counts[n]: the length of CountInteractions
    known,       \* known[n]: the members in Nodes.All
    own,         \* own[n]: OwnPings or OwnInteractions, by peer
    done,        \* done[n]: DonePing or DoneInteraction
    answers,     \* answers[n]: NrPingAnswers or NrInteractionAnswers
    distances,   \* distances[n]: the rows added up in PingDistances
    requests,    \* ReqPings or ReqInteractions messages
    replies,     \* ReplyPings or ReplyInteractions messages
    agreement    \* the agreement of the round: what was proposed, by whom
                 \* it is signed and whether there are enough signatures

countVars == <<epoch, counts>>
vars == <<USE_SPACE_TIME, round, pc, countVars, known, own, done, answers,
          distances, requests, replies, agreement>>

Called(r) == [n \in Node |-> IF n \in Members[r] THEN "called" ELSE "returned"]
NoRow     == [p \in {} |-> 0]
NoneYet   == [matrix |-> EmptyBag, votes |-> {}, signed |-> FALSE]

\* The row with value v entered for the peers ps.
Entered(row, ps, v) ==
    [q \in ps \cup DOMAIN row |-> IF q \in ps THEN v ELSE row[q]]

\* The row a node reports is added to what is already there.
RowOf(n, row) == IF DOMAIN row = {} THEN EmptyBag ELSE SetToBag({<<n, row>>})

Init ==
    /\ USE_SPACE_TIME \in BOOLEAN
    /\ round = 1
    /\ pc = Called(1)
    /\ epoch = [n \in Node |-> 0]
    /\ counts = [n \in Node |-> 1]
    /\ known = [n \in Node |-> {}]
    /\ own = [n \in Node |-> NoRow]
    /\ done = [n \in Node |-> FALSE]
    /\ answers = [n \in Node |-> 0]
    /\ distances = [n \in Node |-> EmptyBag]
    /\ requests = {}
    /\ replies = {}
    /\ agreement = NoneYet

NextRound ==
    /\ \A n \in Node : pc[n] = "returned"
    /\ round < MaxEpoch
    /\ round' = round + 1
    /\ pc' = Called(round + 1)
    /\ agreement' = NoneYet
    /\ UNCHANGED <<USE_SPACE_TIME, countVars, known, own, done, answers,
                   distances, requests, replies>>

GoTo(n, from, to) == pc[n] = from /\ pc' = [pc EXCEPT ![n] = to]

\* CreateProofForEpoch resets the flag of the interactions only.
\* Mutant: it resets neither.
FlagKept(n)       == done[n]
FlagOnRegister(n) == done[n] /\ ~ USE_SPACE_TIME

\* Whoever was not there in the last round has fetched a history, and got a map
\* of counts for every epoch it missed.
Register(n) ==
    /\ GoTo(n, "called", "registered")
    /\ epoch' = [epoch EXCEPT ![n] = round - 1]
    /\ counts' = [counts EXCEPT ![n] = IF @ < round THEN round ELSE @]
    /\ done' = [done EXCEPT ![n] = FlagOnRegister(n)]
    /\ UNCHANGED <<USE_SPACE_TIME, round, known, own, answers, distances,
                   requests, replies, agreement>>

\* StartNewEpoch moves the epoch when it reads the token, and makes a map for
\* the counts of the new epoch only then.
Enter(n) ==
    /\ \A m \in Node : pc[m] # "called"
    /\ GoTo(n, "registered", "entered")
    /\ epoch' = [epoch EXCEPT ![n] = round]
    /\ UNCHANGED <<USE_SPACE_TIME, round, counts, known, own, done, answers,
                   distances, requests, replies, agreement>>

\* Setup forgets the distances, and the pings but not the interactions.
Setup(n) ==
    /\ GoTo(n, "entered", "measuring")
    /\ counts' = [counts EXCEPT ![n] = @ + 1]
    /\ known' = [known EXCEPT ![n] = Members[round]]
    /\ own' = [own EXCEPT ![n] = IF USE_SPACE_TIME THEN @ ELSE NoRow]
    /\ distances' = [distances EXCEPT ![n] = EmptyBag]
    /\ UNCHANGED <<USE_SPACE_TIME, round, epoch, done, answers, requests,
                   replies, agreement>>

Unmeasured(n) == {p \in known[n] \ {n} : p \notin DOMAIN own[n]}

\* Pings are measured peer by peer.
MeasurePing(n) == \E p \in Unmeasured(n) :
    /\ ~ USE_SPACE_TIME
    /\ pc[n] = "measuring"
    /\ own' = [own EXCEPT ![n] = Entered(@, {p}, round)]
    /\ UNCHANGED <<USE_SPACE_TIME, round, pc, countVars, known, done, answers,
                   distances, requests, replies, agreement>>

\* countOwnInteraction: all the members in one critical section.  Members of
\* earlier epochs keep what they had.
Counted(n) == Entered(Entered(own[n], known[n], round), {n}, 0)

\* The own row is entered and everybody else is asked for theirs.
Ask(n) ==
    /\ GoTo(n, "measuring", "waiting")
    /\ USE_SPACE_TIME \/ Unmeasured(n) = {}
    /\ own' = [own EXCEPT ![n] = IF USE_SPACE_TIME THEN Counted(n) ELSE @]
    /\ done' = [done EXCEPT ![n] = TRUE]
    /\ distances' = [distances EXCEPT ![n] = @ (+) RowOf(n, own'[n])]
    /\ requests' = requests \cup
         {[from |-> n, to |-> m, asked |-> round] : m \in known[n] \ {n}}
    /\ UNCHANGED <<USE_SPACE_TIME, round, countVars, known, answers, replies,
                   agreement>>

\* SendRaw fails when the process of the receiver has ended, and the sender
\* panics.
AskPanics(n) ==
    /\ GoTo(n, "measuring", "dead")
    /\ \E m \in known[n] : pc[m] = "dead"
    /\ UNCHANGED <<USE_SPACE_TIME, round, countVars, known, own, done, answers,
                   distances, requests, replies, agreement>>

\* ExecReqInteractions counts the request in the map of the epoch.
Countable(n) == USE_SPACE_TIME => epoch[n] < counts[n]

\* A handler indexes that list out of range, dereferences nil when it finds no
\* node of the requester's name or a list that Setup has not filled yet, and
\* reads a map that measureOwnPings writes: the process may end.
MayPanic(n, r) ==
    \/ ~ Countable(n)
    \/ r.from \notin known[n] \/ pc[n] = "measuring" \/ pc[r.from] = "dead"

\* ExecReqPings and ExecReqInteractions wait until the flag is set.
Answer(n) == \E r \in requests :
    /\ r.to = n
    /\ done[n]
    /\ Countable(n)
    /\ r.from \in known[n]
    /\ pc[n] # "dead"
    /\ requests' = requests \ {r}
    /\ replies' = replies \cup
         {[from |-> n, to |-> r.from, asked |-> r.asked, row |-> own[n]]}
    /\ UNCHANGED <<USE_SPACE_TIME, round, pc, countVars, known, own, done,
                   answers, distances, agreement>>

AnswerPanics(n) == \E r \in requests :
    /\ r.to = n
    /\ done[n]
    /\ pc[n] # "dead"
    /\ MayPanic(n, r)
    /\ pc' = [pc EXCEPT ![n] = "dead"]
    /\ requests' = requests \ {r}
    /\ UNCHANGED <<USE_SPACE_TIME, round, countVars, known, own, done, answers,
                   distances, replies, agreement>>

\* ExecReplyPings and ExecReplyInteractions add the row and count the answer.
Receive(n) == \E a \in replies :
    /\ a.to = n
    /\ pc[n] # "dead"
    /\ replies' = replies \ {a}
    /\ distances' = [distances EXCEPT ![n] = @ (+) RowOf(a.from, a.row)]
    /\ answers' = [answers EXCEPT ![n] = @ + 1]
    /\ UNCHANGED <<USE_SPACE_TIME, round, pc, countVars, known, own, done,
                   requests, agreement>>

\* Mutants: one answer less will do; the count is never reset; it is reset by
\* the number of members.
OneLess(n)    == Cardinality(known[n]) - 2
Expected(n)   == Cardinality(known[n]) - 1
CountKept(n)  == answers[n]
CountLessAll(n) == answers[n] - Cardinality(known[n])
CountOnEnd(n) == IF USE_SPACE_TIME THEN 0 ELSE answers[n]

\* The wait ends at exactly that many answers; only the count of the
\* interactions starts again from zero.
SetupEnds(n) ==
    /\ GoTo(n, "waiting", IF n = Proposer[round] THEN "ready" ELSE "returned")
    /\ answers[n] = Expected(n)
    /\ answers' = [answers EXCEPT ![n] = CountOnEnd(n)]
    /\ UNCHANGED <<USE_SPACE_TIME, round, countVars, known, own, done,
                   distances, requests, replies, agreement>>

-----------------------------------------------------------------------------
\* AgreeOnState(PINGSMSG): the proposer sends a hash of its matrix, and a
\* member signs if the hash of its own is the same when it is asked.

Propose(n) ==
    /\ GoTo(n, "ready", "agreeing")
    /\ agreement' = [matrix |-> distances[n], votes |-> {n}, signed |-> FALSE]
    /\ UNCHANGED <<USE_SPACE_TIME, round, countVars, known, own, done, answers,
                   distances, requests, replies>>

\* Mutant: whoever is asked signs.
AnyHash(m)  == TRUE
SameHash(m) == distances[m] = agreement.matrix

Sign(m) ==
    /\ pc[Proposer[round]] = "agreeing"
    /\ m \in Members[round] \ agreement.votes
    /\ SameHash(m)
    /\ agreement' = [agreement EXCEPT !.votes = @ \cup {m}]
    /\ UNCHANGED <<USE_SPACE_TIME, round, pc, countVars, known, own, done,
                   answers, distances, requests, replies>>

Threshold(k) == k - (k - 1) \div 3

Agreed(n) ==
    /\ GoTo(n, "agreeing", "returned")
    /\ Cardinality(agreement.votes) >= Threshold(Cardinality(Members[round]))
    /\ agreement' = [agreement EXCEPT !.signed = TRUE]
    /\ UNCHANGED <<USE_SPACE_TIME, round, countVars, known, own, done, answers,
                   distances, requests, replies>>

\* Not enough of them signed in time: an error, which the client ignores.
AgreementFails(n) ==
    /\ GoTo(n, "agreeing", "returned")
    /\ UNCHANGED <<USE_SPACE_TIME, round, countVars, known, own, done, answers,
                   distances, requests, replies, agreement>>

-----------------------------------------------------------------------------
Next ==
    \/ NextRound
    \/ \E n \in Node :
         \/ Register(n) \/ Enter(n) \/ Setup(n)
         \/ MeasurePing(n) \/ Ask(n) \/ AskPanics(n)
         \/ Answer(n) \/ AnswerPanics(n) \/ Receive(n) \/ SetupEnds(n)
         \/ Propose(n) \/ Sign(n) \/ Agreed(n) \/ AgreementFails(n)

\* Goroutines run and messages arrive.
Spec == Init /\ [][Next]_vars /\ WF_vars(Next)

-----------------------------------------------------------------------------
Row == UNION {[S -> 0 .. MaxEpoch] : S \in SUBSET Node}

TypeOK ==
    /\ USE_SPACE_TIME \in BOOLEAN
    /\ round \in 1 .. MaxEpoch
    /\ pc \in [Node -> {"called", "registered", "entered", "measuring",
                        "waiting", "ready", "agreeing", "returned", "dead"}]
    /\ epoch \in [Node -> 0 .. MaxEpoch]
    /\ counts \in [Node -> Nat]
    /\ known \in [Node -> SUBSET Node]
    /\ answers \in [Node -> Nat]
    /\ \A n \in Node : /\ own[n] \in Row
                       /\ BagToSet(distances[n]) \subseteq Node \X Row
    /\ done \in [Node -> BOOLEAN]
    /\ requests \subseteq [from : Node, to : Node, asked : 1 .. MaxEpoch]
    /\ \A a \in replies : a.row \in Row
    /\ agreement.votes \subseteq Members[round]

Finished(n) == pc[n] \in {"ready", "agreeing", "returned"}

\* The rows of the nodes of S, once each; who has measured nobody has none.
Matrix(rows, S) == SetToBag({<<m, rows[m]>> : m \in {q \in S : DOMAIN rows[q] # {}}})

\* The rows of all the members of the round, each with this round's values.
Complete(n) ==
    /\ distances[n] = Matrix(own, Members[round])
    /\ \A m \in Members[round] : \A p \in Members[round] \ {m} :
         p \in DOMAIN own[m] /\ own[m][p] = round

\* The flag and the count of the interactions are reset every round; those of
\* the pings are good for the first.
Reset == USE_SPACE_TIME \/ round = 1

\* Whoever has done its Setup holds everybody's distances of this round, none
\* twice and none of an earlier round, although everybody answers from its
\* own state at any moment after its flag is set (treeservice.go:149-153,
\* interactiondistance.go:89-94).
CompleteMatrix ==
    Reset => \A n \in Members[round] : Finished(n) => Complete(n)

\* A member answers only those it knows, and only once it has measured and has
\* a map to count the request in, although its epoch moves before the list of
\* those maps grows: no handler panics (interactiondistance.go:143-161,
\* service.go:249-252).
NobodyPanics == Reset => \A n \in Node : pc[n] # "dead"

\* If the distances are signed, enough members hold all of them to sign: nobody
\* signs before it has its own (blscosiservice.go:130-166).
SignedMatrix ==
    Reset /\ agreement.signed =>
        Cardinality({n \in Members[round] : Complete(n)})
            >= Threshold(Cardinality(Members[round]))

\* Members that wait for one another's flags and answers never do so for ever
\* (treeservice.go:150, interactiondistance.go:90 and 143).
AllReturn ==
    <>(/\ \A n \in Node : pc[n] = "returned"
       /\ USE_SPACE_TIME => round = MaxEpoch)

\* "each member of the new epoch has the same view of the system as they know
\* the participants, the latencies between each one of them and their levels"
\* (latex/thesis_template/thesis.tex:660-661).
SameLatencies ==
    \A n, m \in Members[round] :
        Finished(n) /\ Finished(m) => distances[n] = distances[m]
=============================================================================
