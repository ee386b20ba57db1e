------------------------------ MODULE Clients ------------------------------
(***************************************************************************)
(* The client programs of simulation/service.go, which call the operations *)
(* of the service over the network:                                        *)
(*   "normal"      RunSystemNormally: rounds of ExecEpochRequest;          *)
(*   "throughput"  RunExperiment: ever more nodes run one epoch, and the   *)
(*                 genesis signers are set again before each run;          *)
(*   "join"        RunExperimentNodesWantingToJoing: newcomers register    *)
(*                 while the client drives the members call by call;       *)
(*   "churn"       RunExperimentNodesChurning: members are left out.       *)
(* "join" and "churn" have a random member of the old committee lead, and  *)
(* do not wait for it.  The phases are long enough for what they are for;  *)
(* a newcomer may nevertheless come too late.                              *)
(***************************************************************************)
EXTENDS EpochRequest

CONSTANTS
    Programs,        \* the client programs considered
    Index            \* Index[n]: the place of n in the roster

ASSUME ClientsAssumption ==
    /\ Programs \subseteq {"normal", "throughput", "join", "churn"}
    /\ Index \in [Node -> Nat]
    /\ \A m, n \in Node : Index[m] = Index[n] => m = n

\* Round r of RunSystemNormally calls the first joiningPerEpoch * (r + 1)
\* nodes: nobody leaves, and with ten nodes or more the four signers of epoch 0
\* are there from the first round on (simulation/service.go:116-152).
ASSUME GrowthAssumption ==
    \A r \in 1 .. MaxEpoch :
        /\ Genesis \subseteq Participants[r]
        /\ r < MaxEpoch => Participants[r] \subseteq Participants[r + 1]

VARIABLES
    client,      \* the program that runs
    stage,       \* the loop it waits in: "request" (of ExecEpochRequests),
                 \* "update", "register" or "start"
    inside,      \* the nodes it calls: alreadyIn, stillIn
    written,     \* alreadyWritten: the nodes it starts the epoch on
    committee,   \* oldCommittee: whom "join" picks a leader from
    apart,       \* the calls it does not wait for: <<node, where it is>>
    rerun        \* "throughput" is not in its first run any more

clientVars == <<client, stage, inside, written, committee, apart, rerun>>
every == <<allVars, clientVars>>

Lowest(S, k)  == {n \in S : Cardinality({m \in S : Index[m] < Index[n]}) < k}
Highest(S, k) == {n \in S : Cardinality({m \in S : Index[m] > Index[n]}) < k}

Prefixes == {Lowest(Node, k) : k \in 0 .. Cardinality(Node)}

\* The request `call` is sent to all of S.
Send(S, call) == [n \in Node |-> IF n \in S THEN call ELSE "returned"]
AllReturned == \A n \in Node : pc[n] = "returned"

\* Newcomers of a round: at most four, the first ones still outside.
Newcomers == {Lowest(Node \ inside, k) : k \in 0 .. 4}

\* Whom churning leaves: most often the last members go, at most four, when
\* many are left; of a few anyone but the first may go.
Remaining(S) ==
    LET left == Cardinality(S)
    IN  {S \ Highest(S, k) : k \in 0 .. (IF left < 8 THEN left - 1 ELSE 4)}

ClientInit ==
    /\ Init
    /\ round = 1
    /\ client \in Programs
    /\ apart = {}
    /\ rerun = FALSE
    /\ \/ /\ client = "normal"
          /\ inside = Participants[1]
          /\ stage = "request"
       \/ /\ client = "throughput"
          /\ inside \in Prefixes
          /\ Genesis \subseteq inside
          /\ stage = "request"
       \/ /\ client = "join"
          /\ inside = Genesis
          /\ stage = "update"
       \/ /\ client = "churn"
          /\ inside \in Remaining(Genesis)
          /\ stage = "update"
    /\ pc = Send(inside, "update")
    /\ written = Genesis
    /\ committee = Genesis

-----------------------------------------------------------------------------
\* The client goes on when all the calls it waits for returned.

NormalRound ==
    /\ client = "normal"
    /\ NextRound
    /\ inside' = Participants[round + 1]
    /\ UNCHANGED <<client, stage, written, committee, apart, rerun>>

\* Mutant: the epoch is not set back.
EpochKept(S)  == e
EpochReset(S) == [n \in Node |-> IF n \in S THEN 0 ELSE e[n]]

\* Between two runs of "throughput".  SetGenesisSignersRequest restarts the
\* clock and replaces epoch, signers, servers and names, but neither reads
\* EpochChan nor ends a call, nor does it reset what Setup has counted.
GenesisAgain ==
    /\ client = "throughput"
    /\ AllReturned
    /\ inside' \in {S \in Prefixes : inside \subseteq S /\ inside # S}
    /\ \A n \in inside' : ~ storage[n].locked
    /\ clock' = [epoch |-> 0, slot |-> "open"]
    /\ e' = EpochReset(inside')
    /\ storage' = [n \in Node |->
                      IF n \in inside' THEN GenesisStorage ELSE storage[n]]
    /\ servers' = [n \in Node |->
                      IF n \in inside' THEN Genesis \cup {n} ELSE servers[n]]
    /\ names' = [n \in Node |-> IF n \in inside' THEN Genesis ELSE names[n]]
    /\ view' = [n \in Node |-> NoView]
    /\ confirmed' = [n \in Node |-> {}]
    /\ pc' = Send(inside', "update")
    /\ rerun' = TRUE
    /\ UNCHANGED <<epochChan, callVars, netVars, round,
                   client, stage, written, committee, apart>>

\* "join" has some newcomers update and register at the same time; next round
\* they are called like the others, whatever became of them.  It has written
\* whoever it waited for, also after an error.
RegisterStage ==
    /\ stage = "update"
    /\ AllReturned
    /\ stage' = "register"
    /\ pc' = Send(inside, "register")
    /\ \E new \in IF client = "join" THEN Newcomers ELSE {{}} :
         /\ inside' = inside \cup new
         /\ apart' = apart \cup (new \X {"refresh", "register"})
    /\ written' = IF client = "join" THEN written \cup inside ELSE inside
    /\ UNCHANGED <<vars, round, client, committee, rerun>>

StartStage ==
    /\ stage = "register"
    /\ AllReturned
    /\ stage' = "start"
    /\ \E leader \in IF client = "join" THEN committee ELSE inside :
         apart' = apart \cup {<<leader, "lead">>}
    /\ committee' = written
    /\ pc' = Send(written, "start")
    /\ UNCHANGED <<vars, round, client, inside, written, rerun>>

UpdateStage ==
    /\ stage = "start"
    /\ AllReturned
    /\ round < MaxEpoch
    /\ round' = round + 1
    /\ stage' = "update"
    /\ inside' \in IF client = "churn" THEN Remaining(inside) ELSE {inside}
    /\ pc' = Send(inside', "update")
    /\ UNCHANGED <<vars, client, written, committee, apart, rerun>>

-----------------------------------------------------------------------------
\* A call the client waits for, and one it does not.

Waited(n, from, to) == GoTo(n, from, to) /\ UNCHANGED clientVars

Apart(n, from, to) ==
    /\ <<n, from>> \in apart
    /\ apart' = (apart \ {<<n, from>>})
                    \cup (IF to = "returned" THEN {} ELSE {<<n, to>>})
    /\ UNCHANGED <<reqVars, client, stage, inside, written, committee, rerun>>

\* getRosterForEpoch answers for the epoch n is in, whatever it is asked.
UpToDate(n) == ~ Behind(n) /\ ~ IndexPanics(n, e[n]) /\ IsMember(n, e[n])

\* ExecUpdateForNewNode returns in a registration phase only.
UpdateForNewNode(n) ==
    \/ /\ ~ storage[n].locked
       /\ UpToDate(n)
       /\ Waited(n, "update", "phase")
       /\ UNCHANGED vars
    \/ /\ ~ storage[n].locked
       /\ ~ UpToDate(n)
       /\ UpdateBegins(n)
       /\ Waited(n, "update", "history")
    \/ UpdateEnds(n) /\ Waited(n, "history", "phase")
    \/ /\ clock.slot # "live"
       /\ Waited(n, "phase", "returned")
       /\ UNCHANGED vars

\* ExecUpdate
UpdateNode(n) ==
    \/ UpdateBegins(n) /\ Apart(n, "refresh", "history")
    \/ UpdateEnds(n) /\ Apart(n, "history", "returned")

\* A newcomer that was told of no error starts the epoch, and the client may
\* start it there once more.
Answered(n) ==
    LET managed == round \in confirmed[n]
    IN  /\ <<n, "answered">> \in apart
        /\ apart' = (apart \ {<<n, "answered">>})
                       \cup (IF managed THEN {<<n, "start">>} ELSE {})
        /\ written' = IF managed THEN written \cup {n} ELSE written
        /\ UNCHANGED <<vars, reqVars, client, stage, inside, committee, rerun>>

\* A tree of one node never reports: only the timer ends its registration.
AloneTimesOut(n) ==
    /\ reg[n].roster = {n}
    /\ \A m \in announces : m.from # n
    /\ RegisterTimesOut(n)
    /\ Waited(n, "gossip", "returned")

\* Setup waits until as many have answered as there are other members, but
\* neither the answers counted nor DonePing are ever reset: from the second
\* time on the count may be beyond that for good, or a member that was asked
\* too early is gone.  LatencyExchange has the exchange itself; here StartNewEpoch
\* may then never return (treeservice.go:150).
SetupWaits(n) ==
    /\ round > 1 \/ rerun
    /\ StartSucceeds(n)
    /\ Waited(n, "token", "setup")

CallByCall(n) ==
    \/ UpdateForNewNode(n) \/ UpdateNode(n) \/ Answered(n) \/ AloneTimesOut(n)
    \/ \E to \in Place :
         /\ \/ Registering(n, pc[n], to, "returned")
            \/ Starting(n, pc[n], to)
         /\ Waited(n, pc[n], to)
    \/ \E from \in {call[2] : call \in apart}, to \in Place \cup {"answered"} :
         /\ \/ Registering(n, from, to, "answered")
            \/ Leading(n, from, to, "returned")
            \/ Starting(n, from, to)
         /\ Apart(n, from, to)

ClientStep ==
    \/ NormalRound \/ RegisterStage \/ StartStage \/ UpdateStage
    \/ \E n \in Node :
         \/ stage = "request" /\ ReqUpdate(n) /\ UNCHANGED clientVars
         \/ stage = "request" /\ ReqCalls(n) /\ UNCHANGED clientVars
         \/ stage # "request" /\ CallByCall(n)
         \/ SetupWaits(n)
         \/ Serve(n) /\ UNCHANGED clientVars

-----------------------------------------------------------------------------
\* The slots last until what belongs to them is done, and the client is never
\* behind.  A newcomer may miss the registration, but asks
\* before the epoch begins.  A client that is left waiting in Setup calls nothing
\* any more, and the clock has nothing left to decide.
RoundOver == AllReturned /\ stage \in {"request", "start"}
LastRound == IF client = "throughput" THEN inside = Node ELSE round = MaxEpoch
Over == RoundOver /\ LastRound

AllSettled ==
    /\ Settled
    /\ AllReturned => Over
    /\ \A n \in Node :
         /\ pc[n] \notin {"history", "setup"}
         /\ pc[n] = "phase" => clock.slot = "live"
         /\ \A call \in {"refresh", "history", "gossip", "answered", "agree"} :
              <<n, call>> \notin apart
         /\ <<n, "register">> \in apart => clock.slot = "open"
         /\ <<n, "lead">> \in apart => clock.slot = "open"
         /\ <<n, "start">> \in apart => clock.slot # "live"
         /\ <<n, "token">> \in apart => epochChan[n] = <<>>

ClientTick == AllSettled /\ ReqTick /\ UNCHANGED clientVars
ClientNext == ClientStep \/ GenesisAgain \/ ClientTick

ClientSpec == ClientInit /\ [][ClientNext]_every /\ WF_every(ClientNext)

-----------------------------------------------------------------------------
\* No storage stays locked by an announce for a wrong epoch, an index beyond the
\* list or an error return (addsignerservice.go:32-46), unless newcomers announce
\* themselves at their own pace: the members do so early, and what a late announce
\* does is RefusalReleasesLock.
LocksReleased == client # "join" => RefusalReleasesLock

\* Whoever was confirmed is a signer on every member of the committee, also
\* after histories have replaced lists: a history leaves once the registration
\* is over.  Not so with joining, where a history is answered while others
\* register (updatehistoryservice.go:158).
ConfirmedKept == client # "join" => ConfirmedStored

\* No channel of tokens ever holds more than the one token the start of the
\* epoch reads, or a later start would take that of an epoch that is over:
\* whoever leads sends a history to all the others, and one token to itself
\* (consencusservice.go:39-69).  A newcomer's update may cause one more.
OneToken == client # "join" => AtMostOneToken

\* When a round of epoch requests or of single calls is over, everybody it
\* called is in the epoch with exactly the others it called: those who joined
\* caught up, those who churned are gone ("if one of the participants crashes
\* ... it will not be in the next committee"), whoever led.
Epochs == IF client = "throughput" THEN 1 ELSE round
StartTogether ==
    RoundOver /\ client # "join" =>
        \A n \in inside : view[n] = [epoch |-> Epochs, members |-> inside]

\* Seen through its epochs, the service does what MembershipEpochs says: nobody
\* starts an epoch twice, skips one, starts it with others than those called,
\* or is still in the last one when a new round begins, whatever tokens and
\* histories are under way (service.go:239-263).
Promised == INSTANCE MembershipEpochs WITH called <- inside
EpochByEpoch ==
    /\ Promised!Init
    /\ [][client # "join" => Promised!Next]_<<round, inside, view>>

\* A run of "throughput" begins as the first one does: setting the genesis
\* signers again does not end a call, read a token or take back a message, so
\* nothing of the kind may be left.
CleanRuns ==
    [][GenesisAgain =>
         /\ \A n \in Node : /\ epochChan'[n] = <<>>
                            /\ ~ updating'[n] /\ starting'[n] = 0
                            /\ reg'[n] = Idle /\ cons'[n] = NoRound
         /\ announces' = {} /\ requests' = {} /\ snapshots' = {}
         /\ histories' = {}]_every

\* The client comes to the end of its program, or has a member that never
\* returns from Setup (treeservice.go:150), and then all the others are done: in
\* no other call of the service does anybody wait for ever, for a mutex, a
\* token or an answer.
LeftInSetup ==
    /\ \A n \in Node : pc[n] \in {"returned", "setup"}
    /\ \E n \in Node : pc[n] = "setup"
ClientEnds == client # "join" => <>(Over \/ LeftInSetup)
=============================================================================
