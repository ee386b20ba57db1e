---------------------------- MODULE EpochRequest ----------------------------
(***************************************************************************)
(* MembershipChain driven the way the system is run normally               *)
(* (simulation/service.go, RunSystemNormally): in round r the client sends *)
(* ExecEpochRequest(r) to all the participants of the round, and goes on   *)
(* when all of them returned, with or without an error.  The handler       *)
(* (requestfromapiservice.go, ExecEpochRequest) updates its history if it  *)
(* is not in epoch r-1, registers for r, leads the consensus on node_0 and *)
(* starts the epoch.  The actions are those of MembershipChain, called in  *)
(* that order; a request whose call is refused at once just goes on.       *)
(***************************************************************************)
EXTENDS MembershipProperties

CONSTANT Participants      \* Participants[r]: the nodes called in round r

ASSUME ParticipantsAssumption ==
    Participants \in [1 .. MaxEpoch -> SUBSET Node]

VARIABLES
    round,     \* the epoch the client is asking for
    pc         \* the call every node's request is in: "update", "register",
               \* "gossip", "lead", "agree", "start", "token", "returned"

reqVars == <<round, pc>>
allVars == <<vars, reqVars>>

Called(r) == [n \in Node |-> IF n \in Participants[r] THEN "update"
                             ELSE "returned"]

ReqInit == Init /\ round = 1 /\ pc = Called(1)

NextRound ==
    /\ \A n \in Node : pc[n] = "returned"
    /\ round < MaxEpoch
    /\ round' = round + 1
    /\ pc' = Called(round + 1)
    /\ UNCHANGED vars

GoTo(n, from, to) ==
    /\ pc[n] = from
    /\ pc' = [pc EXCEPT ![n] = to]
    /\ UNCHANGED round

\* s.e != req.Epoch-1
Behind(n) == e[n] # round - 1

\* Only node_0 leads.
AfterRegister(n) == IF n = Leader THEN "lead" ELSE "start"

ReqUpdate(n) ==
    \/ ~ Behind(n) /\ GoTo(n, "update", "register") /\ UNCHANGED vars
    \/ pc[n] = "update" /\ Behind(n) /\ UpdateBegins(n) /\ UNCHANGED reqVars
    \/ UpdateEnds(n) /\ GoTo(n, "update", "register")

\* The calls of a request: what it does when it goes from `from` to `to`.  A
\* call that returns, with or without an error, leaves it at `after`.

\* CreateProofForEpoch(round)
Registering(n, from, to, after) ==
    \/ from = "register" /\ to = "gossip" /\ ~ Behind(n) /\ RegisterBegins(n)
    \/ from = "register" /\ to = after /\ ~ Behind(n) /\ RegisterLeaksLock(n)
    \/ /\ from = "register" /\ to = after
       /\ clock.slot # "live"
       /\ Behind(n) \/ (TooLate /\ ~ storage[n].locked /\ ~ CannotAsk(n))
       /\ UNCHANGED vars
    \/ from = "gossip" /\ to = after /\ RegisterEnds(n)

\* GetConsencusOnNewSigners
Leading(n, from, to, after) ==
    \/ from = "lead" /\ to = "agree" /\ ConsensusBegins(n)
    \/ from = "lead" /\ to = "returned" /\ ConsensusPanics(n)
    \/ /\ from = "lead" /\ to = "returned"
       /\ MayLead(n)
       /\ ~ IndexPanics(n, e[n]) /\ ~ IsMember(n, e[n])
       /\ UNCHANGED vars
    \/ from = "agree" /\ to = after /\ ConsensusReached(n)

\* StartNewEpoch
Starting(n, from, to) ==
    \/ from = "start" /\ to = "token" /\ StartBegins(n)
    \/ /\ from = "start" /\ to = "returned"
       /\ clock.slot = "live"
       /\ e[n] # clock.epoch
       /\ UNCHANGED vars
    \/ from = "token" /\ to = "returned" /\ StartSucceeds(n)
    \/ from = "token" /\ to = "returned" /\ StartFails(n)
    \/ from = "token" /\ to = "token" /\ StartStuck(n)

Place == {"gossip", "lead", "agree", "start", "token", "returned"}

\* ExecEpochRequest: an error of CreateProofForEpoch is only logged.
ReqCalls(n) == \E to \in Place :
    /\ \/ Registering(n, pc[n], to, AfterRegister(n))
       \/ Leading(n, pc[n], to, "start")
       \/ Starting(n, pc[n], to)
    /\ GoTo(n, pc[n], to)

\* The rest of a signature round, and the handlers of the messages, on every
\* node.
Serve(n) ==
    /\ \/ SignatureReturns(n)
       \/ AnnounceStored(n) \/ AnnounceRefused(n) \/ AnnounceStuck(n)
       \/ HistoryRead(n) \/ HistorySent(n)
       \/ HistoryReceived(n) \/ HistoryStuck(n)
       \/ \E m \in Node : SignersAgreed(n, m)
    /\ UNCHANGED reqVars

\* The timers: an answer that is not in yet is not waited for.
GiveUp(n) ==
    \/ UpdateTimesOut(n) /\ UNCHANGED reqVars
    \/ RegisterTimesOut(n) /\ GoTo(n, "gossip", AfterRegister(n))
    \/ ConsensusFails(n) /\ GoTo(n, "agree", "returned")

ReqTick == PassTime /\ UNCHANGED reqVars
ReqStep ==
    \/ NextRound
    \/ \E n \in Node :
         ReqUpdate(n) \/ ReqCalls(n) \/ Serve(n)

ReqNext == ReqTick \/ ReqStep \/ \E n \in Node : GiveUp(n)

ReqSpec == ReqInit /\ [][ReqNext]_allVars

\* As slow as can be, but no timer fires.
PatientSpec == ReqInit /\ [][ReqTick \/ ReqStep]_allVars

-----------------------------------------------------------------------------
(***************************************************************************)
(* The system as it is meant to be run: the phases are long enough for     *)
(* what they are for.  Whoever registers, answers or leads is done before  *)
(* the slot ends, the client calls the next round in time and no timer     *)
(* fires.                                                                  *)
(***************************************************************************)
Settled ==
    /\ announces = {} /\ requests = {} /\ snapshots = {} /\ histories = {}
    /\ \A n \in Node :
         /\ pc[n] \notin {"update", "gossip", "agree"}
         /\ pc[n] = "register" => clock.slot = "live"
         /\ pc[n] = "lead" => clock.slot = "open"
         /\ pc[n] = "start" => clock.slot # "live"
         /\ pc[n] = "token" => epochChan[n] = <<>>
    /\ round < MaxEpoch => \E n \in Node : pc[n] # "returned"

-----------------------------------------------------------------------------
\* A node whose registration for an epoch was confirmed is a member for
\* everyone who starts that epoch, however late the messages are: "The current
\* committee then acknowledges that it is a participant for the next epoch"
\* (latex/thesis_template/thesis.tex:642).
ConfirmedJoins ==
    \A n, m \in Node :
        view[m].epoch \in confirmed[n] => n \in view[m].members
=============================================================================
