------------------------------- MODULE Rounds -------------------------------
(***************************************************************************)
(* Why the client programs other than "join" are correct: what holds in    *)
(* every state of a round, from the first request to the last answer.      *)
(* h[k] are the members of epoch k as far as the rounds have come; those   *)
(* of the epoch the client asks for are the nodes it calls.  While the     *)
(* round is in the slot "open" everybody registers with the committee, in  *)
(* "closing" its leader hands h on, in "live" everybody starts.            *)
(***************************************************************************)
EXTENDS Clients

\* The slot of the round the clock is in.  Before the first one the epoch of
\* the last round is live; after the last one the client has ended.
Before   == round > 1 /\ clock = [epoch |-> round - 2, slot |-> "live"]
Slots(s) == clock = [epoch |-> round - 1, slot |-> s]
After    == clock.epoch >= round

\* Where a node stands in its round, whether one request or several calls make
\* it, and what that is from the consensus slot on.
Stand == [n \in Node |->
    IF n \notin inside THEN "outside"
    ELSE IF stage = "update" THEN "update"
    ELSE IF stage = "register" /\ pc[n] = "returned" THEN "start"
    ELSE IF pc[n] \in {"returned", "setup"} THEN "done"
    ELSE IF pc[n] \in {"lead", "agree"} THEN "start"
    ELSE pc[n]]
Unregistered == {"update", "register"}
Registered   == {"start", "token", "done"}

\* Those who lead, have the committee sign, and whether nobody does any more.
Leads    == {n \in Node : pc[n] \in {"lead", "agree"}} \cup {c[1] : c \in apart}
Agreeing == {n \in Node : pc[n] = "agree" \/ <<n, "agree">> \in apart}
Led == (Slots("closing") \/ Slots("live")) /\ Leads = {}

Calls == {"update", "phase", "register", "gossip", "lead", "agree", "start",
          "token", "setup", "returned"}
CallsOf(s) ==
    CASE s = "request"  -> {"update", "register", "gossip", "lead", "agree",
                            "start", "token", "setup", "returned"}
      [] s = "update"   -> {"update", "phase", "returned"}
      [] s = "register" -> {"register", "gossip", "returned"}
      [] s = "start"    -> {"start", "token", "setup", "returned"}

ProgramOK ==
    /\ round \in 1 .. MaxEpoch
    /\ inside \subseteq Node /\ inside # {}
    /\ client \in {"normal", "throughput", "churn"}
    /\ client = "throughput" => round = 1
    /\ client = "normal" => inside = Participants[round]
    /\ stage \in IF client = "churn" THEN {"update", "register", "start"}
                 ELSE {"request"}
    /\ stage \in {"register", "start"} => written = inside
    /\ stage = "request" => Genesis \subseteq inside
    /\ pc \in [Node -> Calls]
    /\ \A n \in Node : IF n \in inside THEN pc[n] \in CallsOf(stage)
                       ELSE pc[n] = "returned"
    /\ \A n \in Node : pc[n] \in {"lead", "agree"} => n = Leader
    /\ IF stage = "start"
       THEN \E l \in inside : apart \in {{}, {<<l, "lead">>}, {<<l, "agree">>}}
       ELSE apart = {}

\* The calls that may be under way in each slot.
SlotOK ==
    \/ /\ Before
       /\ stage \in {"request", "update"}
       /\ \A n \in inside : pc[n] \in {"update", "register", "phase"}
    \/ /\ Slots("open")
       /\ stage = "request" =>
            /\ \A n \in inside :
                 /\ pc[n] \in {"update", "register", "gossip", "lead", "start"}
                 /\ round > 1 => pc[n] # "update"
            /\ pc[Leader] # "start"
       /\ stage = "start" =>
            /\ \A n \in inside : pc[n] = "start"
            /\ \E l \in inside : apart = {<<l, "lead">>}
    \/ /\ Slots("closing")
       /\ stage \in {"request", "start"}
       /\ \A n \in inside : pc[n] \in {"lead", "agree", "start"}
    \/ /\ Slots("live")
       /\ stage \in {"request", "start"}
       /\ apart = {}
       /\ \A n \in inside : pc[n] \in {"start", "token", "setup", "returned"}
    \/ /\ After
       /\ Over
       /\ apart = {}

-----------------------------------------------------------------------------
\* A committee grows by those who join, or shrinks by those who churn.
Committee(h) == h[round - 1]
HistoryOK(h) ==
    /\ h \in History
    /\ h[0] = Genesis
    /\ \A k \in Epoch : k < round <=> h[k] # {}
    /\ stage = "request" => /\ \A k \in Epoch : h[k] \subseteq Committee(h)
                            /\ Committee(h) \subseteq inside
    /\ stage # "request" => inside \subseteq Committee(h)

\* Those who still need the history, and those who have it.
Late(h) == {n \in inside \ Committee(h) :
              stage = "request" /\ round > 1 /\ pc[n] = "update"}
Here(h) == (Committee(h) \cup inside) \ Late(h)

\* The history that is handed on: to Late before the registration, to all of
\* inside after it.
Whole(h) == [h EXCEPT ![round] = inside]
Sent(h)  == IF Before THEN h ELSE Whole(h)

Updated(h, n) ==
    /\ n \in Late(h)
    /\ updating[n]
    /\ storage[n] = Rebuilt(round - 1, h)
    /\ epochChan[n] = <<round - 1>>
Pristine(n) ==
    /\ storage[n] = GenesisStorage
    /\ servers[n] = Genesis \cup {n}
    /\ epochChan[n] = <<>>

UpToHistory(h, n) ==
    /\ e[n] = IF Stand[n] = "done" THEN round ELSE round - 1
    /\ storage[n].gaps = {}
    /\ storage[n].len = IF storage[n].set[round] = {} THEN round ELSE round + 1
    /\ \A k \in Epoch : k # round => storage[n].set[k] = h[k]
    /\ Stand[n] = "done" => storage[n].set[round] = inside
BehindHistory(h, n) ==
    IF stage = "request"
    THEN e[n] = 0 /\ (Pristine(n) \/ Updated(h, n))
    ELSE \A k \in Epoch : k >= round => storage[n].set[k] = {}

StorageOK(h) == \A n \in Node :
    /\ ~ storage[n].locked
    /\ \A m \in storage[n].set[round] :
         m \in inside /\ Stand[m] \notin Unregistered
    /\ IF n \in Here(h) THEN UpToHistory(h, n) ELSE BehindHistory(h, n)
    /\ \A k \in 1 .. round - 1 :
         /\ storage[n].set[k] \in {{}, h[k]}
         /\ n \in h[k - 1] => storage[n].set[k] = h[k]

-----------------------------------------------------------------------------
ViewOK(h) == \A n \in Node :
    IF Stand[n] = "done"
    THEN view[n] = [epoch |-> round, members |-> inside]
    ELSE \/ view[n] = NoView
         \/ \E k \in 1 .. round - 1 : view[n] = [epoch |-> k, members |-> h[k]]

ConfirmedOK(h) == \A n \in Node : \A k \in confirmed[n] :
    \/ k \in 1 .. round - 1 /\ n \in h[k]
    \/ k = round /\ Stand[n] \in Registered

\* A registration asks the whole committee, and all of it stores it.
AskingOK(h, n) ==
    /\ reg[n].pc \in {"cosi", "gossip"}
    /\ reg[n].epoch = round
    /\ reg[n].roster = Committee(h) \cup {n}
    /\ reg[n].refused = {}
    /\ reg[n].stored \subseteq reg[n].roster
    /\ reg[n].pc = "cosi" => reg[n].stored = {}
    /\ reg[n].pc = "gossip" /\ reg[n].stored = {} =>
         \E a \in announces : a.from = n
    /\ \A m \in reg[n].stored : n \in storage[m].set[round]
AnnounceOK(a) ==
    /\ Stand[a.from] = "gossip"
    /\ reg[a.from].pc = "gossip"
    /\ a.call = calls[a.from].register
    /\ a.epoch = round
    /\ a.roster = reg[a.from].roster
    /\ a.to \in a.roster \ reg[a.from].stored
    /\ a.to = a.from => /\ reg[a.from].stored = {}
                        /\ \A b \in announces : b.from = a.from => b = a
RegistrationOK(h) ==
    /\ \A n \in Node : IF Stand[n] = "gossip" THEN AskingOK(h, n)
                       ELSE reg[n] = Idle
    /\ \A a \in announces : AnnounceOK(a)
    /\ \A n \in Node : Stand[n] \in Registered =>
         \A m \in Committee(h) : n \in storage[m].set[round]

CallsOK(h) == \A n \in Node :
    /\ updating[n] => n \in Late(h)
    /\ starting[n] = IF Stand[n] = "token" THEN 1 ELSE 0
    /\ n \notin Agreeing => cons[n] = NoRound

-----------------------------------------------------------------------------
\* A history is on its way to a node that waits for it, only once, and its
\* receiver has no token yet.
DeliveryOK(h, q) ==
    /\ q.by \in Committee(h)
    /\ epochChan[q.to] = <<>>
    /\ \/ Before /\ q.to \in Late(h) /\ updating[q.to]
       \/ Slots("closing") /\ Led /\ q.to \in inside
Asked == {q.to : q \in requests}
Read  == {s.req.to : s \in snapshots}
Mailed == {s.req.to : s \in histories}
MessagesOK(h) ==
    /\ \A q \in requests : DeliveryOK(h, q)
    /\ \A s \in snapshots \cup histories :
         DeliveryOK(h, s.req) /\ s.set = Sent(h)
    /\ \A q, p \in requests : q.to = p.to => q = p
    /\ \A q, p \in snapshots : q.req.to = p.req.to => q = p
    /\ \A q, p \in histories : q.req.to = p.req.to => q = p
    /\ Asked \cap Read = {} /\ Asked \cap Mailed = {} /\ Read \cap Mailed = {}

\* Whoever is to start has its token, or a history that brings it is under way.
TokenOK(h) == \A n \in Node :
    /\ \/ epochChan[n] = <<>>
       \/ Updated(h, n)
       \/ /\ Led
          /\ Stand[n] \in {"start", "token"}
          /\ epochChan[n] = <<round>>
          /\ storage[n].set = Whole(h)
    /\ Led /\ Stand[n] \in {"start", "token"} =>
         epochChan[n] = <<round>> \/ n \in Asked \cup Read \cup Mailed

RoundOK(h) ==
    /\ ProgramOK /\ SlotOK /\ HistoryOK(h) /\ StorageOK(h)
    /\ ViewOK(h) /\ ConfirmedOK(h) /\ RegistrationOK(h) /\ CallsOK(h)
    /\ MessagesOK(h) /\ TokenOK(h)

\* The members of the epochs so far, as the storages have them.
Members == [k \in Epoch |-> IF k < round
                            THEN UNION {storage[n].set[k] : n \in Node} ELSE {}]

\* In every state of a round the clock's slot, the calls under way, the lists
\* stored, the messages and the tokens fit together: ExecEpochRequest and the
\* loops of the experiments run their phases in lockstep although each call
\* checks only its own node (requestfromapiservice.go:34-73).
RoundInvariant == client # "join" => RoundOK(Members)
=============================================================================
