---------------------------- MODULE RoundProofs ----------------------------
(***************************************************************************)
(* The proof that every state of a round is as Rounds.tla has it, for any  *)
(* nodes, rounds, leavers and leaders: h, the members of the epochs so     *)
(* far, is fixed by whom the client calls.  What follows for the client    *)
(* programs is at the end.                                                 *)
(*                                                                         *)
(* One lemma per step of the system (Step...), in the order in which a     *)
(* round takes them.  The Keep lemmas say which steps leave a part of the  *)
(* invariant alone.  Newcomers that register at their own pace ("join")    *)
(* are not covered: there a registration may meet a node that is ahead of  *)
(* it.                                                                     *)
(***************************************************************************)
EXTENDS Rounds, ClientsProofs, FiniteSetTheorems

\* A state of a round with the members h.
Good(h) == TypeOK /\ KnownSigners /\ RoundOK(h)

\* The sets and numbers of a round have their types.
LEMMA Basics ==
  ASSUME NEW h, Good(h)
  PROVE  /\ MaxEpoch \in Nat \ {0} /\ round \in 1 .. MaxEpoch
         /\ round \in Epoch /\ round - 1 \in Epoch /\ round \in Nat
         /\ h \in [Epoch -> SUBSET Node]
         /\ inside \subseteq Node /\ inside # {} /\ Genesis \subseteq Node
         /\ Committee(h) \subseteq Node /\ Late(h) \subseteq Node
         /\ Here(h) \subseteq Node
<1>1. MaxEpoch \in Nat \ {0} /\ round \in 1 .. MaxEpoch
  BY MaxEpochAssumption DEF Good, RoundOK, ProgramOK
<1>2. round \in Epoch /\ round - 1 \in Epoch /\ round \in Nat
  BY <1>1 DEF Epoch
<1>3. h \in [Epoch -> SUBSET Node]
  BY DEF Good, RoundOK, HistoryOK, History
<1>4. inside \subseteq Node /\ inside # {} /\ Genesis \subseteq Node
  BY NodeAssumption DEF Good, RoundOK, ProgramOK
<1>5. Committee(h) \subseteq Node
  BY <1>2, <1>3 DEF Committee
<1> QED
  BY <1>1, <1>2, <1>3, <1>4, <1>5 DEF Late, Here

\* The parts of the invariant that a step need not be shown to keep, as long as
\* it leaves their state alone.
LEMMA KeepStorage ==
  ASSUME NEW h, Good(h), UNCHANGED <<round, inside, storage, e, servers>>,
         (stage = "request") <=> (stage' = "request"), Late(h)' = Late(h),
         \A n \in Node : /\ Stand[n] \notin Unregistered =>
                              Stand'[n] \notin Unregistered
                         /\ Stand[n] = "done" <=> Stand'[n] = "done"
                         /\ n \notin Here(h) => epochChan'[n] = epochChan[n]
                         /\ updating[n] => updating'[n]
  PROVE  StorageOK(h)'
<1>1. Here(h)' = Here(h)
  BY DEF Here, Committee
<1>2. ASSUME NEW n \in Node, UpToHistory(h, n) PROVE UpToHistory(h, n)'
  BY <1>2 DEF UpToHistory
<1>3. ASSUME NEW n \in Node \ Here(h), BehindHistory(h, n)
      PROVE  BehindHistory(h, n)'
  BY <1>3 DEF BehindHistory, Pristine, Updated
<1>4. ASSUME NEW n \in Node
      PROVE  /\ ~ storage'[n].locked
             /\ \A m \in storage'[n].set[round'] :
                  m \in inside' /\ Stand'[m] \notin Unregistered
             /\ IF n \in Here(h)' THEN UpToHistory(h, n)'
                ELSE BehindHistory(h, n)'
             /\ \A k \in 1 .. round' - 1 :
                  /\ storage'[n].set[k] \in {{}, h[k]}
                  /\ n \in h[k - 1] => storage'[n].set[k] = h[k]
  BY <1>1, <1>2, <1>3, Basics DEF StorageOK, Good, RoundOK
<1> QED
  BY <1>4 DEF StorageOK, Unregistered

LEMMA KeepView ==
  ASSUME NEW h, Good(h), UNCHANGED <<round, inside, view>>,
         \A n \in Node : Stand[n] = "done" <=> Stand'[n] = "done"
  PROVE  ViewOK(h)'
  BY DEF ViewOK, NoView, Good, RoundOK

LEMMA KeepConfirmed ==
  ASSUME NEW h, Good(h), UNCHANGED <<round, confirmed>>,
         \A n \in Node : Stand[n] \in Registered => Stand'[n] \in Registered
  PROVE  ConfirmedOK(h)'
  BY DEF ConfirmedOK, Registered, Good, RoundOK

LEMMA KeepRegistration ==
  ASSUME NEW h, Good(h), UNCHANGED <<round, reg, announces>>,
         \A n \in Node : /\ Stand[n] = "gossip" <=> Stand'[n] = "gossip"
                         /\ Stand'[n] \in Registered => Stand[n] \in Registered
                         /\ calls'[n].register = calls[n].register
                         /\ storage[n].set[round] \subseteq storage'[n].set[round]
  PROVE  RegistrationOK(h)'
<1>1. ASSUME NEW n \in Node, AskingOK(h, n) PROVE AskingOK(h, n)'
  BY <1>1 DEF AskingOK, Committee, Good, TypeOK, CallTypeOK, Registration
<1>2. ASSUME NEW a \in announces, AnnounceOK(a) PROVE AnnounceOK(a)'
  BY <1>2 DEF AnnounceOK, Good, TypeOK, NetTypeOK, Announce
<1>3. ASSUME NEW n \in Node, Stand'[n] \in Registered, NEW m \in h[round' - 1]
      PROVE  n \in storage'[m].set[round']
  BY <1>3, Basics DEF RegistrationOK, Committee, Good, RoundOK
<1>4. ASSUME NEW n \in Node
      PROVE  IF Stand'[n] = "gossip" THEN AskingOK(h, n)' ELSE reg'[n] = Idle
  BY <1>1 DEF RegistrationOK, Good, RoundOK
<1> QED
  BY <1>2, <1>3, <1>4 DEF RegistrationOK, Registered, Idle, Committee,
     Good, RoundOK

LEMMA KeepCalls ==
  ASSUME NEW h, Good(h), UNCHANGED <<updating, starting, cons>>,
         Late(h) \subseteq Late(h)', Agreeing \subseteq Agreeing',
         \A n \in Node : Stand[n] = "token" <=> Stand'[n] = "token"
  PROVE  CallsOK(h)'
  BY DEF CallsOK, NoRound, Good, RoundOK

LEMMA KeepMessages ==
  ASSUME NEW h, Good(h),
         UNCHANGED <<requests, snapshots, histories, round, inside>>,
         Before <=> Before', Slots("closing") /\ Led => Slots("closing")' /\ Led',
         \A n \in Node : epochChan[n] = <<>> =>
              /\ epochChan'[n] = <<>>
              /\ n \in Late(h) /\ updating[n] => n \in Late(h)' /\ updating'[n]
  PROVE  MessagesOK(h)'
<1>1. ASSUME NEW q \in Request, DeliveryOK(h, q) PROVE DeliveryOK(h, q)'
  BY <1>1 DEF DeliveryOK, Committee, Request
<1>2. /\ Asked' = Asked /\ Read' = Read /\ Mailed' = Mailed
      /\ Sent(h)' = Sent(h)
  BY DEF Asked, Read, Mailed, Sent, Whole
<1>3. /\ \A q \in requests : q \in Request
      /\ \A s \in snapshots \cup histories : s.req \in Request
  BY DEF Good, TypeOK, NetTypeOK, Snapshot, Reply
<1> QED
  BY <1>1, <1>2, <1>3 DEF MessagesOK, Good, RoundOK

LEMMA KeepToken ==
  ASSUME NEW h, Good(h),
         UNCHANGED <<requests, snapshots, histories, round, inside,
                     storage, epochChan>>,
         Led <=> Led', Late(h) \subseteq Late(h)',
         \A n \in Node : /\ Stand[n] \in {"start", "token"} <=>
                              Stand'[n] \in {"start", "token"}
                         /\ updating[n] => updating'[n]
  PROVE  TokenOK(h)'
<1>1. /\ Asked' = Asked /\ Read' = Read /\ Mailed' = Mailed
      /\ Whole(h)' = Whole(h)
  BY DEF Asked, Read, Mailed, Whole
<1> QED
  BY <1>1 DEF TokenOK, Updated, Good, RoundOK

LEMMA KeepHistory ==
  ASSUME NEW h, Good(h), UNCHANGED <<round, inside>>,
         (stage = "request") <=> (stage' = "request")
  PROVE  HistoryOK(h)'
  BY DEF HistoryOK, Committee, Good, RoundOK

-----------------------------------------------------------------------------
\* Where a node stands, from the call the client waits for.
LEMMA StandIs ==
  ASSUME NEW h, Good(h), NEW n \in Node
  PROVE  /\ n \in inside <=> Stand[n] # "outside"
         /\ n \in inside => pc[n] \in CallsOf(stage)
         /\ n \notin inside => pc[n] = "returned"
         /\ stage \in {"request", "update", "register", "start"}
         /\ Stand[n] \in {"outside", "update", "register", "gossip", "start",
                          "token", "done"}
         /\ n \in inside /\ stage # "update" =>
              /\ Stand[n] = "gossip" <=> pc[n] = "gossip"
              /\ Stand[n] = "token" <=> pc[n] = "token"
              /\ Stand[n] = "register" <=> pc[n] = "register"
              /\ Stand[n] = "done" <=> /\ pc[n] \in {"returned", "setup"}
                                       /\ stage # "register"
              /\ Stand[n] = "update" <=> pc[n] = "update"
         /\ n \in inside /\ stage = "update" => Stand[n] = "update"
  BY DEF Good, RoundOK, ProgramOK, Stand, CallsOf

\* The five slots of a round, with what goes on in each.
LEMMA WhereWeAre ==
  ASSUME NEW h, Good(h)
  PROVE  \/ /\ Before /\ clock.slot = "live" /\ clock.epoch = round - 2
            /\ stage \in {"request", "update"}
            /\ Leads = {} /\ ~ Led
            /\ \A n \in inside : Stand[n] \in Unregistered
                               /\ pc[n] \in {"update", "register", "phase"}
         \/ /\ ~ Before /\ Late(h) = {}
            /\ \/ /\ Slots("open") /\ clock.slot = "open"
                  /\ clock.epoch = round - 1 /\ ~ Led
                  /\ \A n \in inside :
                       Stand[n] \in {"update", "register", "gossip", "start"}
               \/ /\ Slots("closing") /\ clock.slot = "closing"
                  /\ clock.epoch = round - 1
                  /\ stage \in {"request", "start"}
                  /\ \A n \in inside : Stand[n] = "start"
               \/ /\ Slots("live") /\ clock.slot = "live"
                  /\ clock.epoch = round - 1
                  /\ stage \in {"request", "start"}
                  /\ Led /\ Leads = {}
                  /\ \A n \in inside : Stand[n] \in {"start", "token", "done"}
               \/ /\ clock.epoch >= round /\ Over /\ Leads = {} /\ ~ Led
                  /\ stage \in {"request", "start"}
                  /\ \A n \in inside : Stand[n] = "done"
<1>1. ProgramOK /\ SlotOK
  BY DEF Good, RoundOK
<1>2. ClockTypeOK /\ round \in Nat /\ clock.epoch \in Nat
  BY Basics DEF Good, TypeOK, ClockTypeOK, Epoch
<1>3. \A n \in Node : pc[n] \in {"lead", "agree"} => n \in inside
  BY <1>1 DEF ProgramOK
<1>4. CASE SlotOK!1
  <2>1. Leads = {}
    BY <1>1, <1>3, <1>4 DEF ProgramOK, Leads
  <2>2. clock.slot = "live" /\ clock.epoch = round - 2 /\ ~ Led
    BY <1>2, <1>4 DEF Before, Led, Slots
  <2>3. \A n \in inside : Stand[n] \in Unregistered
    BY <1>4, Basics, StandIs DEF Stand, Unregistered, CallsOf
  <2> QED
    BY <1>4, <2>1, <2>2, <2>3
<1>5. CASE SlotOK!2
  <2>1. clock.slot = "open" /\ clock.epoch = round - 1 /\ ~ Led /\ ~ Before
    BY <1>2, <1>5 DEF Before, Led, Slots
  <2>2. Late(h) = {}
    BY <1>5 DEF Late
  <2>3. \A n \in inside :
           Stand[n] \in {"update", "register", "gossip", "start"}
    BY <1>1, <1>5, Basics, StandIs DEF Stand, CallsOf
  <2> QED
    BY <1>5, <2>1, <2>2, <2>3
<1>6. CASE SlotOK!3
  <2>1. clock.slot = "closing" /\ clock.epoch = round - 1 /\ ~ Before
    BY <1>2, <1>6 DEF Before, Slots
  <2>2. Late(h) = {}
    BY <1>6 DEF Late
  <2>3. \A n \in inside : Stand[n] = "start"
    BY <1>6, Basics DEF Stand
  <2> QED
    BY <1>6, <2>1, <2>2, <2>3
<1>7. CASE SlotOK!4
  <2>1. clock.slot = "live" /\ clock.epoch = round - 1 /\ ~ Before
    BY <1>2, <1>7 DEF Before, Slots
  <2>2. Late(h) = {} /\ Leads = {} /\ Led
    BY <1>3, <1>7 DEF Late, Leads, Led
  <2>3. \A n \in inside : Stand[n] \in {"start", "token", "done"}
    BY <1>7, Basics DEF Stand
  <2> QED
    BY <1>7, <2>1, <2>2, <2>3
<1>8. CASE SlotOK!5
  <2>1. clock.epoch >= round /\ ~ Before /\ ~ Led
    BY <1>2, <1>8 DEF Before, Led, Slots, After
  <2>2. /\ Over /\ stage \in {"request", "start"}
        /\ \A n \in Node : pc[n] = "returned"
    BY <1>8 DEF Over, RoundOver, AllReturned
  <2>3. Late(h) = {} /\ Leads = {}
    BY <1>8, <2>2, Basics DEF Late, Leads
  <2>4. \A n \in inside : Stand[n] = "done"
    BY <2>2, Basics DEF Stand
  <2> QED
    BY <2>1, <2>2, <2>3, <2>4
<1> QED
  BY <1>1, <1>4, <1>5, <1>6, <1>7, <1>8 DEF SlotOK

-----------------------------------------------------------------------------
\* A call that goes on to its next part moves nobody but its own node.
LEMMA CallMoves ==
  ASSUME NEW h, Good(h), NEW n \in Node, NEW from, NEW to,
         Waited(n, from, to), from # "returned",
         to \in CallsOf(stage) \ {"update"},
         to \in {"lead", "agree"} => n = Leader
  PROVE  /\ n \in inside /\ pc[n] = from /\ pc'[n] = to
         /\ \A m \in Node \ {n} : pc'[m] = pc[m]
         /\ UNCHANGED <<round, stage, inside, client, written, apart>>
         /\ ProgramOK' /\ HistoryOK(h)'
         /\ \A m \in Node \ {n} : Stand'[m] = Stand[m]
         /\ Stand'[n] = IF stage = "update" THEN "update"
                        ELSE IF stage = "register" /\ to = "returned"
                             THEN "start"
                        ELSE IF to \in {"returned", "setup"} THEN "done"
                        ELSE IF to \in {"lead", "agree"} THEN "start" ELSE to
         /\ Late(h)' = Late(h) \ {n}
<1>1. /\ pc[n] = from /\ n \in inside
      /\ UNCHANGED <<round, stage, inside, client, written, apart>>
      /\ pc' = [pc EXCEPT ![n] = to]
  BY StandIs DEF Waited, GoTo, clientVars
<1>2. pc \in [Node -> Calls] /\ ProgramOK
  BY DEF Good, RoundOK, ProgramOK
<1>3. /\ pc'[n] = to /\ \A m \in Node \ {n} : pc'[m] = pc[m]
      /\ pc' \in [Node -> Calls]
  <2>1. to \in Calls
    BY StandIs DEF CallsOf, Calls
  <2> QED
    BY <1>1, <1>2, <2>1
<1>4. ProgramOK'
  BY <1>1, <1>2, <1>3 DEF ProgramOK
<1>5. HistoryOK(h)'
  BY <1>1, KeepHistory
<1>6. /\ \A m \in Node \ {n} : Stand'[m] = Stand[m]
      /\ Stand'[n] = IF stage = "update" THEN "update"
                     ELSE IF stage = "register" /\ to = "returned"
                          THEN "start"
                     ELSE IF to \in {"returned", "setup"} THEN "done"
                     ELSE IF to \in {"lead", "agree"} THEN "start" ELSE to
  BY <1>1, <1>3 DEF Stand
<1>7. Late(h)' = Late(h) \ {n}
  BY <1>1, <1>3, Basics DEF Late, Committee
<1> QED
  BY <1>1, <1>3, <1>4, <1>5, <1>6, <1>7

\* The parts of a call that belong to a slot keep to it.
LEMMA SlotMoves ==
  ASSUME NEW h, Good(h), NEW n \in Node, NEW from, NEW to,
         Waited(n, from, to), from # "returned",
         to \in CallsOf(stage) \ {"update"},
         to \in {"lead", "agree"} => n = Leader, UNCHANGED clock,
         \/ Before /\ to \in {"register", "phase"}
         \/ /\ Slots("open") /\ stage = "request"
            /\ to \in {"register", "gossip", "lead", "start"}
            /\ to = "start" => n # Leader
         \/ Slots("open") /\ stage \in {"update", "register"}
         \/ Slots("closing") /\ to \in {"agree", "start"}
         \/ Slots("live") /\ to \in {"token", "setup", "returned"}
  PROVE  SlotOK'
<1>1. /\ n \in inside /\ pc[n] = from /\ pc'[n] = to
      /\ \A m \in Node \ {n} : pc'[m] = pc[m]
      /\ UNCHANGED <<round, stage, inside, client, written, apart>>
  BY CallMoves
<1>2. SlotOK /\ ClockTypeOK /\ round \in Nat /\ clock.epoch \in Nat
  BY Basics DEF Good, RoundOK, TypeOK, ClockTypeOK, Epoch
<1>3. inside \subseteq Node /\ Leader \in Node
  BY Basics, NodeAssumption
<1>4. CASE Before
  <2>1. SlotOK!1
    BY <1>2, <1>4 DEF SlotOK, Before, Slots, After
  <2>2. to \in {"register", "phase"}
    BY <1>2, <1>4 DEF Before, Slots
  <2> QED
    BY <1>1, <1>3, <1>4, <2>1, <2>2 DEF SlotOK, Before
<1>5. CASE Slots("open")
  <2>1. SlotOK!2
    BY <1>2, <1>5 DEF SlotOK, Before, Slots, After
  <2>2. \/ /\ stage = "request"
           /\ to \in {"register", "gossip", "lead", "start"}
           /\ to = "start" => n # Leader
        \/ stage \in {"update", "register"}
    BY <1>2, <1>5 DEF Before, Slots
  <2> QED
    BY <1>1, <1>3, <1>5, <2>1, <2>2 DEF SlotOK, Slots
<1>6. CASE Slots("closing")
  <2>1. SlotOK!3
    BY <1>2, <1>6 DEF SlotOK, Before, Slots, After
  <2>2. to \in {"agree", "start"}
    BY <1>2, <1>6 DEF Before, Slots
  <2> QED
    BY <1>1, <1>3, <1>6, <2>1, <2>2 DEF SlotOK, Slots
<1>7. CASE Slots("live")
  <2>1. SlotOK!4
    BY <1>2, <1>7 DEF SlotOK, Before, Slots, After
  <2>2. to \in {"token", "setup", "returned"}
    BY <1>2, <1>7 DEF Before, Slots
  <2> QED
    BY <1>1, <1>3, <1>7, <2>1, <2>2 DEF SlotOK, Slots
<1> QED
  BY <1>4, <1>5, <1>6, <1>7

-----------------------------------------------------------------------------
(***************************************************************************)
(* The client: calls that are skipped, stages, the clock.                  *)
(***************************************************************************)

\* A step of the client alone, which no node takes for a step further than its
\* registration.
LEMMA QuietStep ==
  ASSUME NEW h, Good(h), UNCHANGED vars, UNCHANGED <<round, inside>>,
         (stage = "request") <=> (stage' = "request"),
         Late(h)' = Late(h), Agreeing' = Agreeing, Led' <=> Led,
         \A n \in Node : \/ Stand'[n] = Stand[n]
                         \/ Stand[n] = "update" /\ Stand'[n] = "register",
         ProgramOK', SlotOK'
  PROVE  RoundOK(h)'
<1>1. /\ (Before' <=> Before) /\ (Slots("closing")' <=> Slots("closing"))
      /\ UNCHANGED <<clock, e, storage, servers, names, epochChan, view,
                     confirmed, updating, starting, reg, cons, calls,
                     announces, requests, snapshots, histories>>
  BY DEF Before, Slots, vars, nodeVars, callVars, netVars
<1>2. HistoryOK(h)' /\ StorageOK(h)' /\ ViewOK(h)'
  BY <1>1, KeepHistory, KeepStorage, KeepView DEF Unregistered
<1>3. ConfirmedOK(h)' /\ RegistrationOK(h)'
  BY <1>1, KeepConfirmed, KeepRegistration DEF Registered
<1>4. CallsOK(h)' /\ MessagesOK(h)' /\ TokenOK(h)'
  BY <1>1, KeepCalls, KeepMessages, KeepToken
<1> QED
  BY <1>2, <1>3, <1>4 DEF RoundOK

\* A call that is skipped, or one that only waits for the phase.
LEMMA StepSkips ==
  ASSUME NEW h, Good(h), NEW n \in Node, UNCHANGED vars,
         \/ /\ stage = "request" /\ ~ Behind(n)
            /\ Waited(n, "update", "register")
         \/ stage = "update" /\ Waited(n, "update", "phase")
         \/ /\ stage = "update" /\ clock.slot # "live"
            /\ Waited(n, "phase", "returned")
  PROVE  RoundOK(h)'
<1>1. PICK from \in {"update", "phase"}, to \in {"register", "phase", "returned"} :
        /\ Waited(n, from, to)
        /\ \/ stage = "request" /\ ~ Behind(n) /\ to = "register"
           \/ /\ stage = "update" /\ to \in {"phase", "returned"}
              /\ to = "phase" \/ clock.slot # "live"
  OBVIOUS
<1>2. to \in CallsOf(stage) \ {"update"} /\ from # "returned"
  BY <1>1 DEF CallsOf
<1>3. /\ ProgramOK' /\ HistoryOK(h)' /\ n \in inside
      /\ UNCHANGED <<round, stage, inside, client, written, apart>>
      /\ pc[n] = from /\ pc'[n] = to
      /\ \A m \in Node \ {n} : pc'[m] = pc[m] /\ Stand'[m] = Stand[m]
      /\ \/ stage = "request" /\ Stand'[n] = "register"
         \/ stage = "update" /\ Stand'[n] = "update"
      /\ Late(h)' = Late(h) \ {n}
  BY <1>1, <1>2, CallMoves
<1>4. Stand[n] = "update"
  BY <1>1, <1>3, StandIs, <1>1 DEF Waited, GoTo, CallsOf
<1>5. n \notin Late(h)
  <2>1. CASE stage = "request"
    <3>1. ~ Behind(n) /\ StorageOK(h)
      BY <1>1, <2>1 DEF Good, RoundOK
    <3>2. SUFFICES ASSUME n \in Late(h) PROVE FALSE
      OBVIOUS
    <3>3. n \notin Here(h) /\ round > 1
      BY <3>2 DEF Here, Late
    <3>4. e[n] = 0
      BY <2>1, <3>1, <3>3 DEF StorageOK, BehindHistory
    <3> QED
      BY <3>1, <3>3, <3>4, Basics DEF Behind
  <2> QED
    BY <1>1, <2>1 DEF Late
<1>6. UNCHANGED clock
  BY DEF vars
<1>7. SlotOK'
  <2>1. \/ Before /\ (to \in {"register", "phase"})
        \/ Slots("open")
    BY <1>1, <1>3, <1>4, WhereWeAre
  <2> QED
    BY <1>1, <1>2, <1>6, <2>1, SlotMoves
<1>8. Leads' = Leads /\ Agreeing' = Agreeing /\ (Led' <=> Led)
  BY <1>1, <1>3, <1>6 DEF Leads, Agreeing, Led, Slots
<1> QED
  BY <1>3, <1>4, <1>5, <1>7, <1>8, QuietStep

\* The next loop of a program that calls one operation after the other.
LEMMA StepStage ==
  ASSUME NEW h, Good(h), RegisterStage \/ StartStage
  PROVE  RoundOK(h)'
<1>1. /\ AllReturned /\ client = "churn" /\ apart = {} /\ Slots("open")
      /\ stage \in {"update", "register"} /\ Late(h) = {} /\ ~ Led
      /\ \A n \in Node : pc[n] = "returned"
  <2>1. stage \in {"update", "register"} /\ AllReturned
    BY DEF RegisterStage, StartStage
  <2>2. ProgramOK /\ \A n \in Node : pc[n] = "returned"
    BY <2>1 DEF AllReturned, Good, RoundOK
  <2> QED
    BY <2>1, <2>2, WhereWeAre, Basics DEF ProgramOK
<1>2. UNCHANGED vars /\ UNCHANGED <<round, client>>
  BY DEF RegisterStage, StartStage
<1>3. \/ /\ stage = "update" /\ stage' = "register" /\ inside' = inside
         /\ apart' = {} /\ pc' = Send(inside, "register") /\ written' = inside
      \/ /\ stage = "register" /\ stage' = "start" /\ inside' = inside
         /\ \E l \in inside : apart' = {<<l, "lead">>}
         /\ pc' = Send(inside, "start") /\ written' = inside
  <2>1. CASE RegisterStage
    BY <1>1, <2>1 DEF RegisterStage
  <2>2. CASE StartStage
    BY <1>1, <2>2 DEF StartStage, Good, RoundOK, ProgramOK
  <2> QED
    BY <2>1, <2>2
<1>4. /\ \A n \in Node : pc'[n] = IF n \notin inside THEN "returned"
                               ELSE IF stage = "update" THEN "register"
                               ELSE "start"
      /\ pc' \in [Node -> Calls]
  BY <1>3 DEF Send, Calls
<1>5. ProgramOK'
  BY <1>1, <1>2, <1>3, <1>4 DEF ProgramOK, CallsOf, Good, RoundOK
<1>6. Slots("open")' /\ ~ Led'
  BY <1>1, <1>2 DEF Slots, Led, vars
<1>7. SlotOK'
  BY <1>3, <1>4, <1>6, Basics DEF SlotOK
<1>8. Late(h)' = {} /\ Agreeing' = Agreeing
  BY <1>1, <1>3, <1>4 DEF Late, Agreeing
<1>9. ASSUME NEW n \in Node
      PROVE  \/ Stand'[n] = Stand[n]
             \/ Stand[n] = "update" /\ Stand'[n] = "register"
  BY <1>1, <1>3, <1>4 DEF Stand
<1>10. (stage = "request") <=> (stage' = "request")
  BY <1>3
<1> QED
  BY <1>1, <1>2, <1>3, <1>5, <1>6, <1>7, <1>8, <1>9, <1>10, QuietStep

-----------------------------------------------------------------------------
\* The clock goes on when the slot's work is done.
LEMMA StepTick ==
  ASSUME NEW h, Good(h), ClientTick
  PROVE  RoundOK(h)'
<1>1. /\ UNCHANGED <<e, storage, servers, names, epochChan, view, confirmed,
                     updating, starting, reg, cons, calls, announces,
                     requests, snapshots, histories, round, pc,
                     client, stage, inside, written, committee, apart, rerun>>
      /\ Tick
      /\ requests = {} /\ snapshots = {} /\ histories = {}
  BY DEF ClientTick, ReqTick, PassTime, nodeVars, callVars, netVars, reqVars,
     clientVars, AllSettled, Settled
<1>2. /\ Stand' = Stand /\ Late(h)' = Late(h) /\ Leads' = Leads
      /\ Agreeing' = Agreeing
  BY <1>1 DEF Stand, Late, Committee, Leads, Agreeing
<1>3. ProgramOK'
  BY <1>1 DEF ProgramOK, Good, RoundOK
<1>4. HistoryOK(h)' /\ StorageOK(h)' /\ ViewOK(h)' /\ ConfirmedOK(h)'
  BY <1>1, <1>2, KeepHistory, KeepStorage, KeepView, KeepConfirmed
<1>5. RegistrationOK(h)' /\ CallsOK(h)'
  BY <1>1, <1>2, KeepRegistration, KeepCalls
<1>6. MessagesOK(h)'
  BY <1>1 DEF MessagesOK, Asked, Read, Mailed
<1>7. (Led' <=> Led) => TokenOK(h)'
  BY <1>1, <1>2, KeepToken
<1>8. SlotOK' /\ TokenOK(h)' => RoundOK(h)'
  BY <1>3, <1>4, <1>5, <1>6 DEF RoundOK
<1>9. /\ ClockTypeOK /\ ClockTypeOK' /\ round \in Nat /\ round > 0
      /\ clock \in [epoch : Nat, slot : Slot]
      /\ \A n \in Node : pc[n] \notin {"update", "gossip", "agree", "setup"}
      /\ AllReturned => Over
      /\ \A n \in Node : /\ pc[n] = "register" => clock.slot = "live"
                         /\ pc[n] = "lead" => clock.slot = "open"
                         /\ pc[n] = "start" => clock.slot # "live"
                         /\ pc[n] = "phase" => clock.slot = "live"
                         /\ pc[n] = "token" => epochChan[n] = <<>>
                         /\ <<n, "agree">> \notin apart
                         /\ <<n, "lead">> \in apart => clock.slot = "open"
  <2>1. ClockTypeOK /\ ClockTypeOK'
    BY <1>1, TickTypeOK DEF Good, TypeOK
  <2>2. round \in Nat /\ round > 0 /\ clock \in [epoch : Nat, slot : Slot]
    BY <2>1, Basics DEF ClockTypeOK, Epoch
  <2>3. AllSettled
    BY DEF ClientTick
  <2> QED
    BY <2>1, <2>2, <2>3 DEF AllSettled, Settled
<1>10. ProgramOK /\ SlotOK
  BY DEF Good, RoundOK
<1>11. Leader \in Node /\ inside \subseteq Node /\ inside # {}
  BY Basics, NodeAssumption
<1>12. CASE SlotOK!1
  <2>1. Slots("open")' /\ ~ Led' /\ ~ Led
    BY <1>1, <1>9, <1>12 DEF Before, Slots, Led, Tick,
       CloseRegistration, BeginLive, BeginCycle
  <2>2. /\ stage = "request" => \A n \in inside : pc[n] = "register"
        /\ stage \in {"request", "update"}
    <3>1. ASSUME stage = "request", NEW n \in inside PROVE pc[n] = "register"
      BY <1>9, <1>12, <3>1, <1>11, StandIs DEF CallsOf
    <3> QED
      BY <1>12, <3>1
  <2>3. stage = "request" => Leader \in inside
    BY <1>10, NodeAssumption DEF ProgramOK
  <2>4. SlotOK'
    BY <1>1, <2>1, <2>2, <2>3 DEF SlotOK, Slots
  <2> QED
    BY <1>7, <1>8, <2>1, <2>4
<1>13. CASE SlotOK!2
  <2>1. /\ Slots("closing")' /\ ~ Led
        /\ clock.slot = "open" /\ clock.epoch = round - 1
    BY <1>1, <1>9, <1>13 DEF Slots, Led, Tick,
       CloseRegistration, BeginLive, BeginCycle
  <2>2. stage \in {"request", "start"}
    <3>1. CASE stage \in {"update", "register"}
      <4>1. \A n \in Node : pc[n] = "returned"
        BY <1>9, <1>10, <2>1, <3>1 DEF ProgramOK, CallsOf
      <4>2. Over
        BY <1>9, <4>1 DEF AllReturned
      <4> QED
        BY <3>1, <4>2 DEF Over, RoundOver
    <3> QED
      BY <3>1, StandIs, <1>11
  <2>3. \A n \in inside : pc[n] \in {"lead", "agree", "start"}
    BY <1>9, <1>13, <2>1, <2>2, <1>11
  <2>4. Leads # {}
    <3>1. CASE stage = "request"
      <4>1. Leader \in inside /\ pc[Leader] # "start"
        BY <1>10, <1>13, <3>1, NodeAssumption DEF ProgramOK
      <4> QED
        BY <1>11, <2>3, <4>1 DEF Leads
    <3>2. CASE stage = "start"
      <4>1. PICK l \in inside : apart = {<<l, "lead">>}
        BY <1>13, <3>2
      <4>2. l \in {c[1] : c \in apart}
        BY <4>1
      <4> QED
        BY <4>2 DEF Leads
    <3> QED
      BY <2>2, <3>1, <3>2
  <2>5. SlotOK'
    BY <1>1, <2>1, <2>2, <2>3 DEF SlotOK, Slots
  <2> QED
    BY <1>2, <1>7, <1>8, <2>1, <2>4, <2>5 DEF Led
<1>14. CASE SlotOK!3
  <2>1. /\ Slots("live")' /\ clock.slot = "closing" /\ Slots("closing")
    BY <1>1, <1>9, <1>14 DEF Slots, Tick,
       CloseRegistration, BeginLive, BeginCycle
  <2>2. \A n \in Node : pc[n] \notin {"lead", "agree"}
    BY <1>9, <2>1
  <2>3. apart = {}
    BY <1>9, <1>10, <1>11, <2>1 DEF ProgramOK
  <2>4. Led /\ Led'
    BY <1>2, <2>1, <2>2, <2>3 DEF Led, Leads
  <2>5. SlotOK'
    BY <1>1, <1>14, <2>1, <2>2, <2>3, <1>11 DEF SlotOK, Slots
  <2> QED
    BY <1>7, <1>8, <2>4, <2>5
<1>15. CASE SlotOK!4
  <2>1. /\ clock.slot = "live" /\ clock.epoch = round - 1 /\ Led
        /\ clock'.epoch = round /\ ~ Led'
    BY <1>1, <1>9, <1>15, WhereWeAre DEF Slots, Led, Tick,
       CloseRegistration, BeginLive, BeginCycle, Before
  <2>2. TokenOK(h)
    BY DEF Good, RoundOK
  <2>3. Asked = {} /\ Read = {} /\ Mailed = {} /\ round \in Nat
    BY <1>1, <1>9 DEF Asked, Read, Mailed
  <2>4. \A n \in Node : pc[n] = "returned"
    <3>1. ASSUME NEW n \in inside PROVE pc[n] = "returned"
      <4>1. pc[n] \in {"token", "returned"}
        BY <1>9, <1>11, <1>15, <2>1, <3>1
      <4>2. SUFFICES ASSUME pc[n] = "token" PROVE FALSE
        BY <4>1
      <4>3. epochChan[n] = <<>> /\ Stand[n] = "token"
        BY <1>9, <1>11, <1>15, <4>2, StandIs
      <4>4. epochChan[n] = <<round>>
        BY <1>11, <2>1, <2>2, <2>3, <4>3 DEF TokenOK
      <4> QED
        BY <4>3, <4>4
    <3> QED
      BY <3>1, StandIs
  <2>5. Over /\ Over'
    BY <1>1, <1>9, <2>4
    DEF AllReturned, Over, RoundOver, LastRound
  <2>6. SlotOK'
    BY <1>1, <1>15, <2>1, <2>3, <2>5 DEF SlotOK, After
  <2>7. TokenOK(h)'
    <3>1. Late(h) = {}
      BY <1>15 DEF Late
    <3>2. \A n \in Node : Stand[n] \notin {"start", "token"}
      BY <1>15, <2>4, StandIs, <1>11 DEF Stand
    <3>3. \A n \in Node : epochChan[n] = <<>>
      BY <2>2, <3>1, <3>2 DEF TokenOK, Updated
    <3> QED
      BY <1>1, <2>1, <3>3 DEF TokenOK
  <2> QED
    BY <1>8, <2>6, <2>7
<1>16. CASE SlotOK!5
  <2>1. clock.epoch >= round /\ clock'.epoch >= round
    BY <1>1, <1>9, <1>16 DEF After, Tick,
       CloseRegistration, BeginLive, BeginCycle
  <2>2. ~ Led /\ ~ Led'
    BY <1>1, <1>9, <2>1 DEF Led, Slots
  <2>3. SlotOK'
    BY <1>1, <1>16, <2>1 DEF SlotOK, After, Over, RoundOver, AllReturned,
       LastRound
  <2> QED
    BY <1>7, <1>8, <2>2, <2>3
<1> QED
  BY <1>10, <1>12, <1>13, <1>14, <1>15, <1>16 DEF SlotOK

-----------------------------------------------------------------------------
\* Every set of numbers has a least element.
LEMMA Least ==
    ASSUME NEW S \in SUBSET Nat, S # {}
    PROVE  \E m \in S : \A x \in S : m <= x
<1> DEFINE Intervals == {0 .. x : x \in S}
<1>1. Intervals \subseteq FiniteSubsetsOf(Nat)
  <2>1. \A x \in Nat : 0 .. x \in SUBSET Nat /\ IsFiniteSet(0 .. x)
    BY FS_Interval
  <2> QED
    BY <2>1 DEF FiniteSubsetsOf
<1>2. Intervals # {}
  OBVIOUS
<1>3. PICK I \in Intervals :
        \A J \in Intervals : <<J, I>> \notin StrictSubsetOrdering(Nat)
  <2> HIDE DEF Intervals
  <2> QED
    BY <1>1, <1>2, FS_StrictSubsetOrderingWellFounded, WFMin
<1>4. PICK m \in S : I = 0 .. m
  OBVIOUS
<1>5. ASSUME NEW x \in S PROVE m <= x
  <2> SUFFICES ASSUME x < m PROVE FALSE
    OBVIOUS
  <2>1. 0 .. x \in SUBSET Nat /\ 0 .. m \in SUBSET Nat
    OBVIOUS
  <2>2. 0 .. x \subseteq 0 .. m
    OBVIOUS
  <2>3. m \in 0 .. m /\ m \notin 0 .. x
    OBVIOUS
  <2>4. <<0 .. x, 0 .. m>> \in StrictSubsetOrdering(Nat)
    BY <2>1, <2>2, <2>3 DEF StrictSubsetOrdering
  <2> QED
    BY <1>3, <1>4, <2>4
<1> QED
  BY <1>5

\* The first node of the roster never leaves.
LEMMA SomeRemain ==
  ASSUME NEW S, S \subseteq Node, S # {}, NEW R \in Remaining(S)
  PROVE  R \subseteq S /\ R # {}
<1>1. /\ IsFiniteSet(S) /\ Cardinality(S) \in Nat /\ Cardinality(S) > 0
      /\ Index \in [Node -> Nat]
      /\ \A m, n \in Node : Index[m] = Index[n] => m = n
  BY NodeAssumption, ClientsAssumption, FS_Subset, FS_CardinalityType,
     FS_EmptySet
<1>2. PICK k \in Nat : k < Cardinality(S) /\ R = S \ Highest(S, k)
  BY <1>1 DEF Remaining
<1>3. PICK l \in S : \A m \in S : Index[l] <= Index[m]
  <2>1. {Index[m] : m \in S} \in SUBSET Nat /\ {Index[m] : m \in S} # {}
    BY <1>1
  <2>2. PICK i \in {Index[m] : m \in S} : \A x \in {Index[m] : m \in S} : i <= x
    BY <2>1, Least
  <2> QED
    BY <2>2
<1>4. {m \in S : Index[m] > Index[l]} = S \ {l}
  <2>1. \A m \in S : Index[m] \in Nat /\ Index[l] \in Nat
    BY <1>1
  <2>2. \A m \in S : m # l => Index[m] # Index[l]
    BY <1>1
  <2> QED
    BY <1>3, <2>1, <2>2
<1>5. Cardinality(S \ {l}) = Cardinality(S) - 1
  BY <1>1, FS_RemoveElement
<1>6. l \notin Highest(S, k)
  BY <1>1, <1>2, <1>4, <1>5 DEF Highest
<1> QED
  BY <1>2, <1>6

-----------------------------------------------------------------------------
(***************************************************************************)
(* Between two rounds, and between two runs.                               *)
(***************************************************************************)

\* When everybody returned from the epoch it was called for, nothing is left
\* under way, and everybody called is in it.
LEMMA Resting ==
  ASSUME NEW h, Good(h), AllReturned, stage \in {"request", "start"}
  PROVE  /\ Slots("live") \/ Over
         /\ apart = {} /\ announces = {} /\ requests = {}
         /\ snapshots = {} /\ histories = {} /\ Late(h) = {}
         /\ \A n \in Node : /\ epochChan[n] = <<>> /\ ~ updating[n]
                            /\ starting[n] = 0 /\ reg[n] = Idle
                            /\ cons[n] = NoRound
                            /\ Stand[n] = IF n \in inside THEN "done"
                                          ELSE "outside"
         /\ \A n \in inside : view[n] = [epoch |-> round, members |-> inside]
<1>1. \A n \in Node : Stand[n] = IF n \in inside THEN "done" ELSE "outside"
  BY DEF Stand, AllReturned
<1>2. /\ ~ Before /\ ~ Slots("open") /\ ~ Slots("closing") /\ Late(h) = {}
      /\ Leads = {} /\ (Slots("live") \/ Over)
  <2>1. PICK n \in inside : n \in Node
    BY Basics
  <2>2. Stand[n] = "done"
    BY <1>1, <2>1
  <2>3. clock.epoch \in Nat /\ round \in Nat
    BY Basics DEF Good, TypeOK, ClockTypeOK, Epoch
  <2> QED
    BY <2>1, <2>2, <2>3, WhereWeAre DEF Unregistered, Slots
<1>3. requests = {} /\ snapshots = {} /\ histories = {}
  BY <1>2 DEF Good, RoundOK, MessagesOK, DeliveryOK
<1>4. apart = {}
  <2>1. ASSUME NEW l \in inside, apart \in {{<<l, "lead">>}, {<<l, "agree">>}}
        PROVE  FALSE
    <3>1. PICK c \in apart : c[1] = l
      <4>1. \/ <<l, "lead">> \in apart /\ <<l, "lead">>[1] = l
            \/ <<l, "agree">> \in apart /\ <<l, "agree">>[1] = l
        BY <2>1
      <4> QED
        BY <4>1
    <3> QED
      BY <1>2, <3>1 DEF Leads
  <2> QED
    BY <2>1 DEF Good, RoundOK, ProgramOK
<1>5. announces = {}
  BY <1>1 DEF Good, RoundOK, RegistrationOK, AnnounceOK, TypeOK, NetTypeOK,
     Announce
<1>6. ASSUME NEW n \in Node
      PROVE  /\ ~ updating[n] /\ starting[n] = 0 /\ reg[n] = Idle
             /\ cons[n] = NoRound
  <2>1. n \notin Agreeing /\ Stand[n] \notin {"token", "gossip"}
    BY <1>1, <1>4 DEF Agreeing, AllReturned
  <2> QED
    BY <1>2, <2>1 DEF Good, RoundOK, CallsOK, RegistrationOK, TypeOK, CallTypeOK
<1>7. ASSUME NEW n \in Node PROVE epochChan[n] = <<>>
  BY <1>1, <1>2 DEF Good, RoundOK, TokenOK, Updated
<1>8. \A n \in inside : view[n] = [epoch |-> round, members |-> inside]
  BY <1>1, Basics DEF Good, RoundOK, ViewOK
<1> QED
  BY <1>1, <1>2, <1>3, <1>4, <1>5, <1>6, <1>7, <1>8

\* The next round begins: those of the last one are the committee.
LEMMA StepRound ==
  ASSUME NEW h, Good(h), NormalRound \/ UpdateStage,
         NEW g, g = Whole(h)
  PROVE  RoundOK(g)'
<1>1. /\ AllReturned /\ stage \in {"request", "start"} /\ round < MaxEpoch
      /\ round' = round + 1 /\ UNCHANGED <<client, written, apart>>
      /\ UNCHANGED vars /\ pc' = Send(inside', "update")
      /\ \/ /\ stage = "request" /\ stage' = "request" /\ client = "normal"
            /\ inside \subseteq inside' /\ inside' = Participants[round + 1]
            /\ Genesis \subseteq inside'
         \/ /\ stage = "start" /\ stage' = "update" /\ client = "churn"
            /\ inside' \subseteq inside /\ inside' # {}
  <2>1. ProgramOK /\ round \in 1 .. MaxEpoch /\ MaxEpoch \in Nat \ {0}
    BY Basics DEF Good, RoundOK
  <2>2. CASE NormalRound
    <3>1. /\ round < MaxEpoch /\ round + 1 \in 1 .. MaxEpoch
          /\ round' = round + 1
      BY <2>1, <2>2 DEF NormalRound, NextRound
    <3>2. /\ stage = "request" /\ inside = Participants[round]
          /\ inside' = Participants[round + 1] /\ client = "normal"
      BY <2>1, <2>2 DEF NormalRound, ProgramOK
    <3>3. inside \subseteq inside' /\ Genesis \subseteq inside'
      BY <2>1, <3>1, <3>2, GrowthAssumption
    <3>4. AllReturned /\ pc' = Send(inside', "update")
      BY <2>2, <3>1, <3>2
      DEF NormalRound, NextRound, AllReturned, Called, Send
    <3> QED
      BY <2>2, <3>1, <3>2, <3>3, <3>4 DEF NormalRound, NextRound
  <2>3. CASE UpdateStage
    <3>1. stage = "start" /\ client = "churn" /\ inside' \in Remaining(inside)
      BY <2>1, <2>3 DEF UpdateStage, ProgramOK
    <3>2. inside' \subseteq inside /\ inside' # {}
      BY <3>1, SomeRemain, Basics
    <3> QED
      BY <2>3, <3>1, <3>2 DEF UpdateStage
  <2> QED
    BY <2>2, <2>3
<1>2. /\ round \in Nat /\ round > 0 /\ round \in Epoch /\ round + 1 \in Epoch
      /\ round - 1 \in Epoch /\ MaxEpoch \in Nat
  BY <1>1, Basics DEF Epoch
<1>3. /\ inside' \subseteq Node /\ inside' # {} /\ inside \subseteq Node
      /\ inside # {}
  BY <1>1, <1>2, Basics, ParticipantsAssumption
<1>4. /\ \A n \in Node : pc'[n] = IF n \in inside' THEN "update" ELSE "returned"
      /\ pc' \in [Node -> Calls]
  BY <1>1 DEF Send, Calls
<1>5. \A n \in Node : Stand'[n] = IF n \in inside' THEN "update" ELSE "outside"
  BY <1>1, <1>4 DEF Stand
<1>6. /\ Slots("live") /\ apart = {} /\ announces = {} /\ requests = {}
      /\ snapshots = {} /\ histories = {} /\ Late(h) = {}
      /\ \A n \in Node : /\ epochChan[n] = <<>> /\ ~ updating[n]
                         /\ starting[n] = 0 /\ reg[n] = Idle
                         /\ cons[n] = NoRound
                         /\ Stand[n] = IF n \in inside THEN "done"
                                       ELSE "outside"
      /\ \A n \in inside : view[n] = [epoch |-> round, members |-> inside]
  <2>1. ~ Over
    BY <1>1, <1>2 DEF Over, LastRound
  <2> QED
    BY <1>1, <2>1, Resting
<1>7. /\ g \in History /\ g[round] = inside
      /\ \A k \in Epoch : k # round => g[k] = h[k]
  BY <1>2, <1>3, Basics DEF Whole, History
<1>8. /\ h[0] = Genesis
      /\ \A k \in Epoch : k < round <=> h[k] # {}
      /\ stage = "request" => /\ \A k \in Epoch : h[k] \subseteq inside
      /\ stage = "request" => h[round - 1] \subseteq inside
      /\ stage = "start" => inside \subseteq h[round - 1]
  BY <1>1 DEF Good, RoundOK, HistoryOK, Committee
<1>9. /\ UNCHANGED <<clock, e, storage, servers, names, epochChan, view,
                     confirmed, updating, starting, reg, cons, calls,
                     announces, requests, snapshots, histories>>
  BY <1>1 DEF vars, nodeVars, callVars, netVars
<1>10. Late(g)' = IF stage = "request" THEN inside' \ inside ELSE {}
  BY <1>1, <1>2, <1>3, <1>4, <1>7 DEF Late, Committee
<1>11. Here(g)' = inside /\ Committee(g)' = inside
  BY <1>1, <1>2, <1>3, <1>7, <1>10 DEF Here, Committee
<1>12. ProgramOK'
  BY <1>1, <1>2, <1>3, <1>4, <1>6 DEF ProgramOK, CallsOf
<1>13. Before' /\ ~ Slots("closing")' /\ ~ Led'
  BY <1>1, <1>2, <1>6, <1>9 DEF Before, Slots, Led
<1>14. SlotOK'
  BY <1>1, <1>3, <1>4, <1>13 DEF SlotOK
<1>15. HistoryOK(g)'
  <2>1. g[0] = Genesis
    BY <1>2, <1>7, <1>8 DEF Epoch
  <2>2. \A k \in Epoch : k < round + 1 <=> g[k] # {}
    BY <1>2, <1>3, <1>7, <1>8 DEF Epoch
  <2>3. stage' = "request" => \A k \in Epoch : g[k] \subseteq inside
    BY <1>1, <1>7, <1>8
  <2> QED
    BY <1>1, <1>7, <1>11, <2>1, <2>2, <2>3 DEF HistoryOK
<1>16. ASSUME NEW n \in Node
      PROVE  /\ ~ storage[n].locked
             /\ storage[n].set \in [Epoch -> SUBSET Node]
             /\ storage[n].set[round] \subseteq inside
             /\ n \in inside => /\ e[n] = round /\ storage[n].gaps = {}
                               /\ storage[n].len = round + 1
                               /\ storage[n].set[round] = inside
             /\ n \in Here(h) =>
                  \A k \in Epoch : k # round => storage[n].set[k] = h[k]
             /\ n \in h[round - 1] => storage[n].set[round] = inside
             /\ n \notin Here(h) /\ stage = "request" => e[n] = 0 /\ Pristine(n)
             /\ n \notin Here(h) /\ stage = "start" =>
                  \A k \in Epoch : k >= round => storage[n].set[k] = {}
             /\ n \in Here(h) <=> n \in inside \cup h[round - 1]
             /\ \A k \in 1 .. round - 1 :
                  /\ storage[n].set[k] \in {{}, h[k]}
                  /\ n \in h[k - 1] => storage[n].set[k] = h[k]
  <2>1. StorageOK(h) /\ RegistrationOK(h)
    BY DEF Good, RoundOK
  <2>2. storage[n].set \in [Epoch -> SUBSET Node]
    BY DEF Good, TypeOK, NodeTypeOK, Store, History
  <2>3. n \in Here(h) <=> n \in inside \cup h[round - 1]
    BY <1>6 DEF Here, Committee
  <2>4. storage[n].set[round] \subseteq inside
    BY <2>1 DEF StorageOK
  <2>5. n \in inside => /\ e[n] = round /\ storage[n].gaps = {}
                       /\ storage[n].set[round] = inside
                       /\ storage[n].len = round + 1
    BY <1>3, <1>6, <2>1, <2>3 DEF StorageOK, UpToHistory
  <2>6. n \in Here(h) =>
           \A k \in Epoch : k # round => storage[n].set[k] = h[k]
    BY <2>1 DEF StorageOK, UpToHistory
  <2>7. n \in h[round - 1] => inside \subseteq storage[n].set[round]
    BY <1>3, <1>6, <2>1 DEF RegistrationOK, Registered, Committee
  <2>8. n \notin Here(h) /\ stage = "request" => e[n] = 0 /\ Pristine(n)
    BY <1>6, <2>1 DEF StorageOK, BehindHistory, Updated
  <2>9. n \notin Here(h) /\ stage = "start" =>
                  \A k \in Epoch : k >= round => storage[n].set[k] = {}
    BY <2>1 DEF StorageOK, BehindHistory
  <2>10. /\ ~ storage[n].locked
         /\ \A k \in 1 .. round - 1 :
                  /\ storage[n].set[k] \in {{}, h[k]}
                  /\ n \in h[k - 1] => storage[n].set[k] = h[k]
    BY <2>1 DEF StorageOK
  <2> QED
    BY <2>2, <2>3, <2>4, <2>5, <2>6, <2>7, <2>8, <2>9, <2>10
<1>17. StorageOK(g)'
  <2>1. ASSUME NEW n \in inside PROVE UpToHistory(g, n)'
    <3>1. n \in Node /\ n \in Here(h) /\ Stand'[n] # "done" /\ e[n] = round
      BY <1>3, <1>5, <1>16
    <3>2. \A k \in Epoch : storage[n].set[k] = g[k]
      BY <1>7, <1>16, <3>1
    <3>3. storage[n].set[round + 1] = {} /\ storage[n].gaps = {}
          /\ storage[n].len = round + 1
      BY <1>2, <1>3, <1>7, <1>8, <1>16, <3>2
    <3>4. /\ round' = round + 1 /\ round' - 1 = round
          /\ storage' = storage /\ e' = e
      BY <1>1, <1>2, <1>9
    <3> QED
      BY <3>1, <3>2, <3>3, <3>4 DEF UpToHistory
  <2>2. ASSUME NEW n \in Node \ inside PROVE BehindHistory(g, n)'
    <3>1. CASE stage = "request"
      <4>1. e[n] = 0 /\ Pristine(n)
        BY <1>8, <1>16, <3>1
      <4> QED
        BY <1>1, <1>9, <3>1, <4>1 DEF BehindHistory, Pristine
    <3>2. CASE stage = "start"
      <4>1. \A k \in Epoch : k >= round + 1 => storage[n].set[k] = {}
        <5>1. \A k \in Epoch : k >= round + 1 => k # round /\ h[k] = {}
          BY <1>2, <1>8 DEF Epoch
        <5>2. CASE n \in Here(h)
          BY <1>16, <5>1, <5>2
        <5>3. CASE n \notin Here(h)
          <6>1. \A k \in Epoch : k >= round => storage[n].set[k] = {}
            BY <1>16, <3>2, <5>3
          <6> QED
            BY <1>2, <6>1 DEF Epoch
        <5> QED
          BY <5>2, <5>3
      <4> QED
        BY <1>1, <1>9, <3>2, <4>1 DEF BehindHistory
    <3> QED
      BY <1>1, <3>1, <3>2
  <2>3. ASSUME NEW n \in Node, NEW k \in 1 .. round
        PROVE  /\ storage[n].set[k] \in {{}, g[k]}
               /\ n \in g[k - 1] => storage[n].set[k] = g[k]
    <3>1. CASE k < round
      <4>1. k \in 1 .. round - 1 /\ k \in Epoch /\ k - 1 \in Epoch
            /\ k # round /\ k - 1 # round
        BY <1>2, <3>1 DEF Epoch
      <4> QED
        BY <1>7, <1>16, <4>1
    <3>2. CASE k = round
      <4>1. g[k] = inside /\ g[k - 1] = h[round - 1]
        BY <1>2, <1>7, <3>2 DEF Epoch
      <4>2. storage[n].set[k] \in {{}, inside}
        <5>1. CASE n \in inside \cup h[round - 1]
          BY <1>16, <3>2, <5>1
        <5>2. CASE n \notin inside \cup h[round - 1] /\ stage = "start"
          BY <1>2, <1>16, <3>2, <5>2
        <5>3. CASE n \notin inside \cup h[round - 1] /\ stage = "request"
          <6>1. Pristine(n)
            BY <1>16, <5>3
          <6>2. storage[n].set[k] = {}
            BY <1>2, <3>2, <6>1 DEF Pristine, GenesisStorage, NoSigners
          <6> QED
            BY <6>2
        <5> QED
          BY <1>1, <5>1, <5>2, <5>3
      <4> QED
        BY <1>16, <3>2, <4>1, <4>2
    <3> QED
      BY <1>2, <3>1, <3>2
  <2>4. ASSUME NEW n \in Node PROVE storage[n].set[round + 1] = {}
    <3>1. h[round + 1] = {} /\ round + 1 # round
      BY <1>2, <1>8
    <3>2. CASE n \in inside \cup h[round - 1]
      BY <1>2, <1>16, <3>1, <3>2
    <3>3. CASE n \notin inside \cup h[round - 1] /\ stage = "start"
      BY <1>2, <1>16, <3>3
    <3>4. CASE n \notin inside \cup h[round - 1] /\ stage = "request"
      <4>1. Pristine(n)
        BY <1>16, <3>4
      <4> QED
        BY <1>2, <4>1 DEF Pristine, GenesisStorage, NoSigners
    <3> QED
      BY <1>1, <3>2, <3>3, <3>4
  <2>5. round' - 1 = round
    BY <1>1, <1>2
  <2>6. ASSUME NEW n \in Node
        PROVE  /\ ~ storage'[n].locked
               /\ \A m \in storage'[n].set[round'] :
                    m \in inside' /\ Stand'[m] \notin Unregistered
               /\ IF n \in Here(g)' THEN UpToHistory(g, n)'
                  ELSE BehindHistory(g, n)'
               /\ \A k \in 1 .. round' - 1 :
                    /\ storage'[n].set[k] \in {{}, g[k]}
                    /\ n \in g[k - 1] => storage'[n].set[k] = g[k]
    <3>1. storage' = storage /\ storage'[n].set[round'] = {}
      BY <1>1, <1>9, <2>4
    <3>2. ~ storage[n].locked
      BY <1>16
    <3>3. IF n \in Here(g)' THEN UpToHistory(g, n)' ELSE BehindHistory(g, n)'
      BY <1>11, <2>1, <2>2
    <3> QED
      BY <2>3, <2>5, <3>1, <3>2, <3>3
  <2> QED
    BY <2>6 DEF StorageOK, Unregistered
<1>18. ViewOK(g)'
  <2>1. ASSUME NEW n \in Node
        PROVE  \/ view[n] = NoView
               \/ \E k \in 1 .. round : view[n] = [epoch |-> k, members |-> g[k]]
    <3>1. CASE n \in inside
      BY <1>2, <1>6, <1>7, <3>1
    <3>2. CASE n \notin inside
      <4>1. \/ view[n] = NoView
            \/ \E k \in 1 .. round - 1 : view[n] = [epoch |-> k, members |-> h[k]]
        BY <1>6, <3>2 DEF Good, RoundOK, ViewOK
      <4>2. \A k \in 1 .. round - 1 : k \in 1 .. round /\ g[k] = h[k]
        BY <1>2, <1>7 DEF Epoch
      <4> QED
        BY <4>1, <4>2
    <3> QED
      BY <3>1, <3>2
  <2>2. round' - 1 = round /\ \A n \in Node : Stand'[n] # "done"
    BY <1>1, <1>2, <1>5
  <2> QED
    BY <1>9, <2>1, <2>2 DEF ViewOK, NoView
<1>19. ConfirmedOK(g)'
  <2>1. ASSUME NEW n \in Node, NEW k \in confirmed[n]
        PROVE  k \in 1 .. round /\ n \in g[k]
    <3>1. \/ k \in 1 .. round - 1 /\ n \in h[k]
          \/ k = round /\ Stand[n] \in Registered
      BY DEF Good, RoundOK, ConfirmedOK
    <3>2. CASE k \in 1 .. round - 1 /\ n \in h[k]
      BY <1>2, <1>7, <3>2 DEF Epoch
    <3>3. CASE k = round /\ Stand[n] \in Registered
      BY <1>2, <1>6, <1>7, <3>3 DEF Registered
    <3> QED
      BY <3>1, <3>2, <3>3
  <2>2. round' - 1 = round
    BY <1>1, <1>2
  <2> QED
    BY <1>9, <2>1, <2>2 DEF ConfirmedOK, Registered
<1>20. RegistrationOK(g)'
  BY <1>5, <1>6, <1>9 DEF RegistrationOK, Registered, Idle
<1>21. CallsOK(g)'
  BY <1>5, <1>6, <1>9 DEF CallsOK, NoRound
<1>22. MessagesOK(g)'
  BY <1>6, <1>9 DEF MessagesOK, Asked, Read, Mailed
<1>23. TokenOK(g)'
  BY <1>6, <1>9, <1>13 DEF TokenOK
<1> QED
  BY <1>12, <1>14, <1>15, <1>17, <1>18, <1>19, <1>20, <1>21, <1>22, <1>23
  DEF RoundOK

\* Setting the genesis signers again begins the first round with more nodes.
LEMMA StepAgain ==
  ASSUME NEW h, Good(h), GenesisAgain
  PROVE  RoundOK(h)' /\ KnownSigners'
<1>1. /\ ProgramOK /\ client = "throughput" /\ stage = "request" /\ round = 1
      /\ Genesis \subseteq inside
  BY DEF GenesisAgain, Good, RoundOK, ProgramOK
<1>2. /\ AllReturned /\ UNCHANGED <<round, client, stage, written, apart,
                                   epochChan, updating, starting, reg, cons,
                                   calls, announces, requests, snapshots,
                                   histories>>
      /\ inside' \in Prefixes /\ inside \subseteq inside'
      /\ pc' = Send(inside', "update")
      /\ clock' = [epoch |-> 0, slot |-> "open"]
      /\ e' = EpochReset(inside')
      /\ storage' = [n \in Node |->
                      IF n \in inside' THEN GenesisStorage ELSE storage[n]]
      /\ servers' = [n \in Node |->
                      IF n \in inside' THEN Genesis \cup {n} ELSE servers[n]]
      /\ names' = [n \in Node |-> IF n \in inside' THEN Genesis ELSE names[n]]
      /\ view' = [n \in Node |-> NoView]
      /\ confirmed' = [n \in Node |-> {}]
  BY DEF GenesisAgain, callVars, netVars
<1>3. /\ apart = {} /\ announces = {} /\ requests = {}
      /\ snapshots = {} /\ histories = {}
      /\ \A n \in Node : /\ epochChan[n] = <<>> /\ ~ updating[n]
                         /\ starting[n] = 0 /\ reg[n] = Idle
                         /\ cons[n] = NoRound
  BY <1>1, <1>2, Resting
<1>4. inside' \subseteq Node /\ inside' # {} /\ inside # {} /\ inside \subseteq Node
  BY <1>2, Basics DEF Prefixes, Lowest
<1>5. /\ \A n \in Node : pc'[n] = IF n \in inside' THEN "update" ELSE "returned"
      /\ pc' \in [Node -> Calls]
  BY <1>2 DEF Send, Calls
<1>6. /\ \A n \in Node : Stand'[n] = IF n \in inside' THEN "update"
                                     ELSE "outside"
  BY <1>1, <1>2, <1>5 DEF Stand
<1>7. Slots("open")' /\ ~ Led' /\ ~ Before'
  BY <1>1, <1>2 DEF Slots, Led, Before
<1>8. ProgramOK'
  BY <1>1, <1>2, <1>3, <1>4, <1>5 DEF ProgramOK, CallsOf
<1>9. SlotOK'
  <2>1. pc'[Leader] # "start"
    BY <1>5, NodeAssumption
  <2> QED
    BY <1>1, <1>2, <1>4, <1>5, <1>7, <2>1 DEF SlotOK
<1>10. /\ h \in History /\ h[0] = Genesis /\ Committee(h) = Genesis
       /\ \A k \in Epoch : k < 1 <=> h[k] # {}
       /\ \A k \in Epoch : h[k] \subseteq Genesis
       /\ 1 \in Epoch
  BY <1>1, Basics DEF Good, RoundOK, HistoryOK, Committee
<1>11. HistoryOK(h)'
  BY <1>1, <1>2, <1>10 DEF HistoryOK, Committee
<1>12. Late(h)' = {} /\ Late(h) = {} /\ Here(h) = inside /\ Here(h)' = inside'
  BY <1>1, <1>2, <1>10 DEF Late, Here, Committee
<1>13. StorageOK(h)'
  <2>1. ASSUME NEW n \in inside' PROVE UpToHistory(h, n)'
    <3>1. /\ e'[n] = 0 /\ storage'[n] = GenesisStorage /\ Stand'[n] = "update"
          /\ round' = 1
      BY <1>1, <1>2, <1>4, <1>6 DEF EpochReset
    <3>2. \A k \in Epoch : GenesisStorage.set[k] = h[k]
      <4>1. ASSUME NEW k \in Epoch, k # 0 PROVE h[k] = {}
        BY <1>10, <4>1, MaxEpochAssumption DEF Epoch
      <4>2. ASSUME NEW k \in Epoch
            PROVE  GenesisStorage.set[k] = IF k = 0 THEN Genesis ELSE {}
        BY DEF GenesisStorage, NoSigners
      <4> QED
        BY <1>10, <4>1, <4>2
    <3>3. GenesisStorage.len = 1 /\ GenesisStorage.gaps = {}
      BY DEF GenesisStorage
    <3>4. h[1] = {}
      BY <1>10
    <3> QED
      BY <1>10, <3>1, <3>2, <3>3, <3>4 DEF UpToHistory
  <2>2. ASSUME NEW n \in Node \ inside' PROVE BehindHistory(h, n)'
    <3>1. n \notin Here(h) /\ n \notin Late(h)
      BY <1>2, <1>12
    <3>2. e[n] = 0 /\ Pristine(n)
      BY <1>1, <3>1 DEF Good, RoundOK, StorageOK, BehindHistory, Updated
    <3>3. /\ e'[n] = e[n] /\ storage'[n] = storage[n]
          /\ servers'[n] = servers[n] /\ epochChan'[n] = epochChan[n]
          /\ stage' = "request"
      BY <1>1, <1>2 DEF EpochReset
    <3> QED
      BY <3>2, <3>3 DEF BehindHistory, Pristine
  <2>3. ASSUME NEW n \in Node PROVE storage'[n] = GenesisStorage
    <3>1. n \notin inside' => Pristine(n)
      BY <1>1, <1>2, <1>12 DEF Good, RoundOK, StorageOK, BehindHistory, Updated
    <3> QED
      BY <1>2, <3>1 DEF Pristine
  <2>4. GenesisStorage.set[1] = {} /\ ~ GenesisStorage.locked
    BY <1>10 DEF GenesisStorage, NoSigners
  <2>5. round' = 1 /\ 1 .. round' - 1 = {}
    BY <1>1, <1>2
  <2> QED
    BY <1>12, <2>1, <2>2, <2>3, <2>4, <2>5 DEF StorageOK
<1>14. ViewOK(h)' /\ ConfirmedOK(h)'
  BY <1>2, <1>6 DEF ViewOK, ConfirmedOK, NoView
<1>15. RegistrationOK(h)' /\ CallsOK(h)'
  BY <1>2, <1>3, <1>6 DEF RegistrationOK, CallsOK, Registered, Idle, NoRound
<1>16. MessagesOK(h)' /\ TokenOK(h)'
  BY <1>2, <1>3, <1>7 DEF MessagesOK, Asked, Read, Mailed, TokenOK
<1>17. KnownSigners'
  <2>1. ASSUME NEW n \in Node
        PROVE  Signers(storage'[n].set) \subseteq names'[n]
               /\ names'[n] \subseteq servers'[n]
    <3>1. CASE n \in inside'
      <4>1. \A k \in Epoch : GenesisStorage.set[k] \subseteq Genesis
        BY DEF GenesisStorage, NoSigners
      <4> QED
        BY <1>2, <3>1, <4>1 DEF Signers
    <3>2. CASE n \notin inside'
      BY <1>2, <3>2 DEF Good, KnownSigners, Signers
    <3> QED
      BY <3>1, <3>2
  <2> QED
    BY <1>2, <1>3, <2>1 DEF KnownSigners
<1> QED
  BY <1>8, <1>9, <1>11, <1>13, <1>14, <1>15, <1>16, <1>17 DEF RoundOK

-----------------------------------------------------------------------------
(***************************************************************************)
(* Updates and registrations.                                              *)
(***************************************************************************)

\* What a call of the services leaves alone, unless it says otherwise.
LEMMA ClockStays ==
  ASSUME NEW h, Good(h), UNCHANGED <<clock, round>>
  PROVE  /\ Before' <=> Before
         /\ \A s : Slots(s)' <=> Slots(s)
         /\ Leads' = Leads => (Led' <=> Led)
  BY DEF Before, Slots, Led

\* A newcomer asks a signer of epoch 0, who is in the committee.
LEMMA StepAsks ==
  ASSUME NEW h, Good(h), NEW n \in Node, stage = "request", pc[n] = "update",
         Behind(n), UpdateBegins(n), UNCHANGED reqVars, UNCHANGED clientVars
  PROVE  RoundOK(h)'
<1>1. PICK t \in servers[n] \ {n} : Ask(n, t)
  BY DEF UpdateBegins
<1>2. PICK q : q = [by |-> t, to |-> n, kind |-> "update",
                    call |-> <<n, calls[n].update>>]
  OBVIOUS
<1>3. /\ requests' = requests \cup {q} /\ q.to = n /\ q.by = t
      /\ ~ updating[n] /\ updating' = [updating EXCEPT ![n] = TRUE]
      /\ calls' = [calls EXCEPT ![n].update = @ + 1]
      /\ UNCHANGED <<clock, e, storage, servers, names, epochChan, view,
                     confirmed, starting, reg, cons, announces, snapshots,
                     histories, round, pc, client, stage, inside, written,
                     committee, apart>>
  BY <1>1, <1>2 DEF Ask, UpdateBegins, nodeVars, reqVars, clientVars
<1>4. /\ Stand' = Stand /\ Late(h)' = Late(h) /\ Leads' = Leads
      /\ Agreeing' = Agreeing
  BY <1>3 DEF Stand, Late, Committee, Leads, Agreeing
<1>5. ProgramOK' /\ SlotOK'
  BY <1>3 DEF ProgramOK, SlotOK, Before, Slots, After, Over, RoundOver,
     AllReturned, LastRound, Good, RoundOK
<1>6. n \in inside /\ n \in Late(h) /\ n \notin Here(h)
  <2>1. n \in inside /\ Stand[n] = "update"
    BY StandIs
  <2>2. n \notin Here(h)
    BY <2>1 DEF Good, RoundOK, StorageOK, UpToHistory, Behind
  <2> QED
    BY <2>1, <2>2 DEF Here
<1>7. Before /\ ~ Led
  BY <1>6, WhereWeAre
<1>8. Pristine(n)
  BY <1>3, <1>6 DEF Good, RoundOK, StorageOK, BehindHistory, Updated
<1>9. t \in Committee(h) /\ epochChan[n] = <<>>
  <2>1. t \in h[0] /\ h[0] \subseteq Committee(h)
    BY <1>8, MaxEpochAssumption
    DEF Pristine, Good, RoundOK, HistoryOK, Epoch
  <2> QED
    BY <1>8, <2>1 DEF Pristine
<1>10. n \notin Asked /\ n \notin Read /\ n \notin Mailed
  BY <1>3, <1>7, ClockStays
  DEF Asked, Read, Mailed, Good, RoundOK, MessagesOK, DeliveryOK
<1>11. HistoryOK(h)' /\ StorageOK(h)' /\ ViewOK(h)' /\ ConfirmedOK(h)'
  <2>1. \A m \in Node : updating[m] => updating'[m]
    BY <1>3 DEF Good, TypeOK, CallTypeOK
  <2> QED
    BY <1>3, <1>4, <2>1, KeepHistory, KeepStorage, KeepView, KeepConfirmed
<1>12. RegistrationOK(h)'
  <2>1. \A m \in Node : calls'[m].register = calls[m].register
    BY <1>3 DEF Good, TypeOK, CallTypeOK, Count
  <2> QED
    BY <1>3, <1>4, <2>1, KeepRegistration
<1>13. CallsOK(h)'
  BY <1>3, <1>4, <1>6 DEF Good, RoundOK, CallsOK, NoRound, TypeOK, CallTypeOK
<1>14. /\ Before' /\ (Led' <=> Led) /\ Sent(h)' = Sent(h)
       /\ Committee(h)' = Committee(h)
       /\ \A s : Slots(s)' <=> Slots(s)
  BY <1>3, <1>4, <1>7, ClockStays DEF Sent, Whole, Committee
<1>15. ASSUME NEW p, p.to \in Node, DeliveryOK(h, p) PROVE DeliveryOK(h, p)'
  BY <1>3, <1>4, <1>14, <1>15 DEF DeliveryOK, Good, TypeOK, CallTypeOK
<1>16. DeliveryOK(h, q)'
  BY <1>3, <1>4, <1>6, <1>9, <1>14 DEF DeliveryOK, Good, TypeOK, CallTypeOK
<1>17. MessagesOK(h)'
  <2>1. MessagesOK(h)
    BY DEF Good, RoundOK
  <2>2. /\ \A p \in requests : p.to \in Node
        /\ \A s \in snapshots \cup histories : s.req.to \in Node
    BY DEF Good, TypeOK, NetTypeOK, Request, Snapshot, Reply
  <2>3. /\ Asked' = Asked \cup {n} /\ Read' = Read /\ Mailed' = Mailed
    BY <1>3 DEF Asked, Read, Mailed
  <2>4. \A p, r \in requests' : p.to = r.to => p = r
    BY <1>3, <1>10, <2>1 DEF MessagesOK, Asked
  <2>5. /\ \A p \in requests' : DeliveryOK(h, p)'
        /\ \A s \in snapshots' \cup histories' :
             DeliveryOK(h, s.req)' /\ s.set = Sent(h)'
    BY <1>3, <1>14, <1>15, <1>16, <2>1, <2>2 DEF MessagesOK
  <2> QED
    BY <1>3, <1>10, <2>1, <2>3, <2>4, <2>5 DEF MessagesOK
<1>18. TokenOK(h)'
  <2>1. \A m \in Node : Updated(h, m) => Updated(h, m)'
    BY <1>3, <1>4 DEF Updated, Good, TypeOK, CallTypeOK
  <2> QED
    BY <1>3, <1>7, <1>14, <2>1 DEF Good, RoundOK, TokenOK
<1> QED
  BY <1>5, <1>11, <1>12, <1>13, <1>17, <1>18 DEF RoundOK

\* What a node of the committee, or one that caught up with it, knows.
LEMMA Informed ==
  ASSUME NEW h, Good(h), NEW n \in Here(h)
  PROVE  /\ n \in Node
         /\ e[n] = IF Stand[n] = "done" THEN round ELSE round - 1
         /\ ~ storage[n].locked /\ storage[n].gaps = {}
         /\ storage[n].set \in [Epoch -> SUBSET Node]
         /\ storage[n].len = IF storage[n].set[round] = {} THEN round
                             ELSE round + 1
         /\ \A k \in Epoch : k # round => storage[n].set[k] = h[k]
         /\ storage[n].set[round - 1] = Committee(h)
         /\ Stand[n] # "done" => CurrentSigners(n) = Committee(h)
<1>1. n \in Node /\ round - 1 \in Epoch /\ round \in Nat /\ Node # {}
  BY Basics
<1>2. UpToHistory(h, n) /\ ~ storage[n].locked
  BY <1>1 DEF Good, RoundOK, StorageOK
<1>3. storage[n].set \in [Epoch -> SUBSET Node]
  BY <1>1 DEF Good, TypeOK, NodeTypeOK, Store, History
<1> QED
  BY <1>1, <1>2, <1>3 DEF UpToHistory, Committee, CurrentSigners

\* No history is on its way, and no token, but before the registration and
\* after the committee has signed.
LEMMA NoMail ==
  ASSUME NEW h, Good(h), ~ Before
  PROVE  /\ ~ (Slots("closing") /\ Led) =>
              requests = {} /\ snapshots = {} /\ histories = {}
         /\ ~ Led => \A n \in Node : epochChan[n] = <<>>
         /\ Late(h) = {}
         /\ Here(h) = Committee(h) \cup inside
<1>1. Late(h) = {}
  BY WhereWeAre
<1> QED
  BY <1>1
  DEF Good, RoundOK, MessagesOK, DeliveryOK, TokenOK, Updated, Here

\* The update has its history: the request catches up with the committee.
LEMMA StepUpdated ==
  ASSUME NEW h, Good(h), NEW n \in Node, stage = "request",
         UpdateEnds(n), Waited(n, "update", "register")
  PROVE  RoundOK(h)'
<1>1. /\ updating[n] /\ epochChan[n] # <<>>
      /\ e' = [e EXCEPT ![n] = Head(epochChan[n])]
      /\ epochChan' = [epochChan EXCEPT ![n] = Tail(@)]
      /\ updating' = [updating EXCEPT ![n] = FALSE]
      /\ UNCHANGED <<clock, storage, servers, names, view, confirmed,
                     starting, reg, cons, calls, announces, requests,
                     snapshots, histories>>
  BY DEF UpdateEnds, netVars
<1>2. /\ n \in inside /\ pc[n] = "update" /\ pc'[n] = "register"
      /\ \A m \in Node \ {n} : pc'[m] = pc[m] /\ Stand'[m] = Stand[m]
      /\ UNCHANGED <<round, stage, inside, client, written, apart>>
      /\ ProgramOK' /\ HistoryOK(h)'
      /\ Stand'[n] = "register" /\ Stand[n] = "update"
      /\ Late(h)' = Late(h) \ {n}
  <2>1. "register" \in CallsOf(stage) \ {"update"}
    BY DEF CallsOf
  <2>2. n \in inside /\ pc[n] = "update"
    BY <2>1, CallMoves
  <2> QED
    BY <2>1, <2>2, CallMoves, StandIs
<1>3. n \in Late(h) /\ n \notin Here(h) /\ Before /\ ~ Led
  BY <1>1, WhereWeAre DEF Good, RoundOK, CallsOK, Here
<1>4. Updated(h, n)
  BY <1>1, <1>2 DEF Good, RoundOK, TokenOK
<1>5. epochChan'[n] = <<>> /\ e'[n] = round - 1 /\ ~ updating'[n]
  BY <1>1, <1>4 DEF Updated, Good, TypeOK, NodeTypeOK, CallTypeOK
<1>6. \A m \in Node \ {n} : /\ epochChan'[m] = epochChan[m] /\ e'[m] = e[m]
                            /\ updating'[m] = updating[m]
  BY <1>1 DEF Good, TypeOK, NodeTypeOK, CallTypeOK
<1>7. Leads' = Leads /\ Agreeing' = Agreeing
  BY <1>2 DEF Leads, Agreeing
<1>8. Before' /\ ~ Led' /\ \A s : Slots(s)' <=> Slots(s)
  BY <1>1, <1>2, <1>3, <1>7, ClockStays
<1>9. SlotOK'
  <2>1. "register" \in CallsOf(stage) \ {"update"}
    BY DEF CallsOf
  <2> QED
    BY <1>1, <1>3, <2>1, SlotMoves
<1>10. Here(h)' = Here(h) \cup {n} /\ Committee(h)' = Committee(h)
  BY <1>2, <1>3 DEF Here, Committee
<1>11. StorageOK(h)'
  <2>1. UpToHistory(h, n)'
    <3>1. storage'[n] = Rebuilt(round - 1, h) /\ round' = round
      BY <1>1, <1>2, <1>4 DEF Updated
    <3>2. /\ Rebuilt(round - 1, h).set = h /\ Rebuilt(round - 1, h).gaps = {}
          /\ Rebuilt(round - 1, h).len = round /\ h[round] = {}
      <4>1. round \in Nat /\ round \in Epoch /\ 0 .. round - 1 \subseteq Epoch
        BY Basics DEF Epoch
      <4>2. \A k \in Epoch : k < round <=> h[k] # {}
        BY DEF Good, RoundOK, HistoryOK
      <4>3. \A j \in 0 .. round - 1 : j < round
        BY <4>1
      <4> QED
        BY <4>1, <4>2, <4>3 DEF Rebuilt
    <3> QED
      BY <1>2, <1>5, <3>1, <3>2 DEF UpToHistory
  <2>2. ASSUME NEW m \in Node \ {n}
        PROVE  IF m \in Here(h)' THEN UpToHistory(h, m)'
               ELSE BehindHistory(h, m)'
    <3>1. IF m \in Here(h) THEN UpToHistory(h, m) ELSE BehindHistory(h, m)
      BY DEF Good, RoundOK, StorageOK
    <3>2. m \in Here(h)' <=> m \in Here(h)
      BY <1>10
    <3>3. UpToHistory(h, m) => UpToHistory(h, m)'
      BY <1>1, <1>2, <1>6 DEF UpToHistory
    <3>4. BehindHistory(h, m) => BehindHistory(h, m)'
      <4>1. Pristine(m) => Pristine(m)'
        BY <1>1, <1>6 DEF Pristine
      <4>2. Updated(h, m) => Updated(h, m)'
        BY <1>1, <1>2, <1>6 DEF Updated
      <4> QED
        BY <1>1, <1>2, <1>6, <4>1, <4>2 DEF BehindHistory
    <3> QED
      BY <3>1, <3>2, <3>3, <3>4
  <2>3. ASSUME NEW m \in Node
        PROVE  /\ ~ storage'[m].locked
               /\ \A x \in storage'[m].set[round'] :
                    x \in inside' /\ Stand'[x] \notin Unregistered
               /\ \A k \in 1 .. round' - 1 :
                    /\ storage'[m].set[k] \in {{}, h[k]}
                    /\ m \in h[k - 1] => storage'[m].set[k] = h[k]
    <3>1. /\ ~ storage[m].locked
          /\ \A x \in storage[m].set[round] :
               x \in inside /\ Stand[x] \notin Unregistered
          /\ \A k \in 1 .. round - 1 :
               /\ storage[m].set[k] \in {{}, h[k]}
               /\ m \in h[k - 1] => storage[m].set[k] = h[k]
      BY DEF Good, RoundOK, StorageOK
    <3>2. \A x \in inside : x = n \/ Stand'[x] = Stand[x]
      BY <1>2, Basics
    <3>3. Stand[n] \in Unregistered
      BY <1>2 DEF Unregistered
    <3> QED
      BY <1>1, <1>2, <3>1, <3>2, <3>3
  <2>4. n \in Here(h)'
    BY <1>10
  <2> QED
    BY <2>1, <2>2, <2>3, <2>4 DEF StorageOK, Unregistered
<1>12. ViewOK(h)' /\ ConfirmedOK(h)'
  BY <1>1, <1>2, KeepView, KeepConfirmed DEF Registered
<1>13. RegistrationOK(h)'
  BY <1>1, <1>2, KeepRegistration DEF Registered
<1>14. CallsOK(h)'
  <2>1. \A m \in Node : Stand[m] = "token" <=> Stand'[m] = "token"
    BY <1>2
  <2>2. \A m \in Node : updating'[m] => m \in Late(h)'
    BY <1>2, <1>5, <1>6 DEF Good, RoundOK, CallsOK
  <2> QED
    BY <1>1, <1>7, <2>1, <2>2 DEF Good, RoundOK, CallsOK, NoRound
<1>15. MessagesOK(h)'
  BY <1>1, <1>2, <1>3, <1>5, <1>6, <1>8, KeepMessages
<1>16. TokenOK(h)'
  <2>1. \A m \in Node : epochChan[m] = <<>> \/ Updated(h, m)
    BY <1>3 DEF Good, RoundOK, TokenOK
  <2>2. ASSUME NEW m \in Node \ {n}, Updated(h, m) PROVE Updated(h, m)'
    BY <1>1, <1>2, <1>6, <2>2 DEF Updated
  <2> QED
    BY <1>5, <1>6, <1>8, <2>1, <2>2 DEF TokenOK
<1> QED
  BY <1>2, <1>9, <1>11, <1>12, <1>13, <1>14, <1>15, <1>16 DEF RoundOK

\* The registration asks all of the committee.
LEMMA StepRegisters ==
  ASSUME NEW h, Good(h), NEW n \in Node, stage \in {"request", "register"},
         RegisterBegins(n), Waited(n, "register", "gossip")
  PROVE  RoundOK(h)'
<1>1. /\ clock.slot = "open"
      /\ reg' = [reg EXCEPT ![n] =
                 [Idle EXCEPT !.pc = "cosi", !.epoch = e[n] + 1,
                              !.roster = CurrentSigners(n) \cup {n}]]
      /\ calls' = [calls EXCEPT ![n].register = @ + 1]
      /\ UNCHANGED <<clock, e, storage, servers, names, epochChan, view,
                     confirmed, updating, starting, cons, announces, requests,
                     snapshots, histories>>
  BY DEF RegisterBegins, TooLate, nodeVars, netVars
<1>2. /\ n \in inside /\ pc[n] = "register" /\ pc'[n] = "gossip"
      /\ \A m \in Node \ {n} : pc'[m] = pc[m] /\ Stand'[m] = Stand[m]
      /\ UNCHANGED <<round, stage, inside, client, written, apart>>
      /\ ProgramOK' /\ HistoryOK(h)'
      /\ Stand'[n] = "gossip" /\ Stand[n] = "register"
      /\ Late(h)' = Late(h) \ {n}
  <2>1. "gossip" \in CallsOf(stage) \ {"update"} /\ stage # "update"
    BY DEF CallsOf
  <2>2. n \in inside /\ pc[n] = "register"
    BY <2>1, CallMoves
  <2> QED
    BY <2>1, <2>2, CallMoves, StandIs
<1>3. Slots("open") /\ ~ Led /\ ~ Before /\ ~ Slots("closing")
  <2>1. inside # {} /\ n \in inside
    BY <1>2
  <2> QED
    BY <1>1, <1>2, WhereWeAre DEF Before, Slots
<1>4. Late(h) = {} /\ Here(h) = Committee(h) \cup inside
  BY <1>3, NoMail
<1>5. e[n] = round - 1 /\ CurrentSigners(n) = Committee(h) /\ round \in Nat
  BY <1>2, <1>4, Informed, Basics
<1>6. /\ reg'[n].pc = "cosi" /\ reg'[n].epoch = round
      /\ reg'[n].roster = Committee(h) \cup {n}
      /\ reg'[n].stored = {} /\ reg'[n].refused = {}
      /\ \A m \in Node \ {n} : reg'[m] = reg[m] /\ calls'[m] = calls[m]
  <2>1. reg \in [Node -> Registration] /\ calls \in [Node -> Count]
    BY DEF Good, TypeOK, CallTypeOK
  <2>2. reg'[n] = [Idle EXCEPT !.pc = "cosi", !.epoch = e[n] + 1,
                               !.roster = CurrentSigners(n) \cup {n}]
    BY <1>1, <2>1
  <2>3. e[n] + 1 = round
    BY <1>5
  <2> QED
    BY <1>1, <1>5, <2>1, <2>2, <2>3 DEF Idle
<1>7. Leads' = Leads /\ Agreeing' = Agreeing
  BY <1>2 DEF Leads, Agreeing
<1>8. ~ Before' /\ ~ Led' /\ \A s : Slots(s)' <=> Slots(s)
  <2>1. UNCHANGED <<clock, round>>
    BY <1>1, <1>2
  <2> QED
    BY <1>3, <1>7, <2>1, ClockStays
<1>9. SlotOK'
  <2>1. "gossip" \in CallsOf(stage) \ {"update"}
    BY DEF CallsOf
  <2> QED
    BY <1>1, <1>3, <2>1, SlotMoves
<1>10. StorageOK(h)'
  <2>1. Late(h)' = Late(h)
    BY <1>2, <1>4
  <2>2. \A m \in Node : /\ Stand[m] \notin Unregistered =>
                              Stand'[m] \notin Unregistered
                        /\ Stand[m] = "done" <=> Stand'[m] = "done"
    BY <1>2 DEF Unregistered
  <2>3. UNCHANGED <<round, inside, stage, storage, e, servers, epochChan,
                    updating>>
    BY <1>1, <1>2
  <2> QED
    BY <2>1, <2>2, <2>3, KeepStorage
<1>11. ViewOK(h)' /\ ConfirmedOK(h)'
  BY <1>1, <1>2, KeepView, KeepConfirmed DEF Registered
<1>12. RegistrationOK(h)'
  <2>1. RegistrationOK(h) /\ Committee(h)' = Committee(h)
    BY <1>2 DEF Good, RoundOK, Committee
  <2>2. AskingOK(h, n)'
    BY <1>2, <1>6, <2>1 DEF AskingOK
  <2>3. ASSUME NEW m \in Node \ {n}, AskingOK(h, m) PROVE AskingOK(h, m)'
    BY <1>1, <1>2, <1>6, <2>1, <2>3 DEF AskingOK
  <2>4. ASSUME NEW a \in announces PROVE AnnounceOK(a)'
    <3>1. AnnounceOK(a) /\ a.from \in Node
      BY <2>1 DEF RegistrationOK, Good, TypeOK, NetTypeOK, Announce
    <3>2. a.from # n
      BY <1>2, <3>1 DEF AnnounceOK
    <3> QED
      BY <1>1, <1>2, <1>6, <3>1, <3>2 DEF AnnounceOK
  <2>5. \A m \in Node : IF Stand'[m] = "gossip" THEN AskingOK(h, m)'
                        ELSE reg'[m] = Idle
    BY <1>2, <1>6, <2>1, <2>2, <2>3 DEF RegistrationOK
  <2>6. ASSUME NEW m \in Node, Stand'[m] \in Registered,
               NEW x \in Committee(h)
        PROVE  m \in storage'[x].set[round']
    <3>1. m # n /\ Stand'[m] = Stand[m]
      BY <1>2, <2>6 DEF Registered
    <3> QED
      BY <1>1, <1>2, <2>1, <2>6, <3>1 DEF RegistrationOK
  <2> QED
    BY <1>1, <2>1, <2>4, <2>5, <2>6 DEF RegistrationOK, Idle, Registered
<1>13. CallsOK(h)'
  BY <1>1, <1>2, <1>4, <1>7, KeepCalls
<1>14. MessagesOK(h)'
  BY <1>1, <1>2, <1>3, <1>4, <1>8, KeepMessages
<1>15. TokenOK(h)'
  BY <1>1, <1>2, <1>3, <1>4, <1>8, KeepToken
<1> QED
  BY <1>2, <1>9, <1>10, <1>11, <1>12, <1>13, <1>14, <1>15 DEF RoundOK
-----------------------------------------------------------------------------
\* All of the committee stored the registration, or the only member there is
\* did, which then waits for its timer.
LEMMA StepRegistered ==
  ASSUME NEW h, Good(h), NEW n \in Node, NEW to,
         \/ stage = "request" /\ to = AfterRegister(n)
         \/ stage = "register" /\ to = "returned",
         Waited(n, "gossip", to),
         \/ RegisterEnds(n)
         \/ /\ stage = "register" /\ reg[n].roster = {n}
            /\ \A a \in announces : a.from # n
            /\ RegisterTimesOut(n)
  PROVE  RoundOK(h)'
<1>1. /\ reg[n].pc = "gossip"
      /\ reg' = [reg EXCEPT ![n] = Idle]
      /\ UNCHANGED <<clock, e, storage, servers, names, epochChan, view,
                     updating, starting, cons, calls, announces, requests,
                     snapshots, histories>>
      /\ confirmed' \in {confirmed, [confirmed EXCEPT ![n] = @ \cup {reg[n].epoch}]}
  BY DEF RegisterEnds, RegisterTimesOut, nodeVars, netVars
<1>2. /\ n \in inside /\ pc[n] = "gossip" /\ pc'[n] = to
      /\ \A m \in Node \ {n} : pc'[m] = pc[m] /\ Stand'[m] = Stand[m]
      /\ UNCHANGED <<round, stage, inside, client, written, apart>>
      /\ ProgramOK' /\ HistoryOK(h)'
      /\ Stand'[n] = "start" /\ Stand[n] = "gossip"
      /\ Late(h)' = Late(h) \ {n}
      /\ to \in CallsOf(stage) \ {"update"}
      /\ to \in {"lead", "agree"} => n = Leader
      /\ to \in {"lead", "start", "returned"}
      /\ stage = "request" => to \in {"lead", "start"} /\ (to = "start" => n # Leader)
  <2>1. /\ to \in CallsOf(stage) \ {"update"} /\ stage # "update"
        /\ to \in {"lead", "agree"} => n = Leader
        /\ to \in {"lead", "start", "returned"}
        /\ to = "returned" => stage = "register"
        /\ stage = "request" => to \in {"lead", "start"} /\ (to = "start" => n # Leader)
    BY DEF CallsOf, AfterRegister
  <2>2. n \in inside /\ pc[n] = "gossip"
    BY <2>1, CallMoves
  <2>3. Stand'[n] = "start"
    BY <2>1, <2>2, CallMoves
  <2> QED
    BY <2>1, <2>2, <2>3, CallMoves, StandIs
<1>3. Slots("open") /\ ~ Led /\ ~ Before /\ ~ Slots("closing")
  <2>1. inside # {} /\ n \in inside
    BY <1>2
  <2> QED
    BY <1>2, WhereWeAre DEF Before, Slots, Unregistered
<1>4. Late(h) = {} /\ Here(h) = Committee(h) \cup inside
  BY <1>3, NoMail
<1>5. AskingOK(h, n) /\ RegistrationOK(h) /\ Committee(h) # {}
  BY <1>2, Basics
  DEF Good, RoundOK, RegistrationOK, HistoryOK, Committee, Epoch
<1>6. reg[n].stored = reg[n].roster
  BY <1>1, <1>5 DEF RegisterEnds, AskingOK, Committee
<1>7. \A m \in Committee(h) : n \in storage[m].set[round]
  BY <1>5, <1>6 DEF AskingOK
<1>8. \A a \in announces : a.from # n
  BY <1>5, <1>6 DEF RegistrationOK, AnnounceOK
<1>9. Leads \subseteq Leads' /\ Agreeing' = Agreeing
  BY <1>2 DEF Leads, Agreeing
<1>10. ~ Before' /\ ~ Led' /\ \A s : Slots(s)' <=> Slots(s)
  BY <1>1, <1>2, <1>3 DEF Before, Led, Slots
<1>11. SlotOK'
  <2>1. UNCHANGED clock /\ stage \in {"request", "register"}
    BY <1>1
  <2>2. \/ /\ Slots("open") /\ stage = "request"
           /\ to \in {"register", "gossip", "lead", "start"}
           /\ to = "start" => n # Leader
        \/ Slots("open") /\ stage \in {"update", "register"}
    BY <1>2, <1>3, <2>1
  <2>3. /\ to \in CallsOf(stage) \ {"update"}
        /\ to \in {"lead", "agree"} => n = Leader
    BY <1>2
  <2> QED
    BY <2>1, <2>2, <2>3, SlotMoves
<1>12. StorageOK(h)'
  <2>1. Late(h)' = Late(h)
    BY <1>2, <1>4
  <2>2. \A m \in Node : /\ Stand[m] \notin Unregistered =>
                              Stand'[m] \notin Unregistered
                        /\ Stand[m] = "done" <=> Stand'[m] = "done"
    BY <1>2 DEF Unregistered
  <2>3. UNCHANGED <<round, inside, stage, storage, e, servers, epochChan,
                    updating>>
    BY <1>1, <1>2
  <2> QED
    BY <2>1, <2>2, <2>3, KeepStorage
<1>13. ViewOK(h)'
  BY <1>1, <1>2, KeepView
<1>14. ConfirmedOK(h)'
  <2>1. ASSUME NEW m \in Node, NEW k \in confirmed'[m]
        PROVE  \/ k \in 1 .. round - 1 /\ m \in h[k]
               \/ k = round /\ Stand'[m] \in Registered
    <3>1. k \in confirmed[m] \/ (m = n /\ k = round)
      BY <1>1, <1>5 DEF AskingOK, Good, TypeOK, NodeTypeOK
    <3>2. Stand[m] \in Registered => Stand'[m] \in Registered
      BY <1>2 DEF Registered
    <3>3. Stand'[n] \in Registered
      BY <1>2 DEF Registered
    <3> QED
      BY <3>1, <3>2, <3>3 DEF Good, RoundOK, ConfirmedOK
  <2> QED
    BY <1>2, <2>1 DEF ConfirmedOK, Registered
<1>15. RegistrationOK(h)'
  <2>1. /\ reg'[n] = Idle
        /\ \A m \in Node \ {n} : reg'[m] = reg[m]
    BY <1>1 DEF Good, TypeOK, CallTypeOK
  <2>2. Committee(h)' = Committee(h)
    BY <1>2 DEF Committee
  <2>3. ASSUME NEW m \in Node \ {n}, AskingOK(h, m) PROVE AskingOK(h, m)'
    BY <1>1, <1>2, <2>1, <2>2, <2>3 DEF AskingOK
  <2>4. ASSUME NEW a \in announces PROVE AnnounceOK(a)'
    <3>1. AnnounceOK(a) /\ a.from \in Node \ {n}
      BY <1>5, <1>8 DEF RegistrationOK, Good, TypeOK, NetTypeOK, Announce
    <3> QED
      BY <1>1, <1>2, <2>1, <3>1 DEF AnnounceOK
  <2>5. \A m \in Node : IF Stand'[m] = "gossip" THEN AskingOK(h, m)'
                        ELSE reg'[m] = Idle
    BY <1>2, <1>5, <2>1, <2>3 DEF RegistrationOK
  <2>6. ASSUME NEW m \in Node, Stand'[m] \in Registered,
               NEW x \in Committee(h)
        PROVE  m \in storage'[x].set[round']
    <3>1. m # n => Stand'[m] = Stand[m]
      BY <1>2
    <3> QED
      BY <1>1, <1>2, <1>5, <1>7, <2>6, <3>1 DEF RegistrationOK
  <2> QED
    BY <1>1, <2>2, <2>4, <2>5, <2>6 DEF RegistrationOK, Idle, Registered
<1>16. CallsOK(h)'
  BY <1>1, <1>2, <1>4, <1>9, KeepCalls
<1>17. MessagesOK(h)'
  BY <1>1, <1>2, <1>3, <1>4, <1>10, KeepMessages
<1>18. TokenOK(h)'
  <2>1. \A m \in Node : epochChan'[m] = <<>>
    BY <1>1, <1>3, NoMail
  <2> QED
    BY <1>10, <2>1 DEF TokenOK
<1> QED
  BY <1>2, <1>11, <1>12, <1>13, <1>14, <1>15, <1>16, <1>17, <1>18 DEF RoundOK

-----------------------------------------------------------------------------
(***************************************************************************)
(* The consensus and the start.                                            *)
(***************************************************************************)

\* What the leader's call does to the program, whether the client waits for it
\* or not.
LEMMA LeadMoves ==
  ASSUME NEW h, Good(h), NEW n \in Node, NEW from, NEW to,
         \/ from = "lead" /\ to = "agree" /\ clock.slot # "open"
         \/ from = "agree" /\ to = "gone",
         UNCHANGED clock,
         \/ /\ stage = "request"
            /\ Waited(n, from, IF to = "gone" THEN "start" ELSE to)
         \/ /\ stage # "request"
            /\ Apart(n, from, IF to = "gone" THEN "returned" ELSE to)
  PROVE  /\ UNCHANGED <<round, stage, inside, client, written>>
         /\ ProgramOK' /\ HistoryOK(h)' /\ SlotOK'
         /\ Stand' = Stand /\ Late(h)' = Late(h)
         /\ n \in inside /\ n \in Committee(h) /\ Stand[n] = "start"
         /\ n \in Leads
         /\ Slots("closing") /\ ~ Before /\ ~ Led /\ Late(h) = {}
         /\ Slots("closing")' /\ ~ Before'
         /\ IF to = "gone" THEN Leads' = {} /\ Agreeing' = {}
            ELSE Leads' = Leads /\ n \in Agreeing' /\ Agreeing \subseteq Agreeing'
<1>1. /\ from \in {"lead", "agree"} /\ to \in {"agree", "gone"}
      /\ from = "lead" => to = "agree" /\ clock.slot # "open"
      /\ from = "agree" => to = "gone"
  OBVIOUS
<1>2. /\ ProgramOK /\ SlotOK /\ Leader \in Node /\ inside \subseteq Node
      /\ ClockTypeOK
  BY NodeAssumption, Basics DEF Good, RoundOK, TypeOK
<1>3. CASE stage = "request"
  <2>1. PICK next : next = IF to = "gone" THEN "start" ELSE to
    OBVIOUS
  <2>2. /\ Waited(n, from, next) /\ next \in {"agree", "start"}
        /\ next = IF to = "gone" THEN "start" ELSE "agree"
    BY <1>1, <1>3, <2>1
  <2>3. pc[n] = from
    BY <2>2 DEF Waited, GoTo
  <2>4. n \in inside /\ n = Leader /\ apart = {}
    BY <1>1, <1>2, <1>3, <2>3 DEF ProgramOK
  <2>5. Slots("closing")
    BY <1>1, <1>2, <1>3, <2>3, <2>4
    DEF SlotOK, Slots, Before, Over, RoundOver, AllReturned
  <2>6. next \in CallsOf(stage) \ {"update"} /\ from # "returned"
    BY <1>1, <1>3, <2>2 DEF CallsOf
  <2>7. /\ pc'[n] = next
        /\ \A m \in Node \ {n} : pc'[m] = pc[m] /\ Stand'[m] = Stand[m]
        /\ UNCHANGED <<round, stage, inside, client, written, apart>>
        /\ ProgramOK' /\ HistoryOK(h)' /\ Stand'[n] = "start"
    BY <1>3, <2>2, <2>4, <2>6, CallMoves
  <2>8. SlotOK'
    BY <2>2, <2>4, <2>5, <2>6, SlotMoves
  <2>9. ~ Before /\ Late(h) = {} /\ Stand[n] = "start" /\ ~ Before'
        /\ Slots("closing")' /\ Late(h)' = {}
    <3>1. ~ Before /\ Slots("closing")'
      BY <2>5, <2>7 DEF Before, Slots
    <3>2. ~ Before'
      BY <2>5, <2>7 DEF Before, Slots
    <3>3. Stand[n] = "start"
      BY <1>1, <1>3, <2>3, <2>4 DEF Stand
    <3>4. Late(h) = {} /\ Late(h)' \subseteq Late(h)
      BY <2>2, <2>4, <2>6, <3>1, CallMoves, WhereWeAre
    <3> QED
      BY <3>1, <3>2, <3>3, <3>4
  <2>10. Stand' = Stand
    BY <2>7, <2>9 DEF Stand
  <2>11. n \in Leads /\ ~ Led
    BY <1>1, <2>3 DEF Leads, Led
  <2>12. n \in Committee(h)
    BY <1>3, <2>4, NodeAssumption, MaxEpochAssumption
    DEF Good, RoundOK, HistoryOK, Epoch
  <2>13. IF to = "gone" THEN Leads' = {} /\ Agreeing' = {}
         ELSE Leads' = Leads /\ n \in Agreeing' /\ Agreeing \subseteq Agreeing'
    <3>1. \A m \in Node \ {n} : pc[m] \notin {"lead", "agree"}
      BY <1>2, <2>4 DEF ProgramOK
    <3>2. CASE to = "gone"
      BY <2>2, <2>4, <2>7, <3>1, <3>2 DEF Leads, Agreeing
    <3>3. CASE to = "agree"
      BY <1>1, <2>2, <2>3, <2>4, <2>7, <3>1, <3>3 DEF Leads, Agreeing
    <3> QED
      BY <1>1, <3>2, <3>3
  <2> QED
    BY <2>4, <2>5, <2>7, <2>8, <2>9, <2>10, <2>11, <2>12, <2>13
<1>4. CASE stage # "request"
  <2>1. PICK next : next = IF to = "gone" THEN "returned" ELSE to
    OBVIOUS
  <2>2. /\ Apart(n, from, next)
        /\ next = IF to = "gone" THEN "returned" ELSE "agree"
    BY <1>1, <1>4, <2>1
  <2>3. /\ <<n, from>> \in apart
        /\ UNCHANGED <<round, pc, client, stage, inside, written>>
        /\ apart' = (apart \ {<<n, from>>})
                      \cup (IF to = "gone" THEN {} ELSE {<<n, "agree">>})
    BY <2>2 DEF Apart, reqVars
  <2>4. /\ stage = "start" /\ n \in inside /\ apart = {<<n, from>>}
        /\ apart' = IF to = "gone" THEN {} ELSE {<<n, "agree">>}
    <3>1. /\ stage = "start"
          /\ \E l \in inside : apart \in {{<<l, "lead">>}, {<<l, "agree">>}}
      BY <1>2, <2>3 DEF ProgramOK
    <3>2. PICK l \in inside : apart \in {{<<l, "lead">>}, {<<l, "agree">>}}
      BY <3>1
    <3>3. n = l /\ apart = {<<n, from>>}
      BY <2>3, <3>2
    <3> QED
      BY <2>3, <3>1, <3>3
  <2>5. Slots("closing")
    <3>1. apart # {} /\ stage = "start"
      BY <2>4
    <3>2. ~ Slots("open")
      <4>1. ASSUME NEW l \in inside, apart = {<<l, "lead">>} PROVE from = "lead"
        <5>1. <<n, from>> = <<l, "lead">>
          BY <2>3, <4>1
        <5> QED
          BY <5>1
      <4>2. Slots("open") => clock.slot = "open"
        BY DEF Slots
      <4> QED
        BY <1>1, <1>2, <3>1, <4>1, <4>2 DEF SlotOK, Slots, Before
    <3> QED
      BY <1>2, <3>1, <3>2 DEF SlotOK
  <2>6. /\ ~ Before /\ Slots("closing")' /\ ~ Before'
        /\ \A m \in inside : Stand[m] = "start"
    <3>1. ~ Before /\ Slots("closing")' /\ ~ Before'
      BY <2>3, <2>5 DEF Before, Slots
    <3>2. clock.slot = "closing"
      BY <2>5 DEF Slots
    <3>3. inside # {}
      BY Basics
    <3>4. ~ Over
      BY <2>4, <2>5, <1>2 DEF Over, RoundOver, AllReturned, SlotOK, Slots
    <3> QED
      BY <3>1, <3>2, <3>4, WhereWeAre
  <2>7. Late(h) = {} /\ Late(h)' = {} /\ Stand' = Stand /\ HistoryOK(h)'
    BY <2>3, <2>4, KeepHistory DEF Late, Stand
  <2>8. ProgramOK' /\ SlotOK'
    <3>1. ProgramOK'
      BY <1>2, <2>3, <2>4 DEF ProgramOK
    <3>2. \A m \in inside : pc[m] \in {"lead", "agree", "start"}
      <4>1. round \in Nat
        BY Basics
      <4> QED
        BY <1>2, <2>5, <4>1 DEF SlotOK, Slots, Before, After
    <3> QED
      BY <2>3, <2>4, <2>6, <3>1, <3>2 DEF SlotOK
  <2>9. \A m \in Node : pc[m] \notin {"lead", "agree"}
    BY <1>2, <2>4 DEF ProgramOK, CallsOf
  <2>10. /\ Leads = {n} /\ Leads' = IF to = "gone" THEN {} ELSE {n}
         /\ to = "gone" => Agreeing' = {}
         /\ to # "gone" => n \in Agreeing'
         /\ Agreeing \subseteq {n}
    BY <1>1, <2>3, <2>4, <2>9 DEF Leads, Agreeing
  <2>11. n \in Committee(h)
    BY <1>4, <2>4 DEF Good, RoundOK, HistoryOK
  <2>12. ~ Led
    BY <2>10 DEF Led
  <2>13. Stand[n] = "start"
    BY <2>4, <2>6
  <2> QED
    BY <2>3, <2>4, <2>5, <2>6, <2>7, <2>8, <2>10, <2>11, <2>12, <2>13
<1> QED
  BY <1>3, <1>4

\* The committee is asked to sign.
LEMMA StepLeads ==
  ASSUME NEW h, Good(h), NEW n \in Node, ConsensusBegins(n),
         \/ stage = "request" /\ Waited(n, "lead", "agree")
         \/ stage # "request" /\ Apart(n, "lead", "agree")
  PROVE  RoundOK(h)'
<1>1. /\ cons' = [cons EXCEPT ![n] =
                  [pc |-> "agree", epoch |-> e[n],
                   roster |-> CurrentSigners(n),
                   list |-> CurrentSigners(n), votes |-> {n}]]
      /\ calls' = [calls EXCEPT ![n].consensus = @ + 1]
      /\ UNCHANGED <<clock, e, storage, servers, names, epochChan, view,
                     confirmed, updating, starting, reg, announces, requests,
                     snapshots, histories>>
      /\ clock.slot # "open"
  BY DEF ConsensusBegins, MayLead, nodeVars, netVars
<1>2. /\ UNCHANGED <<round, stage, inside, client, written>>
      /\ ProgramOK' /\ HistoryOK(h)' /\ SlotOK'
      /\ Stand' = Stand /\ Late(h)' = Late(h) /\ Late(h) = {}
      /\ ~ Before /\ ~ Before' /\ ~ Led /\ n \in Leads
      /\ Leads' = Leads /\ n \in Agreeing' /\ Agreeing \subseteq Agreeing'
  <2>1. "agree" # "gone" /\ UNCHANGED clock
    BY <1>1
  <2> QED
    BY <1>1, <2>1, LeadMoves
<1>3. ~ Led'
  BY <1>2 DEF Led
<1>4. StorageOK(h)' /\ ViewOK(h)' /\ ConfirmedOK(h)'
  <2>1. UNCHANGED <<storage, e, servers, epochChan, updating, view, confirmed>>
    BY <1>1
  <2> QED
    BY <1>2, <2>1, KeepStorage, KeepView, KeepConfirmed
<1>5. RegistrationOK(h)'
  <2>1. \A m \in Node : calls'[m].register = calls[m].register
    BY <1>1 DEF Good, TypeOK, CallTypeOK, Count
  <2>2. UNCHANGED <<reg, announces, storage>>
    BY <1>1
  <2> QED
    BY <1>2, <2>1, <2>2, KeepRegistration
<1>6. CallsOK(h)'
  <2>1. \A m \in Node \ {n} : cons'[m] = cons[m]
    BY <1>1 DEF Good, TypeOK, CallTypeOK
  <2>2. UNCHANGED <<updating, starting>>
    BY <1>1
  <2> QED
    BY <1>2, <2>1, <2>2 DEF Good, RoundOK, CallsOK, NoRound
<1>7. MessagesOK(h)' /\ TokenOK(h)'
  <2>1. UNCHANGED <<requests, snapshots, histories, epochChan, storage, updating>>
    BY <1>1
  <2> QED
    BY <1>2, <1>3, <2>1, KeepMessages, KeepToken
<1> QED
  BY <1>2, <1>4, <1>5, <1>6, <1>7 DEF RoundOK

\* A vote changes the round it is cast in only.
LEMMA StepVotes ==
  ASSUME NEW h, Good(h), NEW n \in Node, NEW m \in Node, SignersAgreed(m, n),
         UNCHANGED reqVars, UNCHANGED clientVars
  PROVE  RoundOK(h)'
<1>1. /\ cons[n].pc = "agree"
      /\ cons' = [cons EXCEPT ![n].votes = @ \cup {m}]
      /\ UNCHANGED <<clock, e, storage, servers, names, epochChan, view,
                     confirmed, updating, starting, reg, calls, announces,
                     requests, snapshots, histories, round, pc, client, stage,
                     inside, written, committee, apart>>
  BY DEF SignersAgreed, nodeVars, netVars, reqVars, clientVars
<1>2. /\ Stand' = Stand /\ Late(h)' = Late(h) /\ Leads' = Leads
      /\ Agreeing' = Agreeing
  BY <1>1 DEF Stand, Late, Committee, Leads, Agreeing
<1>3. ProgramOK' /\ SlotOK'
  BY <1>1 DEF ProgramOK, SlotOK, Before, Slots, After, Over, RoundOver,
     AllReturned, LastRound, Good, RoundOK
<1>4. UNCHANGED <<clock, round, inside, stage, storage, e, servers, epochChan,
                  updating, starting, view, confirmed, reg, announces, calls,
                  requests, snapshots, histories>>
  BY <1>1
<1>5. (Before' <=> Before) /\ (Led' <=> Led) /\ \A s : Slots(s)' <=> Slots(s)
  BY <1>2, <1>4, ClockStays
<1>6. /\ HistoryOK(h)' /\ StorageOK(h)' /\ ViewOK(h)' /\ ConfirmedOK(h)'
      /\ RegistrationOK(h)' /\ MessagesOK(h)' /\ TokenOK(h)'
  BY <1>2, <1>4, <1>5, KeepHistory, KeepStorage, KeepView, KeepConfirmed,
     KeepRegistration, KeepMessages, KeepToken
<1>7. CallsOK(h)'
  <2>1. n \in Agreeing
    BY <1>1 DEF Good, RoundOK, CallsOK, NoRound
  <2>2. \A x \in Node \ {n} : cons'[x] = cons[x]
    BY <1>1 DEF Good, TypeOK, CallTypeOK
  <2> QED
    BY <1>2, <1>4, <2>1, <2>2 DEF Good, RoundOK, CallsOK, NoRound
<1> QED
  BY <1>3, <1>6, <1>7 DEF RoundOK

-----------------------------------------------------------------------------
\* When all of a round are registered, the committee stores exactly them.
LEMMA AllStored ==
  ASSUME NEW h, Good(h), \A n \in inside : Stand[n] \in Registered,
         NEW m \in Committee(h), m \in Here(h)
  PROVE  storage[m].set[round] = inside /\ storage[m].set = Whole(h)
<1>1. storage[m].set[round] = inside
  <2>1. inside \subseteq storage[m].set[round]
    BY Basics DEF Good, RoundOK, RegistrationOK
  <2>2. storage[m].set[round] \subseteq inside
    BY Basics DEF Good, RoundOK, StorageOK
  <2> QED
    BY <2>1, <2>2
<1>2. /\ storage[m].set \in [Epoch -> SUBSET Node]
      /\ \A k \in Epoch : k # round => storage[m].set[k] = h[k]
      /\ h \in [Epoch -> SUBSET Node]
  BY Informed, Basics
<1> QED
  BY <1>1, <1>2 DEF Whole

\* The committee has signed: histories leave for everybody else, and the leader
\* has its token.
LEMMA StepAgreed ==
  ASSUME NEW h, Good(h), NEW n \in Node, ConsensusReached(n),
         \/ stage = "request" /\ Waited(n, "agree", "start")
         \/ stage # "request" /\ Apart(n, "agree", "returned")
  PROVE  RoundOK(h)'
<1>1. /\ requests' = requests \cup
           {[by |-> n, to |-> t, kind |-> "push",
             call |-> <<n, calls[n].consensus>>] : t \in NewSigners(n)}
      /\ epochChan' = [epochChan EXCEPT ![n] = Append(@, e[n] + 1)]
      /\ cons' = [cons EXCEPT ![n] = NoRound]
      /\ UNCHANGED <<clock, e, storage, servers, names, view, confirmed,
                     updating, starting, reg, calls, announces, snapshots,
                     histories>>
  BY DEF ConsensusReached
<1>2. /\ UNCHANGED <<round, stage, inside, client, written>>
      /\ ProgramOK' /\ HistoryOK(h)' /\ SlotOK'
      /\ Stand' = Stand /\ Late(h)' = Late(h) /\ Late(h) = {}
      /\ n \in inside /\ n \in Committee(h) /\ Stand[n] = "start"
      /\ Slots("closing") /\ ~ Before /\ ~ Before' /\ ~ Led /\ Slots("closing")'
      /\ Leads' = {} /\ Agreeing' = {}
  <2>1. PICK to : to = "gone"
    OBVIOUS
  <2>2. \/ /\ stage = "request"
           /\ Waited(n, "agree", IF to = "gone" THEN "start" ELSE to)
        \/ /\ stage # "request"
           /\ Apart(n, "agree", IF to = "gone" THEN "returned" ELSE to)
    BY <2>1
  <2>3. UNCHANGED clock
    BY <1>1
  <2> QED
    BY <2>1, <2>2, <2>3, LeadMoves
<1>3. Led' /\ Whole(h)' = Whole(h) /\ Sent(h)' = Whole(h)
      /\ Committee(h)' = Committee(h)
  BY <1>2 DEF Led, Sent, Whole, Committee
<1>4. /\ requests = {} /\ snapshots = {} /\ histories = {}
      /\ \A m \in Node : epochChan[m] = <<>>
      /\ Here(h) = Committee(h) \cup inside
  BY <1>2, NoMail
<1>5. \A m \in inside : Stand[m] = "start"
  <2>1. clock.slot = "closing" /\ clock.epoch = round - 1 /\ round \in Nat
    BY <1>2, Basics DEF Slots
  <2> QED
    BY <1>2, <2>1, WhereWeAre DEF Before, Slots
<1>6. /\ e[n] = round - 1 /\ storage[n].set[round] = inside
      /\ storage[n].set = Whole(h) /\ round \in Nat
  BY <1>2, <1>4, <1>5, AllStored, Informed, Basics DEF Registered
<1>7. NewSigners(n) = inside \ {n}
  BY <1>6 DEF NewSigners
<1>8. epochChan'[n] = <<round>> /\ \A m \in Node \ {n} : epochChan'[m] = <<>>
  <2>1. Append(epochChan[n], e[n] + 1) = <<round>>
    <3>1. epochChan[n] = <<>> /\ e[n] + 1 = round
      BY <1>4, <1>6
    <3> QED
      BY <3>1
  <2> QED
    BY <1>1, <1>4, <2>1 DEF Good, TypeOK, NodeTypeOK
<1>9. StorageOK(h)' /\ ViewOK(h)' /\ ConfirmedOK(h)'
  <2>1. UNCHANGED <<storage, e, servers, updating, view, confirmed>>
    BY <1>1
  <2>2. \A m \in Node : m \notin Here(h) => epochChan'[m] = epochChan[m]
    BY <1>2, <1>4, <1>8
  <2> QED
    BY <1>2, <2>1, <2>2, KeepStorage, KeepView, KeepConfirmed
<1>10. RegistrationOK(h)'
  <2>1. UNCHANGED <<reg, announces, storage, calls>>
    BY <1>1
  <2> QED
    BY <1>2, <2>1, KeepRegistration
<1>11. CallsOK(h)'
  <2>2. \A m \in Node : m # n => m \notin Agreeing
    BY <1>2 DEF Good, RoundOK, ProgramOK, Agreeing, Apart, Waited, GoTo, clientVars, reqVars
  <2>3. cons'[n] = NoRound /\ \A m \in Node \ {n} : cons'[m] = cons[m]
    BY <1>1 DEF Good, TypeOK, CallTypeOK
  <2>4. UNCHANGED <<updating, starting>>
    BY <1>1
  <2> QED
    BY <1>2, <2>2, <2>3, <2>4 DEF Good, RoundOK, CallsOK, NoRound
<1>12. MessagesOK(h)'
  <2>1. ASSUME NEW q \in requests'
        PROVE  q.by = n /\ q.to \in inside \ {n}
    BY <1>1, <1>4, <1>7
  <2>2. \A q, p \in requests' : q.to = p.to => q = p
    BY <1>1, <1>4
  <2>3. ASSUME NEW q \in requests' PROVE DeliveryOK(h, q)'
    BY <1>2, <1>3, <1>8, <2>1, Basics DEF DeliveryOK
  <2>4. snapshots' = {} /\ histories' = {}
    BY <1>1, <1>4
  <2> QED
    BY <2>2, <2>3, <2>4 DEF MessagesOK, Read, Mailed
<1>13. TokenOK(h)'
  <2>1. ASSUME NEW m \in inside \ {n} PROVE m \in Asked'
    <3>1. PICK q : q = [by |-> n, to |-> m, kind |-> "push",
                        call |-> <<n, calls[n].consensus>>]
      OBVIOUS
    <3>2. q \in requests' /\ q.to = m
      BY <1>1, <1>7, <3>1
    <3> QED
      BY <3>2 DEF Asked
  <2>2. storage'[n].set = Whole(h)'
    BY <1>1, <1>3, <1>6
  <2>3. ASSUME NEW m \in Node, m # n
        PROVE  /\ epochChan'[m] = <<>>
               /\ Stand'[m] \in {"start", "token"} => m \in Asked'
    BY <1>2, <1>8, <2>1, <2>3 DEF Stand
  <2>4. Stand'[n] = "start" /\ round' = round
    BY <1>2
  <2> QED
    BY <1>3, <1>8, <2>2, <2>3, <2>4 DEF TokenOK
<1> QED
  BY <1>2, <1>9, <1>10, <1>11, <1>12, <1>13 DEF RoundOK

-----------------------------------------------------------------------------
\* The start waits for its token.
LEMMA StepStarts ==
  ASSUME NEW h, Good(h), NEW n \in Node,
         StartBegins(n), Waited(n, "start", "token")
  PROVE  RoundOK(h)'
<1>1. /\ clock.slot = "live"
      /\ starting' = [starting EXCEPT ![n] = @ + 1]
      /\ UNCHANGED <<clock, e, storage, servers, names, epochChan, view,
                     confirmed, updating, reg, cons, calls, announces,
                     requests, snapshots, histories>>
  BY DEF StartBegins, nodeVars, netVars
<1>2. pc[n] = "start"
  BY DEF Waited, GoTo
<1>3. /\ n \in inside /\ stage \in {"request", "start"} /\ Stand[n] = "start"
  BY <1>2, StandIs DEF CallsOf, Stand
<1>4. Slots("live") /\ Led /\ ~ Before /\ Leads = {}
  <2>1. ~ Over
    BY <1>2 DEF Over, RoundOver, AllReturned
  <2> QED
    BY <1>1, <1>3, <2>1, WhereWeAre DEF Unregistered
<1>5. /\ pc'[n] = "token"
      /\ \A m \in Node \ {n} : pc'[m] = pc[m] /\ Stand'[m] = Stand[m]
      /\ UNCHANGED <<round, stage, inside, client, written, apart>>
      /\ ProgramOK' /\ HistoryOK(h)' /\ SlotOK'
      /\ Stand'[n] = "token"
      /\ Late(h)' = Late(h) \ {n}
  <2>1. "token" \in CallsOf(stage) \ {"update"}
    BY <1>3 DEF CallsOf
  <2> QED
    BY <1>1, <1>3, <1>4, <2>1, CallMoves, SlotMoves
<1>6. Late(h) = {} /\ Late(h)' = Late(h) /\ Leads' = Leads /\ Agreeing' = Agreeing
  BY <1>2, <1>4, <1>5, NoMail DEF Leads, Agreeing
<1>7. UNCHANGED <<clock, e, storage, servers, names, epochChan, view,
                  confirmed, updating, reg, cons, calls, announces,
                  requests, snapshots, histories, round, stage, inside>>
  BY <1>1, <1>5
<1>8. ~ Before' /\ (Led' <=> Led) /\ ~ Slots("closing")
  <2>1. ~ Slots("closing")
    BY <1>4 DEF Slots
  <2> QED
    BY <1>4, <1>6, <1>7, <2>1, ClockStays
<1>9. \A m \in Node : \/ Stand[m] = Stand'[m]
                      \/ Stand[m] = "start" /\ Stand'[m] = "token"
  BY <1>3, <1>5
<1>10. StorageOK(h)' /\ ViewOK(h)' /\ ConfirmedOK(h)' /\ RegistrationOK(h)'
  BY <1>6, <1>7, <1>9, KeepStorage, KeepView, KeepConfirmed, KeepRegistration
  DEF Unregistered, Registered
<1>11. CallsOK(h)'
  <2>1. /\ starting[n] = 0 /\ starting'[n] = 1
        /\ \A m \in Node \ {n} : starting'[m] = starting[m]
    BY <1>1, <1>3 DEF Good, RoundOK, CallsOK, TypeOK, CallTypeOK
  <2> QED
    BY <1>5, <1>6, <1>7, <2>1 DEF Good, RoundOK, CallsOK, NoRound
<1>12. MessagesOK(h)' /\ TokenOK(h)'
  BY <1>4, <1>6, <1>7, <1>8, <1>9, KeepMessages, KeepToken
<1> QED
  BY <1>5, <1>10, <1>11, <1>12 DEF RoundOK

\* The token is that of the round, and the history that came with it, or that
\* the committee kept, has exactly those who were called, whether Setup returns
\* or not.
LEMMA StepStarted ==
  ASSUME NEW h, Good(h), NEW n \in Node, NEW to \in {"returned", "setup"},
         StartSucceeds(n), Waited(n, "token", to)
  PROVE  RoundOK(h)'
<1>1. pc[n] = "token"
  BY DEF Waited, GoTo
<1>2. /\ n \in inside /\ stage \in {"request", "start"} /\ Stand[n] = "token"
  BY <1>1, StandIs DEF CallsOf, Stand
<1>3. Slots("live") /\ Led /\ ~ Before /\ Leads = {} /\ ~ Slots("closing")
  <2>1. ~ Over
    BY <1>1 DEF Over, RoundOver, AllReturned
  <2> QED
    BY <1>2, <2>1, WhereWeAre DEF Unregistered, Slots
<1>4. /\ Late(h) = {} /\ Here(h) = Committee(h) \cup inside
      /\ requests = {} /\ snapshots = {} /\ histories = {}
  BY <1>3, NoMail
<1>5. epochChan[n] = <<round>> /\ storage[n].set = Whole(h)
  BY <1>2, <1>3, <1>4 DEF Good, RoundOK, TokenOK, Asked, Read, Mailed, Updated
<1>6. storage[n].set[round] = inside /\ round \in Epoch
  BY <1>5, Basics DEF Whole
<1>7. /\ e' = [e EXCEPT ![n] = round]
      /\ epochChan' = [epochChan EXCEPT ![n] = <<>>]
      /\ view' = [view EXCEPT ![n] = [epoch |-> round, members |-> inside]]
      /\ starting' = [starting EXCEPT ![n] = @ - 1]
      /\ UNCHANGED <<clock, storage, servers, names, confirmed, updating, reg,
                     cons, calls, announces, requests, snapshots, histories>>
  <2>1. PICK k \in Epoch :
          /\ TokenTaken(n, k)
          /\ view' = [view EXCEPT ![n] =
                        [epoch |-> k, members |-> storage[n].set[k]]]
          /\ starting' = [starting EXCEPT ![n] = @ - 1]
          /\ UNCHANGED storage
    BY DEF StartSucceeds
  <2>2. k = round /\ epochChan' = [epochChan EXCEPT ![n] = <<>>]
    BY <1>5, <2>1 DEF TokenTaken
  <2> QED
    BY <1>6, <2>1, <2>2 DEF TokenTaken, netVars
<1>8. /\ pc'[n] = to
      /\ \A m \in Node \ {n} : pc'[m] = pc[m] /\ Stand'[m] = Stand[m]
      /\ UNCHANGED <<round, stage, inside, client, written, apart>>
      /\ ProgramOK' /\ HistoryOK(h)' /\ SlotOK'
      /\ Stand'[n] = "done"
      /\ Late(h)' = Late(h) \ {n}
  <2>1. to \in CallsOf(stage) \ {"update"}
    BY <1>2 DEF CallsOf
  <2> QED
    BY <1>2, <1>3, <1>7, <2>1, CallMoves, SlotMoves
<1>9. Late(h)' = {} /\ Leads' = Leads /\ Agreeing' = Agreeing
  BY <1>1, <1>3, <1>4, <1>8 DEF Leads, Agreeing
<1>10. ~ Before' /\ (Led' <=> Led)
  <2>1. UNCHANGED <<clock, round>>
    BY <1>7, <1>8
  <2> QED
    BY <1>3, <1>9, <2>1, ClockStays
<1>11. /\ e'[n] = round /\ epochChan'[n] = <<>>
       /\ view'[n] = [epoch |-> round, members |-> inside]
       /\ starting'[n] = 0
       /\ \A m \in Node \ {n} : /\ e'[m] = e[m] /\ view'[m] = view[m]
                                /\ epochChan'[m] = epochChan[m]
                                /\ starting'[m] = starting[m]
  <2>1. starting[n] = 1
    BY <1>2 DEF Good, RoundOK, CallsOK
  <2> QED
    BY <1>7, <2>1 DEF Good, TypeOK, NodeTypeOK, CallTypeOK
<1>12. Here(h)' = Here(h) /\ n \in Here(h)
  BY <1>2, <1>4, <1>8, <1>9 DEF Here, Committee
<1>13. UNCHANGED <<clock, storage, servers, names, confirmed, updating, reg,
                   cons, calls, announces, requests, snapshots, histories,
                   round, stage, inside>>
  BY <1>7, <1>8
<1>14. StorageOK(h)'
  <2>1. StorageOK(h)
    BY DEF Good, RoundOK
  <2>2. UpToHistory(h, n)'
    BY <1>6, <1>8, <1>11, <1>12, <1>13, <2>1 DEF StorageOK, UpToHistory
  <2>3. ASSUME NEW m \in Node \ {n}
        PROVE  IF m \in Here(h)' THEN UpToHistory(h, m)'
               ELSE BehindHistory(h, m)'
    <3>1. UpToHistory(h, m) => UpToHistory(h, m)'
      BY <1>8, <1>11, <1>13 DEF UpToHistory
    <3>2. Pristine(m) => Pristine(m)'
      BY <1>11, <1>13 DEF Pristine
    <3>3. ~ Updated(h, m)
      BY <1>4 DEF Updated
    <3>4. BehindHistory(h, m) => BehindHistory(h, m)'
      BY <1>11, <1>13, <3>2, <3>3 DEF BehindHistory
    <3> QED
      BY <1>12, <2>1, <3>1, <3>4 DEF StorageOK
  <2>4. \A x \in Node : Stand[x] \notin Unregistered => Stand'[x] \notin Unregistered
    BY <1>8 DEF Unregistered
  <2>5. ASSUME NEW m \in Node
        PROVE  /\ ~ storage'[m].locked
               /\ \A x \in storage'[m].set[round'] :
                    x \in inside' /\ Stand'[x] \notin Unregistered
               /\ \A k \in 1 .. round' - 1 :
                    /\ storage'[m].set[k] \in {{}, h[k]}
                    /\ m \in h[k - 1] => storage'[m].set[k] = h[k]
    BY <1>13, <2>1, <2>4, Basics DEF StorageOK
  <2> QED
    BY <1>12, <2>2, <2>3, <2>5 DEF StorageOK, Unregistered
<1>15. ViewOK(h)'
  BY <1>8, <1>11, <1>13 DEF Good, RoundOK, ViewOK, NoView
<1>16. ConfirmedOK(h)' /\ RegistrationOK(h)'
  <2>1. \A m \in Node : \/ Stand'[m] = Stand[m]
                        \/ Stand[m] = "token" /\ Stand'[m] = "done"
    BY <1>2, <1>8
  <2> QED
    BY <1>13, <2>1, KeepConfirmed, KeepRegistration DEF Registered
<1>17. CallsOK(h)'
  BY <1>4, <1>8, <1>9, <1>11, <1>13 DEF Good, RoundOK, CallsOK, NoRound
<1>18. MessagesOK(h)'
  BY <1>4, <1>13 DEF MessagesOK, Asked, Read, Mailed
<1>19. TokenOK(h)'
  <2>1. TokenOK(h) /\ Whole(h)' = Whole(h)
    BY <1>13 DEF Good, RoundOK, Whole
  <2>2. Asked' = Asked /\ Read' = Read /\ Mailed' = Mailed
    BY <1>13 DEF Asked, Read, Mailed
  <2>3. \A m \in Node : ~ Updated(h, m)
    BY <1>4 DEF Updated
  <2> QED
    BY <1>3, <1>8, <1>10, <1>11, <1>13, <2>1, <2>2, <2>3 DEF TokenOK
<1> QED
  BY <1>8, <1>14, <1>15, <1>16, <1>17, <1>18, <1>19 DEF RoundOK

-----------------------------------------------------------------------------
(***************************************************************************)
(* The handlers of the messages.                                           *)
(***************************************************************************)

\* A handler changes neither the program nor where anybody stands.
LEMMA Serving ==
  ASSUME NEW h, Good(h), UNCHANGED clock, UNCHANGED reqVars,
         UNCHANGED clientVars
  PROVE  /\ UNCHANGED <<clock, round, pc, client, stage, inside, apart>>
         /\ ProgramOK' /\ SlotOK' /\ HistoryOK(h)'
         /\ Stand' = Stand /\ Late(h)' = Late(h) /\ Here(h)' = Here(h)
         /\ Committee(h)' = Committee(h) /\ Whole(h)' = Whole(h)
         /\ Sent(h)' = Sent(h)
         /\ Leads' = Leads /\ Agreeing' = Agreeing
         /\ (Before' <=> Before) /\ (Led' <=> Led)
         /\ \A s : Slots(s)' <=> Slots(s)
<1>1. UNCHANGED <<clock, round, pc, client, stage, inside, written, committee,
                  apart>>
  BY DEF reqVars, clientVars
<1>2. ProgramOK' /\ SlotOK'
  BY <1>1 DEF ProgramOK, SlotOK, Before, Slots, After, Over, RoundOver,
     AllReturned, LastRound, Good, RoundOK
<1>3. /\ Stand' = Stand /\ Late(h)' = Late(h) /\ Leads' = Leads
      /\ Agreeing' = Agreeing /\ Committee(h)' = Committee(h)
  BY <1>1 DEF Stand, Late, Committee, Leads, Agreeing
<1>4. Here(h)' = Here(h) /\ Whole(h)' = Whole(h)
  BY <1>1, <1>3 DEF Here, Whole
<1>5. (Before' <=> Before) /\ (Led' <=> Led) /\ \A s : Slots(s)' <=> Slots(s)
  BY <1>1, <1>3, ClockStays
<1>6. Sent(h)' = Sent(h)
  BY <1>4, <1>5 DEF Sent
<1>7. HistoryOK(h)'
  BY <1>1, KeepHistory
<1> QED
  BY <1>1, <1>2, <1>3, <1>4, <1>5, <1>6, <1>7

\* Where a registration is under way.
LEMMA Asking ==
  ASSUME NEW h, Good(h), NEW n \in Node, Stand[n] = "gossip"
  PROVE  /\ n \in inside /\ Slots("open") /\ clock.slot = "open"
         /\ clock.epoch = round - 1
         /\ ~ Led /\ ~ Before /\ ~ Slots("closing") /\ Late(h) = {}
         /\ Here(h) = Committee(h) \cup inside
         /\ AskingOK(h, n) /\ e[n] = round - 1
<1>1. n \in inside
  BY StandIs
<1>2. /\ Slots("open") /\ clock.slot = "open" /\ ~ Led /\ ~ Before
      /\ clock.epoch = round - 1 /\ ~ Slots("closing")
  BY <1>1, WhereWeAre DEF Unregistered, Slots
<1>3. Late(h) = {} /\ Here(h) = Committee(h) \cup inside
  BY <1>2, NoMail
<1>4. AskingOK(h, n)
  BY DEF Good, RoundOK, RegistrationOK
<1>5. e[n] = round - 1
  BY <1>1, <1>3, Informed
<1> QED
  BY <1>1, <1>2, <1>3, <1>4, <1>5

\* The signature round is over, and the gossip starts at its root.
LEMMA StepSigned ==
  ASSUME NEW h, Good(h), NEW n \in Node, SignatureReturns(n),
         UNCHANGED reqVars, UNCHANGED clientVars
  PROVE  RoundOK(h)'
<1>1. /\ reg[n].pc = "cosi"
      /\ announces' = announces \cup
           {[from |-> n, to |-> n, epoch |-> Announced(n),
             roster |-> reg[n].roster, call |-> calls[n].register]}
      /\ reg' = [reg EXCEPT ![n].pc = "gossip"]
      /\ UNCHANGED <<clock, e, storage, servers, names, epochChan, view,
                     confirmed, updating, starting, cons, calls, requests,
                     snapshots, histories>>
  BY DEF SignatureReturns, nodeVars
<1>2. PICK a : a = [from |-> n, to |-> n, epoch |-> Announced(n),
                    roster |-> reg[n].roster, call |-> calls[n].register]
  OBVIOUS
<1>3. RegistrationOK(h) /\ reg \in [Node -> Registration]
  BY DEF Good, RoundOK, TypeOK, CallTypeOK
<1>4. Stand[n] = "gossip"
  BY <1>1, <1>3 DEF RegistrationOK, Idle
<1>5. AskingOK(h, n) /\ e[n] = round - 1 /\ round \in Nat
  BY <1>4, Asking, Basics
<1>6. /\ a.from = n /\ a.to = n /\ a.epoch = round
      /\ a.roster = reg[n].roster /\ a.call = calls[n].register
  BY <1>2, <1>5 DEF Announced
<1>7. /\ reg'[n].pc = "gossip"
      /\ reg'[n].epoch = reg[n].epoch /\ reg'[n].roster = reg[n].roster
      /\ reg'[n].stored = {} /\ reg'[n].refused = reg[n].refused
      /\ \A m \in Node \ {n} : reg'[m] = reg[m]
  BY <1>1, <1>3, <1>5 DEF AskingOK, Registration
<1>8. \A b \in announces : b.from # n
  BY <1>1, <1>3 DEF RegistrationOK, AnnounceOK
<1>9. /\ ProgramOK' /\ SlotOK' /\ HistoryOK(h)' /\ Stand' = Stand
      /\ Late(h)' = Late(h) /\ Leads' = Leads /\ Agreeing' = Agreeing
      /\ Committee(h)' = Committee(h) /\ UNCHANGED <<round, inside, stage>>
      /\ (Before' <=> Before) /\ (Led' <=> Led)
      /\ \A s : Slots(s)' <=> Slots(s)
  <2>1. UNCHANGED clock
    BY <1>1
  <2> QED
    BY <2>1, Serving
<1>10. /\ StorageOK(h)' /\ ViewOK(h)' /\ ConfirmedOK(h)' /\ CallsOK(h)'
       /\ MessagesOK(h)' /\ TokenOK(h)'
  <2>1. UNCHANGED <<e, storage, servers, names, epochChan, view,
                    confirmed, updating, starting, cons, calls, requests,
                    snapshots, histories>>
    BY <1>1
  <2> QED
    BY <1>9, <2>1, KeepStorage, KeepView, KeepConfirmed, KeepCalls,
       KeepMessages, KeepToken
<1>11. RegistrationOK(h)'
  <2>1. announces' = announces \cup {a} /\ UNCHANGED <<storage, calls>>
    BY <1>1, <1>2
  <2>2. AskingOK(h, n)'
    BY <1>5, <1>6, <1>7, <1>9, <2>1 DEF AskingOK
  <2>3. ASSUME NEW m \in Node \ {n}, AskingOK(h, m) PROVE AskingOK(h, m)'
    BY <1>7, <1>9, <2>1, <2>3 DEF AskingOK
  <2>4. AnnounceOK(a)'
    <3>1. a.to \in reg[n].roster
      BY <1>5, <1>6 DEF AskingOK
    <3> QED
      BY <1>4, <1>6, <1>7, <1>8, <1>9, <2>1, <3>1 DEF AnnounceOK
  <2>5. ASSUME NEW b \in announces PROVE AnnounceOK(b)'
    <3>1. AnnounceOK(b) /\ b.from \in Node \ {n}
      BY <1>3, <1>8 DEF RegistrationOK, Good, TypeOK, NetTypeOK, Announce
    <3> QED
      BY <1>6, <1>7, <1>9, <2>1, <3>1 DEF AnnounceOK
  <2>6. \A m \in Node : IF Stand'[m] = "gossip" THEN AskingOK(h, m)'
                        ELSE reg'[m] = Idle
    BY <1>3, <1>4, <1>7, <1>9, <2>2, <2>3 DEF RegistrationOK
  <2>7. \A m \in Node : Stand'[m] \in Registered =>
          \A x \in Committee(h) : m \in storage'[x].set[round']
    BY <1>3, <1>9, <2>1 DEF RegistrationOK
  <2> QED
    BY <1>9, <2>1, <2>4, <2>5, <2>6, <2>7
    DEF RegistrationOK, Idle, Registered
<1> QED
  BY <1>9, <1>10, <1>11 DEF RoundOK

\* An announce finds a node that is neither behind nor ahead of it.
LEMMA AnnounceMeets ==
  ASSUME NEW h, Good(h), NEW m \in announces, NEW n, n = m.to
  PROVE  /\ m.from \in Node /\ Stand[m.from] = "gossip" /\ AnnounceOK(m)
         /\ n \in Here(h) /\ n \in Node /\ m.epoch = round /\ e[n] = round - 1
         /\ ~ storage[n].locked /\ ~ TooFuture(n, m.epoch)
         /\ ~ Refused(n, m.epoch) /\ ~ NilMap(n, m.epoch)
<1>1. /\ AnnounceOK(m) /\ m.from \in Node
  BY DEF Good, RoundOK, RegistrationOK, TypeOK, NetTypeOK, Announce
<1>2. Stand[m.from] = "gossip" /\ m.epoch = round /\ m.to \in reg[m.from].roster
  BY <1>1 DEF AnnounceOK
<1>3. /\ m.from \in inside /\ clock.slot = "open" /\ clock.epoch = round - 1
      /\ Here(h) = Committee(h) \cup inside /\ AskingOK(h, m.from)
      /\ Slots("open")
  BY <1>1, <1>2, Asking
<1>4. n \in Here(h)
  BY <1>2, <1>3 DEF AskingOK
<1>5. Stand[n] # "done"
  <2>1. \A x \in inside : Stand[x] # "done"
    <3>1. ~ Before /\ round \in Nat
      BY <1>1, <1>2, Asking, Basics
    <3> QED
      BY <1>3, <3>1, WhereWeAre
  <2> QED
    BY <2>1, <1>4, StandIs, Basics
<1>6. /\ n \in Node /\ e[n] = round - 1 /\ ~ storage[n].locked
      /\ storage[n].gaps = {} /\ storage[n].len \in {round, round + 1}
      /\ round \in Nat
  BY <1>4, <1>5, Informed, Basics
<1>7. ~ TooFuture(n, m.epoch) /\ ~ NilMap(n, m.epoch)
  BY <1>2, <1>6 DEF TooFuture, NilMap
<1>8. ~ Refused(n, m.epoch)
  BY <1>2, <1>3, <1>6 DEF Refused, TooLate
<1> QED
  BY <1>1, <1>2, <1>4, <1>6, <1>7, <1>8

-----------------------------------------------------------------------------
\* The committee member stores the registration and confirms it, and the root
\* passes it on to the others.
LEMMA StepStores ==
  ASSUME NEW h, Good(h), NEW n \in Node, AnnounceStored(n),
         UNCHANGED reqVars, UNCHANGED clientVars
  PROVE  RoundOK(h)'
<1>1. PICK m \in announces :
        /\ m.to = n
        /\ servers' = [servers EXCEPT ![n] = @ \cup {m.from}]
        /\ storage' = [storage EXCEPT ![n] = Stored(n, m)]
        /\ reg' = IF Awaited(m)
                  THEN [reg EXCEPT ![m.from].stored = @ \cup {n}] ELSE reg
        /\ announces' = (announces \ {m}) \cup PassedOn(m)
        /\ UNCHANGED <<clock, e, epochChan, view, confirmed, updating,
                       starting, cons, calls, requests, snapshots, histories>>
  BY DEF AnnounceStored, LearnServer
<1>2. PICK f : f = m.from
  OBVIOUS
<1>3. /\ f \in Node /\ Stand[f] = "gossip" /\ AnnounceOK(m)
      /\ n \in Here(h) /\ m.epoch = round /\ e[n] = round - 1
      /\ ~ storage[n].locked
  BY <1>1, <1>2, AnnounceMeets
<1>4. /\ f \in inside /\ Slots("open") /\ ~ Led /\ ~ Before
      /\ ~ Slots("closing") /\ Late(h) = {}
      /\ Here(h) = Committee(h) \cup inside /\ AskingOK(h, f)
  BY <1>3, Asking
<1>5. RegistrationOK(h) /\ StorageOK(h) /\ round \in Epoch /\ round \in Nat
  BY Basics DEF Good, RoundOK
<1>6. /\ m.to = n /\ m.from = f /\ m.roster = reg[f].roster
      /\ m.call = calls[f].register /\ reg[f].pc = "gossip"
      /\ n \in reg[f].roster \ reg[f].stored
      /\ n = f => reg[f].stored = {} /\ \A b \in announces : b.from = f => b = m
  BY <1>1, <1>2, <1>3 DEF AnnounceOK
<1>7. /\ \A x \in Node \ {f} : reg'[x] = reg[x]
      /\ reg'[f].stored = reg[f].stored \cup {n}
      /\ reg'[f].pc = "gossip" /\ reg'[f].epoch = reg[f].epoch
      /\ reg'[f].roster = reg[f].roster /\ reg'[f].refused = reg[f].refused
  <2>1. Awaited(m)
    BY <1>6 DEF Awaited
  <2>2. reg' = [reg EXCEPT ![f].stored = @ \cup {n}]
    BY <1>1, <1>2, <2>1
  <2> QED
    BY <1>3, <1>6, <2>2 DEF Good, TypeOK, CallTypeOK, Registration
<1>8. /\ \A x \in Node \ {n} : storage'[x] = storage[x]
      /\ ~ storage'[n].locked /\ storage'[n].gaps = storage[n].gaps
      /\ storage'[n].len = IF storage[n].len = round THEN round + 1
                           ELSE storage[n].len
      /\ storage'[n].set[round] = storage[n].set[round] \cup {f}
      /\ \A k \in Epoch : k # round => storage'[n].set[k] = storage[n].set[k]
  <2>1. storage \in [Node -> Store]
    BY DEF Good, TypeOK, NodeTypeOK
  <2>2. /\ storage'[n] = Stored(n, m)
        /\ \A x \in Node \ {n} : storage'[x] = storage[x]
    BY <1>1, <2>1
  <2>3. /\ Stored(n, m).locked = storage[n].locked
        /\ Stored(n, m).gaps = storage[n].gaps
        /\ Stored(n, m).len = IF storage[n].len = round THEN round + 1
                              ELSE storage[n].len
        /\ Stored(n, m).set = [storage[n].set EXCEPT ![round] = @ \cup {f}]
    BY <1>2, <1>3, <2>1 DEF Stored, Extended, Store
  <2>4. storage[n].set \in [Epoch -> SUBSET Node]
    BY <2>1 DEF Store, History
  <2> QED
    BY <1>3, <1>5, <2>2, <2>3, <2>4
<1>9. /\ ProgramOK' /\ SlotOK' /\ HistoryOK(h)' /\ Stand' = Stand
      /\ Late(h)' = Late(h) /\ Leads' = Leads /\ Agreeing' = Agreeing
      /\ Committee(h)' = Committee(h) /\ Here(h)' = Here(h)
      /\ UNCHANGED <<round, inside, stage>>
      /\ (Before' <=> Before) /\ (Led' <=> Led)
      /\ \A s : Slots(s)' <=> Slots(s)
  <2>1. UNCHANGED clock
    BY <1>1
  <2> QED
    BY <2>1, Serving
<1>10. UNCHANGED <<clock, e, epochChan, view, confirmed, updating, starting,
                   cons, calls, requests, snapshots, histories>>
  BY <1>1
<1>11. /\ ViewOK(h)' /\ ConfirmedOK(h)' /\ CallsOK(h)' /\ MessagesOK(h)'
  BY <1>9, <1>10, KeepView, KeepConfirmed, KeepCalls, KeepMessages
<1>12. TokenOK(h)'
  <2>1. \A x \in Node : epochChan'[x] = <<>>
    BY <1>4, <1>10, NoMail
  <2> QED
    BY <1>4, <1>9, <2>1 DEF TokenOK
<1>13. StorageOK(h)'
  <2>1. UpToHistory(h, n)'
    <3>1. UpToHistory(h, n)
      BY <1>3, <1>5 DEF StorageOK
    <3>2. storage'[n].set[round] # {} /\ storage'[n].len = round + 1
      BY <1>5, <1>8, <3>1 DEF UpToHistory
    <3>3. Stand[n] # "done"
      BY <1>3, <1>5, <3>1 DEF UpToHistory
    <3> QED
      BY <1>8, <1>9, <1>10, <3>1, <3>2, <3>3 DEF UpToHistory
  <2>2. ASSUME NEW x \in Node \ {n}
        PROVE  IF x \in Here(h)' THEN UpToHistory(h, x)'
               ELSE BehindHistory(h, x)'
    <3>1. UpToHistory(h, x) => UpToHistory(h, x)'
      BY <1>8, <1>9, <1>10 DEF UpToHistory
    <3>2. servers'[x] = servers[x]
      BY <1>1 DEF Good, TypeOK, NodeTypeOK
    <3>3. Pristine(x) => Pristine(x)'
      BY <1>8, <1>10, <3>2 DEF Pristine
    <3>4. ~ Updated(h, x)
      BY <1>4 DEF Updated
    <3>5. BehindHistory(h, x) => BehindHistory(h, x)'
      BY <1>8, <1>9, <1>10, <3>3, <3>4 DEF BehindHistory
    <3> QED
      BY <1>5, <1>9, <3>1, <3>5 DEF StorageOK
  <2>3. ASSUME NEW x \in Node
        PROVE  /\ ~ storage'[x].locked
               /\ \A y \in storage'[x].set[round] :
                    y \in inside /\ Stand[y] \notin Unregistered
               /\ \A k \in 1 .. round - 1 :
                    /\ storage'[x].set[k] \in {{}, h[k]}
                    /\ x \in h[k - 1] => storage'[x].set[k] = h[k]
    <3>1. Stand[f] \notin Unregistered
      BY <1>3 DEF Unregistered
    <3>2. CASE x = n
      <4>1. \A k \in 1 .. round - 1 : k \in Epoch /\ k # round
        BY <1>5, MaxEpochAssumption DEF Epoch
      <4> QED
        BY <1>4, <1>5, <1>8, <3>1, <3>2, <4>1 DEF StorageOK
    <3>3. CASE x # n
      BY <1>5, <1>8, <3>3 DEF StorageOK
    <3> QED
      BY <3>2, <3>3
  <2> QED
    BY <1>3, <1>9, <2>1, <2>2, <2>3 DEF StorageOK, Unregistered
<1>14. RegistrationOK(h)'
  <2>1. \A x \in Node : storage[x].set[round] \subseteq storage'[x].set[round]
    BY <1>8
  <2>2. PICK new : new = PassedOn(m)
    OBVIOUS
  <2>3. announces' = (announces \ {m}) \cup new
    BY <1>1, <2>2
  <2>4. announces \subseteq Announce /\ m \in Announce
    BY DEF Good, TypeOK, NetTypeOK
  <2>5. ASSUME NEW b \in new
        PROVE  /\ n = f /\ b.from = f /\ b.to \in reg[f].roster \ {f}
               /\ b.epoch = round /\ b.call = m.call /\ b.roster = m.roster
    <3>1. n = f
      BY <1>6, <2>2 DEF PassedOn
    <3>2. PICK c \in m.roster \ {m.from} : b = [m EXCEPT !.to = c]
      BY <1>6, <2>2, <3>1 DEF PassedOn
    <3> QED
      BY <1>3, <1>6, <2>4, <3>1, <3>2 DEF Announce
  <2>6. ASSUME NEW b \in announces, b # m, b.from = f PROVE b.to # n /\ b.to # f
    <3>1. AnnounceOK(b) /\ b \in Announce
      BY <1>5, <2>4 DEF RegistrationOK
    <3>2. b.roster = m.roster /\ b.call = m.call /\ b.epoch = m.epoch
      BY <1>3, <1>6, <2>6, <3>1 DEF AnnounceOK
    <3>3. b.to # n
      BY <1>6, <2>4, <2>6, <3>1, <3>2 DEF Announce
    <3>4. b.to # f
      BY <1>2, <2>6, <3>1 DEF AnnounceOK
    <3> QED
      BY <3>3, <3>4
  <2>7. ASSUME NEW b \in announces, b # m PROVE AnnounceOK(b)'
    <3>1. AnnounceOK(b) /\ b.from \in Node
      BY <1>5, <2>4 DEF RegistrationOK, Announce
    <3>2. CASE b.from = f
      BY <1>7, <1>9, <1>10, <2>6, <2>7, <3>1, <3>2 DEF AnnounceOK
    <3>3. CASE b.from # f
      <4>1. reg'[b.from] = reg[b.from]
        BY <1>7, <3>1, <3>3
      <4>2. \A c \in announces' : c.from = b.from => c \in announces
        BY <2>3, <2>5, <3>3
      <4> QED
        BY <1>9, <1>10, <3>1, <4>1, <4>2 DEF AnnounceOK
    <3> QED
      BY <3>2, <3>3
  <2>8. ASSUME NEW b \in new PROVE AnnounceOK(b)'
    <3>1. reg[f].stored = {} /\ reg'[f].stored = {f} /\ b.to # b.from
      BY <1>6, <1>7, <2>5
    <3>2. /\ b.from = f /\ Stand'[f] = "gossip" /\ reg'[f].pc = "gossip"
          /\ b.epoch = round' /\ b.roster = reg'[f].roster
          /\ b.to \in reg'[f].roster \ reg'[f].stored
      BY <1>3, <1>6, <1>7, <1>9, <2>5, <3>1
    <3>3. b.call = calls'[f].register
      BY <1>6, <1>10, <2>5
    <3> QED
      BY <3>1, <3>2, <3>3 DEF AnnounceOK
  <2>9. AskingOK(h, f)'
    <3>1. \A x \in reg'[f].stored : f \in storage'[x].set[round]
      <4>1. reg[f].stored \subseteq Node
        BY <1>3 DEF Good, TypeOK, CallTypeOK, Registration
      <4> QED
        BY <1>4, <1>7, <1>8, <2>1, <4>1 DEF AskingOK
    <3> QED
      BY <1>4, <1>6, <1>7, <1>9, <3>1 DEF AskingOK
  <2>10. ASSUME NEW x \in Node \ {f}, AskingOK(h, x) PROVE AskingOK(h, x)'
    <3>1. \A a \in announces : a.from = x => a \in announces'
      BY <1>2, <2>3
    <3>2. \A y \in reg[x].stored : y \in Node /\ x \in storage'[y].set[round]
      BY <2>1, <2>10 DEF AskingOK, Good, TypeOK, CallTypeOK, Registration
    <3> QED
      BY <1>7, <1>9, <2>10, <3>1, <3>2 DEF AskingOK
  <2>11. \A x \in Node : IF Stand'[x] = "gossip" THEN AskingOK(h, x)'
                         ELSE reg'[x] = Idle
    BY <1>3, <1>5, <1>7, <1>9, <2>9, <2>10 DEF RegistrationOK
  <2>12. \A x \in Node : Stand'[x] \in Registered =>
           \A y \in Committee(h) : x \in storage'[y].set[round]
    BY <1>5, <1>9, <2>1, Basics DEF RegistrationOK
  <2>13. \A b \in announces' : AnnounceOK(b)'
    BY <2>3, <2>7, <2>8
  <2> QED
    BY <1>9, <2>11, <2>12, <2>13 DEF RegistrationOK, Idle, Registered
<1> QED
  BY <1>9, <1>11, <1>12, <1>13, <1>14 DEF RoundOK

-----------------------------------------------------------------------------
\* A handler that only takes a message a step further on its way.
LEMMA StepPasses ==
  ASSUME NEW h, Good(h), UNCHANGED reqVars, UNCHANGED clientVars,
         UNCHANGED <<clock, nodeVars, callVars, announces>>,
         MessagesOK(h)',
         Asked' \cup Read' \cup Mailed' = Asked \cup Read \cup Mailed
  PROVE  RoundOK(h)'
<1>1. UNCHANGED <<clock, e, storage, servers, names, epochChan, view,
                  confirmed, updating, starting, reg, cons, calls, announces>>
  BY DEF nodeVars, callVars
<1>2. /\ ProgramOK' /\ SlotOK' /\ HistoryOK(h)' /\ Stand' = Stand
      /\ Late(h)' = Late(h) /\ Agreeing' = Agreeing /\ Whole(h)' = Whole(h)
      /\ UNCHANGED <<round, inside, stage>> /\ (Led' <=> Led)
  BY <1>1, Serving
<1>3. /\ StorageOK(h)' /\ ViewOK(h)' /\ ConfirmedOK(h)' /\ CallsOK(h)'
      /\ RegistrationOK(h)'
  BY <1>1, <1>2, KeepStorage, KeepView, KeepConfirmed, KeepCalls,
     KeepRegistration
<1>4. TokenOK(h)'
  BY <1>1, <1>2 DEF Good, RoundOK, TokenOK, Updated
<1> QED
  BY <1>2, <1>3, <1>4 DEF RoundOK

\* What a committee member hands on is the history of the round.
LEMMA StepReads ==
  ASSUME NEW h, Good(h), NEW n \in Node, HistoryRead(n),
         UNCHANGED reqVars, UNCHANGED clientVars
  PROVE  RoundOK(h)'
<1>1. PICK r \in requests :
        /\ r.by = n
        /\ requests' = requests \ {r}
        /\ snapshots' = snapshots \cup {[req |-> r, set |-> storage[n].set]}
        /\ UNCHANGED <<clock, nodeVars, callVars, announces, histories>>
  BY DEF HistoryRead
<1>2. PICK s : s = [req |-> r, set |-> storage[n].set]
  OBVIOUS
<1>3. /\ UNCHANGED <<epochChan, updating>> /\ MessagesOK(h)
  BY <1>1 DEF nodeVars, callVars, Good, RoundOK
<1>4. /\ Late(h)' = Late(h) /\ Committee(h)' = Committee(h)
      /\ Sent(h)' = Sent(h) /\ UNCHANGED <<inside>>
      /\ (Before' <=> Before) /\ (Led' <=> Led)
      /\ \A t : Slots(t)' <=> Slots(t)
  BY <1>1, Serving
<1>5. DeliveryOK(h, r) /\ n \in Committee(h)
  BY <1>1, <1>3 DEF MessagesOK, DeliveryOK
<1>6. storage[n].set = Sent(h)
  <2>1. n \in Here(h)
    BY <1>5 DEF Here, Late
  <2>2. CASE Before
    <3>1. /\ storage[n].set \in [Epoch -> SUBSET Node]
          /\ h \in [Epoch -> SUBSET Node] /\ round \in Epoch
          /\ \A k \in Epoch : k # round => storage[n].set[k] = h[k]
      BY <2>1, Informed, Basics
    <3>2. storage[n].set[round] = {}
      <4>1. \A x \in inside : Stand[x] \in Unregistered
        <5>1. clock.slot = "live" /\ clock.epoch = round - 2 /\ round \in Nat
          BY <2>2, Basics DEF Before
        <5> QED
          BY <2>2, <5>1, WhereWeAre
      <4> QED
        BY <4>1 DEF Good, RoundOK, StorageOK
    <3>3. h[round] = {}
      BY <3>1, Basics DEF Good, RoundOK, HistoryOK
    <3>4. storage[n].set = h
      BY <3>1, <3>2, <3>3
    <3> QED
      BY <2>2, <3>4 DEF Sent
  <2>3. CASE ~ Before
    <3>1. Slots("closing") /\ clock.slot = "closing"
      BY <1>5, <2>3 DEF DeliveryOK, Slots
    <3>2. \A x \in inside : Stand[x] = "start"
      <4>1. clock.epoch = round - 1 /\ round \in Nat
        BY <3>1, Basics DEF Slots
      <4> QED
        BY <2>3, <3>1, <4>1, WhereWeAre
    <3> QED
      BY <1>5, <2>1, <2>3, <3>2, AllStored DEF Sent, Registered
  <2> QED
    BY <2>2, <2>3
<1>7. \A q : DeliveryOK(h, q) => DeliveryOK(h, q)'
  BY <1>3, <1>4 DEF DeliveryOK
<1>8. s.req = r /\ s.set = Sent(h) /\ snapshots' = snapshots \cup {s}
  BY <1>1, <1>2, <1>6
<1>9. /\ Asked' = Asked \ {r.to} /\ Read' = Read \cup {r.to}
      /\ Mailed' = Mailed /\ r.to \in Asked /\ r.to \notin Read
  <2>1. Asked' = Asked \ {r.to}
    BY <1>1, <1>3 DEF Asked, MessagesOK
  <2>2. Read' = Read \cup {r.to} /\ Mailed' = Mailed
    BY <1>1, <1>8 DEF Read, Mailed
  <2>3. r.to \in Asked
    BY DEF Asked
  <2> QED
    BY <1>3, <2>1, <2>2, <2>3 DEF MessagesOK
<1>10. MessagesOK(h)'
  <2>1. \A q, p \in snapshots' : q.req.to = p.req.to => q = p
    BY <1>3, <1>8, <1>9 DEF MessagesOK, Read
  <2>2. \A x \in snapshots' \cup histories' :
          DeliveryOK(h, x.req)' /\ x.set = Sent(h)'
    BY <1>1, <1>3, <1>4, <1>5, <1>7, <1>8 DEF MessagesOK
  <2>3. \A q \in requests' : DeliveryOK(h, q)'
    BY <1>1, <1>3, <1>7 DEF MessagesOK
  <2>4. Asked' \cap Read' = {} /\ Asked' \cap Mailed' = {} /\ Read' \cap Mailed' = {}
    BY <1>3, <1>9 DEF MessagesOK
  <2> QED
    BY <1>1, <1>3, <2>1, <2>2, <2>3, <2>4 DEF MessagesOK
<1> QED
  BY <1>1, <1>9, <1>10, StepPasses

\* The history leaves.
LEMMA StepSends ==
  ASSUME NEW h, Good(h), NEW n \in Node, HistorySent(n),
         UNCHANGED reqVars, UNCHANGED clientVars
  PROVE  RoundOK(h)'
<1>1. PICK s \in snapshots :
        /\ snapshots' = snapshots \ {s}
        /\ histories' = histories \cup
             {[req |-> s.req, set |-> s.set,
               servers |-> servers[n], names |-> names[n]]}
        /\ UNCHANGED <<clock, nodeVars, callVars, announces, requests>>
  BY DEF HistorySent
<1>2. PICK x : x = [req |-> s.req, set |-> s.set,
                    servers |-> servers[n], names |-> names[n]]
  OBVIOUS
<1>3. /\ UNCHANGED <<epochChan, updating>> /\ MessagesOK(h)
  BY <1>1 DEF nodeVars, callVars, Good, RoundOK
<1>4. /\ Late(h)' = Late(h) /\ Committee(h)' = Committee(h)
      /\ Sent(h)' = Sent(h) /\ UNCHANGED <<inside>>
      /\ (Before' <=> Before) /\ (Led' <=> Led)
      /\ \A t : Slots(t)' <=> Slots(t)
  BY <1>1, Serving
<1>5. DeliveryOK(h, s.req) /\ s.set = Sent(h)
  BY <1>3 DEF MessagesOK
<1>6. \A q : DeliveryOK(h, q) => DeliveryOK(h, q)'
  BY <1>3, <1>4 DEF DeliveryOK
<1>7. x.req = s.req /\ x.set = Sent(h) /\ histories' = histories \cup {x}
  BY <1>1, <1>2, <1>5
<1>8. /\ Read' = Read \ {s.req.to} /\ Mailed' = Mailed \cup {s.req.to}
      /\ Asked' = Asked /\ s.req.to \in Read /\ s.req.to \notin Mailed
  <2>1. Read' = Read \ {s.req.to}
    BY <1>1, <1>3 DEF Read, MessagesOK
  <2>2. Mailed' = Mailed \cup {s.req.to} /\ Asked' = Asked
    BY <1>1, <1>7 DEF Asked, Mailed
  <2>3. s.req.to \in Read
    BY DEF Read
  <2> QED
    BY <1>3, <2>1, <2>2, <2>3 DEF MessagesOK
<1>9. MessagesOK(h)'
  <2>1. \A q, p \in histories' : q.req.to = p.req.to => q = p
    BY <1>3, <1>7, <1>8 DEF MessagesOK, Mailed
  <2>2. \A y \in snapshots' \cup histories' :
          DeliveryOK(h, y.req)' /\ y.set = Sent(h)'
    BY <1>1, <1>3, <1>4, <1>5, <1>6, <1>7 DEF MessagesOK
  <2>3. \A q \in requests' : DeliveryOK(h, q)'
    BY <1>1, <1>3, <1>6 DEF MessagesOK
  <2>4. Asked' \cap Read' = {} /\ Asked' \cap Mailed' = {} /\ Read' \cap Mailed' = {}
    BY <1>3, <1>8 DEF MessagesOK
  <2> QED
    BY <1>1, <1>3, <2>1, <2>2, <2>3, <2>4 DEF MessagesOK
<1> QED
  BY <1>1, <1>8, <1>9, StepPasses

-----------------------------------------------------------------------------
\* The history on its way ends with the epoch it is sent for.
LEMMA LastSent ==
  ASSUME NEW h, Good(h), NEW last \in Epoch, IsLast(last, Sent(h))
  PROVE  last = IF Before THEN round - 1 ELSE round
<1>1. /\ round \in Epoch /\ round - 1 \in Epoch /\ round \in Nat
      /\ h \in [Epoch -> SUBSET Node] /\ inside # {} /\ Epoch \subseteq Nat
  BY Basics DEF Epoch
<1>2. \A k \in Epoch : k < round <=> h[k] # {}
  BY DEF Good, RoundOK, HistoryOK
<1>3. CASE Before
  <2>1. h[last] # {} /\ \A j \in Epoch : j > last => h[j] = {}
    BY <1>3 DEF IsLast, Sent
  <2> QED
    BY <1>1, <1>2, <1>3, <2>1
<1>4. CASE ~ Before
  <2>1. /\ Whole(h)[last] # {}
        /\ \A j \in Epoch : j > last => Whole(h)[j] = {}
    BY <1>4 DEF IsLast, Sent
  <2>2. /\ Whole(h)[round] = inside
        /\ \A k \in Epoch : k # round => Whole(h)[k] = h[k]
    BY <1>1 DEF Whole
  <2> QED
    BY <1>1, <1>2, <1>4, <2>1, <2>2
<1> QED
  BY <1>3, <1>4

\* The history arrives, and a token with it: a newcomer has the past, or
\* everybody has the members of the round.
LEMMA StepReceives ==
  ASSUME NEW h, Good(h), NEW n \in Node, HistoryReceived(n),
         UNCHANGED reqVars, UNCHANGED clientVars
  PROVE  RoundOK(h)'
<1>1. PICK x \in histories, last \in Epoch :
        /\ x.req.to = n
        /\ IsLast(last, x.set)
        /\ LearnAll(n, x)
        /\ storage' = [storage EXCEPT ![n] = Rebuilt(last, x.set)]
        /\ epochChan' = [epochChan EXCEPT ![n] =
                           Append(@, IF e[n] < last THEN last ELSE e[n])]
        /\ histories' = histories \ {x}
        /\ UNCHANGED <<clock, e, view, confirmed, callVars,
                       announces, requests, snapshots>>
  BY DEF HistoryReceived
<1>2. /\ UNCHANGED <<clock, e, view, confirmed, updating, starting, reg, cons,
                     calls, announces, requests, snapshots>>
      /\ histories' = histories \ {x}
  BY <1>1 DEF callVars
<1>3. /\ ProgramOK' /\ SlotOK' /\ HistoryOK(h)' /\ Stand' = Stand
      /\ Late(h)' = Late(h) /\ Leads' = Leads /\ Agreeing' = Agreeing
      /\ Committee(h)' = Committee(h) /\ Here(h)' = Here(h)
      /\ Whole(h)' = Whole(h) /\ Sent(h)' = Sent(h)
      /\ UNCHANGED <<round, inside, stage, pc>>
      /\ (Before' <=> Before) /\ (Led' <=> Led)
      /\ \A s : Slots(s)' <=> Slots(s)
  BY <1>2, Serving
<1>4. MessagesOK(h) /\ StorageOK(h) /\ TokenOK(h) /\ HistoryOK(h)
  BY DEF Good, RoundOK
<1>5. DeliveryOK(h, x.req) /\ x.set = Sent(h) /\ epochChan[n] = <<>>
  BY <1>1, <1>4 DEF MessagesOK, DeliveryOK
<1>6. last = IF Before THEN round - 1 ELSE round
  BY <1>1, <1>5, LastSent
<1>7. /\ storage'[n] = Rebuilt(last, Sent(h))
      /\ \A m \in Node \ {n} : /\ storage'[m] = storage[m]
                               /\ epochChan'[m] = epochChan[m]
                               /\ servers'[m] = servers[m]
  BY <1>1, <1>5 DEF LearnAll, Good, TypeOK, NodeTypeOK
<1>8. /\ round \in Nat /\ round \in Epoch /\ round - 1 \in Epoch
      /\ MaxEpoch \in Nat /\ h \in [Epoch -> SUBSET Node] /\ inside # {}
      /\ inside \subseteq Node
      /\ \A k \in Epoch : k < round <=> h[k] # {}
  BY <1>4, Basics DEF HistoryOK
<1>9. Rebuilt(last, Sent(h)).set = Sent(h)
      /\ ~ Rebuilt(last, Sent(h)).locked
  BY DEF Rebuilt
<1>10. /\ \A k \in Epoch : k # round => Sent(h)[k] = h[k]
       /\ Sent(h)[round] = IF Before THEN {} ELSE inside
  BY <1>8 DEF Sent, Whole
<1>11. /\ n \in inside
       /\ Before => n \in Late(h) /\ updating[n] /\ n \notin Here(h) /\ ~ Led
                    /\ e[n] = 0 /\ round > 1 /\ stage = "request"
       /\ ~ Before => Slots("closing") /\ Led /\ n \in Here(h)
                      /\ Late(h) = {} /\ Stand[n] = "start" /\ e[n] = round - 1
                      /\ \A m \in inside : Stand[m] = "start"
  <2>1. CASE Before
    <3>1. n \in Late(h) /\ updating[n]
      BY <1>1, <1>5, <2>1 DEF DeliveryOK, Before, Slots
    <3>2. n \notin Here(h) /\ n \in inside /\ stage = "request" /\ round > 1
      BY <3>1 DEF Here, Late
    <3>3. ~ Led
      BY <2>1, <1>8, WhereWeAre
    <3>4. e[n] = 0
      BY <1>4, <3>2 DEF StorageOK, BehindHistory
    <3> QED
      BY <2>1, <3>1, <3>2, <3>3, <3>4
  <2>2. CASE ~ Before
    <3>1. Slots("closing") /\ Led /\ n \in inside
      BY <1>1, <1>5, <2>2 DEF DeliveryOK
    <3>2. Late(h) = {} /\ n \in Here(h)
      BY <2>2, <3>1, NoMail
    <3>3. \A m \in inside : Stand[m] = "start"
      <4>1. clock.slot = "closing" /\ clock.epoch = round - 1
        BY <3>1 DEF Slots
      <4> QED
        BY <1>8, <2>2, <4>1, WhereWeAre
    <3>4. e[n] = round - 1
      BY <3>1, <3>2, <3>3, Informed
    <3> QED
      BY <2>2, <3>1, <3>2, <3>3, <3>4
  <2> QED
    BY <2>1, <2>2
<1>12. epochChan'[n] = IF Before THEN <<round - 1>> ELSE <<round>>
  <2>1. (IF e[n] < last THEN last ELSE e[n]) = last
    BY <1>6, <1>8, <1>11
  <2>2. epochChan'[n] = Append(<<>>, last)
    BY <1>1, <1>5, <2>1 DEF Good, TypeOK, NodeTypeOK
  <2>3. epochChan'[n] = <<last>>
    BY <2>2
  <2> QED
    BY <1>6, <2>3
<1>13. Before => Updated(h, n)'
  <2>1. ASSUME Before PROVE storage'[n] = Rebuilt(round - 1, h)
    BY <1>6, <1>7, <2>1 DEF Sent
  <2> QED
    BY <1>2, <1>3, <1>11, <1>12, <2>1 DEF Updated
<1>14. \A m \in Node \ {n} : /\ Updated(h, m) => Updated(h, m)'
                             /\ Pristine(m) => Pristine(m)'
  BY <1>2, <1>3, <1>7 DEF Updated, Pristine
<1>15. StorageOK(h)'
  <2>1. IF n \in Here(h)' THEN UpToHistory(h, n)' ELSE BehindHistory(h, n)'
    <3>1. CASE Before
      BY <1>2, <1>3, <1>11, <1>13, <3>1 DEF BehindHistory
    <3>2. CASE ~ Before
      <4>1. /\ Rebuilt(round, Sent(h)).len = round + 1
            /\ Rebuilt(round, Sent(h)).gaps = {}
        <5>1. \A j \in 0 .. round : j \in Epoch /\ (j = round \/ j < round)
          BY <1>8 DEF Epoch
        <5>2. \A j \in 0 .. round : Sent(h)[j] # {}
          BY <1>8, <1>10, <3>2, <5>1
        <5> QED
          BY <5>2 DEF Rebuilt
      <4>2. storage'[n] = Rebuilt(round, Sent(h))
        BY <1>6, <1>7, <3>2
      <4>3. /\ e'[n] = round - 1 /\ Stand'[n] = "start" /\ round' = round
            /\ n \in Here(h)'
        BY <1>2, <1>3, <1>11, <3>2
      <4>4. /\ storage'[n].set = Sent(h) /\ Sent(h)[round] # {}
            /\ \A k \in Epoch : k # round => Sent(h)[k] = h[k]
        BY <1>6, <1>7, <1>8, <1>9, <1>10, <3>2
      <4> QED
        BY <4>1, <4>2, <4>3, <4>4 DEF UpToHistory
    <3> QED
      BY <3>1, <3>2
  <2>2. ASSUME NEW m \in Node \ {n}
        PROVE  IF m \in Here(h)' THEN UpToHistory(h, m)'
               ELSE BehindHistory(h, m)'
    <3>1. UpToHistory(h, m) => UpToHistory(h, m)'
      BY <1>2, <1>3, <1>7 DEF UpToHistory
    <3>2. BehindHistory(h, m) => BehindHistory(h, m)'
      BY <1>2, <1>3, <1>7, <1>14 DEF BehindHistory
    <3> QED
      BY <1>3, <1>4, <3>1, <3>2 DEF StorageOK
  <2>3. ASSUME NEW m \in Node
        PROVE  /\ ~ storage'[m].locked
               /\ \A y \in storage'[m].set[round] :
                    y \in inside /\ Stand[y] \notin Unregistered
               /\ \A k \in 1 .. round - 1 :
                    /\ storage'[m].set[k] \in {{}, h[k]}
                    /\ m \in h[k - 1] => storage'[m].set[k] = h[k]
    <3>1. CASE m = n
      <4>1. \A k \in 1 .. round - 1 : k \in Epoch /\ k # round
        BY <1>8 DEF Epoch
      <4>2. ~ Before => \A y \in inside : Stand[y] \notin Unregistered
        BY <1>11 DEF Unregistered
      <4> QED
        BY <1>7, <1>9, <1>10, <3>1, <4>1, <4>2
    <3>2. CASE m # n
      BY <1>4, <1>7, <3>2 DEF StorageOK
    <3> QED
      BY <3>1, <3>2
  <2> QED
    BY <1>3, <2>1, <2>2, <2>3 DEF StorageOK, Unregistered
<1>16. ViewOK(h)' /\ ConfirmedOK(h)' /\ CallsOK(h)'
  BY <1>2, <1>3, KeepView, KeepConfirmed, KeepCalls
<1>17. RegistrationOK(h)'
  <2>1. ASSUME NEW m \in Node
        PROVE  storage[m].set[round] \subseteq storage'[m].set[round]
    <3>1. CASE m # n
      BY <1>7, <3>1
    <3>2. CASE m = n /\ ~ Before
      BY <1>4, <1>7, <1>9, <1>10, <3>2 DEF StorageOK
    <3>3. CASE m = n /\ Before
      <4>1. \A y \in inside : Stand[y] \in Unregistered
        <5>1. clock.slot = "live" /\ clock.epoch = round - 2
          BY <3>3 DEF Before
        <5> QED
          BY <1>8, <3>3, <5>1, WhereWeAre
      <4>2. storage[n].set[round] = {}
        BY <1>4, <4>1 DEF StorageOK
      <4> QED
        BY <3>3, <4>2
    <3> QED
      BY <3>1, <3>2, <3>3
  <2> QED
    BY <1>2, <1>3, <2>1, KeepRegistration
<1>18. /\ Mailed' = Mailed \ {n} /\ Asked' = Asked /\ Read' = Read
       /\ n \in Mailed
  <2>1. Mailed' = Mailed \ {n}
    BY <1>1, <1>2, <1>4 DEF Mailed, MessagesOK
  <2> QED
    BY <1>1, <1>2, <2>1 DEF Mailed, Asked, Read
<1>19. MessagesOK(h)'
  <2>1. ASSUME NEW q, DeliveryOK(h, q), q.to # n, q.to \in Node
        PROVE  DeliveryOK(h, q)'
    BY <1>2, <1>3, <1>7, <2>1 DEF DeliveryOK
  <2>2. /\ \A q \in requests : q.to \in Node /\ q.to # n
        /\ \A s \in snapshots : s.req.to \in Node /\ s.req.to # n
        /\ \A s \in histories' : s.req.to \in Node /\ s.req.to # n
    <3>1. /\ \A q \in requests : q.to \in Node
          /\ \A s \in snapshots \cup histories : s.req.to \in Node
      BY DEF Good, TypeOK, NetTypeOK, Request, Snapshot, Reply
    <3>2. n \notin Asked /\ n \notin Read
      BY <1>4, <1>18 DEF MessagesOK
    <3>3. \A s \in histories' : s \in histories /\ s.req.to # n
      BY <1>1, <1>2, <1>4 DEF MessagesOK
    <3> QED
      BY <3>1, <3>2, <3>3 DEF Asked, Read
  <2>3. \A q \in requests' : DeliveryOK(h, q)'
    BY <1>2, <1>4, <2>1, <2>2 DEF MessagesOK
  <2>4. \A s \in snapshots' \cup histories' :
           DeliveryOK(h, s.req)' /\ s.set = Sent(h)'
    BY <1>2, <1>3, <1>4, <2>1, <2>2 DEF MessagesOK
  <2>5. Asked' \cap Read' = {} /\ Asked' \cap Mailed' = {} /\ Read' \cap Mailed' = {}
    BY <1>4, <1>18 DEF MessagesOK
  <2> QED
    BY <1>2, <1>4, <2>3, <2>4, <2>5 DEF MessagesOK
<1>20. TokenOK(h)'
  <2>1. ASSUME NEW m \in Node \ {n}
        PROVE  /\ \/ epochChan'[m] = <<>>
                  \/ Updated(h, m)'
                  \/ /\ Led
                     /\ Stand[m] \in {"start", "token"}
                     /\ epochChan'[m] = <<round>>
                     /\ storage'[m].set = Whole(h)
               /\ Led /\ Stand[m] \in {"start", "token"} =>
                    epochChan'[m] = <<round>> \/ m \in Asked' \cup Read' \cup Mailed'
    BY <1>4, <1>7, <1>14, <1>18 DEF TokenOK
  <2>2. /\ \/ Updated(h, n)'
           \/ /\ Led
              /\ Stand[n] \in {"start", "token"}
              /\ epochChan'[n] = <<round>>
              /\ storage'[n].set = Whole(h)
        /\ Led /\ Stand[n] \in {"start", "token"} => epochChan'[n] = <<round>>
    <3>1. CASE Before
      BY <1>11, <1>13, <3>1
    <3>2. CASE ~ Before
      BY <1>7, <1>9, <1>11, <1>12, <3>2 DEF Sent
    <3> QED
      BY <3>1, <3>2
  <2> QED
    BY <1>3, <2>1, <2>2 DEF TokenOK
<1> QED
  BY <1>3, <1>15, <1>16, <1>17, <1>19, <1>20 DEF RoundOK

-----------------------------------------------------------------------------
(***************************************************************************)
(* What a call finds: no check of it can fail in these programs.           *)
(***************************************************************************)

\* Whoever a node of the committee stores it can reach.
LEMMA Reachable ==
  ASSUME NEW h, Good(h), NEW n \in Node, NEW k \in Epoch
  PROVE  storage[n].set[k] \subseteq servers[n]
  BY DEF Good, KnownSigners, Signers

\* In a registration phase whoever registers is in the epoch of the committee,
\* knows it and can reach it.
LEMMA MayAsk ==
  ASSUME NEW h, Good(h), NEW n \in Node, pc[n] = "register",
         clock.slot # "live"
  PROVE  ~ Behind(n) /\ ~ CannotAsk(n) /\ ~ TooLate
         /\ stage \in {"request", "register"}
<1>1. n \in inside /\ stage \in {"request", "register"} /\ Stand[n] = "register"
  BY StandIs DEF CallsOf
<1>2. Slots("open") /\ clock.slot = "open" /\ ~ Before
  BY <1>1, WhereWeAre DEF Before
<1>3. n \in Here(h)
  BY <1>1, <1>2, NoMail
<1>4. /\ e[n] = round - 1 /\ CurrentSigners(n) = Committee(h)
      /\ storage[n].len \in {round, round + 1} /\ round \in Nat
      /\ round - 1 \in Epoch
  BY <1>1, <1>3, Informed, Basics
<1>5. CurrentSigners(n) \subseteq servers[n]
  BY <1>4, Reachable DEF CurrentSigners
<1>6. Committee(h) # {}
  BY <1>4 DEF Good, RoundOK, HistoryOK, Committee
<1> QED
  BY <1>1, <1>2, <1>4, <1>5, <1>6 DEF Behind, CannotAsk, TooLate

\* Whoever leads is a member of the committee it asks.
LEMMA MaySign ==
  ASSUME NEW h, Good(h), NEW n \in Committee(h), n \in inside, Late(h) = {},
         Stand[n] # "done"
  PROVE  ~ IndexPanics(n, e[n]) /\ IsMember(n, e[n]) /\ ~ Behind(n)
<1>1. n \in Here(h) /\ n \in Node
  BY Basics DEF Here
<1>2. /\ e[n] = round - 1 /\ storage[n].set[round - 1] = Committee(h)
      /\ storage[n].len \in {round, round + 1} /\ round \in Nat
      /\ round - 1 \in Epoch
  BY <1>1, Informed, Basics
<1> QED
  BY <1>1, <1>2, Reachable DEF IndexPanics, IsMember, Behind

\* The leader of the round finds itself in the committee.
LEMMA LeadsWell ==
  ASSUME NEW h, Good(h), NEW n \in Node, clock.slot # "open",
         \/ stage = "request" /\ pc[n] = "lead"
         \/ stage # "request" /\ <<n, "lead">> \in apart
  PROVE  ~ IndexPanics(n, e[n]) /\ IsMember(n, e[n])
<1>1. ProgramOK /\ SlotOK /\ HistoryOK(h) /\ Leader \in Node
  BY NodeAssumption DEF Good, RoundOK
<1>2. n \in inside /\ n \in Committee(h)
  <2>1. CASE stage = "request"
    <3>1. n = Leader /\ n \in inside
      BY <1>1, <2>1 DEF ProgramOK
    <3>2. n \in h[0] /\ h[0] \subseteq Committee(h)
      BY <1>1, <2>1, <3>1, NodeAssumption, MaxEpochAssumption
      DEF HistoryOK, Epoch
    <3> QED
      BY <3>1, <3>2
  <2>2. CASE stage # "request"
    <3>1. \E l \in inside : apart \in {{}, {<<l, "lead">>}, {<<l, "agree">>}}
      BY <1>1, <2>2 DEF ProgramOK
    <3>2. PICK l \in inside : apart \in {{<<l, "lead">>}, {<<l, "agree">>}}
      BY <2>2, <3>1
    <3>3. n = l
      BY <2>2, <3>2
    <3> QED
      BY <1>1, <2>2, <3>3 DEF HistoryOK
  <2> QED
    BY <2>1, <2>2
<1>3. n \in Leads
  <2>1. CASE stage = "request"
    BY <2>1 DEF Leads
  <2>2. CASE stage # "request"
    <3>1. <<n, "lead">>[1] = n /\ <<n, "lead">> \in apart
      BY <2>2
    <3> QED
      BY <3>1 DEF Leads
  <2> QED
    BY <2>1, <2>2
<1>4. Late(h) = {} /\ Stand[n] # "done"
  <2>1. ~ Before /\ clock.slot = "closing" /\ Late(h) = {}
    BY <1>3, WhereWeAre
  <2>2. Stand[n] = "start"
    BY <1>2, <1>3, <2>1, WhereWeAre
  <2> QED
    BY <2>1, <2>2
<1> QED
  BY <1>2, <1>4, MaySign

\* Whoever waits for a token starts the epoch of the round when it comes.
LEMMA TokenIsGood ==
  ASSUME NEW h, Good(h), NEW n \in Node, pc[n] = "token", epochChan[n] # <<>>
  PROVE  /\ Head(epochChan[n]) = round /\ ~ storage[n].locked
         /\ ~ IndexPanics(n, round) /\ IsMember(n, round)
<1>1. n \in inside /\ Stand[n] = "token" /\ stage \in {"request", "start"}
  BY StandIs DEF CallsOf
<1>2. ~ Before /\ Late(h) = {} /\ n \in Here(h)
  <2>1. ~ Before
    <3>1. ASSUME Before PROVE FALSE
      <4>1. clock.slot = "live" /\ clock.epoch = round - 2 /\ round \in Nat
        BY <3>1, Basics DEF Before
      <4> QED
        BY <1>1, <3>1, <4>1, WhereWeAre DEF Unregistered
    <3> QED
      BY <3>1
  <2> QED
    BY <1>1, <2>1, NoMail
<1>3. epochChan[n] = <<round>> /\ storage[n].set = Whole(h)
  BY <1>1, <1>2 DEF Good, RoundOK, TokenOK, Updated
<1>4. storage[n].set[round] = inside /\ round \in Epoch /\ round \in Nat
  BY <1>3, Basics DEF Whole
<1>5. storage[n].len = round + 1 /\ ~ storage[n].locked
  BY <1>1, <1>2, <1>4, Informed
<1>6. inside \subseteq servers[n]
  BY <1>4, Reachable
<1> QED
  BY <1>1, <1>3, <1>4, <1>5, <1>6 DEF IndexPanics, IsMember

-----------------------------------------------------------------------------
\* A step of a handler.
LEMMA StepServes ==
  ASSUME NEW h, Good(h), NEW n \in Node, Serve(n), UNCHANGED clientVars
  PROVE  RoundOK(h)'
<1>1. UNCHANGED reqVars
  BY DEF Serve
<1>2. CASE SignatureReturns(n) \/ AnnounceStored(n)
  BY <1>1, <1>2, StepSigned, StepStores
<1>3. CASE HistoryRead(n) \/ HistorySent(n) \/ HistoryReceived(n)
  BY <1>1, <1>3, StepReads, StepSends, StepReceives
<1>4. CASE \E m \in Node : SignersAgreed(n, m)
  BY <1>1, <1>4, StepVotes
<1>5. CASE AnnounceRefused(n) \/ AnnounceStuck(n)
  <2>1. ASSUME NEW m \in announces, m.to = n,
               \/ TooFuture(n, m.epoch) \/ Refused(n, m.epoch)
               \/ storage[n].locked \/ NilMap(n, m.epoch)
        PROVE  FALSE
    BY <2>1, AnnounceMeets
  <2> QED
    BY <1>5, <2>1 DEF AnnounceRefused, AnnounceStuck
<1>6. CASE HistoryStuck(n)
  BY <1>6 DEF HistoryStuck, Good, RoundOK, StorageOK
<1> QED
  BY <1>2, <1>3, <1>4, <1>5, <1>6 DEF Serve

\* A step of CreateProofForEpoch.
LEMMA StepCallsRegister ==
  ASSUME NEW h, Good(h), NEW n \in Node, NEW to, NEW after,
         Registering(n, pc[n], to, after), Waited(n, pc[n], to),
         \/ stage = "request" /\ after = AfterRegister(n)
         \/ stage # "request" /\ after = "returned"
  PROVE  RoundOK(h)'
<1>1. stage = "request" \/ pc[n] # "gossip" \/ stage = "register"
  BY StandIs DEF CallsOf
<1>2. CASE pc[n] = "register" /\ to = "gossip" /\ RegisterBegins(n)
  <2>1. clock.slot # "live"
    BY <1>2 DEF RegisterBegins, MayRegister
  <2> QED
    BY <1>2, <2>1, MayAsk, StepRegisters
<1>3. CASE pc[n] = "register" /\ RegisterLeaksLock(n)
  <2>1. clock.slot # "live" /\ CannotAsk(n)
    BY <1>3 DEF RegisterLeaksLock, MayRegister
  <2> QED
    BY <1>3, <2>1, MayAsk
<1>4. CASE pc[n] = "register" /\ clock.slot # "live" /\ (Behind(n) \/ TooLate)
  BY <1>4, MayAsk
<1>5. CASE pc[n] = "gossip" /\ to = after /\ RegisterEnds(n)
  BY <1>1, <1>5, StepRegistered
<1> QED
  BY <1>2, <1>3, <1>4, <1>5 DEF Registering

\* A step of GetConsencusOnNewSigners.
LEMMA StepCallsLead ==
  ASSUME NEW h, Good(h), NEW n \in Node, NEW from, NEW to, NEW after,
         Leading(n, from, to, after),
         \/ stage = "request" /\ after = "start" /\ Waited(n, from, to)
         \/ stage # "request" /\ after = "returned" /\ Apart(n, from, to)
  PROVE  RoundOK(h)'
<1>1. CASE from = "lead" /\ to = "agree" /\ ConsensusBegins(n)
  BY <1>1, StepLeads
<1>2. CASE from = "agree" /\ to = after /\ ConsensusReached(n)
  BY <1>2, StepAgreed
<1>3. CASE /\ from = "lead" /\ MayLead(n)
           /\ IndexPanics(n, e[n]) \/ ~ IsMember(n, e[n])
  <2>1. clock.slot # "open"
    BY <1>3 DEF MayLead
  <2>2. \/ stage = "request" /\ pc[n] = "lead"
        \/ stage # "request" /\ <<n, "lead">> \in apart
    BY <1>3 DEF Waited, GoTo, Apart
  <2> QED
    BY <1>3, <2>1, <2>2, LeadsWell
<1> QED
  BY <1>1, <1>2, <1>3 DEF Leading, ConsensusPanics

\* A step of StartNewEpoch.
LEMMA StepCallsStart ==
  ASSUME NEW h, Good(h), NEW n \in Node, NEW to,
         Starting(n, pc[n], to), Waited(n, pc[n], to)
  PROVE  RoundOK(h)'
<1>1. CASE pc[n] = "start" /\ to = "token" /\ StartBegins(n)
  BY <1>1, StepStarts
<1>2. CASE pc[n] = "token" /\ to = "returned" /\ StartSucceeds(n)
  BY <1>2, StepStarted
<1>3. CASE pc[n] = "start" /\ clock.slot = "live" /\ e[n] # clock.epoch
  <2>1. /\ n \in inside /\ stage \in {"request", "start"} /\ Stand[n] = "start"
    BY <1>3, StandIs DEF CallsOf, Stand
  <2>2. ~ Over
    BY <1>3 DEF Over, RoundOver, AllReturned
  <2>3. ~ Before /\ clock.epoch = round - 1
    BY <1>3, <2>1, <2>2, WhereWeAre DEF Unregistered
  <2>4. n \in Here(h)
    BY <2>1, <2>3, NoMail
  <2>5. e[n] = round - 1
    BY <2>1, <2>4, Informed
  <2> QED
    BY <1>3, <2>3, <2>5
<1>4. CASE pc[n] = "token" /\ (StartFails(n) \/ StartStuck(n))
  <2>1. PICK k \in Epoch :
          /\ TokenTaken(n, k)
          /\ IndexPanics(n, k) \/ ~ IsMember(n, k) \/ storage[n].locked
    BY <1>4 DEF StartFails, StartStuck
  <2>2. epochChan[n] # <<>> /\ k = Head(epochChan[n])
    BY <2>1 DEF TokenTaken
  <2> QED
    BY <1>4, <2>1, <2>2, TokenIsGood
<1> QED
  BY <1>1, <1>2, <1>3, <1>4 DEF Starting

\* A step of a request.
LEMMA StepRequest ==
  ASSUME NEW h, Good(h), NEW n \in Node, stage = "request",
         ReqUpdate(n) \/ ReqCalls(n), UNCHANGED clientVars
  PROVE  RoundOK(h)'
<1>1. CASE ReqUpdate(n)
  <2>1. CASE ~ Behind(n) /\ GoTo(n, "update", "register") /\ UNCHANGED vars
    BY <2>1, StepSkips DEF Waited
  <2>2. CASE pc[n] = "update" /\ Behind(n) /\ UpdateBegins(n) /\ UNCHANGED reqVars
    BY <2>2, StepAsks
  <2>3. CASE UpdateEnds(n) /\ GoTo(n, "update", "register")
    BY <2>3, StepUpdated DEF Waited
  <2> QED
    BY <1>1, <2>1, <2>2, <2>3 DEF ReqUpdate
<1>2. CASE ReqCalls(n)
  <2>1. PICK to \in Place :
          /\ \/ Registering(n, pc[n], to, AfterRegister(n))
             \/ Leading(n, pc[n], to, "start")
             \/ Starting(n, pc[n], to)
          /\ GoTo(n, pc[n], to)
    BY <1>2 DEF ReqCalls
  <2>2. Waited(n, pc[n], to)
    BY <2>1 DEF Waited
  <2> QED
    BY <2>1, <2>2, StepCallsRegister, StepCallsLead, StepCallsStart
<1> QED
  BY <1>1, <1>2

\* A step of a call of "churn".
LEMMA StepCall ==
  ASSUME NEW h, Good(h), NEW n \in Node, stage # "request", CallByCall(n)
  PROVE  RoundOK(h)'
<1>1. /\ ProgramOK /\ stage \in {"update", "register", "start"}
      /\ Late(h) = {}
      /\ \A m \in Node : pc[m] \in CallsOf(stage) \/ pc[m] = "returned"
  BY StandIs DEF Good, RoundOK, ProgramOK, Late
<1>2. \A c \in apart : c[2] \in {"lead", "agree"}
  BY <1>1 DEF ProgramOK
<1>3. CASE UpdateForNewNode(n)
  <2>1. CASE UNCHANGED vars /\ Waited(n, "update", "phase")
    <3>1. stage = "update"
      BY <1>1, <2>1 DEF Waited, GoTo, CallsOf
    <3> QED
      BY <2>1, <3>1, StepSkips
  <2>2. CASE ~ UpToDate(n) /\ Waited(n, "update", "history")
    <3>1. pc[n] = "update"
      BY <2>2 DEF Waited, GoTo
    <3>2. stage = "update" /\ n \in inside
      BY <1>1, <3>1, StandIs DEF CallsOf
    <3>3. n \in Committee(h) /\ Stand[n] # "done"
      BY <3>2, StandIs DEF Good, RoundOK, HistoryOK
    <3> QED
      BY <1>1, <2>2, <3>2, <3>3, MaySign DEF UpToDate
  <2>3. CASE UpdateEnds(n)
    BY <1>1, <2>3 DEF UpdateEnds, Good, RoundOK, CallsOK
  <2>4. CASE /\ clock.slot # "live" /\ Waited(n, "phase", "returned")
             /\ UNCHANGED vars
    <3>1. stage = "update"
      BY <1>1, <2>4 DEF Waited, GoTo, CallsOf
    <3> QED
      BY <2>4, <3>1, StepSkips
  <2> QED
    BY <1>3, <2>1, <2>2, <2>3, <2>4 DEF UpdateForNewNode
<1>4. CASE UpdateNode(n) \/ Answered(n)
  <2>1. PICK at \in {"refresh", "history", "answered"} : <<n, at>> \in apart
    BY <1>4 DEF UpdateNode, Answered, Apart
  <2>2. <<n, at>>[2] = at
    OBVIOUS
  <2> QED
    BY <1>2, <2>1, <2>2
<1>5. CASE AloneTimesOut(n)
  <2>1. stage = "register"
    BY <1>1, <1>5 DEF AloneTimesOut, Waited, GoTo, CallsOf
  <2> QED
    BY <1>5, <2>1, StepRegistered DEF AloneTimesOut
<1>6. ASSUME NEW to \in Place, Waited(n, pc[n], to),
             \/ Registering(n, pc[n], to, "returned")
             \/ Starting(n, pc[n], to)
      PROVE  RoundOK(h)'
  BY <1>6, StepCallsRegister, StepCallsStart
<1>7. ASSUME NEW from, NEW to, Apart(n, from, to),
             \/ Registering(n, from, to, "answered")
             \/ Leading(n, from, to, "returned")
             \/ Starting(n, from, to)
      PROVE  RoundOK(h)'
  <2>1. from \in {"lead", "agree"}
    <3>1. <<n, from>> \in apart /\ <<n, from>>[2] = from
      BY <1>7 DEF Apart
    <3> QED
      BY <1>2, <3>1
  <2>2. Leading(n, from, to, "returned")
    BY <1>7, <2>1 DEF Registering, Starting
  <2> QED
    BY <1>7, <2>2, StepCallsLead
<1> QED
  BY <1>3, <1>4, <1>5, <1>6, <1>7 DEF CallByCall

-----------------------------------------------------------------------------
\* The invariant holds for some members of the rounds.
RoundHolds == \E h \in History : RoundOK(h)

\* A run begins with round 1 and the signers of epoch 0 alone.
LEMMA FirstRound ==
  ASSUME ClientInit, client # "join" PROVE RoundHolds
<1>1. PICK h : h = [NoSigners EXCEPT ![0] = Genesis]
  OBVIOUS
<1>2. /\ MaxEpoch \in Nat \ {0} /\ 0 \in Epoch /\ 1 \in Epoch
      /\ Genesis \subseteq Node /\ Genesis # {} /\ Leader \in Genesis
  BY MaxEpochAssumption, NodeAssumption DEF Epoch
<1>3. /\ h \in History /\ h[0] = Genesis
      /\ \A k \in Epoch : k # 0 => h[k] = {}
  BY <1>1, <1>2 DEF NoSigners, History
<1>4. /\ round = 1 /\ apart = {} /\ pc = Send(inside, "update")
      /\ written = Genesis /\ Init
      /\ \/ /\ client = "normal" /\ inside = Participants[1]
            /\ stage = "request"
         \/ /\ client = "throughput" /\ inside \in Prefixes
            /\ Genesis \subseteq inside /\ stage = "request"
         \/ /\ client = "churn" /\ inside \in Remaining(Genesis)
            /\ stage = "update"
  BY DEF ClientInit
<1>5. /\ inside \subseteq Node /\ inside # {}
      /\ stage = "request" => Genesis \subseteq inside
      /\ stage = "update" => inside \subseteq Genesis
  <2>1. CASE client = "normal"
    BY <1>2, <1>4, <2>1, ParticipantsAssumption, GrowthAssumption
  <2>2. CASE client = "throughput"
    BY <1>2, <1>4, <2>2 DEF Prefixes, Lowest
  <2>3. CASE client = "churn"
    BY <1>2, <1>4, <2>3, SomeRemain
  <2> QED
    BY <1>4, <2>1, <2>2, <2>3
<1>6. /\ \A n \in Node : pc[n] = IF n \in inside THEN "update" ELSE "returned"
      /\ pc \in [Node -> Calls]
  BY <1>4 DEF Send, Calls
<1>7. \A n \in Node : Stand[n] = IF n \in inside THEN "update" ELSE "outside"
  BY <1>4, <1>6 DEF Stand
<1>8. /\ clock = [epoch |-> 0, slot |-> "open"]
      /\ \A n \in Node :
           /\ e[n] = 0 /\ storage[n] = GenesisStorage /\ servers[n] = Genesis \cup {n}
           /\ epochChan[n] = <<>> /\ view[n] = NoView /\ confirmed[n] = {}
           /\ ~ updating[n] /\ starting[n] = 0 /\ reg[n] = Idle
           /\ cons[n] = NoRound
      /\ announces = {} /\ requests = {} /\ snapshots = {} /\ histories = {}
  BY <1>4 DEF Init, ClockInit
<1>9. Slots("open") /\ ~ Led /\ ~ Before /\ Committee(h) = Genesis
  BY <1>3, <1>4, <1>8 DEF Slots, Led, Before, Committee
<1>10. ProgramOK
  BY <1>2, <1>4, <1>5, <1>6 DEF ProgramOK, CallsOf
<1>11. SlotOK
  <2>1. stage = "request" => pc[Leader] # "start"
    BY <1>2, <1>6
  <2> QED
    BY <1>4, <1>5, <1>6, <1>9, <2>1 DEF SlotOK
<1>12. HistoryOK(h)
  BY <1>2, <1>3, <1>4, <1>5, <1>9 DEF HistoryOK, Epoch
<1>13. StorageOK(h)
  <2>1. /\ GenesisStorage.gaps = {} /\ GenesisStorage.len = 1
        /\ ~ GenesisStorage.locked
        /\ \A k \in Epoch : GenesisStorage.set[k] = h[k]
    BY <1>1, <1>2 DEF GenesisStorage
  <2>2. \A n \in Node : UpToHistory(h, n)
    BY <1>2, <1>3, <1>4, <1>7, <1>8, <2>1 DEF UpToHistory
  <2>3. \A n \in Node : BehindHistory(h, n)
    <3>1. \A n \in Node : Pristine(n)
      BY <1>8 DEF Pristine
    <3>2. \A n \in Node : \A k \in Epoch : k >= 1 => storage[n].set[k] = {}
      BY <1>2, <1>3, <1>8, <2>1
    <3> QED
      BY <1>4, <1>8, <3>1, <3>2 DEF BehindHistory
  <2>4. \A n \in Node : ~ storage[n].locked /\ storage[n].set[round] = {}
    BY <1>2, <1>3, <1>4, <1>8, <2>1
  <2>5. 1 .. round - 1 = {}
    BY <1>4
  <2> QED
    BY <2>2, <2>3, <2>4, <2>5 DEF StorageOK
<1>14. ViewOK(h) /\ ConfirmedOK(h)
  BY <1>7, <1>8 DEF ViewOK, ConfirmedOK
<1>15. RegistrationOK(h) /\ CallsOK(h)
  BY <1>7, <1>8 DEF RegistrationOK, CallsOK, Registered
<1>16. MessagesOK(h) /\ TokenOK(h)
  BY <1>8, <1>9 DEF MessagesOK, Asked, Read, Mailed, TokenOK
<1> QED
  BY <1>3, <1>10, <1>11, <1>12, <1>13, <1>14, <1>15, <1>16
  DEF RoundOK, RoundHolds

\* Every step keeps the invariant, or begins a round for which it holds.
LEMMA NextRoundOK ==
  ASSUME NEW h, Good(h), [ClientNext]_every
  PROVE  RoundHolds' /\ KnownSigners'
<1>1. ASSUME NEW g, RoundOK(g)' PROVE RoundHolds'
  <2>1. g \in History
    BY <1>1 DEF RoundOK, HistoryOK
  <2> QED
    BY <1>1, <2>1 DEF RoundHolds, History
<1>2. CASE GenesisAgain
  BY <1>1, <1>2, StepAgain
<1>3. CASE UNCHANGED every
  <2>1. UNCHANGED <<vars, round, pc, client, stage, inside, written, committee,
                    apart, rerun>>
    BY <1>3 DEF every, allVars, reqVars, clientVars
  <2>2. UNCHANGED clock /\ UNCHANGED reqVars /\ UNCHANGED clientVars
    BY <2>1 DEF vars, reqVars, clientVars
  <2>3. /\ ProgramOK' /\ SlotOK' /\ Stand' = Stand /\ Late(h)' = Late(h)
        /\ Agreeing' = Agreeing /\ (Led' <=> Led)
    BY <2>2, Serving
  <2>4. RoundOK(h)'
    BY <2>1, <2>3, QuietStep
  <2>5. KnownSigners'
    BY <2>1 DEF Good, KnownSigners, vars, nodeVars, netVars
  <2> QED
    BY <1>1, <2>4, <2>5
<1>4. ASSUME ~ GenesisAgain PROVE KnownSigners'
  BY <1>4, ClientNextIsChainStep, NextKnown DEF Good
<1>5. ASSUME ClientTick PROVE RoundHolds'
  BY <1>1, <1>5, StepTick
<1>6. ASSUME NormalRound \/ UpdateStage PROVE RoundHolds'
  <2>1. PICK g : g = Whole(h)
    OBVIOUS
  <2>2. RoundOK(g)'
    BY <1>6, <2>1, StepRound
  <2> QED
    BY <1>1, <2>2
<1>7. ASSUME RegisterStage \/ StartStage PROVE RoundHolds'
  BY <1>1, <1>7, StepStage
<1>8. ASSUME NEW n \in Node, ReqUpdate(n) \/ ReqCalls(n),
             stage = "request", UNCHANGED clientVars
      PROVE  RoundHolds'
  BY <1>1, <1>8, StepRequest
<1>9. ASSUME NEW n \in Node, stage # "request", CallByCall(n)
      PROVE  RoundHolds'
  BY <1>1, <1>9, StepCall
<1>10. ASSUME NEW n \in Node, Serve(n), UNCHANGED clientVars PROVE RoundHolds'
  BY <1>1, <1>10, StepServes
<1>11. ASSUME NEW n \in Node, SetupWaits(n) PROVE RoundHolds'
  <2>1. RoundOK(h)'
    BY <1>1, <1>11, StepStarted DEF SetupWaits
  <2> QED
    BY <1>1, <2>1
<1> QED
  BY <1>2, <1>3, <1>4, <1>5, <1>6, <1>7, <1>8, <1>9, <1>10, <1>11
  DEF ClientNext, ClientStep

\* Who runs stays the same.
LEMMA ClientStays == [ClientNext]_every => client' = client
  BY DEF ClientNext, ClientStep, every, clientVars, NormalRound, RegisterStage,
     StartStage, UpdateStage, GenesisAgain, ClientTick, CallByCall,
     UpdateForNewNode, UpdateNode, Answered, AloneTimesOut, SetupWaits, Waited,
     Apart

\* It holds all along, for every program but "join".
RoundsOK == client # "join" => RoundHolds

LEMMA RoundsHold ==
  ClientSpec => [](TypeOK /\ GenesisFrozen /\ KnownSigners /\ RoundsOK)
<1>1. ClientInit => KnownSigners /\ RoundsOK
  BY InitKnown, FirstRound DEF ClientInit, RoundsOK
<1>2. TypeOK /\ KnownSigners /\ RoundsOK /\ [ClientNext]_every
        => KnownSigners' /\ RoundsOK'
  <2> SUFFICES ASSUME TypeOK, KnownSigners, RoundsOK, [ClientNext]_every
               PROVE  KnownSigners' /\ RoundsOK'
    OBVIOUS
  <2>1. CASE client = "join"
    <3>1. ~ GenesisAgain
      BY <2>1 DEF GenesisAgain
    <3> QED
      BY <2>1, <3>1, ClientStays, ClientNextIsChainStep, NextKnown DEF RoundsOK
  <2>2. CASE client # "join"
    <3>1. PICK h \in History : RoundOK(h)
      BY <2>2 DEF RoundsOK, RoundHolds
    <3> QED
      BY <3>1, NextRoundOK DEF Good, RoundsOK
  <2> QED
    BY <2>1, <2>2
<1> QED
  BY <1>1, <1>2, ClientsKeepGenesis, PTL DEF ClientSpec

-----------------------------------------------------------------------------
(***************************************************************************)
(* What the rounds show of the client programs.                            *)
(***************************************************************************)

\* Nobody stores other members of an epoch than those who came, and the members
\* of the epoch before store them.
LEMMA StoredIs ==
  ASSUME NEW h, Good(h), GenesisFrozen, NEW k \in Epoch, k < round,
         NEW n \in Node
  PROVE  /\ storage[n].set[k] \in {{}, h[k]}
         /\ k = 0 \/ n \in h[k - 1] => storage[n].set[k] = h[k]
<1>1. CASE k = 0
  BY <1>1 DEF GenesisFrozen, Good, RoundOK, HistoryOK
<1>2. CASE k # 0
  <2>1. k \in 1 .. round - 1
    BY <1>2, Basics DEF Epoch
  <2> QED
    BY <1>2, <2>1 DEF Good, RoundOK, StorageOK
<1> QED
  BY <1>1, <1>2

\* The members of the rounds are those the storages have.
LEMMA MembersAreKnown ==
  ASSUME NEW h, Good(h), GenesisFrozen PROVE Members = h
<1>1. h \in [Epoch -> SUBSET Node] /\ round \in Nat /\ Genesis \in SUBSET Node
  BY Basics
<1>2. ASSUME NEW k \in Epoch, k < round
      PROVE  UNION {storage[n].set[k] : n \in Node} = h[k]
  <2>1. \A n \in Node : storage[n].set[k] \in {{}, h[k]}
    BY <1>2, StoredIs
  <2>2. \E n \in Node : storage[n].set[k] = h[k]
    <3>1. CASE k = 0
      BY <1>2, <3>1, StoredIs, NodeAssumption
    <3>2. CASE k # 0
      <4>1. k - 1 \in Epoch /\ k - 1 < round
        BY <1>1, <1>2, <3>2, MaxEpochAssumption DEF Epoch
      <4>2. PICK n : n \in h[k - 1]
        <5>1. h[k - 1] # {}
          BY <4>1 DEF Good, RoundOK, HistoryOK
        <5> QED
          BY <5>1
      <4>3. n \in Node
        BY <1>1, <4>1, <4>2
      <4> QED
        BY <1>2, <4>2, <4>3, StoredIs
    <3> QED
      BY <3>1, <3>2
  <2> QED
    BY <2>1, <2>2
<1>3. \A k \in Epoch : ~ (k < round) => h[k] = {}
  BY DEF Good, RoundOK, HistoryOK
<1>4. \A k \in Epoch : Members[k] = h[k]
  BY <1>2, <1>3 DEF Members
<1>5. Members = [k \in Epoch |-> Members[k]]
  BY DEF Members
<1> QED
  BY <1>1, <1>4, <1>5

\* In every round, slot, calls, messages, lists and tokens belong together as
\* ExecEpochRequest and the loops of the experiments mean them to.
THEOREM RoundsAreKept == ClientSpec => []RoundInvariant
<1>1. TypeOK /\ GenesisFrozen /\ KnownSigners /\ RoundsOK => RoundInvariant
  <2> SUFFICES ASSUME TypeOK, GenesisFrozen, KnownSigners, RoundHolds
               PROVE  RoundOK(Members)
    BY DEF RoundsOK, RoundInvariant
  <2>1. PICK h \in History : RoundOK(h)
    BY DEF RoundHolds
  <2>2. Members = h
    BY <2>1, MembersAreKnown DEF Good
  <2> QED
    BY <2>1, <2>2
<1> QED
  BY <1>1, RoundsHold, PTL

\* Whichever program runs, every signer a node stores is one it can name and
\* reach, also when the genesis signers are set again.
THEOREM ClientsKnowSigners == ClientSpec => []KnownSigners
  BY RoundsHold, PTL

\* No addSigner returns with the storage locked (addsignerservice.go:32-46).
THEOREM LocksAreReleased == ClientSpec => []LocksReleased
<1>1. RoundsOK => LocksReleased
  BY DEF RoundsOK, RoundHolds, RoundOK, StorageOK, LocksReleased,
     RefusalReleasesLock
<1> QED
  BY <1>1, RoundsHold, PTL

\* What a node was told CreateProofForEpoch achieved stays true on all members
\* of the committee, whatever histories they receive.
THEOREM ConfirmationsAreKept == ClientSpec => []ConfirmedKept
<1>1. TypeOK /\ GenesisFrozen /\ KnownSigners /\ RoundsOK => ConfirmedKept
  <2> SUFFICES ASSUME TypeOK, GenesisFrozen, KnownSigners, RoundHolds,
                      NEW n \in Node, NEW k \in confirmed[n] \ {0},
                      NEW m \in storage[n].set[k - 1]
               PROVE  n \in storage[m].set[k]
    BY DEF RoundsOK, ConfirmedKept, ConfirmedStored
  <2>1. PICK h \in History : RoundOK(h)
    BY DEF RoundHolds
  <2>2. Good(h)
    BY <2>1 DEF Good
  <2>3. \/ k \in 1 .. round - 1 /\ n \in h[k]
        \/ k = round /\ Stand[n] \in Registered
    BY <2>1 DEF RoundOK, ConfirmedOK
  <2>4. /\ k - 1 \in Epoch /\ k - 1 < round /\ round \in Nat
        /\ h \in [Epoch -> SUBSET Node]
    <3>1. round \in 1 .. MaxEpoch /\ MaxEpoch \in Nat
      BY <2>2, Basics
    <3>2. k \in 1 .. round
      BY <2>3, <3>1
    <3> QED
      BY <2>2, <3>1, <3>2, Basics DEF Epoch
  <2>5. m \in h[k - 1] /\ m \in Node
    BY <2>2, <2>4, StoredIs
  <2>6. CASE k = round /\ Stand[n] \in Registered
    BY <2>1, <2>5, <2>6 DEF RoundOK, RegistrationOK, Committee
  <2>7. CASE k \in 1 .. round - 1 /\ n \in h[k]
    BY <2>1, <2>5, <2>7 DEF RoundOK, StorageOK
  <2> QED
    BY <2>3, <2>6, <2>7
<1> QED
  BY <1>1, RoundsHold, PTL

\* No channel of tokens ever holds two.
THEOREM TokensAreSingle == ClientSpec => []OneToken
<1>1. RoundsOK => OneToken
  <2> SUFFICES ASSUME RoundHolds, NEW n \in Node PROVE Len(epochChan[n]) <= 1
    BY DEF RoundsOK, OneToken, AtMostOneToken
  <2>1. round \in Int
    BY DEF RoundHolds, RoundOK, ProgramOK
  <2>2. epochChan[n] \in {<<>>, <<round - 1>>, <<round>>}
    BY DEF RoundHolds, RoundOK, TokenOK, Updated
  <2>3. CASE epochChan[n] = <<>>
    BY <2>3
  <2>4. CASE epochChan[n] = <<round - 1>>
    BY <2>1, <2>4
  <2>5. CASE epochChan[n] = <<round>>
    BY <2>1, <2>5
  <2> QED
    BY <2>2, <2>3, <2>4, <2>5
<1> QED
  BY <1>1, RoundsHold, PTL

\* When a round is over, everybody it called is in its epoch, with the others it
\* called and nobody else.
THEOREM EverybodyStarts == ClientSpec => []StartTogether
<1>1. TypeOK /\ KnownSigners /\ RoundsOK => StartTogether
  <2> SUFFICES ASSUME TypeOK, KnownSigners, RoundHolds, RoundOver
               PROVE  \A n \in inside :
                         view[n] = [epoch |-> Epochs, members |-> inside]
    BY DEF RoundsOK, StartTogether
  <2>1. PICK h \in History : RoundOK(h)
    BY DEF RoundHolds
  <2>2. \A n \in inside : view[n] = [epoch |-> round, members |-> inside]
    BY <2>1, Resting DEF Good, RoundOver
  <2>3. Epochs = round
    BY <2>1 DEF Epochs, RoundOK, ProgramOK
  <2> QED
    BY <2>2, <2>3
<1> QED
  BY <1>1, RoundsHold, PTL

\* Two nodes that call Setup for the same epoch do so with the same members, at
\* any time.  With newcomers that announce themselves this stays with TLC.
THEOREM ClientsShareView == ClientSpec => [](client # "join" => SameView)
<1>1. TypeOK /\ KnownSigners /\ RoundsOK => (client # "join" => SameView)
  <2> SUFFICES ASSUME TypeOK, KnownSigners, RoundHolds,
                      NEW a \in Node, NEW b \in Node,
                      view[a].epoch = view[b].epoch
               PROVE  view[a].members = view[b].members
    BY DEF RoundsOK, SameView
  <2>1. PICK h \in History : RoundOK(h)
    BY DEF RoundHolds
  <2>2. round \in Nat \ {0}
    BY <2>1, Basics DEF Good
  <2>3. \A n \in Node :
           \/ view[n] = [epoch |-> round, members |-> inside]
           \/ view[n] = NoView
           \/ \E k \in 1 .. round - 1 : view[n] = [epoch |-> k, members |-> h[k]]
    BY <2>1 DEF RoundOK, ViewOK
  <2>4. \A n \in Node :
           \/ view[n].epoch = round /\ view[n].members = inside
           \/ view[n].epoch = 0 /\ view[n].members = NoView.members
           \/ /\ view[n].epoch \in 1 .. round - 1
              /\ view[n].members = h[view[n].epoch]
    <3> TAKE x \in Node
    <3>1. CASE view[x] = [epoch |-> round, members |-> inside]
      BY <3>1
    <3>2. CASE view[x] = NoView
      BY <3>2 DEF NoView
    <3>3. ASSUME NEW k \in 1 .. round - 1,
                 view[x] = [epoch |-> k, members |-> h[k]]
          PROVE  /\ view[x].epoch \in 1 .. round - 1
                 /\ view[x].members = h[view[x].epoch]
      BY <3>3
    <3> QED
      BY <2>3, <3>1, <3>2, <3>3
  <2> QED
    BY <2>2, <2>4
<1> QED
  BY <1>1, RoundsHold, PTL

\* Whoever was confirmed for an epoch is a member for everyone who starts it.
\* With newcomers that announce themselves it is not (MCJoining).
THEOREM ConfirmedAreMembers ==
  ClientSpec => [](client # "join" => ConfirmedJoins)
<1>1. TypeOK /\ KnownSigners /\ RoundsOK => (client # "join" => ConfirmedJoins)
  <2> SUFFICES ASSUME TypeOK, KnownSigners, RoundHolds,
                      NEW n \in Node, NEW m \in Node,
                      view[m].epoch \in confirmed[n]
               PROVE  n \in view[m].members
    BY DEF RoundsOK, ConfirmedJoins
  <2>1. PICK h \in History : RoundOK(h)
    BY DEF RoundHolds
  <2>2. round \in Nat \ {0}
    BY <2>1, Basics DEF Good
  <2>3. \/ view[m].epoch \in 1 .. round - 1 /\ n \in h[view[m].epoch]
        \/ view[m].epoch = round /\ Stand[n] \in Registered
    BY <2>1 DEF RoundOK, ConfirmedOK
  <2>4. \/ view[m] = [epoch |-> round, members |-> inside]
        \/ view[m] = NoView
        \/ \E k \in 1 .. round - 1 : view[m] = [epoch |-> k, members |-> h[k]]
    BY <2>1 DEF RoundOK, ViewOK
  <2>5. view[m].epoch # 0
    BY <2>2, <2>3
  <2>6. CASE view[m] = [epoch |-> round, members |-> inside]
    <3>1. Stand[n] \in Registered
      BY <2>2, <2>3, <2>6
    <3> QED
      BY <2>6, <3>1 DEF Stand, Registered
  <2>7. CASE view[m] = NoView
    BY <2>5, <2>7 DEF NoView
  <2>8. ASSUME NEW k \in 1 .. round - 1,
               view[m] = [epoch |-> k, members |-> h[k]]
        PROVE  n \in view[m].members
    BY <2>2, <2>3, <2>8
  <2> QED
    BY <2>4, <2>6, <2>7, <2>8
<1> QED
  BY <1>1, RoundsHold, PTL

\* When the genesis signers are set again, nothing of the last run is left: no
\* token, no call under way, no message.
THEOREM RunsAreClean == ClientSpec => CleanRuns
<1>1. TypeOK /\ KnownSigners /\ RoundsOK /\ GenesisAgain =>
        /\ \A n \in Node : /\ epochChan'[n] = <<>>
                           /\ ~ updating'[n] /\ starting'[n] = 0
                           /\ reg'[n] = Idle /\ cons'[n] = NoRound
        /\ announces' = {} /\ requests' = {} /\ snapshots' = {}
        /\ histories' = {}
  <2> SUFFICES ASSUME TypeOK, KnownSigners, RoundsOK, GenesisAgain
               PROVE  /\ \A n \in Node :
                           /\ epochChan'[n] = <<>>
                           /\ ~ updating'[n] /\ starting'[n] = 0
                           /\ reg'[n] = Idle /\ cons'[n] = NoRound
                      /\ announces' = {} /\ requests' = {} /\ snapshots' = {}
                      /\ histories' = {}
    OBVIOUS
  <2>1. client = "throughput" /\ AllReturned
        /\ UNCHANGED <<epochChan, callVars, netVars>>
    BY DEF GenesisAgain
  <2>2. PICK h \in History : RoundOK(h)
    BY <2>1 DEF RoundsOK, RoundHolds
  <2>3. stage = "request"
    BY <2>1, <2>2 DEF RoundOK, ProgramOK
  <2> QED
    BY <2>1, <2>2, <2>3, Resting DEF Good, callVars, netVars
<1> QED
  BY <1>1, RoundsHold, PTL DEF CleanRuns

-----------------------------------------------------------------------------
(***************************************************************************)
(* The rounds implement MembershipEpochs.                                  *)
(***************************************************************************)

\* Only a successful StartNewEpoch changes what a node is a member of.
LEMMA ViewsStay ==
  ASSUME NEW n \in Node, NEW from, NEW to, NEW after,
         \/ Registering(n, from, to, after)
         \/ Leading(n, from, to, after)
         \/ Starting(n, from, to),
         from = "token" /\ to = "returned" => ~ StartSucceeds(n)
  PROVE  view' = view
<1>1. CASE Registering(n, from, to, after)
  BY <1>1 DEF Registering, RegisterBegins, RegisterLeaksLock, RegisterEnds,
     vars, nodeVars
<1>2. CASE Leading(n, from, to, after)
  BY <1>2 DEF Leading, ConsensusBegins, ConsensusPanics, ConsensusReached,
     vars, nodeVars
<1>3. CASE Starting(n, from, to)
  BY <1>3 DEF Starting, StartBegins, StartFails, StartStuck, vars, nodeVars
<1> QED
  BY <1>1, <1>2, <1>3

\* Neither do the handlers and the updates.
LEMMA ViewsStayServing ==
  ASSUME NEW n \in Node,
         Serve(n) \/ UpdateBegins(n) \/ UpdateEnds(n) \/ RegisterTimesOut(n)
  PROVE  view' = view
<1>1. CASE SignatureReturns(n) \/ \E m \in Node : SignersAgreed(n, m)
  BY <1>1 DEF SignatureReturns, SignersAgreed, nodeVars
<1>2. CASE AnnounceStored(n) \/ AnnounceRefused(n) \/ AnnounceStuck(n)
  BY <1>2 DEF AnnounceStored, AnnounceRefused, AnnounceStuck
<1>3. CASE HistoryRead(n) \/ HistorySent(n)
  BY <1>3 DEF HistoryRead, HistorySent, nodeVars
<1>4. CASE HistoryReceived(n) \/ HistoryStuck(n)
  BY <1>4 DEF HistoryReceived, HistoryStuck
<1>5. CASE UpdateBegins(n) \/ UpdateEnds(n) \/ RegisterTimesOut(n)
  BY <1>5 DEF UpdateBegins, UpdateEnds, RegisterTimesOut, nodeVars
<1> QED
  BY <1>1, <1>2, <1>3, <1>4, <1>5 DEF Serve

\* A start enters the epoch of the round, with those who were called, for the
\* first time.
LEMMA StartEnters ==
  ASSUME NEW h, Good(h), NEW n \in Node, NEW to \in {"returned", "setup"},
         StartSucceeds(n), Waited(n, "token", to)
  PROVE  Promised!Next
<1>1. /\ pc[n] = "token" /\ pc' = [pc EXCEPT ![n] = to]
      /\ UNCHANGED <<round, stage, inside>>
  BY DEF Waited, GoTo, clientVars
<1>2. /\ n \in inside /\ stage \in {"request", "start"} /\ Stand[n] = "token"
  BY <1>1, StandIs DEF CallsOf, Stand
<1>3. Stand'[n] = "done"
  <2>1. pc'[n] = to
    BY <1>1 DEF Good, RoundOK, ProgramOK
  <2> QED
    BY <1>1, <1>2, <2>1 DEF Stand
<1>4. view'[n] = [epoch |-> round, members |-> inside]
  <2>1. ViewOK(h)'
    BY StepStarted DEF RoundOK
  <2> QED
    BY <1>1, <1>3, <2>1 DEF ViewOK
<1>5. view' = [view EXCEPT ![n] = [epoch |-> round, members |-> inside]]
  <2>1. PICK v : view' = [view EXCEPT ![n] = v]
    BY DEF StartSucceeds
  <2>2. view'[n] = v
    BY <2>1 DEF Good, TypeOK, NodeTypeOK
  <2> QED
    BY <1>4, <2>1, <2>2
<1>6. view[n].epoch < round
  <2>1. \/ view[n] = NoView
        \/ \E k \in 1 .. round - 1 : view[n] = [epoch |-> k, members |-> h[k]]
    BY <1>2 DEF Good, RoundOK, ViewOK
  <2>2. round \in Nat \ {0}
    BY Basics
  <2>3. view[n].epoch \in 0 .. round - 1
    <3>1. CASE view[n] = NoView
      BY <2>2, <3>1 DEF NoView
    <3>2. ASSUME NEW k \in 1 .. round - 1,
                 view[n] = [epoch |-> k, members |-> h[k]]
          PROVE  view[n].epoch \in 0 .. round - 1
      BY <2>2, <3>2
    <3> QED
      BY <2>1, <3>1, <3>2
  <2> QED
    BY <2>2, <2>3
<1>7. Promised!Enter(n)
  BY <1>1, <1>2, <1>5, <1>6 DEF Promised!Enter
<1> QED
  BY <1>2, <1>7 DEF Promised!Next

\* A call that is waited for enters an epoch or changes no view.
LEMMA CallEnters ==
  ASSUME NEW h, Good(h), NEW n \in Node, NEW to, NEW after,
         \/ Registering(n, pc[n], to, after)
         \/ Leading(n, pc[n], to, after)
         \/ Starting(n, pc[n], to),
         Waited(n, pc[n], to)
  PROVE  Promised!Next \/ UNCHANGED <<round, inside, view>>
<1>1. CASE pc[n] = "token" /\ to = "returned" /\ StartSucceeds(n)
  BY <1>1, StartEnters
<1>2. CASE ~ (pc[n] = "token" /\ to = "returned" /\ StartSucceeds(n))
  <2>1. view' = view
    <3>1. pc[n] = "token" /\ to = "returned" => ~ StartSucceeds(n)
      BY <1>2
    <3>2. PICK from : from = pc[n]
      OBVIOUS
    <3>3. \/ Registering(n, from, to, after)
          \/ Leading(n, from, to, after)
          \/ Starting(n, from, to)
      BY <3>2
    <3> QED
      BY <3>1, <3>2, <3>3, ViewsStay
  <2> QED
    BY <2>1 DEF Waited, GoTo, clientVars
<1> QED
  BY <1>1, <1>2

\* A call of the programs that make them one by one does, too: the only call
\* that is not waited for is the leader's.
LEMMA CallsEnter ==
  ASSUME NEW h, Good(h), NEW n \in Node, CallByCall(n)
  PROVE  Promised!Next \/ UNCHANGED <<round, inside, view>>
<1>1. <<n, "token">> \notin apart
  BY DEF Good, RoundOK, ProgramOK
<1>2. CASE UpdateForNewNode(n) \/ UpdateNode(n) \/ Answered(n)
           \/ AloneTimesOut(n)
  <2>1. UNCHANGED <<round, inside>>
    BY <1>2 DEF UpdateForNewNode, UpdateNode, Answered, AloneTimesOut, Waited,
       Apart, GoTo, clientVars, reqVars
  <2>2. view' = view
    BY <1>2, ViewsStayServing DEF UpdateForNewNode, UpdateNode, Answered,
       AloneTimesOut, vars, nodeVars
  <2> QED
    BY <2>1, <2>2
<1>3. ASSUME NEW to \in Place,
             \/ Registering(n, pc[n], to, "returned")
             \/ Starting(n, pc[n], to),
             Waited(n, pc[n], to)
      PROVE  Promised!Next \/ UNCHANGED <<round, inside, view>>
  BY <1>3, CallEnters
<1>4. ASSUME NEW from, NEW to,
             \/ Registering(n, from, to, "answered")
             \/ Leading(n, from, to, "returned")
             \/ Starting(n, from, to),
             Apart(n, from, to)
      PROVE  UNCHANGED <<round, inside, view>>
  <2>1. from # "token" /\ UNCHANGED <<round, inside>>
    BY <1>1, <1>4 DEF Apart, reqVars
  <2>2. view' = view
    <3>1. CASE Registering(n, from, to, "answered")
      BY <2>1, <3>1, ViewsStay
    <3>2. CASE Leading(n, from, to, "returned") \/ Starting(n, from, to)
      BY <2>1, <3>2, ViewsStay
    <3> QED
      BY <1>4, <3>1, <3>2
  <2> QED
    BY <2>1, <2>2
<1> QED
  BY <1>2, <1>3, <1>4 DEF CallByCall

\* A request does, too.
LEMMA RequestEnters ==
  ASSUME NEW h, Good(h), NEW n \in Node, ReqUpdate(n) \/ ReqCalls(n),
         UNCHANGED clientVars
  PROVE  Promised!Next \/ UNCHANGED <<round, inside, view>>
<1>1. CASE ReqUpdate(n)
  <2>1. UNCHANGED <<round, inside>>
    BY <1>1 DEF ReqUpdate, GoTo, reqVars, clientVars
  <2>2. view' = view
    BY <1>1, ViewsStayServing DEF ReqUpdate, vars, nodeVars
  <2> QED
    BY <2>1, <2>2
<1>2. CASE ReqCalls(n)
  <2>1. PICK to \in Place :
          /\ \/ Registering(n, pc[n], to, AfterRegister(n))
             \/ Leading(n, pc[n], to, "start")
             \/ Starting(n, pc[n], to)
          /\ GoTo(n, pc[n], to)
    BY <1>2 DEF ReqCalls
  <2>2. Waited(n, pc[n], to)
    BY <2>1 DEF Waited
  <2>3. CASE Registering(n, pc[n], to, AfterRegister(n))
    BY <2>2, <2>3, CallEnters
  <2>4. CASE Leading(n, pc[n], to, "start") \/ Starting(n, pc[n], to)
    BY <2>2, <2>4, CallEnters
  <2> QED
    BY <2>1, <2>3, <2>4
<1> QED
  BY <1>1, <1>2

\* A new round, and a new run, begin when everybody is in the last epoch.
LEMMA RoundBegins ==
  ASSUME NEW h, Good(h), RoundHolds',
         NormalRound \/ UpdateStage \/ GenesisAgain
  PROVE  Promised!Next
<1>1. ProgramOK /\ ProgramOK' /\ AllReturned
  BY DEF Good, RoundOK, RoundHolds, NormalRound, UpdateStage, GenesisAgain,
     NextRound, AllReturned
<1>2. stage \in {"request", "start"}
  BY <1>1 DEF ProgramOK, NormalRound, UpdateStage, GenesisAgain
<1>3. Promised!AllEntered
  <2>1. \A n \in inside : view[n] = [epoch |-> round, members |-> inside]
    BY <1>1, <1>2, Resting
  <2> QED
    BY <2>1 DEF Promised!AllEntered
<1>4. inside' \in (SUBSET Node) \ {{}}
  BY <1>1 DEF ProgramOK
<1>5. CASE NormalRound \/ UpdateStage
  <2>1. round' = round + 1 /\ UNCHANGED view
    BY <1>5 DEF NormalRound, UpdateStage, NextRound, vars, nodeVars
  <2> QED
    BY <1>3, <1>4, <2>1 DEF Promised!Next, Promised!NextEpoch
<1>6. CASE GenesisAgain
  <2>1. /\ round = 1 /\ round' = round
        /\ inside \subseteq inside' /\ inside # inside'
    BY <1>1, <1>6 DEF GenesisAgain, ProgramOK
  <2>2. view' = [m \in Node |-> Promised!Outside]
    BY <1>6 DEF GenesisAgain, NoView, Promised!Outside
  <2> QED
    BY <1>3, <1>4, <2>1, <2>2 DEF Promised!Next, Promised!Restart
<1> QED
  BY <1>5, <1>6

\* Whatever the client and the services do is a step of MembershipEpochs or
\* none.
LEMMA StepPromised ==
  ASSUME NEW h, Good(h), ClientNext, RoundHolds'
  PROVE  Promised!Next \/ UNCHANGED <<round, inside, view>>
<1>1. client # "join"
  BY DEF Good, RoundOK, ProgramOK
<1>2. CASE NormalRound \/ UpdateStage \/ GenesisAgain
  BY <1>2, RoundBegins
<1>3. CASE ClientTick
  BY <1>3 DEF ClientTick, ReqTick, PassTime, reqVars, clientVars, nodeVars
<1>4. CASE RegisterStage
  <2>1. inside' = inside
    <3>1. PICK new \in {{}} : inside' = inside \cup new
      BY <1>1, <1>4 DEF RegisterStage
    <3> QED
      BY <3>1
  <2> QED
    BY <1>4, <2>1 DEF RegisterStage, vars, nodeVars
<1>5. CASE StartStage
  BY <1>5 DEF StartStage, vars, nodeVars
<1>6. ASSUME NEW n \in Node, ReqUpdate(n) \/ ReqCalls(n), UNCHANGED clientVars
      PROVE  Promised!Next \/ UNCHANGED <<round, inside, view>>
  BY <1>6, RequestEnters
<1>7. ASSUME NEW n \in Node, CallByCall(n)
      PROVE  Promised!Next \/ UNCHANGED <<round, inside, view>>
  BY <1>7, CallsEnter
<1>8. ASSUME NEW n \in Node, Serve(n), UNCHANGED clientVars
      PROVE  UNCHANGED <<round, inside, view>>
  BY <1>8, ViewsStayServing DEF Serve, reqVars, clientVars
<1>9. ASSUME NEW n \in Node, SetupWaits(n) PROVE Promised!Next
  BY <1>9, StartEnters DEF SetupWaits
<1> QED
  BY <1>2, <1>3, <1>4, <1>5, <1>6, <1>7, <1>8, <1>9 DEF ClientNext, ClientStep

\* The client programs enter one epoch after the other, each node once, all of
\* an epoch with the same members and before the next begins: MembershipEpochs
\* is what they implement, for any nodes, rounds, leavers and leaders.
THEOREM EpochsAreEntered == ClientSpec => EpochByEpoch
<1>1. ClientInit => Promised!Init
  <2> SUFFICES ASSUME ClientInit PROVE Promised!Init
    OBVIOUS
  <2>1. view = [n \in Node |-> Promised!Outside] /\ round = 1
    BY DEF ClientInit, Init, NoView, Promised!Outside
  <2>2. inside \in (SUBSET Node) \ {{}}
    <3>1. CASE client = "join"
      BY <3>1, NodeAssumption DEF ClientInit
    <3>2. CASE client # "join"
      BY <3>2, FirstRound DEF RoundHolds, RoundOK, ProgramOK
    <3> QED
      BY <3>1, <3>2
  <2> QED
    BY <2>1, <2>2 DEF Promised!Init
<1>2. TypeOK /\ KnownSigners /\ RoundsOK /\ [ClientNext]_every
        => [client # "join" => Promised!Next]_<<round, inside, view>>
  <2> SUFFICES ASSUME TypeOK, KnownSigners, RoundHolds, [ClientNext]_every,
                      client # "join"
               PROVE  Promised!Next \/ UNCHANGED <<round, inside, view>>
    BY DEF RoundsOK
  <2>1. PICK h \in History : RoundOK(h)
    BY DEF RoundHolds
  <2>2. Good(h)
    BY <2>1 DEF Good
  <2>3. CASE ClientNext
    BY <2>2, <2>3, NextRoundOK, StepPromised
  <2>4. CASE UNCHANGED every
    BY <2>4 DEF every, allVars, reqVars, clientVars, vars, nodeVars
  <2> QED
    BY <2>3, <2>4
<1> QED
  BY <1>1, <1>2, RoundsHold, PTL DEF ClientSpec, EpochByEpoch
=============================================================================
