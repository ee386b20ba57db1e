-------------------------- MODULE MembershipChain --------------------------
(***************************************************************************)
(* The membership chain service (membershipchainservice/*.go): every node  *)
(* keeps, for every epoch, the set of signers that registered for it, and  *)
(*   - registers itself with the signers of the current epoch, through a   *)
(*     signature round and the gossip protocol (CreateProofForEpoch),      *)
(*   - fetches the history of another node (UpdateHistoryWith),            *)
(*   - as a leader, asks the committee to agree on the signers and sends   *)
(*     the history to the new ones (GetConsencusOnNewSigners),             *)
(*   - starts the next epoch with the signers it knows (StartNewEpoch).    *)
(*                                                                         *)
(* Clients may call these operations on any node at any time.  Messages    *)
(* and handlers run in goroutines of their own, so they are served in any  *)
(* order and with any delay; nothing is lost.  A lock the code does not    *)
(* release stays held, and whoever needs it afterwards waits for ever.     *)
(***************************************************************************)
EXTENDS PhaseClock, Sequences, FiniteSets

CONSTANTS
    Node,            \* the services, named node_0, node_1, ...
    Genesis,         \* the signers of epoch 0
    Leader,          \* node_0: whom an update falls back on
    Backup,          \* node_1: whom node_0 falls back on
    Quota,           \* bound: how often each node may begin each operation
    MaxStarts        \* bound: the calls of StartNewEpoch waiting on a node

ASSUME NodeAssumption ==
    /\ IsFiniteSet(Node)
    /\ Genesis \subseteq Node
    /\ {Leader, Backup} \subseteq Genesis
    /\ Leader # Backup
ASSUME BoundAssumption ==
    /\ Quota \in [Node -> [update : Nat, register : Nat, consensus : Nat]]
    /\ MaxStarts \in Nat

VARIABLES
    e,           \* e[n]: Service.e, the epoch n believes to be in
    storage,     \* storage[n]: Signers (len, set, nil maps) and the mutex
    servers,     \* servers[n]: the nodes in Service.Servers
    names,       \* names[n]: the nodes in Service.ServerIdentityToName
    epochChan,   \* epochChan[n]: tokens in EpochChan, then blocked senders
    view,        \* view[n]: the members Setup was last called with
    confirmed,   \* confirmed[n]: epochs CreateProofForEpoch succeeded for
    updating,    \* updating[n]: UpdateHistoryWith waits for a token
    starting,    \* starting[n]: calls of StartNewEpoch waiting for a token
    reg,         \* reg[n]: the registration n is running
    cons,        \* cons[n]: the consensus n is leading
    calls,       \* calls[n]: how many of each operation n has begun
    announces,   \* Announce messages of the gossip protocol
    requests,    \* ReqHistory messages and histories a leader must send
    snapshots,   \* SendHistory calls between the two mutexes
    histories    \* ReplyHistory messages

nodeVars == <<e, storage, servers, names, epochChan, view, confirmed>>
callVars == <<updating, starting, reg, cons, calls>>
netVars  == <<announces, requests, snapshots, histories>>
vars     == <<clock, nodeVars, callVars, netVars>>

NoSigners == [k \in Epoch |-> {}]
NoView    == [epoch |-> 0, members |-> {}]
Idle      == [pc |-> "idle", epoch |-> 0, roster |-> {},
              stored |-> {}, refused |-> {}]
NoRound   == [pc |-> "idle", epoch |-> 0, roster |-> {},
              list |-> {}, votes |-> {}]

\* What SetGenesisSigners leaves in the storage.
GenesisStorage == [len |-> 1, set |-> [NoSigners EXCEPT ![0] = Genesis],
                   gaps |-> {}, locked |-> FALSE]

-----------------------------------------------------------------------------
\* Every node has executed SetGenesisSignersRequest.
Init ==
    /\ ClockInit
    /\ e = [n \in Node |-> 0]
    /\ storage = [n \in Node |-> GenesisStorage]
    /\ servers = [n \in Node |-> Genesis \cup {n}]
    /\ names = [n \in Node |-> Genesis]
    /\ epochChan = [n \in Node |-> <<>>]
    /\ view = [n \in Node |-> NoView]
    /\ confirmed = [n \in Node |-> {}]
    /\ updating = [n \in Node |-> FALSE]
    /\ starting = [n \in Node |-> 0]
    /\ reg = [n \in Node |-> Idle]
    /\ cons = [n \in Node |-> NoRound]
    /\ calls = [n \in Node |-> [update |-> 0, register |-> 0, consensus |-> 0]]
    /\ announces = {}
    /\ requests = {}
    /\ snapshots = {}
    /\ histories = {}

PassTime == Tick /\ UNCHANGED <<nodeVars, callVars, netVars>>

-----------------------------------------------------------------------------
\* CreateProofForEpoch and the gossip of its announce.

\* The members n must ask, and whether the lock is released on the way out:
\* the three error returns between Lock and Unlock keep the storage locked.
CurrentSigners(n) == storage[n].set[e[n]]
CannotAsk(n) ==
    \/ storage[n].len <= e[n]
    \/ ~ CurrentSigners(n) \subseteq servers[n]
    \/ CurrentSigners(n) = {}

\* A call to register for epoch e[n]+1; a call for another epoch is refused.
\* Outside of the registration phase it sleeps; SignatureRequest refuses it
\* once the consensus slot is reached.
MayRegister(n) ==
    /\ reg[n].pc = "idle"
    /\ clock.slot # "live"
    /\ e[n] < MaxEpoch
    /\ calls[n].register < Quota[n].register
    /\ ~ storage[n].locked

RegisterBegins(n) ==
    /\ MayRegister(n)
    /\ ~ CannotAsk(n)
    /\ ~ TooLate
    /\ reg' = [reg EXCEPT ![n] =
                 [Idle EXCEPT !.pc = "cosi", !.epoch = e[n] + 1,
                              !.roster = CurrentSigners(n) \cup {n}]]
    /\ calls' = [calls EXCEPT ![n].register = @ + 1]
    /\ UNCHANGED <<clock, nodeVars, updating, starting, cons, netVars>>

RegisterLeaksLock(n) ==
    /\ MayRegister(n)
    /\ CannotAsk(n)
    /\ storage' = [storage EXCEPT ![n].locked = TRUE]
    /\ UNCHANGED <<clock, e, servers, names, epochChan, view, confirmed,
                   callVars, netVars>>

\* The announced epoch is s.e + 1, read after the signature round.
\* Mutant: one epoch too far.
AnnouncedTooFar(n) == e[n] + 2
Announced(n) == e[n] + 1

\* The signature round returns and the gossip starts at its root.  The proof
\* is never nil, also when the round failed, and addSigner tests no more.
SignatureReturns(n) ==
    /\ reg[n].pc = "cosi"
    /\ e[n] < MaxEpoch
    /\ announces' = announces \cup
         {[from |-> n, to |-> n, epoch |-> Announced(n),
           roster |-> reg[n].roster, call |-> calls[n].register]}
    /\ reg' = [reg EXCEPT ![n].pc = "gossip"]
    /\ UNCHANGED <<clock, nodeVars, updating, starting, cons, calls,
                   requests, snapshots, histories>>

\* addSigner: a missing epoch is appended before anything is refused.
TooFuture(n, k) == k > storage[n].len
NilMap(n, k)    == k \in storage[n].gaps
Extended(n, k)  == [storage[n] EXCEPT !.len = IF k = @ THEN k + 1 ELSE @]

\* Mutant: the consensus slot is open to registrations.
RefusedWhenLive(n, k) == e[n] > k \/ clock.slot = "live" \/ clock.epoch >= k
Refused(n, k)         == e[n] > k \/ TooLate \/ clock.epoch >= k

\* Mutants: the epoch gets a new set of signers every time; the signer is
\* stored for the epoch the committee is in.
StoredAlone(n, m) == [Extended(n, m.epoch) EXCEPT !.set[m.epoch] = {m.from}]
StoredTooEarly(n, m) ==
    [Extended(n, m.epoch) EXCEPT !.set[m.epoch - 1] = @ \cup {m.from}]
Stored(n, m) == [Extended(n, m.epoch) EXCEPT !.set[m.epoch] = @ \cup {m.from}]

\* The root passes the announce on to its children once it handled its own.
PassedOn(m) == IF m.from = m.to
               THEN {[m EXCEPT !.to = c] : c \in m.roster \ {m.from}}
               ELSE {}

\* Every confirmation goes back to the registration that asked for it, unless
\* that one gave up.
Awaited(m) == reg[m.from].pc = "gossip" /\ calls[m.from].register = m.call

\* Mutant: the identity is not given its name.
LearnServerOnly(n, m) ==
    /\ servers' = [servers EXCEPT ![n] = @ \cup {m.from}]
    /\ names' = names
LearnServer(n, m) ==
    /\ servers' = [servers EXCEPT ![n] = @ \cup {m.from}]
    /\ names' = [names EXCEPT ![n] = @ \cup {m.from}]

AnnounceStored(n) == \E m \in announces :
    /\ m.to = n
    /\ ~ storage[n].locked
    /\ ~ TooFuture(n, m.epoch)
    /\ ~ Refused(n, m.epoch)
    /\ ~ NilMap(n, m.epoch)
    /\ LearnServer(n, m)
    /\ storage' = [storage EXCEPT ![n] = Stored(n, m)]
    /\ reg' = IF Awaited(m)
              THEN [reg EXCEPT ![m.from].stored = @ \cup {n}] ELSE reg
    /\ announces' = (announces \ {m}) \cup PassedOn(m)
    /\ UNCHANGED <<clock, e, epochChan, view, confirmed, updating, starting,
                   cons, calls, requests, snapshots, histories>>

\* A refused announce is answered, but the storage stays locked.
AnnounceRefused(n) == \E m \in announces :
    /\ m.to = n
    /\ ~ storage[n].locked
    /\ TooFuture(n, m.epoch) \/ Refused(n, m.epoch)
    /\ LearnServer(n, m)
    /\ storage' = [storage EXCEPT ![n] =
                     [Extended(n, m.epoch) EXCEPT !.locked = TRUE]]
    /\ reg' = IF Awaited(m)
              THEN [reg EXCEPT ![m.from].refused = @ \cup {n}] ELSE reg
    /\ announces' = (announces \ {m}) \cup PassedOn(m)
    /\ UNCHANGED <<clock, e, epochChan, view, confirmed, updating, starting,
                   cons, calls, requests, snapshots, histories>>

\* The handler waits for the lock for ever, or dies holding it when it writes
\* to the nil map a shorter history left: no answer, nothing is passed on.
AnnounceStuck(n) == \E m \in announces :
    /\ m.to = n
    /\ \/ storage[n].locked
       \/ /\ ~ TooFuture(n, m.epoch)
          /\ ~ Refused(n, m.epoch)
          /\ NilMap(n, m.epoch)
    /\ LearnServer(n, m)
    /\ storage' = [storage EXCEPT ![n].locked = TRUE]
    /\ announces' = announces \ {m}
    /\ UNCHANGED <<clock, e, epochChan, view, confirmed, callVars,
                   requests, snapshots, histories>>

\* The number of confirmations is the number of nodes asked.
\* Mutant: any confirmation is enough.
AnyConfirmed(n) == reg[n].stored # {}
AllConfirmed(n) == reg[n].stored = reg[n].roster

\* All the nodes of the tree answered.  A tree of one node is a leaf and never
\* reports.
RegisterEnds(n) ==
    /\ reg[n].pc = "gossip"
    /\ reg[n].roster # {n}
    /\ reg[n].stored \cup reg[n].refused = reg[n].roster
    /\ confirmed' = IF AllConfirmed(n)
                    THEN [confirmed EXCEPT ![n] = @ \cup {reg[n].epoch}]
                    ELSE confirmed
    /\ reg' = [reg EXCEPT ![n] = Idle]
    /\ UNCHANGED <<clock, e, storage, servers, names, epochChan, view,
                   updating, starting, cons, calls, netVars>>

\* The root's timer or the caller's fires: too few confirmations.
RegisterTimesOut(n) ==
    /\ reg[n].pc = "gossip"
    /\ reg' = [reg EXCEPT ![n] = Idle]
    /\ UNCHANGED <<clock, nodeVars, updating, starting, cons, calls, netVars>>

-----------------------------------------------------------------------------
\* UpdateHistoryWith, SendHistory, ExecReqHistory and ExecReplyHistory.

Ask(n, t) == requests' = requests \cup
    {[by |-> t, to |-> n, kind |-> "update", call |-> <<n, calls[n].update>>]}

\* ExecUpdate, ExecUpdateForNewNode and ExecEpochRequest ask a random server.
UpdateBegins(n) ==
    /\ ~ updating[n]
    /\ calls[n].update < Quota[n].update
    /\ \E t \in servers[n] \ {n} : Ask(n, t)
    /\ updating' = [updating EXCEPT ![n] = TRUE]
    /\ calls' = [calls EXCEPT ![n].update = @ + 1]
    /\ UNCHANGED <<clock, nodeVars, starting, reg, cons,
                   announces, snapshots, histories>>

\* After ten seconds without an answer, ask node_0 (node_0 asks node_1).  The
\* first request is still out.
UpdateTimesOut(n) ==
    /\ updating[n]
    /\ calls[n].update < Quota[n].update
    /\ Ask(n, IF n = Leader THEN Backup ELSE Leader)
    /\ calls' = [calls EXCEPT ![n].update = @ + 1]
    /\ UNCHANGED <<clock, nodeVars, updating, starting, reg, cons,
                   announces, snapshots, histories>>

\* Whatever token comes first out of EpochChan is taken for the answer.
UpdateEnds(n) ==
    /\ updating[n]
    /\ epochChan[n] # <<>>
    /\ e' = [e EXCEPT ![n] = Head(epochChan[n])]
    /\ epochChan' = [epochChan EXCEPT ![n] = Tail(@)]
    /\ updating' = [updating EXCEPT ![n] = FALSE]
    /\ UNCHANGED <<clock, storage, servers, names, view, confirmed,
                   starting, reg, cons, calls, netVars>>

\* SendHistory flattens the signers under the storage mutex ...
HistoryRead(n) == \E r \in requests :
    /\ r.by = n
    /\ ~ storage[n].locked
    /\ requests' = requests \ {r}
    /\ snapshots' = snapshots \cup {[req |-> r, set |-> storage[n].set]}
    /\ UNCHANGED <<clock, nodeVars, callVars, announces, histories>>

\* ... and sends them with the servers it reads later, under their own mutex.
HistorySent(n) == \E s \in snapshots :
    /\ s.req.by = n
    /\ snapshots' = snapshots \ {s}
    /\ histories' = histories \cup
         {[req |-> s.req, set |-> s.set,
           servers |-> servers[n], names |-> names[n]]}
    /\ UNCHANGED <<clock, nodeVars, callVars, announces, requests>>

\* The last epoch with a signer: later empty epochs do not survive flattening,
\* earlier ones come back as nil maps.
IsLast(k, set) == set[k] # {} /\ \A j \in Epoch : j > k => set[j] = {}
Rebuilt(k, set) == [len |-> k + 1, set |-> set,
                    gaps |-> {j \in 0 .. k : set[j] = {}}, locked |-> FALSE]

LearnAll(n, h) ==
    /\ servers' = [servers EXCEPT ![n] = @ \cup h.servers]
    /\ names' = [names EXCEPT ![n] = @ \cup h.names]

\* The history replaces the storage of n and a token announces its epoch.
HistoryReceived(n) == \E h \in histories, last \in Epoch :
    /\ h.req.to = n
    /\ IsLast(last, h.set)
    /\ ~ storage[n].locked
    /\ LearnAll(n, h)
    /\ storage' = [storage EXCEPT ![n] = Rebuilt(last, h.set)]
    /\ epochChan' = [epochChan EXCEPT ![n] =
                       Append(@, IF e[n] < last THEN last ELSE e[n])]
    /\ histories' = histories \ {h}
    /\ UNCHANGED <<clock, e, view, confirmed, callVars,
                   announces, requests, snapshots>>

HistoryStuck(n) == \E h \in histories :
    /\ h.req.to = n
    /\ storage[n].locked
    /\ LearnAll(n, h)
    /\ histories' = histories \ {h}
    /\ UNCHANGED <<clock, e, storage, epochChan, view, confirmed, callVars,
                   announces, requests, snapshots>>

-----------------------------------------------------------------------------
\* GetConsencusOnNewSigners and AgreeOnState(ro, SIGNERSMSG).

\* getRosterForEpoch: the signers of Service.e, if n is one of them.
IndexPanics(n, k) == k >= storage[n].len
IsMember(n, k) ==
    /\ storage[n].set[k] \subseteq servers[n]
    /\ n \in storage[n].set[k]

\* External: blscosi's default threshold tolerates a third of the roster.
Threshold(size) == size - ((size - 1) \div 3)

MayLead(n) ==
    /\ cons[n].pc = "idle"
    /\ clock.slot # "open"
    /\ e[n] < MaxEpoch
    /\ calls[n].consensus < Quota[n].consensus
    /\ ~ storage[n].locked

\* The leader asks the roster to sign the signers of the epoch it is in.
ConsensusBegins(n) ==
    /\ MayLead(n)
    /\ ~ IndexPanics(n, e[n])
    /\ IsMember(n, e[n])
    /\ cons' = [cons EXCEPT ![n] =
                  [pc |-> "agree", epoch |-> e[n],
                   roster |-> CurrentSigners(n),
                   list |-> CurrentSigners(n), votes |-> {n}]]
    /\ calls' = [calls EXCEPT ![n].consensus = @ + 1]
    /\ UNCHANGED <<clock, nodeVars, updating, starting, reg, netVars>>

\* Indexing the signers out of range panics with the storage locked.
ConsensusPanics(n) ==
    /\ MayLead(n)
    /\ IndexPanics(n, e[n])
    /\ storage' = [storage EXCEPT ![n].locked = TRUE]
    /\ UNCHANGED <<clock, e, servers, names, epochChan, view, confirmed,
                   callVars, netVars>>

\* The verification function of AgreeStateSubProtocol on member m.
SignersAgreed(m, n) ==
    /\ cons[n].pc = "agree"
    /\ m \in cons[n].roster \ cons[n].votes
    /\ ~ storage[m].locked
    /\ storage[m].set[cons[n].epoch] = cons[n].list
    /\ cons' = [cons EXCEPT ![n].votes = @ \cup {m}]
    /\ UNCHANGED <<clock, nodeVars, updating, starting, reg, calls, netVars>>

\* Mutant: the leader sends a history to itself, too.
LeaderToo(n) == storage[n].set[e[n] + 1]
NewSigners(n) == storage[n].set[e[n] + 1] \ {n}

\* Enough signatures: the history goes to the signers of the next epoch and
\* the leader gets its own token.
ConsensusReached(n) ==
    /\ cons[n].pc = "agree"
    /\ Cardinality(cons[n].votes) >= Threshold(Cardinality(cons[n].roster))
    /\ ~ storage[n].locked
    /\ e[n] < MaxEpoch
    /\ requests' = requests \cup
         {[by |-> n, to |-> t, kind |-> "push",
           call |-> <<n, calls[n].consensus>>] :
             t \in NewSigners(n)}
    /\ epochChan' = [epochChan EXCEPT ![n] = Append(@, e[n] + 1)]
    /\ cons' = [cons EXCEPT ![n] = NoRound]
    /\ UNCHANGED <<clock, e, storage, servers, names, view, confirmed,
                   updating, starting, reg, calls,
                   announces, snapshots, histories>>

ConsensusFails(n) ==
    /\ cons[n].pc = "agree"
    /\ cons' = [cons EXCEPT ![n] = NoRound]
    /\ UNCHANGED <<clock, nodeVars, updating, starting, reg, calls, netVars>>

-----------------------------------------------------------------------------
\* StartNewEpoch.

StartBegins(n) ==
    /\ starting[n] < MaxStarts
    /\ clock.slot = "live"
    /\ e[n] = clock.epoch
    /\ starting' = [starting EXCEPT ![n] = @ + 1]
    /\ UNCHANGED <<clock, nodeVars, updating, reg, cons, calls, netVars>>

\* A token arrives; the epoch changes whatever getRosterForEpoch says next.
TokenTaken(n, k) ==
    /\ starting[n] > 0
    /\ epochChan[n] # <<>>
    /\ k = Head(epochChan[n])
    /\ e' = [e EXCEPT ![n] = k]
    /\ epochChan' = [epochChan EXCEPT ![n] = Tail(@)]
    /\ UNCHANGED <<clock, servers, names, confirmed, updating, reg, cons,
                   calls, netVars>>

\* Setup is called with the signers of the new epoch.  What it does, and that it
\* may never return, touches nothing here (LatencyExchange, Clients).
StartSucceeds(n) == \E k \in Epoch :
    /\ TokenTaken(n, k)
    /\ ~ storage[n].locked
    /\ ~ IndexPanics(n, k)
    /\ IsMember(n, k)
    /\ view' = [view EXCEPT ![n] =
                  [epoch |-> k, members |-> storage[n].set[k]]]
    /\ starting' = [starting EXCEPT ![n] = @ - 1]
    /\ UNCHANGED storage

StartFails(n) == \E k \in Epoch :
    /\ TokenTaken(n, k)
    /\ ~ storage[n].locked
    /\ \/ IndexPanics(n, k)
       \/ ~ IsMember(n, k)
    /\ storage' = [storage EXCEPT ![n].locked = IndexPanics(n, k)]
    /\ starting' = [starting EXCEPT ![n] = @ - 1]
    /\ UNCHANGED view

StartStuck(n) == \E k \in Epoch :
    /\ TokenTaken(n, k)
    /\ storage[n].locked
    /\ starting' = [starting EXCEPT ![n] = @ - 1]
    /\ UNCHANGED <<storage, view>>

-----------------------------------------------------------------------------
Register(n) ==
    \/ RegisterBegins(n) \/ RegisterLeaksLock(n) \/ SignatureReturns(n)
    \/ AnnounceStored(n) \/ AnnounceRefused(n) \/ AnnounceStuck(n)
    \/ RegisterEnds(n) \/ RegisterTimesOut(n)

Update(n) ==
    \/ UpdateBegins(n) \/ UpdateTimesOut(n) \/ UpdateEnds(n)
    \/ HistoryRead(n) \/ HistorySent(n)
    \/ HistoryReceived(n) \/ HistoryStuck(n)

Consensus(n) ==
    \/ ConsensusBegins(n) \/ ConsensusPanics(n)
    \/ \E m \in Node : SignersAgreed(m, n)
    \/ ConsensusReached(n) \/ ConsensusFails(n)

Start(n) ==
    \/ StartBegins(n) \/ StartSucceeds(n) \/ StartFails(n) \/ StartStuck(n)

Next ==
    \/ PassTime
    \/ \E n \in Node : Register(n) \/ Update(n) \/ Consensus(n) \/ Start(n)

Spec == Init /\ [][Next]_vars
=============================================================================
