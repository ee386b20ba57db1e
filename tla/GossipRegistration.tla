------------------------- MODULE GossipRegistration -------------------------
(***************************************************************************)
(* One run of the gossip registration protocol                             *)
(* (gossipregistrationprotocol/protocol.go) on a tree of nodes, and its    *)
(* caller, the end of CreateProofForEpoch.  The announce goes down the     *)
(* tree; every node calls addSigner, the leaves answer, the inner nodes    *)
(* add up the answers of their children.  Every node that collects has a   *)
(* timer, and the caller has one of its own.                               *)
(*                                                                         *)
(* onet hands the replies to a node once all its children have sent one,   *)
(* and runs Dispatch on every node when its first message arrives.         *)
(***************************************************************************)
EXTENDS Naturals, FiniteSets, FiniteSetsExt

CONSTANTS
    Node,       \* the nodes of the tree
    Root,       \* the node that registers
    Parent      \* the parent of every other node

ASSUME TreeAssumption ==
    /\ IsFiniteSet(Node)
    /\ Root \in Node
    /\ Parent \in [Node \ {Root} -> Node]

VARIABLES
    announced,      \* the nodes an Announce is on its way to
    state,          \* state[n]: "idle", "collecting", "done" or "hung"
    nConf,          \* nConf[n]: the node's own confirmation
    replies,        \* the Replies sent to a parent
    confirmations,  \* what was put in the root's ConfirmationsChan
    stored,         \* the nodes whose addSigner returned no error
    result,         \* of the caller
    late            \* has a handler hung or a timer fired?

vars == <<announced, state, nConf, replies, confirmations, stored, result,
          late>>

Children(n) == {c \in Node \ {Root} : Parent[c] = n}
IsLeaf(n)   == Children(n) = {}

Init ==
    /\ announced = {Root}
    /\ state = [n \in Node |-> "idle"]
    /\ nConf = [n \in Node |-> 1]
    /\ replies = {}
    /\ confirmations = {}
    /\ stored = {}
    /\ result = "none"
    /\ late = FALSE

\* SendToParent does nothing on the root.
SendToParent(n, conf) ==
    replies' = IF n = Root THEN replies
               ELSE replies \cup {[from |-> n, conf |-> conf]}

\* Dispatch up to the collection of replies: addSigner stores the signer (ok)
\* or returns an error.
Announce(n, ok) ==
    /\ n \in announced
    /\ state[n] = "idle"
    /\ nConf' = [nConf EXCEPT ![n] = IF ok THEN 1 ELSE 0]
    /\ stored' = IF ok THEN stored \cup {n} ELSE stored
    /\ announced' = (announced \ {n}) \cup Children(n)
    /\ IF IsLeaf(n)
       THEN SendToParent(n, nConf'[n]) /\ state' = [state EXCEPT ![n] = "done"]
       ELSE UNCHANGED replies /\ state' = [state EXCEPT ![n] = "collecting"]
    /\ UNCHANGED <<confirmations, result, late>>

\* addSigner waits for a storage that stays locked.
Hang(n) ==
    /\ n \in announced
    /\ state[n] = "idle"
    /\ state' = [state EXCEPT ![n] = "hung"]
    /\ announced' = announced \ {n}
    /\ late' = TRUE
    /\ UNCHANGED <<nConf, replies, confirmations, stored, result>>

Received(n) == {r \in replies : Parent[r.from] = n}

\* Mutants: a child counts for one, whatever its subtree said; a node counts
\* itself twice.
OnePerChild(n) == nConf[n] + Cardinality(Received(n))
SelfTwice(n) == 2 * nConf[n] + MapThenSumSet(LAMBDA r : r.conf, Received(n))
Total(n) == nConf[n] + MapThenSumSet(LAMBDA r : r.conf, Received(n))

\* All the children replied.
Collect(n) ==
    /\ state[n] = "collecting"
    /\ \A c \in Children(n) : \E r \in replies : r.from = c
    /\ SendToParent(n, Total(n))
    /\ confirmations' = IF n = Root THEN {Total(n)} ELSE confirmations
    /\ state' = [state EXCEPT ![n] = "done"]
    /\ UNCHANGED <<announced, nConf, stored, result, late>>

\* The timer of a collecting node: the root reports itself only, an inner node
\* writes to a channel nobody reads and never answers its parent.
TimeOut(n) ==
    /\ state[n] = "collecting"
    /\ confirmations' = IF n = Root THEN {nConf[n]} ELSE confirmations
    /\ state' = [state EXCEPT ![n] = "done"]
    /\ late' = TRUE
    /\ UNCHANGED <<announced, nConf, replies, stored, result>>

\* Mutant: a majority will do.
Majority(conf) == 2 * conf > Cardinality(Node)
Enough(conf)   == conf = Cardinality(Node)

CallerReads == \E conf \in confirmations :
    /\ result = "none"
    /\ result' = IF Enough(conf) THEN "ok" ELSE "error"
    /\ UNCHANGED <<announced, state, nConf, replies, confirmations, stored,
                   late>>

CallerTimesOut ==
    /\ result = "none"
    /\ result' = "error"
    /\ late' = TRUE
    /\ UNCHANGED <<announced, state, nConf, replies, confirmations, stored>>

Progress ==
    \/ \E n \in Node : Announce(n, TRUE) \/ Announce(n, FALSE) \/ Collect(n)
    \/ CallerReads

Next ==
    \/ Progress
    \/ \E n \in Node : Hang(n) \/ TimeOut(n)
    \/ CallerTimesOut

\* The messages arrive; a timer may fire and a handler hang before.
Spec == Init /\ [][Next]_vars /\ WF_vars(Progress)

-----------------------------------------------------------------------------
TypeOK ==
    /\ announced \subseteq Node
    /\ state \in [Node -> {"idle", "collecting", "done", "hung"}]
    /\ nConf \in [Node -> 0 .. 1]
    /\ replies \subseteq [from : Node \ {Root}, conf : 0 .. Cardinality(Node)]
    /\ confirmations \subseteq 0 .. Cardinality(Node)
    /\ stored \subseteq Node
    /\ result \in {"none", "ok", "error"}
    /\ late \in BOOLEAN

\* The caller succeeds only if every node of the tree stored the signer, and
\* nothing a late node does changes the result (service.go:221-234).
Abstract == INSTANCE Confirmation
ConfirmsAll == Abstract!Spec

\* The nodes below n, n included.
Closed(S) == \A m \in S : Children(m) \subseteq S
Below(n)  == {m \in Node : \A S \in SUBSET Node : n \in S /\ Closed(S) => m \in S}

\* A reply never counts a node that did not store, nor one node twice, whatever
\* timed out below it (protocol.go:74-86).
HonestCount ==
    \A r \in replies : r.conf = Cardinality(stored \cap Below(r.from))

\* Unless a timer fires or a handler hangs, the call ends as soon as the tree
\* has, and it is a success when no node refused.
Concludes == <>(late \/ result = IF stored = Node THEN "ok" ELSE "error")
=============================================================================
