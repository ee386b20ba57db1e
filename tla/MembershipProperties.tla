------------------------ MODULE MembershipProperties ------------------------
(***************************************************************************)
(* What MembershipChain must (and, for the documented claims at the end,   *)
(* should) guarantee.                                                      *)
(***************************************************************************)
EXTENDS MembershipChain

Signers(set) == UNION {set[k] : k \in Epoch}

History  == [Epoch -> SUBSET Node]
Store    == [len : 0 .. MaxEpoch + 1, set : History,
             gaps : SUBSET Epoch, locked : BOOLEAN]
View     == [epoch : Epoch, members : SUBSET Node]
Registration == [pc : {"idle", "cosi", "gossip"}, epoch : Epoch,
                 roster : SUBSET Node, stored : SUBSET Node,
                 refused : SUBSET Node]
Round    == [pc : {"idle", "agree"}, epoch : Epoch, roster : SUBSET Node,
             list : SUBSET Node, votes : SUBSET Node]
Count    == [update : Nat, register : Nat, consensus : Nat]
Announce == [from : Node, to : Node, epoch : Epoch,
             roster : SUBSET Node, call : Nat]
Request  == [by : Node, to : Node, kind : {"update", "push"},
             call : Node \X Nat]
Snapshot == [req : Request, set : History]
Reply    == [req : Request, set : History,
             servers : SUBSET Node, names : SUBSET Node]

NodeTypeOK ==
    /\ e \in [Node -> Epoch]
    /\ storage \in [Node -> Store]
    /\ servers \in [Node -> SUBSET Node]
    /\ names \in [Node -> SUBSET Node]
    /\ epochChan \in [Node -> Seq(Epoch)]
    /\ view \in [Node -> View]
    /\ confirmed \in [Node -> SUBSET Epoch]

CallTypeOK ==
    /\ updating \in [Node -> BOOLEAN]
    /\ starting \in [Node -> Nat]
    /\ reg \in [Node -> Registration]
    /\ cons \in [Node -> Round]
    /\ calls \in [Node -> Count]

NetTypeOK ==
    /\ announces \subseteq Announce
    /\ requests \subseteq Request
    /\ snapshots \subseteq Snapshot
    /\ histories \subseteq Reply

\* The types of the state of the service and of its messages.
TypeOK == ClockTypeOK /\ NodeTypeOK /\ CallTypeOK /\ NetTypeOK

\* Every signer a node stores is one it can name and reach: the roster of an
\* epoch, the receivers of a consensus and the names handed to Setup are
\* looked up in Servers and ServerIdentityToName, which are learnt from other
\* messages, merged under another mutex and sent apart from the signers
\* (updatehistoryservice.go:72-98, consencusservice.go:43-48).
KnownSigners ==
    /\ \A n \in Node : /\ Signers(storage[n].set) \subseteq names[n]
                       /\ names[n] \subseteq servers[n]
    /\ \A s \in snapshots : Signers(s.set) \subseteq names[s.req.by]
    /\ \A h \in histories : /\ Signers(h.set) \subseteq h.names
                            /\ h.names \subseteq h.servers

\* Nobody adds to or drops from the signers of epoch 0, in a storage or in a
\* history on its way: registering "Does not change the signers of Epoch 0"
\* (service_test.go:111).
GenesisFrozen ==
    /\ \A n \in Node : storage[n].len > 0 /\ storage[n].set[0] = Genesis
    /\ \A s \in snapshots \cup histories : s.set[0] = Genesis

\* Everybody some node or message believes to be a signer of epoch k.
Believed(k) ==
    (UNION {storage[n].set[k] : n \in Node})
        \cup (UNION {s.set[k] : s \in snapshots \cup histories})

\* Once the committee of epoch k-1 is in its consensus slot, nobody becomes a
\* signer of epoch k any more, by a late announce (addsignerservice.go:44) or
\* by a history that arrives late.  The leader reads the list several times
\* after that and sends it node by node.
NoLateSigner ==
    [][\A k \in Epoch : Closed(k) => Believed(k)' \subseteq Believed(k)]_vars

\* A node that was confirmed for an epoch is a signer of that epoch on every
\* member of the committee it knows: the caller of CreateProofForEpoch counts
\* one confirmation per node of the roster (service.go:226).  A
\* history that was read during the registration, and replaces the signers
\* after it, breaks this.
ConfirmedStored ==
    \A n \in Node : \A k \in confirmed[n] \ {0} :
        \A m \in storage[n].set[k - 1] : n \in storage[m].set[k]

\* "each member of the new epoch has the same view of the system"
\* (latex/thesis_template/thesis.tex:660): two nodes that called Setup for the
\* same epoch called it with the same members.  It holds when one node leads
\* the consensus.
SameView ==
    \A a, b \in Node : view[a].epoch = view[b].epoch =>
        view[a].members = view[b].members

-----------------------------------------------------------------------------
(***************************************************************************)
(* Claims of the comments and of the design document the code departs from *)
(***************************************************************************)

\* EpochChan: "for one node it get two value, (one for the update one for
\* Consensus) But that sould not happen" (service.go:375).
AtMostOneToken == \A n \in Node : Len(epochChan[n]) <= 1

\* A delayed registration "leads to the refusal of the request, and the node
\* has to create a new request for the next epoch" (thesis.tex:863).  The
\* refusal returns from addSigner with the storage locked, so that the next
\* request cannot be stored either (addsignerservice.go:44).
RefusalReleasesLock == \A n \in Node : ~ storage[n].locked
=============================================================================
