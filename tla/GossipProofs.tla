---------------------------- MODULE GossipProofs ----------------------------
(***************************************************************************)
(* Theorems about GossipRegistration, for any tree: its types; that every  *)
(* reply counts exactly the nodes below its sender that stored the signer; *)
(* and that the protocol implements Confirmation: the root counts as many  *)
(* confirmations as there are nodes only when all of them stored, whatever *)
(* timed out.                                                              *)
(***************************************************************************)
EXTENDS GossipRegistration, FiniteSetTheorems, TLAPS

-----------------------------------------------------------------------------
(***************************************************************************)
(* Sums of confirmations.  MapThenSumSet is a recursive function on the    *)
(* subsets of its argument; Bounded(R, n) are those with n elements or     *)
(* less, and a function with the equation exists on all of them.           *)
(***************************************************************************)
Pick(s) == CHOOSE x \in s : TRUE

Bounded(R, n) == {s \in SUBSET R : Cardinality(s) <= n}

Adds(f, D) ==
    f = [s \in D |-> IF s = {} THEN 0 ELSE Pick(s).conf + f[s \ {Pick(s)}]]

Sums(R) == CHOOSE f : Adds(f, SUBSET R)

LEMMA SumIs ==
    ASSUME NEW R
    PROVE  MapThenSumSet(LAMBDA r : r.conf, R) = Sums(R)[R]
  BY DEF MapThenSumSet, MapThenFoldSet, Sums, Adds, Pick

\* Every set of natural numbers has a least one; the strict subset ordering of
\* the intervals 0..x stands for the ordering of the numbers x.
LEMMA Least ==
    ASSUME NEW S \in SUBSET Nat, S # {}
    PROVE  \E m \in S : \A x \in S : m <= x
<1> DEFINE Intervals == {0 .. x : x \in S}
<1>1. Intervals \subseteq FiniteSubsetsOf(Nat)
  <2>1. \A x \in Nat : 0 .. x \in SUBSET Nat /\ IsFiniteSet(0 .. x)
    BY FS_Interval
  <2> QED
    BY <2>1 DEF FiniteSubsetsOf
<1>2. Intervals # {}
  OBVIOUS
<1>3. PICK I \in Intervals :
        \A J \in Intervals : <<J, I>> \notin StrictSubsetOrdering(Nat)
  <2> HIDE DEF Intervals
  <2> QED
    BY <1>1, <1>2, FS_StrictSubsetOrderingWellFounded, WFMin
<1>4. PICK m \in S : I = 0 .. m
  OBVIOUS
<1>5. ASSUME NEW x \in S PROVE m <= x
  <2> SUFFICES ASSUME x < m PROVE FALSE
    OBVIOUS
  <2>1. 0 .. x \in SUBSET Nat /\ 0 .. m \in SUBSET Nat
    OBVIOUS
  <2>2. 0 .. x \subseteq 0 .. m
    OBVIOUS
  <2>3. m \in 0 .. m /\ m \notin 0 .. x
    OBVIOUS
  <2>4. <<0 .. x, 0 .. m>> \in StrictSubsetOrdering(Nat)
    BY <2>1, <2>2, <2>3 DEF StrictSubsetOrdering
  <2> QED
    BY <1>3, <1>4, <2>4
<1> QED
  BY <1>5

LEMMA Smaller ==
    ASSUME NEW R, IsFiniteSet(R), NEW s \in SUBSET R, s # {}
    PROVE  /\ Pick(s) \in s
           /\ IsFiniteSet(s)
           /\ s \ {Pick(s)} \in SUBSET R
           /\ Cardinality(s) \in Nat \ {0}
           /\ Cardinality(s \ {Pick(s)}) = Cardinality(s) - 1
<1>1. Pick(s) \in s
  BY DEF Pick
<1>2. IsFiniteSet(s)
  BY FS_Subset
<1> QED
  BY <1>1, <1>2, FS_EmptySet, FS_CardinalityType, FS_RemoveElement

LEMMA AddsOneMore ==
    ASSUME NEW R, IsFiniteSet(R), NEW n \in Nat, NEW f,
           Adds(f, Bounded(R, n))
    PROVE  \E g : Adds(g, Bounded(R, n + 1))
<1> DEFINE g == [s \in Bounded(R, n + 1) |->
                   IF s = {} THEN 0 ELSE Pick(s).conf + f[s \ {Pick(s)}]]
<1>1. ASSUME NEW s \in Bounded(R, n + 1), s # {}
      PROVE  g[s \ {Pick(s)}] = f[s \ {Pick(s)}]
  <2> DEFINE t == s \ {Pick(s)}
  <2>1. t \in SUBSET R /\ Cardinality(t) <= n /\ Cardinality(t) \in Nat
    BY <1>1, Smaller DEF Bounded
  <2>2. t \in Bounded(R, n) /\ t \in Bounded(R, n + 1)
    BY <2>1 DEF Bounded
  <2>3. f[t] = IF t = {} THEN 0 ELSE Pick(t).conf + f[t \ {Pick(t)}]
    BY <2>2 DEF Adds
  <2>4. g[t] = IF t = {} THEN 0 ELSE Pick(t).conf + f[t \ {Pick(t)}]
    BY <2>2
  <2> QED
    BY <2>3, <2>4
<1>2. g = [s \in Bounded(R, n + 1) |->
             IF s = {} THEN 0 ELSE Pick(s).conf + g[s \ {Pick(s)}]]
  <2>1. \A s \in Bounded(R, n + 1) :
          (IF s = {} THEN 0 ELSE Pick(s).conf + f[s \ {Pick(s)}])
          = (IF s = {} THEN 0 ELSE Pick(s).conf + g[s \ {Pick(s)}])
    <3> HIDE DEF g
    <3> QED
      BY <1>1
  <2>2. [s \in Bounded(R, n + 1) |->
           IF s = {} THEN 0 ELSE Pick(s).conf + f[s \ {Pick(s)}]]
        = [s \in Bounded(R, n + 1) |->
             IF s = {} THEN 0 ELSE Pick(s).conf + g[s \ {Pick(s)}]]
    <3> HIDE DEF g
    <3> QED
      BY <2>1
  <2> QED
    BY <2>2
<1> HIDE DEF g
<1> QED
  BY <1>2 DEF Adds

LEMMA SumExists ==
    ASSUME NEW R, IsFiniteSet(R)
    PROVE  Adds(Sums(R), SUBSET R)
<1> DEFINE Bad == {n \in Nat : ~ \E f : Adds(f, Bounded(R, n))}
<1>1. ASSUME Bad # {} PROVE FALSE
  <2>1. PICK m \in Bad : \A x \in Bad : m <= x
    <3>1. Bad \in SUBSET Nat
      OBVIOUS
    <3> HIDE DEF Bad
    <3> QED
      BY <1>1, <3>1, Least
  <2>2. m # 0
    <3>1. Bounded(R, 0) = {{}}
      <4>1. \A s \in SUBSET R : IsFiniteSet(s) /\ Cardinality(s) \in Nat
        BY FS_Subset, FS_CardinalityType
      <4> QED
        BY <4>1, FS_EmptySet DEF Bounded
    <3> DEFINE z == [s \in {{}} |-> 0]
    <3>2. z = [s \in {{}} |->
                 IF s = {} THEN 0 ELSE Pick(s).conf + z[s \ {Pick(s)}]]
      OBVIOUS
    <3> HIDE DEF z
    <3>3. \E f : Adds(f, Bounded(R, 0))
      BY <3>1, <3>2 DEF Adds
    <3> QED
      BY <3>3
  <2>3. m - 1 \in Nat /\ m - 1 \notin Bad /\ (m - 1) + 1 = m
    BY <2>1, <2>2
  <2>4. PICK f : Adds(f, Bounded(R, m - 1))
    BY <2>3
  <2>5. \E g : Adds(g, Bounded(R, m))
    BY <2>3, <2>4, AddsOneMore
  <2> QED
    BY <2>5
<1>2. Cardinality(R) \in Nat /\ Bounded(R, Cardinality(R)) = SUBSET R
  BY FS_CardinalityType, FS_Subset DEF Bounded
<1>3. \E f : Adds(f, Bounded(R, Cardinality(R)))
  BY <1>1, <1>2
<1>4. \E f : Adds(f, SUBSET R)
  BY <1>2, <1>3
<1> QED
  BY ONLY <1>4, Zenon DEF Sums

-----------------------------------------------------------------------------
(***************************************************************************)
(* If every reply counts a set of its own, their sum counts the union.     *)
(***************************************************************************)
Covered(R, C) == UNION {C[r.from] : r \in R}

Covers(R, C) ==
    /\ IsFiniteSet(R)
    /\ \A r \in R : /\ r.conf \in Nat
                    /\ IsFiniteSet(C[r.from])
                    /\ r.conf = Cardinality(C[r.from])
    /\ \A r, q \in R : r # q => C[r.from] \cap C[q.from] = {}

Counts(R, C, s) ==
    /\ Sums(R)[s] \in Nat
    /\ IsFiniteSet(Covered(s, C))
    /\ Sums(R)[s] = Cardinality(Covered(s, C))

LEMMA CountsStep ==
    ASSUME NEW R, NEW C, Covers(R, C), NEW s \in SUBSET R, s # {},
           Counts(R, C, s \ {Pick(s)})
    PROVE  Counts(R, C, s)
<1> DEFINE r == Pick(s)
           t == s \ {Pick(s)}
<1>1. r \in s /\ t \in SUBSET R
  BY Smaller DEF Covers
<1>2. Sums(R)[s] = r.conf + Sums(R)[t]
  <2>1. Adds(Sums(R), SUBSET R)
    BY SumExists DEF Covers
  <2> DEFINE f == Sums(R)
  <2>2. f = [x \in SUBSET R |->
               IF x = {} THEN 0 ELSE Pick(x).conf + f[x \ {Pick(x)}]]
    BY <2>1 DEF Adds
  <2>3. f[s] = IF s = {} THEN 0 ELSE Pick(s).conf + f[s \ {Pick(s)}]
    <3> HIDE DEF f
    <3> QED
      BY <2>2
  <2> QED
    BY <2>3
<1>3. Covered(s, C) = Covered(t, C) \cup C[r.from]
  BY <1>1 DEF Covered
<1>4. Covered(t, C) \cap C[r.from] = {}
  BY <1>1 DEF Covered, Covers
<1>5. /\ r.conf \in Nat
      /\ IsFiniteSet(C[r.from])
      /\ r.conf = Cardinality(C[r.from])
  BY <1>1 DEF Covers
<1>6. /\ Sums(R)[t] \in Nat
      /\ IsFiniteSet(Covered(t, C))
      /\ Sums(R)[t] = Cardinality(Covered(t, C))
  BY DEF Counts
<1> HIDE DEF r, t
<1>7. /\ IsFiniteSet(Covered(s, C))
      /\ Cardinality(Covered(s, C))
           = Cardinality(Covered(t, C)) + Cardinality(C[r.from])
  <2>1. /\ IsFiniteSet(Covered(s, C))
        /\ Cardinality(Covered(s, C))
             = Cardinality(Covered(t, C)) + Cardinality(C[r.from])
               - Cardinality({})
    <3>1. IsFiniteSet(Covered(t, C)) /\ IsFiniteSet(C[r.from])
      BY <1>5, <1>6
    <3> QED
      BY <1>3, <1>4, <3>1, FS_Union
  <2>2. /\ Cardinality(Covered(t, C)) \in Nat
        /\ Cardinality(C[r.from]) \in Nat
        /\ Cardinality({}) = 0
    <3>1. Cardinality(Covered(t, C)) \in Nat
      BY <1>6, FS_CardinalityType
    <3>2. Cardinality(C[r.from]) \in Nat
      BY <1>5, FS_CardinalityType
    <3> QED
      BY <3>1, <3>2, FS_EmptySet
  <2> QED
    BY <2>1, <2>2
<1> QED
  BY <1>2, <1>5, <1>6, <1>7 DEF Counts

LEMMA SumCounts ==
    ASSUME NEW R, NEW C, Covers(R, C)
    PROVE  LET sum == MapThenSumSet(LAMBDA r : r.conf, R)
           IN  /\ sum \in Nat
               /\ IsFiniteSet(Covered(R, C))
               /\ sum = Cardinality(Covered(R, C))
<1> DEFINE Bad == {n \in Nat : \E s \in SUBSET R :
                                 Cardinality(s) = n /\ ~ Counts(R, C, s)}
<1>1. IsFiniteSet(R)
  BY DEF Covers
<1>2. ASSUME Bad # {} PROVE FALSE
  <2>1. PICK m \in Bad : \A x \in Bad : m <= x
    <3>1. Bad \in SUBSET Nat
      OBVIOUS
    <3> HIDE DEF Bad
    <3> QED
      BY <1>2, <3>1, Least
  <2>2. PICK s \in SUBSET R : Cardinality(s) = m /\ ~ Counts(R, C, s)
    OBVIOUS
  <2>3. s # {}
    <3> SUFFICES ASSUME s = {} PROVE FALSE
      OBVIOUS
    <3>1. Sums(R)[{}] = 0
      BY <1>1, SumExists DEF Adds
    <3>2. Covered({}, C) = {}
      BY DEF Covered
    <3> QED
      BY <2>2, <3>1, <3>2, FS_EmptySet DEF Counts
  <2>4. Cardinality(s \ {Pick(s)}) \notin Bad
    BY <1>1, <2>1, <2>2, <2>3, Smaller
  <2>5. s \ {Pick(s)} \in SUBSET R /\ Cardinality(s \ {Pick(s)}) \in Nat
    BY <1>1, <2>2, <2>3, Smaller
  <2>6. Counts(R, C, s \ {Pick(s)})
    BY <2>4, <2>5
  <2> QED
    BY <2>2, <2>3, <2>6, CountsStep
<1>3. Cardinality(R) \in Nat /\ R \in SUBSET R
  BY <1>1, FS_CardinalityType
<1>4. Counts(R, C, R)
  BY <1>2, <1>3
<1> QED
  BY <1>4, SumIs DEF Counts

-----------------------------------------------------------------------------
(***************************************************************************)
(* The tree.  A set that is closed under children and has n has all of     *)
(* Below(n); nothing of the tree but a child of n leads into Below(n).     *)
(***************************************************************************)
LEMMA BelowIsClosed ==
    ASSUME NEW n \in Node
    PROVE  n \in Below(n) /\ Below(n) \subseteq Node /\ Closed(Below(n))
<1>1. \A m \in Node : Children(m) \subseteq Node
  BY DEF Children
<1> QED
  BY <1>1 DEF Below, Closed

LEMMA BelowIsLeast ==
    ASSUME NEW n \in Node, NEW S \in SUBSET Node, n \in S, Closed(S)
    PROVE  Below(n) \subseteq S
  BY DEF Below

\* Nobody but n is in Below(n) without its parent.
LEMMA ParentIsBelow ==
    ASSUME NEW n \in Node, NEW m \in Below(n), m # n
    PROVE  m \in Node \ {Root} /\ Parent[m] \in Below(n)
<1> DEFINE S == {k \in Below(n) : k = n \/ (k # Root /\ Parent[k] \in Below(n))}
<1>1. S \in SUBSET Node /\ n \in S
  BY BelowIsClosed
<1>2. Closed(S)
  BY BelowIsClosed DEF Closed, Children
<1> HIDE DEF S
<1>3. m \in S
  BY <1>1, <1>2, BelowIsLeast
<1> QED
  BY <1>1, <1>3 DEF S

\* n and its children divide what is below n.
LEMMA BelowDivides ==
    ASSUME NEW n \in Node
    PROVE  Below(n) = {n} \cup UNION {Below(c) : c \in Children(n)}
<1> DEFINE S == {n} \cup UNION {Below(c) : c \in Children(n)}
<1>1. \A c \in Children(n) : c \in Node
  BY DEF Children
<1>2. S \subseteq Below(n)
  <2>1. ASSUME NEW c \in Children(n) PROVE Below(c) \subseteq Below(n)
    <3>1. c \in Below(n)
      BY BelowIsClosed DEF Closed
    <3> QED
      BY <1>1, <3>1, BelowIsLeast, BelowIsClosed
  <2> QED
    BY <2>1, BelowIsClosed
<1>3. Closed(S)
  <2>1. ASSUME NEW m \in S PROVE Children(m) \subseteq S
    <3>1. CASE m = n
      BY <1>1, <3>1, BelowIsClosed
    <3>2. ASSUME NEW c \in Children(n), m \in Below(c)
          PROVE  Children(m) \subseteq S
      BY <1>1, <3>2, BelowIsClosed DEF Closed
    <3> QED
      BY <2>1, <3>1, <3>2
  <2> QED
    BY <2>1 DEF Closed
<1>4. S \in SUBSET Node /\ n \in S
  BY <1>2, BelowIsClosed
<1> HIDE DEF S
<1>5. Below(n) \subseteq S
  BY <1>3, <1>4, BelowIsLeast
<1> QED
  BY <1>2, <1>5 DEF S

\* Two children have nothing below them in common, unless their parent is below
\* one of them.
LEMMA SiblingsApart ==
    ASSUME NEW n \in Node, NEW a \in Children(n), NEW b \in Children(n),
           a # b, n \notin Below(a), n \notin Below(b)
    PROVE  Below(a) \cap Below(b) = {}
<1> DEFINE S == Below(a) \ Below(b)
<1>1. /\ a \in Node \ {Root} /\ Parent[a] = n
      /\ b \in Node \ {Root} /\ Parent[b] = n
  BY DEF Children
<1>2. a \in S
  BY <1>1, BelowIsClosed, ParentIsBelow
<1>3. Closed(S)
  <2>1. ASSUME NEW m \in S, NEW c \in Children(m) PROVE c \in S
    <3>1. c \in Below(a)
      BY <1>1, BelowIsClosed DEF Closed
    <3>2. Parent[c] = m
      BY DEF Children
    <3>3. c # b
      BY <1>1, <3>2
    <3>4. c \notin Below(b)
      BY <1>1, <3>2, <3>3, ParentIsBelow
    <3> QED
      BY <3>1, <3>4
  <2> QED
    BY <2>1 DEF Closed
<1>4. S \in SUBSET Node
  BY <1>1, BelowIsClosed
<1> HIDE DEF S
<1>5. Below(a) \subseteq S
  BY <1>1, <1>2, <1>3, <1>4, BelowIsLeast
<1> QED
  BY <1>5 DEF S

-----------------------------------------------------------------------------
(***************************************************************************)
(* The invariant.  Whoever answered has an answer of all below it, so that *)
(* nobody there can store any more; a node that collects is not done, and  *)
(* so not below its children: their counts add up.                         *)
(***************************************************************************)
Answers ==
    /\ IsFiniteSet(replies)
    /\ \A r, q \in replies : r.from = q.from => r = q
    /\ \A r \in replies : \A m \in Below(r.from) : state[m] = "done"
    /\ \A n \in Node : state[n] = "idle" => n \notin stored
    /\ \A n \in Node : state[n] = "collecting" =>
          nConf[n] = IF n \in stored THEN 1 ELSE 0

Honest == \A conf \in confirmations : conf <= Cardinality(stored)

TreeInv == TypeOK /\ Answers /\ HonestCount /\ Honest

\* What is stored can be counted, and so can every part of it.
LEMMA Countable ==
    ASSUME TypeOK
    PROVE  /\ Cardinality(Node) \in Nat \ {0}
           /\ IsFiniteSet(stored)
           /\ Cardinality(stored) \in 0 .. Cardinality(Node)
           /\ \A s \in SUBSET stored : /\ IsFiniteSet(s)
                                       /\ Cardinality(s) \in Nat
                                       /\ Cardinality(s) <= Cardinality(stored)
<1>1. IsFiniteSet(stored) /\ Cardinality(stored) <= Cardinality(Node)
  BY TreeAssumption, FS_Subset DEF TypeOK
<1> QED
  BY <1>1, TreeAssumption, FS_Subset, FS_EmptySet, FS_CardinalityType

\* When all the children replied, the total counts all below that stored.
LEMMA TotalIsHonest ==
    ASSUME TypeOK, Answers, HonestCount, NEW n \in Node, Collect(n)
    PROVE  /\ \A c \in Children(n) : \A m \in Below(c) : state[m] = "done"
           /\ Total(n) = Cardinality(stored \cap Below(n))
<1> DEFINE R == Received(n)
           C == [m \in Node |-> stored \cap Below(m)]
           U == Covered(R, C)
           sum == MapThenSumSet(LAMBDA r : r.conf, R)
<1>1. R \subseteq replies /\ IsFiniteSet(R)
  BY FS_Subset DEF Received, Answers
<1>2. \A r \in R : /\ r.from \in Children(n) /\ r.from \in Node
                   /\ r.conf \in Nat
                   /\ r.conf = Cardinality(stored \cap Below(r.from))
                   /\ \A m \in Below(r.from) : state[m] = "done"
  BY <1>1 DEF TypeOK, Received, Children, Answers, HonestCount
<1>3. \A c \in Children(n) : \E r \in R : r.from = c
  BY DEF Collect, Received, Children
<1>4. \A r \in R : n \notin Below(r.from)
  BY <1>2 DEF Collect
<1>5. \A r, q \in R : r # q => Below(r.from) \cap Below(q.from) = {}
  <2>1. \A r, q \in R : r # q => r.from # q.from
    BY <1>1 DEF Answers
  <2> HIDE DEF R
  <2> QED
    BY <1>2, <1>4, <2>1, SiblingsApart
<1>6. Covers(R, C)
  <2>1. \A r \in R : /\ C[r.from] = stored \cap Below(r.from)
                     /\ IsFiniteSet(stored \cap Below(r.from))
    BY <1>2, Countable
  <2> HIDE DEF R, C
  <2> QED
    BY <1>1, <1>2, <1>5, <2>1 DEF Covers
<1>7. sum \in Nat /\ IsFiniteSet(U) /\ sum = Cardinality(U)
  BY <1>6, SumCounts
<1>8. U = stored \cap UNION {Below(c) : c \in Children(n)}
  <2>1. \A r \in R : C[r.from] = stored \cap Below(r.from)
    BY <1>2
  <2>2. \A x : x \in U <=> \E r \in R : x \in stored \cap Below(r.from)
    <3>1. \A x : x \in U <=> \E r \in R : x \in C[r.from]
      BY DEF Covered
    <3> HIDE DEF R, C, U
    <3> QED
      BY <2>1, <3>1
  <2> HIDE DEF R, C, U
  <2>3. \A x : (\E r \in R : x \in stored \cap Below(r.from))
                 <=> (\E c \in Children(n) : x \in stored \cap Below(c))
    BY <1>2, <1>3
  <2>4. \A x : x \in U <=> \E c \in Children(n) : x \in stored \cap Below(c)
    BY <2>2, <2>3
  <2> QED
    BY <2>4
<1>9. \A c \in Children(n) : n \notin Below(c)
  BY <1>3, <1>4
<1>10. /\ n \notin U
       /\ stored \cap Below(n) = U \cup (stored \cap {n})
  <2> DEFINE V == UNION {Below(c) : c \in Children(n)}
  <2>1. Below(n) = {n} \cup V
    BY BelowDivides
  <2>2. n \notin V
    BY <1>9
  <2> HIDE DEF U, V
  <2> QED
    BY <1>8, <2>1, <2>2 DEF V
<1>11. nConf[n] = IF n \in stored THEN 1 ELSE 0
  BY DEF Collect, Answers
<1>12. Total(n) = nConf[n] + sum
  BY DEF Total
<1> HIDE DEF U, sum
<1>13. Cardinality(stored \cap Below(n)) = nConf[n] + Cardinality(U)
  <2>1. CASE n \in stored
    <3>1. stored \cap Below(n) = U \cup {n}
      BY <1>10, <2>1
    <3>2. Cardinality(U \cup {n}) = Cardinality(U) + 1
      BY <1>7, <1>10, FS_AddElement
    <3>3. Cardinality(U) \in Nat /\ nConf[n] = 1
      BY <1>7, <1>11, <2>1
    <3> QED
      BY <3>1, <3>2, <3>3
  <2>2. CASE n \notin stored
    <3>1. stored \cap Below(n) = U
      BY <1>10, <2>2
    <3>2. Cardinality(U) \in Nat /\ nConf[n] = 0
      BY <1>7, <1>11, <2>2
    <3>3. Cardinality(stored \cap Below(n)) = Cardinality(U)
      BY <3>1
    <3> QED
      BY <3>2, <3>3
  <2> QED
    BY <2>1, <2>2
<1> QED
  BY <1>2, <1>3, <1>7, <1>12, <1>13

-----------------------------------------------------------------------------
(***************************************************************************)
(* The steps                                                               *)
(***************************************************************************)
LEMMA SendKeeps ==
    ASSUME TypeOK, Answers, NEW n \in Node, state[n] # "done",
           NEW conf \in 0 .. Cardinality(Node), SendToParent(n, conf)
    PROVE  /\ replies' \subseteq [from : Node \ {Root},
                                  conf : 0 .. Cardinality(Node)]
           /\ IsFiniteSet(replies')
           /\ \A r, q \in replies' : r.from = q.from => r = q
           /\ \A r \in replies' : r \in replies \/ r = [from |-> n, conf |-> conf]
<1> USE DEF TypeOK, Answers
<1>0. \A r \in replies : r.from # n
  BY BelowIsClosed
<1>1. CASE n = Root
  BY <1>1 DEF SendToParent
<1>2. CASE n # Root
  <2> DEFINE reply == [from |-> n, conf |-> conf]
  <2>1. replies' = replies \cup {reply}
    BY <1>2 DEF SendToParent
  <2>2. IsFiniteSet(replies')
    BY <2>1, FS_AddElement
  <2>3. reply \in [from : Node \ {Root}, conf : 0 .. Cardinality(Node)]
    BY <1>2
  <2> QED
    BY <2>1, <2>2, <2>3, <1>0
<1> QED
  BY <1>1, <1>2

LEMMA AnnounceKeeps ==
    ASSUME TreeInv, NEW n \in Node, NEW ok \in BOOLEAN, Announce(n, ok)
    PROVE  TreeInv'
<1> USE DEF TreeInv
<1>1. /\ state[n] = "idle" /\ n \notin stored
      /\ stored' = IF ok THEN stored \cup {n} ELSE stored
      /\ nConf' = [nConf EXCEPT ![n] = IF ok THEN 1 ELSE 0]
      /\ confirmations' = confirmations
  BY DEF Announce, Answers
<1>2. nConf'[n] \in 0 .. 1 /\ nConf'[n] \in 0 .. Cardinality(Node)
  BY <1>1, Countable DEF TypeOK
<1>3. \/ /\ IsLeaf(n) /\ SendToParent(n, nConf'[n])
         /\ state' = [state EXCEPT ![n] = "done"]
      \/ /\ replies' = replies
         /\ state' = [state EXCEPT ![n] = "collecting"]
  BY DEF Announce
<1>4. /\ replies' \subseteq [from : Node \ {Root}, conf : 0 .. Cardinality(Node)]
      /\ IsFiniteSet(replies')
      /\ \A r, q \in replies' : r.from = q.from => r = q
      /\ \A r \in replies' :
            \/ r \in replies
            \/ r = [from |-> n, conf |-> nConf'[n]] /\ IsLeaf(n)
                  /\ state' = [state EXCEPT ![n] = "done"]
  <2>1. CASE replies' = replies
    BY <2>1 DEF TypeOK, Answers
  <2>2. CASE /\ IsLeaf(n) /\ SendToParent(n, nConf'[n])
             /\ state' = [state EXCEPT ![n] = "done"]
    BY <1>1, <1>2, <2>2, SendKeeps
  <2> QED
    BY <1>3, <2>1, <2>2
<1>5. TypeOK'
  BY <1>1, <1>2, <1>3, <1>4 DEF Announce, TypeOK, Children
<1>6. \A r \in replies : n \notin Below(r.from) /\ r.from \in Node
  BY <1>1 DEF Answers, TypeOK
<1>7. IsLeaf(n) => Below(n) = {n}
  BY BelowDivides DEF IsLeaf
<1>8. Answers'
  <2>1. ASSUME NEW r \in replies', NEW m \in Below(r.from)
        PROVE  state'[m] = "done"
    <3>1. CASE r \in replies
      <4>1. m # n /\ state[m] = "done" /\ m \in Node
        BY <1>6, <3>1, BelowIsClosed DEF Answers
      <4> QED
        BY <1>3, <4>1 DEF TypeOK
    <3>2. CASE r = [from |-> n, conf |-> nConf'[n]] /\ IsLeaf(n)
                 /\ state' = [state EXCEPT ![n] = "done"]
      <4>1. m = n
        BY <1>7, <3>2
      <4> QED
        BY <3>2, <4>1 DEF TypeOK
    <3> QED
      BY <1>4, <3>1, <3>2
  <2>2. \A m \in Node : state'[m] = "idle" => m \notin stored'
    BY <1>1, <1>3 DEF TypeOK, Answers
  <2>3. \A m \in Node : state'[m] = "collecting" =>
           nConf'[m] = IF m \in stored' THEN 1 ELSE 0
    BY <1>1, <1>3 DEF TypeOK, Answers
  <2> QED
    BY <1>4, <2>1, <2>2, <2>3 DEF Answers
<1>9. HonestCount'
  <2> SUFFICES ASSUME NEW r \in replies'
               PROVE  r.conf = Cardinality(stored' \cap Below(r.from))
    BY DEF HonestCount
  <2>1. CASE r \in replies
    <3>1. stored' \cap Below(r.from) = stored \cap Below(r.from)
      BY <1>1, <1>6, <2>1
    <3> QED
      BY <2>1, <3>1 DEF HonestCount
  <2>2. CASE r = [from |-> n, conf |-> nConf'[n]] /\ IsLeaf(n)
    <3>1. stored' \cap Below(r.from) = IF ok THEN {n} ELSE {}
      BY <1>1, <1>7, <2>2
    <3>2. r.conf = IF ok THEN 1 ELSE 0
      BY <1>1, <2>2 DEF TypeOK
    <3> QED
      BY <3>1, <3>2, FS_EmptySet, FS_Singleton
  <2> QED
    BY <1>4, <2>1, <2>2
<1>10. Honest'
  <2>1. IsFiniteSet(stored') /\ stored \subseteq stored'
    BY <1>1, <1>5, Countable, TreeAssumption, FS_Subset DEF TypeOK
  <2>2. Cardinality(stored) <= Cardinality(stored')
    BY <2>1, FS_Subset
  <2>3. Cardinality(stored) \in Nat /\ Cardinality(stored') \in Nat
    BY <2>1, Countable, FS_CardinalityType
  <2>4. \A conf \in confirmations :
          conf \in Nat /\ conf <= Cardinality(stored)
    BY DEF Honest, TypeOK
  <2> QED
    BY <1>1, <2>2, <2>3, <2>4 DEF Honest
<1> QED
  BY <1>5, <1>8, <1>9, <1>10

LEMMA CollectKeeps ==
    ASSUME TreeInv, NEW n \in Node, Collect(n)
    PROVE  TreeInv'
<1> USE DEF TreeInv
<1>1. /\ \A c \in Children(n) : \A m \in Below(c) : state[m] = "done"
      /\ Total(n) = Cardinality(stored \cap Below(n))
  BY TotalIsHonest
<1>2. /\ Total(n) <= Cardinality(stored)
      /\ Total(n) \in 0 .. Cardinality(Node)
  <2>1. stored \cap Below(n) \in SUBSET stored
    OBVIOUS
  <2> QED
    BY <1>1, <2>1, Countable
<1>3. /\ state' = [state EXCEPT ![n] = "done"]
      /\ state[n] = "collecting"
      /\ stored' = stored /\ nConf' = nConf
  BY DEF Collect
<1>4. /\ replies' \subseteq [from : Node \ {Root}, conf : 0 .. Cardinality(Node)]
      /\ IsFiniteSet(replies')
      /\ \A r, q \in replies' : r.from = q.from => r = q
      /\ \A r \in replies' : r \in replies \/ r = [from |-> n, conf |-> Total(n)]
  BY <1>2, <1>3, SendKeeps DEF Collect
<1>5. TypeOK' /\ Honest'
  BY <1>2, <1>4 DEF Collect, TypeOK, Honest
<1>6. Answers'
  <2>1. \A m \in Below(n) : state'[m] = "done"
    BY <1>1, <1>3, BelowDivides, BelowIsClosed DEF TypeOK
  <2>2. \A r \in replies : \A m \in Below(r.from) : state'[m] = "done"
    BY <1>3, BelowIsClosed DEF Answers, TypeOK
  <2>3. \A r \in replies' : \A m \in Below(r.from) : state'[m] = "done"
    BY <1>4, <2>1, <2>2
  <2> QED
    BY <1>3, <1>4, <2>3 DEF Answers, TypeOK
<1>7. HonestCount'
  BY <1>1, <1>3, <1>4 DEF HonestCount
<1> QED
  BY <1>5, <1>6, <1>7

\* A node that hangs or times out, and the caller, leave the counts alone.
LEMMA HangKeeps ==
    ASSUME TreeInv, NEW n \in Node, Hang(n)
    PROVE  TreeInv'
<1> USE DEF TreeInv, Hang
<1>1. TypeOK' /\ HonestCount' /\ Honest'
  BY DEF TypeOK, HonestCount, Honest
<1>2. \A m \in Node : /\ state[m] = "done" => state'[m] = "done"
                      /\ state'[m] = "collecting" => state[m] = "collecting"
                      /\ state'[m] = "idle" => state[m] = "idle"
  BY DEF TypeOK
<1>3. \A r \in replies : Below(r.from) \subseteq Node
  BY BelowIsClosed DEF TypeOK
<1>4. Answers'
  BY <1>2, <1>3 DEF Answers
<1> QED
  BY <1>1, <1>4

LEMMA TimeOutKeeps ==
    ASSUME TreeInv, NEW n \in Node, TimeOut(n)
    PROVE  TreeInv'
<1> USE DEF TreeInv, TimeOut
<1>1. nConf[n] <= Cardinality(stored) /\ nConf[n] \in 0 .. Cardinality(Node)
  <2>1. nConf[n] = IF n \in stored THEN 1 ELSE 0
    BY DEF Answers
  <2>2. n \in stored => /\ {n} \in SUBSET stored
                        /\ Cardinality({n}) = 1
    BY FS_Singleton
  <2> QED
    BY <2>1, <2>2, Countable
<1>2. TypeOK' /\ HonestCount' /\ Honest'
  BY <1>1 DEF TypeOK, HonestCount, Honest
<1>3. \A m \in Node : /\ state[m] = "done" => state'[m] = "done"
                      /\ state'[m] = "collecting" => state[m] = "collecting"
                      /\ state'[m] = "idle" => state[m] = "idle"
  BY DEF TypeOK
<1>4. \A r \in replies : Below(r.from) \subseteq Node
  BY BelowIsClosed DEF TypeOK
<1>5. Answers'
  BY <1>3, <1>4 DEF Answers
<1> QED
  BY <1>2, <1>5

LEMMA CallerKeeps ==
    ASSUME TreeInv,
           UNCHANGED <<announced, state, nConf, replies, confirmations, stored>>,
           result' \in {"none", "ok", "error"}, late' \in BOOLEAN
    PROVE  TreeInv'
  BY DEF TreeInv, TypeOK, Answers, HonestCount, Honest

LEMMA InitInv == Init => TreeInv
<1> SUFFICES ASSUME Init PROVE TreeInv
  OBVIOUS
<1>1. TypeOK
  <2>1. 1 \in 0 .. 1 /\ announced \subseteq Node
    BY TreeAssumption DEF Init
  <2> QED
    BY <2>1 DEF Init, TypeOK
<1>2. Answers /\ HonestCount /\ Honest
  BY FS_EmptySet DEF Init, Answers, HonestCount, Honest
<1> QED
  BY <1>1, <1>2 DEF TreeInv

LEMMA NextInv == TreeInv /\ [Next]_vars => TreeInv'
<1> SUFFICES ASSUME TreeInv, [Next]_vars PROVE TreeInv'
  OBVIOUS
<1>1. ASSUME NEW n \in Node, Announce(n, TRUE) \/ Announce(n, FALSE)
      PROVE  TreeInv'
  BY <1>1, AnnounceKeeps
<1>2. ASSUME NEW n \in Node, Collect(n) PROVE TreeInv'
  BY <1>2, CollectKeeps
<1>3. ASSUME NEW n \in Node, Hang(n) PROVE TreeInv'
  BY <1>3, HangKeeps
<1>4. ASSUME NEW n \in Node, TimeOut(n) PROVE TreeInv'
  BY <1>4, TimeOutKeeps
<1>5. CASE CallerReads
  BY <1>5, CallerKeeps DEF CallerReads, TreeInv, TypeOK
<1>6. CASE CallerTimesOut
  BY <1>6, CallerKeeps DEF CallerTimesOut
<1>7. CASE UNCHANGED vars
  BY <1>7, CallerKeeps DEF vars, TreeInv, TypeOK
<1> QED
  BY <1>1, <1>2, <1>3, <1>4, <1>5, <1>6, <1>7 DEF Next, Progress

\* What the nodes of the tree and the caller keep is of its type: no count
\* exceeds the number of nodes (protocol.go:57-110).
THEOREM GossipTypeCorrect == Spec => []TypeOK
<1>1. TreeInv => TypeOK
  BY DEF TreeInv
<1> QED
  BY <1>1, InitInv, NextInv, PTL DEF Spec

\* Whoever refuses, hangs or times out below it, a reply counts exactly the
\* nodes below its sender that stored the signer (protocol.go:74-86).
THEOREM RepliesAreHonest == Spec => []HonestCount
<1>1. TreeInv => HonestCount
  BY DEF TreeInv
<1> QED
  BY <1>1, InitInv, NextInv, PTL DEF Spec

-----------------------------------------------------------------------------
(***************************************************************************)
(* The refinement                                                          *)
(***************************************************************************)
LEMMA EnoughIsAll ==
    ASSUME TreeInv, NEW conf \in confirmations, Enough(conf)
    PROVE  stored = Node
<1>1. /\ conf = Cardinality(Node)
      /\ conf <= Cardinality(stored)
      /\ stored \in SUBSET Node
  BY DEF TreeInv, TypeOK, Honest, Enough
<1>2. Cardinality(stored) \in 0 .. Cardinality(Node) /\ Cardinality(Node) \in Nat
  BY Countable DEF TreeInv
<1>3. Cardinality(stored) = Cardinality(Node)
  BY <1>1, <1>2
<1> QED
  BY <1>1, <1>3, TreeAssumption, FS_Subset

LEMMA StepConfirms ==
    ASSUME TreeInv, [Next]_vars
    PROVE  [Abstract!Next]_<<stored, result>>
<1>1. ASSUME NEW n \in Node, NEW ok \in BOOLEAN, Announce(n, ok)
      PROVE  [Abstract!Next]_<<stored, result>>
  <2>1. n \notin stored
    BY <1>1 DEF Announce, TreeInv, Answers
  <2>2. CASE ok
    BY <1>1, <2>1, <2>2 DEF Announce, Abstract!Next, Abstract!Store
  <2>3. CASE ~ ok
    BY <1>1, <2>3 DEF Announce
  <2> QED
    BY <2>2, <2>3
<1>2. ASSUME NEW n \in Node, Collect(n) \/ Hang(n) \/ TimeOut(n)
      PROVE  UNCHANGED <<stored, result>>
  BY <1>2 DEF Collect, Hang, TimeOut
<1>3. CASE CallerReads
  <2>1. PICK conf \in confirmations :
          /\ result = "none"
          /\ result' = IF Enough(conf) THEN "ok" ELSE "error"
          /\ UNCHANGED stored
    BY <1>3 DEF CallerReads
  <2>2. CASE Enough(conf)
    BY <2>1, <2>2, EnoughIsAll DEF Abstract!Next, Abstract!Succeed
  <2>3. CASE ~ Enough(conf)
    BY <2>1, <2>3 DEF Abstract!Next, Abstract!Fail
  <2> QED
    BY <2>2, <2>3
<1>4. CASE CallerTimesOut
  BY <1>4 DEF CallerTimesOut, Abstract!Next, Abstract!Fail
<1>5. CASE UNCHANGED vars
  BY <1>5 DEF vars
<1> QED
  BY <1>1, <1>2, <1>3, <1>4, <1>5 DEF Next, Progress

\* Whatever the shape of the tree, and whoever refuses, hangs or times out, the
\* caller reports success only when every node stored the signer, and reports
\* once (service.go:221-234, protocol.go:57-110).
THEOREM GossipConfirmsAll == Spec => ConfirmsAll
<1>1. Init => Abstract!Init
  BY DEF Init, Abstract!Init
<1>2. TreeInv /\ [Next]_vars => [Abstract!Next]_<<stored, result>>
  BY StepConfirms
<1> QED
  BY <1>1, <1>2, InitInv, NextInv, PTL DEF Spec, ConfirmsAll, Abstract!Spec
=============================================================================
