----------------------------- MODULE Traversal -----------------------------
(***************************************************************************)
(* The loop of _transitive_dependents over the rows of one read, for any   *)
(* dependency graph: cycles, repeated step_ids and seeds or dependencies   *)
(* that no row has.  The operator TransitiveDependents of TaskGraph, which *)
(* the model of execute_step uses, is what this loop returns.              *)
(***************************************************************************)
EXTENDS TaskGraph, TLAPS

CONSTANTS
    Rows,    \* all_tasks
    Seeds    \* seed_step_ids

VARIABLES
    queue,   \* seeds and steps found whose dependents have not been looked up
    visited  \* steps found

traversalVars == <<queue, visited>>

\* reverse.get(current, set()): the steps that depend on current, if it is the
\* step of a row at all.
Children(current) ==
    { StepOf[t] : t \in { u \in Rows : current \in Deps[u] \cap StepsOf(Rows) } }

TraversalInit == queue = Seeds /\ visited = {}

\* One round: some step is popped, and the dependents not yet found are pushed.
Visit ==
    \E current \in queue :
        LET new == Children(current) \ (visited \cup Seeds) IN
        /\ visited' = visited \cup new
        /\ queue' = (queue \ {current}) \cup new

TraversalSpec == TraversalInit /\ [][Visit]_traversalVars

----------------------------------------------------------------------------

\* When the queue is empty, the steps found are the transitive dependents.
Exact == queue = {} => visited = TransitiveDependents(Rows, Seeds)

\* Nothing is found that every closed set does not hold; what has been popped
\* has its dependents found.
TraversalInv ==
    /\ visited \subseteq StepsOf(Rows) \ Seeds
    /\ queue \subseteq visited \cup Seeds
    /\ \A reached \in SUBSET (StepsOf(Rows) \ Seeds) :
          ClosedUnderDependents(Rows, Seeds, reached) => visited \subseteq reached
    /\ \A s \in (visited \cup Seeds) \ queue : Children(s) \subseteq visited \cup Seeds

LEMMA VisitKeepsInv ==
    ASSUME TraversalInv, Visit
    PROVE  TraversalInv'
<1>1. PICK current \in queue :
          /\ visited' = visited \cup (Children(current) \ (visited \cup Seeds))
          /\ queue' = (queue \ {current}) \cup (Children(current) \ (visited \cup Seeds))
  BY DEF Visit
<1> DEFINE new == Children(current) \ (visited \cup Seeds)
<1>2. new \subseteq StepsOf(Rows) \ Seeds
  BY DEF Children, StepsOf
<1>3. (visited \subseteq StepsOf(Rows) \ Seeds)' /\ (queue \subseteq visited \cup Seeds)'
  BY <1>1, <1>2 DEF TraversalInv
<1>4. ASSUME NEW reached \in SUBSET (StepsOf(Rows) \ Seeds),
             ClosedUnderDependents(Rows, Seeds, reached)
      PROVE  visited' \subseteq reached
  <2>1. visited \subseteq reached /\ current \in visited \cup Seeds
    BY <1>4 DEF TraversalInv
  <2>2. ASSUME NEW s \in new PROVE s \in reached
    <3>1. PICK t \in Rows : s = StepOf[t] /\ current \in Deps[t] \cap StepsOf(Rows)
      BY <2>2 DEF Children
    <3>2. Deps[t] \cap (reached \cup (Seeds \cap StepsOf(Rows))) # {}
      BY <2>1, <3>1
    <3> QED
      BY <1>4, <2>2, <3>1, <3>2 DEF ClosedUnderDependents
  <2> QED
    BY <1>1, <2>1, <2>2
<1>5. ASSUME NEW s \in (visited' \cup Seeds) \ queue'
      PROVE  Children(s) \subseteq visited' \cup Seeds
  <2>1. CASE s = current
    BY <1>1, <2>1
  <2>2. CASE s # current
    BY <1>1, <1>5, <2>2 DEF TraversalInv
  <2> QED
    BY <2>1, <2>2
<1> QED
  BY <1>3, <1>4, <1>5 DEF TraversalInv, Children

\* With an empty queue, what was found is closed itself, and so the least
\* closed set.
LEMMA InvIsExact == TraversalInv => Exact
<1> SUFFICES ASSUME TraversalInv, queue = {}
             PROVE  visited = TransitiveDependents(Rows, Seeds)
  BY DEF Exact
<1>1. visited \in SUBSET (StepsOf(Rows) \ Seeds)
  BY DEF TraversalInv
<1>2. ClosedUnderDependents(Rows, Seeds, visited)
  <2> SUFFICES ASSUME NEW t \in Rows,
                      NEW d \in Deps[t] \cap (visited \cup (Seeds \cap StepsOf(Rows)))
               PROVE  StepOf[t] \in visited \cup Seeds
    BY DEF ClosedUnderDependents
  <2>1. StepOf[t] \in Children(d)
    BY <1>1 DEF Children
  <2> QED
    BY <2>1 DEF TraversalInv
<1>3. visited \subseteq TransitiveDependents(Rows, Seeds)
  BY <1>1 DEF TransitiveDependents, TraversalInv
<1>4. TransitiveDependents(Rows, Seeds) \subseteq visited
  BY <1>1, <1>2 DEF TransitiveDependents
<1> QED
  BY <1>3, <1>4

\* The search of _transitive_dependents returns the least set that is closed
\* under dependents, for any rows and any seeds (executor.py:412-429).
THEOREM TraversalIsExact == TraversalSpec => []Exact
<1>1. TraversalInit => TraversalInv
  BY DEF TraversalInit, TraversalInv
<1>2. TraversalInv /\ [Visit]_traversalVars => TraversalInv'
  <2>1. CASE Visit
    BY <2>1, VisitKeepsInv
  <2>2. CASE UNCHANGED traversalVars
    BY <2>2 DEF traversalVars, TraversalInv, Children
  <2> QED
    BY <2>1, <2>2
<1>3. TraversalInv => Exact
  BY InvIsExact
<1> QED
  BY <1>1, <1>2, <1>3, PTL DEF TraversalSpec
=============================================================================
