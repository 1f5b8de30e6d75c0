------------------------------ MODULE Lineage ------------------------------
(***************************************************************************)
(* The lineage of registry entries (registry/store.py): edges from a child *)
(* to the entries it was made from.  add_lineage refuses an edge that      *)
(* would close a cycle; it finds out by walking from the parent upwards,   *)
(* one query for each level, and then inserts.  Every query and the insert *)
(* are transactions of their own, and any process may open the registry.   *)
(***************************************************************************)
EXTENDS Integers, FiniteSets

CONSTANTS
  Process,
  Entry,   \* generated ids; one that was deleted does not come back
  None

ASSUME LineageAssumption == None \notin Entry

VARIABLES
  entries,   \* registry_entries
  spent,     \* the ids that were ever pushed
  edges,     \* registry_lineage, <<child, parent>>
  call,      \* each process's call: what it adds and how far its walk has come
  \* history:
  unraced,   \* processes since whose check began no other has inserted an edge
  raced      \* an edge was inserted on a check that another's insert had overtaken

lineageVars == <<entries, spent, edges, call, unraced, raced>>
tables == <<entries, spent, edges, unraced, raced>>

Pc == {"idle", "looking up", "walking", "free"}
NoCall == [pc |-> "idle", child |-> None, parent |-> None, seen |-> {}, frontier |-> {}]

LTypeOK ==
  /\ entries \subseteq spent /\ spent \subseteq Entry
  /\ edges \subseteq entries \X entries
  /\ call \in [Process -> [pc : Pc, child : Entry \cup {None}, parent : Entry \cup {None},
                           seen : SUBSET Entry, frontier : SUBSET Entry]]
  /\ \A p \in Process : call[p].pc # "idle" => {call[p].child, call[p].parent} \subseteq Entry
  /\ unraced \subseteq Process /\ raced \in BOOLEAN

LineageInit ==
  /\ entries = {} /\ spent = {} /\ edges = {}
  /\ call = [p \in Process |-> NoCall]
  /\ unraced = {} /\ raced = FALSE

-----------------------------------------------------------------------------
\* INSERT of an entry under a generated id.
Push(e) ==
  /\ e \notin spent
  /\ entries' = entries \cup {e} /\ spent' = spent \cup {e}
  /\ UNCHANGED <<edges, call, unraced, raced>>

\* Mutant of Cascaded: the entry's edges stay.
CascadedNot(e) == edges

\* ON DELETE CASCADE, for the child and for the parent.
Cascaded(e) == edges \cap ((entries \ {e}) \X (entries \ {e}))

Delete(e) ==
  /\ e \in entries
  /\ entries' = entries \ {e}
  /\ edges' = Cascaded(e)
  /\ UNCHANGED <<spent, call, unraced, raced>>

-----------------------------------------------------------------------------
(* add_lineage                                                             *)

AddReturns(p) == call' = [call EXCEPT ![p] = NoCall]

\* Not itself, and both are there when they are looked up.
Admissible(c, q) == c # q /\ {c, q} \subseteq entries

Calls(p, c, q) ==
  /\ call[p].pc = "idle"
  /\ Admissible(c, q)
  /\ call' = [call EXCEPT ![p] = [NoCall EXCEPT !.pc = "looking up", !.child = c, !.parent = q]]
  /\ UNCHANGED tables

\* The first query of _reaches_ancestor begins.
WalkBegins(p) ==
  /\ call[p].pc = "looking up"
  /\ call' = [call EXCEPT ![p].pc = "walking", ![p].frontier = {call[p].parent}]
  /\ unraced' = unraced \cup {p}
  /\ UNCHANGED <<entries, spent, edges, raced>>

Parents(frontier) == {e \in Entry : \E x \in frontier : <<x, e>> \in edges}

\* Mutant of New: every parent is gone through again.
NewAlways(p) == Parents(call[p].frontier)

New(p) == Parents(call[p].frontier) \ call[p].seen

\* Mutant of Reaches: only the parents of the first level are looked at.
ReachesDirectly(p) == <<call[p].parent, call[p].child>> \in edges

Reaches(p) == call[p].child \in Parents(call[p].frontier)

\* One level.
Walks(p) ==
  /\ call[p].pc = "walking"
  /\ call[p].frontier # {}
  /\ IF Reaches(p)
       THEN AddReturns(p) /\ unraced' = unraced \ {p}
       ELSE /\ call' = [call EXCEPT ![p].frontier = New(p), ![p].seen = @ \cup New(p)]
            /\ UNCHANGED unraced
  /\ UNCHANGED <<entries, spent, edges, raced>>

WalkEnds(p) ==
  /\ call[p].pc = "walking"
  /\ call[p].frontier = {}
  /\ call' = [call EXCEPT ![p].pc = "free"]
  /\ UNCHANGED tables

\* INSERT OR IGNORE: nothing for an edge that is there.
Inserts(p) ==
  LET edge == <<call[p].child, call[p].parent>> IN
  /\ call[p].pc = "free"
  /\ {call[p].child, call[p].parent} \subseteq entries
  /\ edges' = edges \cup {edge}
  /\ unraced' = IF edge \in edges THEN unraced \ {p} ELSE {}
  /\ raced' = (raced \/ p \notin unraced)
  /\ AddReturns(p)
  /\ UNCHANGED <<entries, spent>>

\* One of the two has been deleted meanwhile: the foreign key refuses the row.
InsertFails(p) ==
  /\ call[p].pc = "free"
  /\ ~({call[p].child, call[p].parent} \subseteq entries)
  /\ unraced' = unraced \ {p}
  /\ AddReturns(p)
  /\ UNCHANGED <<entries, spent, edges, raced>>

\* At any point of its call.
ProcessDies(p) ==
  /\ call[p].pc # "idle"
  /\ unraced' = unraced \ {p}
  /\ AddReturns(p)
  /\ UNCHANGED <<entries, spent, edges, raced>>

-----------------------------------------------------------------------------
AddStep(p) == WalkBegins(p) \/ Walks(p) \/ WalkEnds(p) \/ Inserts(p) \/ InsertFails(p)

LineageNext ==
  \/ \E e \in Entry : Push(e) \/ Delete(e)
  \/ \E p \in Process : AddStep(p) \/ ProcessDies(p)
  \/ \E p \in Process, c, q \in Entry : Calls(p, c, q)

LineageSpec == LineageInit /\ [][LineageNext]_lineageVars

\* A process that runs goes on.
LineageFairSpec == LineageSpec /\ \A p \in Process : WF_lineageVars(AddStep(p))

-----------------------------------------------------------------------------
(* Properties.                                                             *)

\* Every set of entries has one none of whose parents is in the set.
Rooted(S, E) == \E e \in S : \A q \in S : <<e, q>> \notin E
Acyclic(E) == \A S \in SUBSET Entry : S # {} => Rooted(S, E)

\* The lineage has no cycle, whatever was added, deleted and pushed again, as long as
\* no edge was inserted on a check that another insert had overtaken (add_lineage).
AcyclicIfSerial == ~raced => Acyclic(edges)

\* A walk that was not overtaken has looked at the parents of all it has seen but the
\* frontier, and not met the child (_reaches_ancestor).
Visited(p) == call[p].seen \cup {call[p].parent}

WalkIsSound ==
  \A p \in unraced :
    /\ call[p].pc \in {"walking", "free"}
    /\ call[p].pc = "free" => call[p].frontier = {}
    /\ call[p].child \notin Visited(p)
    /\ call[p].frontier \subseteq Visited(p)
    /\ \A x \in Visited(p) \ call[p].frontier, e \in Entry : <<x, e>> \in edges => e \in Visited(p)

\* The walk is sound, and so the lineage has no cycle.
LineageIsSound == WalkIsSound /\ AcyclicIfSerial

\* add_lineage returns, even when a cycle has got into the table, and while others add.
CallsReturn == \A p \in Process : call[p].pc # "idle" ~> call[p].pc = "idle"
=============================================================================
