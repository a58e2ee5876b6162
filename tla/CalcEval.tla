------------------------------ MODULE CalcEval ------------------------------
(***************************************************************************)
(* The calculation engine of one session: how a public name is resolved,   *)
(* what the answer depends on, and what a change of a leaf drops.          *)
(* (engine/calculationengine.cpp, read with calculationregistry.cpp)       *)
(*                                                                         *)
(* Graph nodes.  A name stands for its Resolution node, a calculation for  *)
(* its Result node; Leaf(x) is the stored value of the name x or the       *)
(* preference x; Ticket(k) is an outstanding asynchronous request.         *)
(*                                                                         *)
(* Values.  A value is the set of things it was made from: the leaves, as  *)
(* <<x, v>>, and the calculations that ran.  Two values are equal exactly  *)
(* when the same calculations produced them from the same leaves.          *)
(*                                                                         *)
(* One evaluation is one operator: the engine is single-threaded and an    *)
(* evaluation runs to its end inside one call.  Within it the engine is a  *)
(* record "e" that carries the stack of open scopes.                       *)
(***************************************************************************)
EXTENDS Integers, Sequences, FiniteSets, TLC, SequencesExt

CONSTANTS
  Names,        \* public names (DependencyKey)
  Prefs,        \* preference keys
  Calcs,        \* calculation identities; the sequence is their order by id
  Values,       \* values of a leaf
  Absent,       \* nothing is stored / the preference has no value
  Invalid,      \* a stored attribute whose value is invalid
  Graphs,       \* the registrations a session may meet, each one a function
                \* from Calcs to [inputs, outputs, explicit, declines]
  MaxTickets    \* bound: asynchronous requests outstanding at once

VARIABLES
  decl,         \* the descriptor of every calculation; never changes
  order,        \* CalculationRegistry::m_entries: what is registered, in order
  leaf,         \* ISessionState and the preference provider
  engine        \* m_resolutions and m_results as "cache", m_dependsOn as
                \* "deps", m_prepared as "tickets"

CalcIds == Range(Calcs)
Leaf(x) == <<"leaf", x>>
Ticket(k) == <<"ticket", k>>
TicketIds == 1 .. MaxTickets
Cacheable == Names \cup CalcIds
Nodes == Cacheable \cup {Leaf(x) : x \in Names \cup Prefs} \cup {Ticket(k) : k \in TicketIds}

\* A cached answer.  "outs" is the set of outputs the bundle makes available.
Answer(status, value, outs, requested) ==
  [status |-> status, value |-> value, outs |-> outs,
   requested |-> requested, sawCycle |-> FALSE]
Unavailable == Answer("None", {}, {}, FALSE)
Available(value) == Answer("Ok", value, {}, FALSE)

Empty == [cache |-> <<>>, deps |-> [x \in Nodes |-> {}], tickets |-> <<>>]
Without(f, S) == [x \in DOMAIN f \ S |-> f[x]]

-----------------------------------------------------------------------------
(* The scope stack *)

NoHit == Cardinality(Nodes) + 1     \* kNoHit: deeper than any stack

Open(g) == g @@ [stack |-> <<>>, ran |-> {}]
Closed(e) == [cache |-> e.cache, deps |-> e.deps, tickets |-> e.tickets]

Push(e, node) ==
  [e EXCEPT !.stack = Append(@, [node |-> node, looked |-> {}, onRing |-> FALSE,
                                 minHit |-> NoHit, sawCycle |-> FALSE])]
Note(e, node) ==
  IF e.stack = <<>> THEN e
  ELSE [e EXCEPT !.stack[Len(e.stack)].looked = @ \cup {node}]

Smaller(i, j) == IF i < j THEN i ELSE j

\* finish(): what a subtree met, its parent's subtree met.
Pop(e) ==
  LET closed == Last(e.stack)
      n == Len(e.stack) - 1
  IN IF n = 0 THEN [e EXCEPT !.stack = <<>>]
     ELSE [e EXCEPT !.stack = [Front(@) EXCEPT
            ![n].minHit = Smaller(@, closed.minHit),
            ![n].sawCycle = @ \/ closed.sawCycle]]

Evaluating(e) == {e.stack[i].node : i \in DOMAIN e.stack}

\* Every calculation between the two occurrences of the node is on the ring.
ReportCycle(e, node) ==
  LET i == CHOOSE j \in DOMAIN e.stack : e.stack[j].node = node
      top == Len(e.stack)
  IN [e EXCEPT !.stack = [j \in 1 .. top |->
        [e.stack[j] EXCEPT
           !.onRing = @ \/ (j >= i /\ e.stack[j].node \in CalcIds),
           !.minHit = IF j = top THEN Smaller(@, i) ELSE @,
           !.sawCycle = @ \/ j = top]]]

\* "closed" was popped: did a ring beneath it re-enter a frame above it?
IsContextFree(e, closed) == closed.minHit > Len(e.stack)

HandUp(e, closed) ==
  [e EXCEPT !.stack[Len(e.stack)].looked = @ \cup closed.looked]

-----------------------------------------------------------------------------
(* Edges, publication, invalidation *)

RECURSIVE Closure(_, _)
Closure(succ, S) ==
  LET T == S \cup UNION {succ[x] : x \in S}
  IN IF T = S THEN S ELSE Closure(succ, T)

Dependents(e) == [x \in Nodes |-> {y \in Nodes : x \in e.deps[y]}]
DependentsOf(e, node) == {y \in Nodes : node \in e.deps[y]}

Publish(e, node, looked, answer) ==
  [e EXCEPT !.cache = (node :> answer) @@ @, !.deps[node] = looked \ {node}]

MarkStale(ticket) ==
  IF ticket.refused = "No" THEN [ticket EXCEPT !.refused = "InputsChanged"] ELSE ticket
MarkGone(ticket) == [ticket EXCEPT !.refused = "RegistrationRemoved"]

\* Mutant: the walk over the reverse edges marks no ticket.
InvalidateCacheOnly(e, seeds) ==
  LET hit == Closure(Dependents(e), seeds)
  IN [names |-> hit \cap Names \cap DOMAIN e.cache,
      at |-> [e EXCEPT !.cache = Without(@, hit),
                       !.deps = [x \in Nodes |-> IF x \in hit THEN {} ELSE @[x]]]]

DropAll(e, hit) ==
  [names |-> hit \cap Names \cap DOMAIN e.cache,
   at |-> [e EXCEPT
     !.cache = Without(@, hit),
     !.deps = [x \in Nodes |-> IF x \in hit THEN {} ELSE @[x]],
     !.tickets = [k \in DOMAIN @ |-> IF Ticket(k) \in hit THEN MarkStale(@[k]) ELSE @[k]]]]

\* invalidate(): "names" are the public names whose cached answer was dropped.
Invalidate(e, seeds) == DropAll(e, Closure(Dependents(e), seeds))

DropNotRequested(e, c) ==
  Invalidate([e EXCEPT !.cache = Without(@, {c}), !.deps[c] = {}], DependentsOf(e, c))

-----------------------------------------------------------------------------
(* Resolution.  Each operator returns the engine it leaves ("at") and what *)
(* it found.                                                               *)

\* Mutant: a cached answer is served whatever is being evaluated.
UsableAlways(e, node) == node \in DOMAIN e.cache

\* cachedAnswerUsable()
Usable(e, node) ==
  /\ node \in DOMAIN e.cache
  /\ \/ ~e.cache[node].sawCycle
     \/ e.stack = <<>>
     \/ Closure(e.deps, {node}) \cap Evaluating(e) = {}

Serve(e, node) ==
  IF e.cache[node].sawCycle /\ e.stack # <<>>
  THEN [e EXCEPT !.stack[Len(e.stack)].sawCycle = TRUE]
  ELSE e

\* A provisional answer goes to the caller only; an answer that was turned
\* away stays cached.
Settle(e, node, closed, answer) ==
  IF ~IsContextFree(e, closed) THEN HandUp(e, closed)
  ELSE IF node \in DOMAIN e.cache THEN e
  ELSE Publish(e, node, closed.looked, answer)

Candidates(n) == SelectSeq(order, LAMBDA c : n \in decl[c].outputs)

\* A clean run: its value, and the outputs it sets (none if it declines).
Accepted(c, used, requested) ==
  Answer("Ok", used \cup {c},
         IF used \cap decl[c].declines = {} THEN decl[c].outputs ELSE {}, requested)

LeafAnswer(x) == IF leaf[x] \in Values THEN Available({<<x, leaf[x]>>}) ELSE Unavailable

\* What a calculation answers once its inputs were gathered.
Outcome(g, c, requested) ==
  IF g.status = "Ok"
  THEN [at |-> [g.at EXCEPT !.ran = @ \cup {c}], answer |-> Accepted(c, g.used, requested)]
  ELSE [at |-> g.at, answer |-> Answer(g.status, {}, {}, requested)]

\* The end of resolve() and of ensureResult(): the scope closes.
Finish(done, node) ==
  LET closed == Last(done.at.stack)
      answer == [done.answer EXCEPT !.sawCycle = closed.sawCycle]
  IN [at |-> Settle(Pop(done.at), node, closed, answer), answer |-> answer]

RECURSIVE Lookup(_, _), TryCandidates(_, _, _), GatherInputs(_, _, _)

\* The first candidate that ran and produced the name wins.
CandidateAnswered(r, n, others) ==
  IF r.answer.status = "Ok" /\ n \in r.answer.outs
  THEN [at |-> r.at, answer |-> Available(r.answer.value)]
  ELSE TryCandidates(r.at, n, others)

TryCandidates(e, n, candidates) ==
  IF candidates = <<>> THEN [at |-> e, answer |-> Unavailable]
  ELSE CandidateAnswered(Lookup(e, Head(candidates)), n, Tail(candidates))

\* Declared order, up to the first input that is unavailable.
InputAnswered(r, others, used) ==
  IF Last(r.at.stack).onRing THEN [at |-> r.at, status |-> "Cycle", used |-> {}]
  ELSE IF r.answer.status # "Ok" THEN [at |-> r.at, status |-> "MissingInput", used |-> {}]
  ELSE GatherInputs(r.at, others, used \cup r.answer.value)

ReadInput(e, x) ==
  IF x \in Names THEN Lookup(e, x) ELSE [at |-> Note(e, Leaf(x)), answer |-> LeafAnswer(x)]

GatherInputs(e, inputs, used) ==
  IF inputs = <<>> THEN [at |-> e, status |-> "Ok", used |-> used]
  ELSE InputAnswered(ReadInput(e, Head(inputs)), Tail(inputs), used)

\* Mutant: the policy of the calculation is not looked at.
ComputeEagerly(e, c, requested) ==
  Outcome(GatherInputs(Push(e, c), decl[c].inputs, {}), c, requested)

\* computeResult(), to the point where the scope is still open
ComputeResult(e, c, requested) ==
  IF decl[c].explicit /\ ~requested
  THEN [at |-> Push(e, c), answer |-> Answer("NotRequested", {}, {}, FALSE)]
  ELSE Outcome(GatherInputs(Push(e, c), decl[c].inputs, {}), c, requested)

\* The body of resolve(): what is stored wins, even when it is invalid.
ResolveName(e, n) ==
  IF leaf[n] # Absent THEN [at |-> Note(Push(e, n), Leaf(n)), answer |-> LeafAnswer(n)]
  ELSE TryCandidates(Note(Push(e, n), Leaf(n)), n, Candidates(n))

\* The body of ensureResult(): an answer that was requested stays requested.
EnsureResult(e, c) == ComputeResult(e, c, c \in DOMAIN e.cache /\ e.cache[c].requested)

\* resolve() and ensureResult(), which treat the cache and the stack alike
LookupNoted(e, node) ==
  IF Usable(e, node) THEN [at |-> Serve(e, node), answer |-> e.cache[node]]
  ELSE IF node \in Evaluating(e) THEN [at |-> ReportCycle(e, node), answer |-> Unavailable]
  ELSE Finish(IF node \in Names THEN ResolveName(e, node) ELSE EnsureResult(e, node), node)

Lookup(e, node) == LookupNoted(Note(e, node), node)

\* An ordinary read: nothing is being evaluated.
ReadOf(g, n) == Lookup(Open(g), n)

-----------------------------------------------------------------------------
(* Explicit evaluation, and the oracle *)

HasValidResult(e, c) == c \in DOMAIN e.cache /\ e.cache[c].status # "NotRequested"

PublishRequested(done, c) ==
  LET closed == Last(done.at.stack)
  IN Publish(Pop(done.at), c, closed.looked, [done.answer EXCEPT !.sawCycle = closed.sawCycle])

\* requestInstance(), for a calculation without a valid result
RequestInstance(e, c) ==
  LET dropped == DropNotRequested(e, c)
  IN [names |-> dropped.names,
      at |-> PublishRequested(ComputeResult(dropped.at, c, TRUE), c)]

RequestedCalcs(e) == {c \in CalcIds \cap DOMAIN e.cache : e.cache[c].requested}

\* One pass of evaluateFresh() over the requested calculations, by id.
RECURSIVE Replay(_, _)
Replay(e, ids) ==
  IF ids = <<>> THEN e
  ELSE Replay(IF HasValidResult(e, Head(ids)) THEN e ELSE RequestInstance(e, Head(ids)).at,
              Tail(ids))

\* Passes until one evaluates nothing, at most one more than there are ids.
RECURSIVE ReplayPasses(_, _, _)
ReplayPasses(e, ids, n) ==
  IF n < 0 \/ \A i \in DOMAIN ids : HasValidResult(e, ids[i]) THEN e
  ELSE ReplayPasses(Replay(e, ids), ids, n - 1)

\* evaluateFresh(): a throw-away engine over the same state and registry
FreshEngine ==
  LET ids == SelectSeq(Calcs, LAMBDA c : c \in RequestedCalcs(engine))
  IN Closed(ReplayPasses(Open(Empty), ids, Len(ids)))

=============================================================================
