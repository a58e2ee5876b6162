----------------------------- MODULE CalcEngine -----------------------------
(***************************************************************************)
(* What may be done to the calculation engine of a session: ordinary       *)
(* reads, changes of leaves and of the registry, synchronous requests,     *)
(* the two halves of an asynchronous request, and blocker inspection.      *)
(*                                                                         *)
(* A reader of the engine (a table cell, a plot) keeps the answer it was   *)
(* given until it is told that the name was dropped: "shown".  Being told  *)
(* means the name is in the set a notification returns, in the set the     *)
(* invalidation listener is called with, or in an outcome's "invalidated". *)
(***************************************************************************)
EXTENDS CalcEval

CONSTANTS
  Editable,     \* leaves that may change
  Plugins,      \* calculations that may be unregistered and registered again
  Synchronous,  \* calculations somebody requests synchronously (the program: none)
  Watched,      \* names some reader shows
  Unread        \* the reader has no answer, or was told to read again

VARIABLES
  shown,        \* what the reader of each watched name shows
  quiet         \* watched names that prepare() dropped without telling

vars == <<decl, order, leaf, engine, shown, quiet>>

Registered == Range(order)

Tell(names) == shown' = [n \in Watched |-> IF n \in names THEN Unread ELSE shown[n]]
Told(names) == Tell(names) /\ quiet' = quiet \ names

-----------------------------------------------------------------------------
(* Blocker inspection: ordinary reads and looks at the cache.  A report is *)
(* what one name or one calculation stands for further up.                 *)

Report(state, blockers, notProduced) ==
  [state |-> state, blockers |-> blockers, notProduced |-> notProduced]

AllBlockers(reports) == UNION {r.blockers : r \in reports}
AllNotProduced(reports) == UNION {r.notProduced : r \in reports}
Some(reports, state) == \E r \in reports : r.state = state

RECURSIVE InspectName(_, _, _), InspectInput(_, _, _), InspectInstance(_, _, _)

\* Inspects each element of a sequence in turn.
Add(acc, r) == [at |-> r.at, reports |-> acc.reports \cup {r.report}]
Each(e, seq, Inspect(_, _)) ==
  FoldLeft(LAMBDA acc, x : Add(acc, Inspect(acc.at, x)), [at |-> e, reports |-> {}], seq)

\* Mutant: a leaf is taken to be available.
InspectNamesOnly(e, x, walking) ==
  IF x \in Names THEN InspectName(e, x, walking)
  ELSE [at |-> e, report |-> Report("Available", {}, {})]

InspectInput(e, x, walking) ==
  IF x \in Names THEN InspectName(e, x, walking)
  ELSE [at |-> e, report |-> Report(IF LeafAnswer(x).status = "Ok" THEN "Available"
                                    ELSE "NotApplicable", {}, {})]

\* Mutants: the policy comes before the inputs; a result is not looked for.
StatePolicyFirst(c, seen, valid) ==
  IF decl[c].explicit /\ ~valid THEN "Ready"
  ELSE IF seen # {} THEN "Blocked" ELSE "Done"
StateForgetful(c, seen, valid) ==
  IF seen # {} THEN "Blocked" ELSE IF decl[c].explicit THEN "Ready" ELSE "Done"

\* Where a calculation stands: "seen" are the reports of its unavailable
\* inputs.  (MissingInput with notApplicable set is "NotApplicable" here.)
StateOf(c, seen, valid) ==
  IF Some(seen, "NotApplicable") THEN "NotApplicable"
  ELSE IF Some(seen, "NotProduced") THEN "MissingInput"
  ELSE IF seen # {} THEN "Blocked"
  ELSE IF decl[c].explicit /\ ~valid THEN "Ready"
  ELSE "Done"

InstanceReport(state, seen, c) ==
  Report(state,
         CASE state = "Blocked" -> AllBlockers(seen)
           [] state = "Ready" -> {c}
           [] OTHER -> {},
         CASE state \in {"Blocked", "MissingInput"} -> AllNotProduced(seen)
           [] state = "Done" /\ decl[c].explicit -> {c}
           [] OTHER -> {})

\* inspectInstance(): availability of ALL inputs comes before policy.
InstanceInspected(c, e, seen) ==
  [at |-> e, report |-> InstanceReport(StateOf(c, seen, HasValidResult(e, c)), seen, c)]

InputsInspected(c, inputs) ==
  InstanceInspected(c, inputs.at, {r \in inputs.reports : r.state # "Available"})

InspectInstance(e, c, walking) ==
  InputsInspected(c, Each(e, decl[c].inputs, LAMBDA at, x : InspectInput(at, x, walking)))

\* inspectName(): what the candidates of an unavailable name stand for.
NameReport(blockers, notProduced) ==
  Report(IF blockers # {} THEN "Blocked"
         ELSE IF notProduced # {} THEN "NotProduced"
         ELSE "NotApplicable", blockers, notProduced)

CandidatesInspected(seen) ==
  [at |-> seen.at, report |-> NameReport(AllBlockers(seen.reports), AllNotProduced(seen.reports))]

NameRead(read, n, walking) ==
  IF read.answer.status = "Ok" THEN [at |-> read.at, report |-> Report("Available", {}, {})]
  ELSE CandidatesInspected(Each(read.at, IF leaf[n] = Absent THEN Candidates(n) ELSE <<>>,
                                LAMBDA at, c : InspectInstance(at, c, walking \cup {n})))

InspectName(e, n, walking) ==
  IF n \in walking THEN [at |-> e, report |-> Report("NotApplicable", {}, {})]
  ELSE NameRead(Lookup(e, n), n, walking)

-----------------------------------------------------------------------------
(* What the registrations alone say a name may depend on *)

\* Mutant: only the candidate that is tried first is followed.
StaticFirstOnly(n) ==
  Closure([x \in Names \cup Prefs |->
             IF x \in Names /\ Candidates(x) # <<>> THEN Range(decl[Head(Candidates(x))].inputs) ELSE {}],
          {n})

\* staticDependencies(): every candidate is followed.
StaticDependencies(n) ==
  Closure([x \in Names \cup Prefs |->
             IF x \in Names THEN UNION {Range(decl[c].inputs) : c \in Range(Candidates(x))} ELSE {}],
          {n})

-----------------------------------------------------------------------------
(* Reads, and changes the engine is notified of *)

Read(n) ==
  LET r == ReadOf(engine, n) IN
  /\ engine' = Closed(r.at)
  /\ shown' = [m \in Watched |-> IF m = n THEN [status |-> r.answer.status, value |-> r.answer.value]
                                 ELSE shown[m]]
  /\ quiet' = quiet \ {n}
  /\ UNCHANGED <<decl, order, leaf>>

\* attributeChanged(): the changed name is reported whether it was cached or not.
SetStored(n, v) ==
  LET r == Invalidate(engine, {Leaf(n)}) IN
  /\ leaf' = [leaf EXCEPT ![n] = v]
  /\ engine' = r.at
  /\ Told(r.names \cup {n})
  /\ UNCHANGED <<decl, order>>

SetPreference(p, v) ==
  LET r == Invalidate(engine, {Leaf(p)}) IN
  /\ leaf[p] # v
  /\ leaf' = [leaf EXCEPT ![p] = v]
  /\ engine' = r.at
  /\ Told(r.names)
  /\ UNCHANGED <<decl, order>>

\* registerCalculation(): a new candidate goes to the end of the list.
Register(c) ==
  LET r == Invalidate(engine, decl[c].outputs) IN
  /\ c \notin Registered
  /\ order' = Append(order, c)
  /\ engine' = r.at
  /\ Told(r.names)
  /\ UNCHANGED <<decl, leaf>>

\* unregister(): no answer outlives its registration, cached or in a ticket.
Unregister(c) ==
  LET marked == [engine EXCEPT !.tickets =
                   [k \in DOMAIN @ |-> IF @[k].calc = c THEN MarkGone(@[k]) ELSE @[k]]]
      r == Invalidate(marked, {c} \cup decl[c].outputs)
  IN /\ c \in Registered
     /\ order' = SelectSeq(order, LAMBDA d : d # c)
     /\ engine' = r.at
     /\ Told(r.names)
     /\ UNCHANGED <<decl, leaf>>

\* The session's contents were replaced in place: clear().
Replace(l) ==
  /\ leaf' = l
  /\ engine' = [Empty EXCEPT !.tickets = [k \in DOMAIN engine.tickets |-> MarkStale(engine.tickets[k])]]
  /\ Told(Names)
  /\ UNCHANGED <<decl, order>>

-----------------------------------------------------------------------------
(* Requests *)

Request(c) ==
  LET r == RequestInstance(Open(engine), c) IN
  /\ c \in Registered \cap Synchronous
  /\ ~HasValidResult(engine, c)
  /\ engine' = Closed(r.at)
  /\ Told(r.names)
  /\ UNCHANGED <<decl, order, leaf>>

\* The availability pass of prepare(), under the calculation's own scope.
PassEnded(names, g, c) ==
  LET closed == Last(g.at.stack)
  IN [names |-> names, status |-> g.status, used |-> g.used,
      looked |-> closed.looked \ {c}, sawCycle |-> closed.sawCycle, at |-> Pop(g.at)]

AvailabilityPass(c) ==
  LET dropped == DropNotRequested(Open(engine), c)
  IN PassEnded(dropped.names, GatherInputs(Push(dropped.at, c), decl[c].inputs, {}), c)

MayPrepare(c) == c \in Registered /\ decl[c].explicit /\ ~HasValidResult(engine, c)

\* NothingToRun or Blocked: the status is cached, as request() caches it, and
\* a missing input is inspected for what blocks it.
InspectIfMissing(e, c) ==
  IF e.cache[c].status = "MissingInput" THEN InspectInstance(e, c, {}).at ELSE e

PrepareNothing(c) ==
  /\ MayPrepare(c)
  /\ \E p \in {AvailabilityPass(c)} :
       /\ p.status # "Ok"
       /\ engine' = Closed(InspectIfMissing(
            Publish(p.at, c, p.looked, [Answer(p.status, {}, {}, TRUE) EXCEPT !.sawCycle = p.sawCycle]), c))
       /\ Told(p.names)
  /\ UNCHANGED <<decl, order, leaf>>

FreeTickets == TicketIds \ DOMAIN engine.tickets

\* Ready: nothing is cached for the calculation; the names dropped are kept in
\* the ticket and told to nobody yet.
PrepareReady(c) ==
  /\ MayPrepare(c)
  /\ FreeTickets # {}
  /\ \E p \in {AvailabilityPass(c)}, k \in {CHOOSE i \in FreeTickets : \A j \in FreeTickets : i <= j} :
       /\ p.status = "Ok"
       /\ engine' = [Closed(p.at) EXCEPT
            !.tickets = (k :> [calc |-> c, used |-> p.used, looked |-> p.looked,
                               sawCycle |-> p.sawCycle, dropped |-> p.names, refused |-> "No"]) @@ @,
            !.deps[Ticket(k)] = p.looked]
       /\ quiet' = quiet \cup (p.names \cap Watched)
  /\ UNCHANGED <<decl, order, leaf, shown>>

\* Mutant: the edges of a ticket outlive it.
WithdrawTicketOnly(g, k) == [g EXCEPT !.tickets = Without(@, {k})]

Withdraw(g, k) == [g EXCEPT !.tickets = Without(@, {k}), !.deps[Ticket(k)] = {}]

\* Mutant: the names dropped by prepare() are not reported again.
PublishForgetful(k) ==
  LET t == engine.tickets[k]
      g == Withdraw(engine, k)
      dropped == DropNotRequested(g, t.calc)
  IN IF t.refused # "No" \/ HasValidResult(g, t.calc)
     THEN engine' = g /\ UNCHANGED <<shown, quiet>>
     ELSE /\ engine' = Publish(dropped.at, t.calc, t.looked,
                               [Accepted(t.calc, t.used, TRUE) EXCEPT !.sawCycle = t.sawCycle])
          /\ Tell(dropped.names)
          /\ quiet' = quiet \ (t.dropped \cup dropped.names)

\* publishPrepared() installs the result of a computation that completed,
\* unless the ticket was refused or a request() came first.
PublishTicket(k) ==
  LET t == engine.tickets[k]
      g == Withdraw(engine, k)
      dropped == DropNotRequested(g, t.calc)
  IN IF t.refused # "No" \/ HasValidResult(g, t.calc)
     THEN engine' = g /\ UNCHANGED <<shown, quiet>>
     ELSE /\ engine' = Publish(dropped.at, t.calc, t.looked,
                               [Accepted(t.calc, t.used, TRUE) EXCEPT !.sawCycle = t.sawCycle])
          /\ Tell(t.dropped \cup dropped.names)
          /\ quiet' = quiet \ (t.dropped \cup dropped.names)

\* The computation was cancelled or ran out of memory, or the ticket was
\* destroyed: as if it had never been asked.
DropTicket(k) == engine' = Withdraw(engine, k) /\ UNCHANGED <<shown, quiet>>

-----------------------------------------------------------------------------

Blockers(n) ==
  /\ engine' = Closed(InspectName(Open(engine), n, {}).at)
  /\ UNCHANGED <<decl, order, leaf, shown, quiet>>

Readiness(c) ==
  /\ c \in Registered
  /\ engine' = Closed(InspectInstance(Open(engine), c, {}).at)
  /\ UNCHANGED <<decl, order, leaf, shown, quiet>>

Init ==
  /\ decl \in Graphs
  /\ order = Calcs
  /\ leaf = [x \in Names \cup Prefs |-> Absent]
  /\ engine = Empty
  /\ shown = [n \in Watched |-> Unread]
  /\ quiet = {}

LeafChange ==
  \/ \E n \in Editable \cap Names, v \in Values \cup {Absent, Invalid} : SetStored(n, v)
  \/ \E p \in Editable \cap Prefs, v \in Values \cup {Absent} : SetPreference(p, v)
  \/ Replace([x \in Names \cup Prefs |-> Absent])

RegistryChange == \E c \in Plugins : Register(c) \/ Unregister(c)

TicketStep ==
  /\ \E k \in DOMAIN engine.tickets : PublishTicket(k) \/ DropTicket(k)
  /\ UNCHANGED <<decl, order, leaf>>

Ask == \E c \in CalcIds : Request(c) \/ PrepareNothing(c) \/ PrepareReady(c) \/ Readiness(c)

Next ==
  \/ \E n \in Names : Read(n) \/ Blockers(n)
  \/ LeafChange
  \/ RegistryChange
  \/ Ask
  \/ TicketStep

Spec == Init /\ [][Next]_vars

=============================================================================
