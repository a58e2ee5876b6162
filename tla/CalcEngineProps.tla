--------------------------- MODULE CalcEngineProps ---------------------------
(* What the calculation engine promises its readers. *)
EXTENDS CalcEngine

(* Types; and a node without a cached answer or a ticket has no edges:      *)
(* neither invalidate() nor withdraw() leaves any behind.                    *)
TypeOK ==
  /\ decl \in Graphs
  /\ Registered \subseteq CalcIds /\ IsInjective(order)
  /\ leaf \in [Names \cup Prefs -> Values \cup {Absent, Invalid}]
  /\ DOMAIN engine.cache \subseteq Cacheable
  /\ DOMAIN engine.tickets \subseteq TicketIds
  /\ engine.deps \in [Nodes -> SUBSET (Nodes \ {Ticket(k) : k \in TicketIds})]
  /\ \A x \in Nodes : engine.deps[x] # {} =>
       x \in DOMAIN engine.cache \/ \E k \in DOMAIN engine.tickets : x = Ticket(k)
  /\ quiet \subseteq Watched

\* sameValue(), on provenances
Same(x, y) == x.status = y.status /\ x.value = y.value

(* The header's invariant: whatever was read, changed, requested or refused  *)
(* before, every ordinary read returns what a throw-away engine with an      *)
(* empty cache computes from the stored state, the preferences, the registry *)
(* and the set of requested calculations.  (verifyAgainstFresh)              *)
ReadsAreFresh ==
  LET fresh == FreshEngine
  IN \A n \in Names : Same(ReadOf(engine, n).answer, ReadOf(fresh, n).answer)

(* Reads and inspections change no answer and no ticket, and never start an  *)
(* explicit calculation: not one that was not requested, and not a requested *)
(* one whose answer was turned away beneath a ring.                          *)
ReadsHaveNoEffect ==
  \A n \in Names :
    LET e == InspectName(Open(engine), n, {}).at IN
    /\ \A c \in e.ran : ~decl[c].explicit
    /\ \A x \in DOMAIN engine.cache : x \in DOMAIN e.cache /\ e.cache[x] = engine.cache[x]
    /\ e.tickets = engine.tickets

(* A ticket nobody refused still holds the inputs a prepare() made now would *)
(* capture, so publishing it installs what a request() now would compute.    *)
TicketIsCurrent ==
  \A k \in DOMAIN engine.tickets :
    LET t == engine.tickets[k] IN
    t.refused = "No" =>
      IF HasValidResult(engine, t.calc)
      THEN engine.cache[t.calc].value = t.used \cup {t.calc}
      ELSE LET p == AvailabilityPass(t.calc) IN p.status = "Ok" /\ p.used = t.used

(* Whatever the session's state made an answer depend on, the registrations  *)
(* alone foresaw: the names and preferences below a cached name are in its   *)
(* static closure, which is how edits find the columns of rows whose engine  *)
(* is cold.                                                                  *)
ReadsStayInClosure ==
  \A n \in Names \cap DOMAIN engine.cache :
    LET below == Closure(engine.deps, {n})
    IN {x \in Names \cup Prefs : x \in below \/ Leaf(x) \in below} \subseteq StaticDependencies(n)

(* The order of reads never shows, reads start nothing, and what edits drop  *)
(* on a cold row is what they would drop on a warm one.                      *)
ReadsAreTrue == TypeOK /\ ReadsAreFresh /\ ReadsHaveNoEffect /\ ReadsStayInClosure

(* Whoever reads again what it is told was dropped always shows the value a  *)
(* read would return, names apart that prepare() dropped without telling.    *)
ShownIsFresh ==
  \A n \in Watched \ quiet :
    shown[n] # Unread => Same(shown[n], ReadOf(engine, n).answer)

(* Readiness "Ready": prepare() would run it, and only then.                 *)
ReadyMeansPrepareRuns ==
  \A c \in Registered :
    MayPrepare(c) =>
      (InspectInstance(Open(engine), c, {}).report.state = "Ready" <=>
       AvailabilityPass(c).status = "Ok")

(* The blockers a name is said to wait for can be requested now: each is     *)
(* explicit, has no valid result, and is itself ready.                       *)
BlockersCanRun ==
  \A n \in Names : \A c \in InspectName(Open(engine), n, {}).report.blockers :
    MayPrepare(c) /\ AvailabilityPass(c).status = "Ok"

(* Whoever asks for what a name waits for, and asks again until nothing is   *)
(* left to ask for, is done after as many requests as there are explicit     *)
(* calculations, in whatever order it goes through the blockers.             *)
RECURSIVE Chase(_, _, _)
Chase(e, n, k) ==
  LET r == InspectName(e, n, {}) IN
  \/ r.report.blockers = {}
  \/ k > 0 /\ \A c \in r.report.blockers : Chase(RequestInstance(r.at, c).at, n, k - 1)

BlockersLead ==
  \A n \in Names : Chase(Open(engine), n, Cardinality({c \in CalcIds : decl[c].explicit}))

(* What is reported of a name and of a calculation is what a user who asks   *)
(* for it will find.                                                         *)
ReportIsRight == ReadyMeansPrepareRuns /\ BlockersCanRun /\ BlockersLead

=============================================================================
