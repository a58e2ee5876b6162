------------------------------ MODULE Registry ------------------------------
(***************************************************************************)
(* The calculation registry: what is registered and in which order, what   *)
(* the registrations alone say about a name (the closure that decides      *)
(* which logbook columns an edit can affect, and whether a name waits for  *)
(* an explicit calculation), and the broadcast of a change to the engines  *)
(* and to the observers.  (engine/calculationregistry.cpp)                 *)
(*                                                                         *)
(* A broadcast calls out: a listener of an engine may destroy a session or *)
(* load one, an observer may take an observer off the list.  "calling" is  *)
(* the copy of the list that is being walked.  Nobody registers, and       *)
(* nobody asks for a closure, from inside a broadcast; and no evaluation   *)
(* is under way when one starts (checkMutable()).                          *)
(*                                                                         *)
(* The instances a family has made are not part of the state: an instance  *)
(* key spells out the name it is for, so a memoized instance is the one    *)
(* that would be made again.                                               *)
(***************************************************************************)
EXTENDS Integers, Sequences, FiniteSets, SequencesExt

CONSTANTS
  Names,        \* DependencyKey
  Measured,     \* the names that are measurements
  Asked,        \* bound: the names that columns and plots ask about
  Prefs,        \* preference keys
  Texts,        \* the text form of a preference's value
  Ids,          \* what may be registered
  Kind,         \* Ids -> "Calculation", "Family" or "SourceConversion"
  Descriptor,   \* Ids -> [Names -> descriptor or NoMatch]; a calculation has one
                \* descriptor, a family may make one for each name
  NoMatch,
  Engines,      \* the sessions' engines
  Observers     \* who is called when the registrations changed

VARIABLES
  entries,      \* m_entries: ids, in registration order
  staticMemo,   \* m_staticDependencyMemo
  explicitMemo, \* m_dependsOnExplicitMemo
  engines,      \* m_engines
  observers,    \* m_observers
  calling,      \* the broadcast: [what, left]
  untold,       \* listeners that were not called since the last change
  preference    \* what the preference provider answers

vars == <<entries, staticMemo, explicitMemo, engines, observers, calling, untold, preference>>

\* What is assumed of the constants: an engine is no observer.
IsRegistry == Engines \cap Observers = {}

Input(kind, key) == <<kind, key>>
Plain(id) == Descriptor[id][CHOOSE n \in Names : TRUE]
Reads(d, input) == input \in Range(d.inputs)

-----------------------------------------------------------------------------
(* What the registrations alone say *)

\* validate()
Valid(d, sourceInputsPermitted) ==
  /\ d.outputs # <<>>
  /\ IsInjective(d.outputs)
  /\ \A n \in Names : Reads(d, Input("Source", n)) => sourceInputsPermitted
  /\ \A n \in Range(d.outputs) : ~Reads(d, Input("Name", n))

\* instantiate(): an instance that breaks a rule counts as no match.
Instantiates(id, n) ==
  LET d == Descriptor[id][n] IN
  /\ d # NoMatch
  /\ n \in Range(d.outputs)
  /\ Kind[id] # "Calculation" => Valid(d, Kind[id] = "SourceConversion")

CandidatesIn(seq, n) == SelectSeq(seq, LAMBDA id : Kind[id] # "SourceConversion" /\ Instantiates(id, n))
SourceConversionsIn(seq, n) == SelectSeq(seq, LAMBDA id : Kind[id] = "SourceConversion" /\ Instantiates(id, n))

\* Every candidate, not only the one that would win.
Behind(seq, n) ==
  Range(CandidatesIn(seq, n))
    \cup (IF n \in Measured THEN Range(SourceConversionsIn(seq, n)) ELSE {})
InputsOf(seq, n) == UNION {Range(Descriptor[id][n].inputs) : id \in Behind(seq, n)}
OfKind(kind, keys, inputs) == {x \in keys : Input(kind, x) \in inputs}

\* staticDependencies(), computed: the source layer behind a name is a leaf.
StaticDependencies(seq, n) ==
  LET reach[i \in 0 .. Cardinality(Names)] ==
        IF i = 0 THEN {n}
        ELSE reach[i - 1] \cup UNION {OfKind("Name", Names, InputsOf(seq, m)) : m \in reach[i - 1]}
      inputs == UNION {InputsOf(seq, m) : m \in reach[Cardinality(Names)]}
  IN [names |-> reach[Cardinality(Names)] \cup OfKind("Source", Names, inputs),
      preferences |-> OfKind("Preference", Prefs, inputs)]

DependsOnExplicit(seq, names) == \E n \in names : \E id \in Behind(seq, n) : Descriptor[id][n].explicit

Plains(seq) == {id \in Range(seq) : Kind[id] = "Calculation"}
DeclaredPreferenceKeys(seq) == {p \in Prefs : \E id \in Plains(seq) : Reads(Plain(id), Input("Preference", p))}

\* Mutant: the families are left out of the candidates of a name.
CandidateOrderPlain(seq) ==
  LET declared == UNION {Range(Plain(id).outputs) : id \in Plains(seq)}
  IN [byOutput |-> [n \in declared |-> SelectSeq(seq, LAMBDA id :
                       Kind[id] = "Calculation" /\ n \in Range(Plain(id).outputs))],
      families |-> SelectSeq(seq, LAMBDA id : Kind[id] = "Family"),
      sourceConversions |-> SelectSeq(seq, LAMBDA id : Kind[id] = "SourceConversion")]

\* candidateOrder(): a family takes its place among the candidates of every
\* name, whether it makes an instance for that name or not.
CandidateOrder(seq) ==
  LET declared == UNION {Range(Plain(id).outputs) : id \in Plains(seq)}
  IN [byOutput |-> [n \in declared |-> SelectSeq(seq, LAMBDA id :
                       Kind[id] = "Family" \/ (Kind[id] = "Calculation" /\ n \in Range(Plain(id).outputs)))],
      families |-> SelectSeq(seq, LAMBDA id : Kind[id] = "Family"),
      sourceConversions |-> SelectSeq(seq, LAMBDA id : Kind[id] = "SourceConversion")]

\* calculationEnvironmentFingerprint(), before it is hashed
Fingerprint(seq) ==
  <<CandidateOrder(seq), [p \in DeclaredPreferenceKeys(seq) |-> preference[p]]>>

-----------------------------------------------------------------------------
(* Registrations and queries *)

Idle == calling.what = "nothing"
Call(what) ==
  /\ calling' = [what |-> what, left |-> engines]
  /\ untold' = untold \cup Range(engines) \cup (IF what = "registry" THEN Range(observers) ELSE {})

\* registerCalculation() and addFamily(): a family's instances are validated
\* when they are made.
Register(id) ==
  /\ Idle /\ id \notin Range(entries)
  /\ Kind[id] = "Calculation" => Valid(Plain(id), FALSE)
  /\ entries' = Append(entries, id)
  /\ Call("registry")
  /\ UNCHANGED <<staticMemo, explicitMemo, engines, observers, preference>>

Unregister(id) ==
  /\ Idle /\ id \in Range(entries)
  /\ entries' = SelectSeq(entries, LAMBDA x : x # id)
  /\ Call("registry")
  /\ UNCHANGED <<staticMemo, explicitMemo, engines, observers, preference>>

\* EnginePreferenceProvider: every change of a preference, declared or not.
ChangePreference(p, text) ==
  /\ Idle /\ preference[p] # text
  /\ preference' = [preference EXCEPT ![p] = text]
  /\ Call("preference")
  /\ UNCHANGED <<entries, staticMemo, explicitMemo, engines, observers>>

\* staticDependencies() and dependsOnExplicit(), asked between broadcasts.
Known(n) == n \in DOMAIN staticMemo
Remember(memo, n, answer) == [m \in DOMAIN memo \cup {n} |-> IF m = n THEN answer ELSE memo[m]]
AskStatic(n) ==
  /\ Idle /\ ~Known(n)
  /\ staticMemo' = Remember(staticMemo, n, StaticDependencies(entries, n))
  /\ UNCHANGED <<entries, explicitMemo, engines, observers, calling, untold, preference>>

AskExplicit(n) ==
  LET closure == IF Known(n) THEN staticMemo[n] ELSE StaticDependencies(entries, n) IN
  /\ Idle /\ n \notin DOMAIN explicitMemo
  /\ staticMemo' = Remember(staticMemo, n, closure)
  /\ explicitMemo' = Remember(explicitMemo, n, DependsOnExplicit(entries, closure.names))
  /\ UNCHANGED <<entries, engines, observers, calling, untold, preference>>

-----------------------------------------------------------------------------
(* The broadcast *)

\* A session may come and go on its own, too. Both lists hold each once.
TakenOff(list, x) == RemoveAt(list, CHOOSE i \in DOMAIN list : list[i] = x)
Enrol(e) == /\ e \notin Range(engines) /\ engines' = Append(engines, e)
Withdraw(e) == engines' = TakenOff(engines, e)

SessionLoaded(e) == Idle /\ Enrol(e)
                    /\ UNCHANGED <<entries, staticMemo, explicitMemo, observers, calling, untold, preference>>
SessionClosed(e) == /\ Idle /\ e \in Range(engines) /\ Withdraw(e)
                    /\ untold' = untold \ {e}
                    /\ UNCHANGED <<entries, staticMemo, explicitMemo, observers, calling, preference>>

\* Mutant: the list itself is walked by position, and a session that is
\* destroyed moves the next one out of reach.
TellEngineLive ==
  /\ calling.what \in {"registry", "preference"} /\ calling.left # <<>>
  /\ \E e \in {Head(calling.left)} :
       \/ e \in Range(engines) /\ UNCHANGED engines /\ untold' = untold \ {e}
          /\ calling' = [calling EXCEPT !.left = Tail(@)]
       \/ e \in Range(engines) /\ Withdraw(e) /\ untold' = untold \ {e}
          /\ calling' = [calling EXCEPT !.left = IF Len(@) > 1 THEN Tail(Tail(@)) ELSE <<>>]
       \/ e \notin Range(engines) /\ UNCHANGED <<engines, untold>>
          /\ calling' = [calling EXCEPT !.left = Tail(@)]
  /\ UNCHANGED <<entries, staticMemo, explicitMemo, observers, preference>>

\* notifyPreferenceChanged() and broadcast(): an engine that went is skipped.
TellEngine ==
  /\ calling.what \in {"registry", "preference"} /\ calling.left # <<>>
  /\ calling' = [calling EXCEPT !.left = Tail(@)]
  /\ \E e \in {Head(calling.left)} :
       \/ e \notin Range(engines) /\ UNCHANGED <<engines, untold>>
       \/ e \in Range(engines) /\ UNCHANGED engines /\ untold' = untold \ {e}
       \/ \E x \in Range(engines) : e \in Range(engines) /\ Withdraw(x) /\ untold' = untold \ {e, x}
       \/ \E x \in Engines : e \in Range(engines) /\ Enrol(x) /\ untold' = untold \ {e, x}
  /\ UNCHANGED <<entries, staticMemo, explicitMemo, observers, preference>>

\* registrationsChanged(): the memos go first, then a copy of the observers.
EnginesTold ==
  /\ calling.what \in {"registry", "preference"} /\ calling.left = <<>>
  /\ calling' = IF calling.what = "registry" THEN [what |-> "observers", left |-> observers]
                ELSE [what |-> "nothing", left |-> <<>>]
  /\ staticMemo' = IF calling.what = "registry" THEN <<>> ELSE staticMemo
  /\ explicitMemo' = IF calling.what = "registry" THEN <<>> ELSE explicitMemo
  /\ UNCHANGED <<entries, engines, observers, untold, preference>>

\* An observer may remove itself, or another one.
TellObserver ==
  /\ calling.what = "observers" /\ calling.left # <<>>
  /\ calling' = [calling EXCEPT !.left = Tail(@)]
  /\ \/ UNCHANGED observers
     \/ \E o \in Observers : o \in Range(observers) /\ observers' = TakenOff(observers, o)
  /\ untold' = untold \ {Head(calling.left)}
  /\ UNCHANGED <<entries, staticMemo, explicitMemo, engines, preference>>

ObserversTold ==
  /\ calling.what = "observers" /\ calling.left = <<>>
  /\ calling' = [what |-> "nothing", left |-> <<>>]
  /\ UNCHANGED <<entries, staticMemo, explicitMemo, engines, observers, untold, preference>>

\* addObserver(): once for each part of the program.
AddObserver(o) ==
  /\ Idle /\ o \notin Range(observers)
  /\ observers' = Append(observers, o)
  /\ untold' = untold \ {o}
  /\ UNCHANGED <<entries, staticMemo, explicitMemo, engines, calling, preference>>

-----------------------------------------------------------------------------
Init ==
  /\ entries = <<>> /\ staticMemo = <<>> /\ explicitMemo = <<>>
  /\ engines = <<>> /\ observers = <<>> /\ untold = {}
  /\ calling = [what |-> "nothing", left |-> <<>>]
  /\ preference \in [Prefs -> Texts]

Next ==
  \/ \E id \in Ids : Register(id) \/ Unregister(id)
  \/ \E p \in Prefs, text \in Texts : ChangePreference(p, text)
  \/ \E n \in Asked : AskStatic(n) \/ AskExplicit(n)
  \/ \E e \in Engines : SessionLoaded(e) \/ SessionClosed(e)
  \/ TellEngine \/ EnginesTold \/ TellObserver \/ ObserversTold
  \/ \E o \in Observers : AddObserver(o)

Spec == Init /\ [][Next]_vars

-----------------------------------------------------------------------------
\* What is remembered of a name is what the registrations say now, whatever
\* was registered or taken away since it was asked for, and although both memos
\* fill from each other.  (staticDependencies, dependsOnExplicit,
\* registrationsChanged)
MemosAreCurrent ==
  Idle =>
    /\ \A n \in DOMAIN staticMemo : staticMemo[n] = StaticDependencies(entries, n)
    /\ \A n \in DOMAIN explicitMemo :
         explicitMemo[n] = DependsOnExplicit(entries, StaticDependencies(entries, n).names)

IsClosed(S) == \A n \in S : OfKind("Name", Names, InputsOf(entries, n)) \subseteq S
LeastClosed(n) == {m \in Names : \A S \in SUBSET Names : n \in S /\ IsClosed(S) => m \in S}

\* And what the registrations say of it is the smallest set that holds the name
\* and the inputs of everything that could compute a member, rings and all.
\* (staticDependencies)
ClosuresAreLeast ==
  Idle =>
    \A n \in DOMAIN staticMemo :
      /\ LeastClosed(n) \subseteq staticMemo[n].names
      /\ \A m \in staticMemo[n].names \ LeastClosed(n) :
           \E k \in LeastClosed(n) : Input("Source", m) \in InputsOf(entries, k)
      /\ \A p \in Prefs : p \in staticMemo[n].preferences
           <=> \E k \in LeastClosed(n) : Input("Preference", p) \in InputsOf(entries, k)

\* A broadcast reaches every session that is still there and every observer
\* that is still listed, although the callbacks destroy and load sessions and
\* remove observers while the lists are walked.  (broadcast,
\* notifyPreferenceChanged, registrationsChanged)
EveryoneHears == Idle => untold \cap (Range(engines) \cup Range(observers)) = {}

\* Neither what is remembered nor who listens is behind the registrations.
NobodyIsBehind == MemosAreCurrent /\ ClosuresAreLeast /\ EveryoneHears

\* The fingerprint stored with cached logbook columns tells registries apart
\* that could answer differently: with the same one, the same candidates are
\* tried in the same order for every name, whatever the order in which they
\* were registered.  (candidateOrder, calculationEnvironmentFingerprint)
FingerprintDecides ==
  calling = [what |-> "observers", left |-> <<>>] =>
    \A other \in SetToSeqs(Range(entries)) \ {entries} :
      CandidateOrder(other) = CandidateOrder(entries) =>
        \A n \in Names : /\ CandidatesIn(other, n) = CandidatesIn(entries, n)
                         /\ SourceConversionsIn(other, n) = SourceConversionsIn(entries, n)

=============================================================================
