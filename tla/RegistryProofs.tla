--------------------------- MODULE RegistryProofs ---------------------------
(***************************************************************************)
(* Proofs about Registry for any names, registrations, engines and         *)
(* observers: what is remembered is what the registrations say, and a      *)
(* broadcast reaches everyone.                                             *)
(***************************************************************************)
EXTENDS Registry, TLAPS, SequenceTheorems

------------------------------------------------------------------------------
(* The inductive invariant                                                   *)

Phases == {"nothing", "preference", "registry", "observers"}
Callings == [what : Phases, left : Seq(Engines \cup Observers)]
TypeOK == engines \in Seq(Engines) /\ observers \in Seq(Observers) /\ calling \in Callings

\* The memos are right unless a change of the registrations is still on its way
\* through the engines, after which they are dropped.
MemosStand ==
  calling.what # "registry" =>
    /\ \A n \in DOMAIN staticMemo : staticMemo[n] = StaticDependencies(entries, n)
    /\ \A n \in DOMAIN explicitMemo :
         explicitMemo[n] = DependsOnExplicit(entries, StaticDependencies(entries, n).names)

\* An engine that has not heard is listed, and its turn is to come.
EnginesHear ==
  /\ untold \cap Engines \subseteq Range(engines)
  /\ untold \cap Engines \subseteq
       IF calling.what \in {"registry", "preference"} THEN Range(calling.left) ELSE {}

\* So with an observer, who may have gone from the list; while the engines are
\* told, no observer was yet.
ObserversHear ==
  calling.what # "registry" =>
    untold \cap Range(observers) \subseteq IF calling.what = "observers" THEN Range(calling.left) ELSE {}

IInv == TypeOK /\ MemosStand /\ EnginesHear /\ ObserversHear

------------------------------------------------------------------------------
(* Lists and memos                                                           *)

\* Who is taken off a list: only he may be missed.
LEMMA TakenOffDoes ==
  ASSUME NEW S, NEW list \in Seq(S), NEW x \in Range(list)
  PROVE  /\ TakenOff(list, x) \in Seq(S)
         /\ Range(TakenOff(list, x)) \subseteq Range(list)
         /\ Range(list) \ {x} \subseteq Range(TakenOff(list, x))
<1>. DEFINE i == CHOOSE j \in DOMAIN list : list[j] = x
            n == Len(list)
            a == SubSeq(list, 1, i - 1)
            b == SubSeq(list, i + 1, n)
<1>1. i \in DOMAIN list /\ list[i] = x
  BY DEF Range
<1>2. DOMAIN list = 1..n /\ n \in Nat /\ i \in 1..n
  BY <1>1
<1>. HIDE DEF i
<1>3. /\ a \in Seq(S) /\ Len(a) = i - 1 /\ \A j \in 1..(i - 1) : a[j] = list[j]
      /\ b \in Seq(S) /\ Len(b) = n - i /\ \A j \in 1..(n - i) : b[j] = list[i + j]
  <2>1. n \in Nat /\ i \in Int /\ 1 <= i /\ i <= n /\ \A j \in 1..n : list[j] \in S
    BY <1>2
  <2>. HIDE DEF n
  <2>2. /\ a \in Seq(S) /\ Len(a) = IF 1 <= i - 1 THEN i - 1 - 1 + 1 ELSE 0
        /\ \A j \in 1..(i - 1 - 1 + 1) : a[j] = list[1 + j - 1]
    <3>1. 1 \in Int /\ i - 1 \in Int /\ \A j \in 1..(i - 1) : list[j] \in S
      BY <2>1
    <3>. QED  BY <3>1, SubSeqProperties
  <2>3. /\ b \in Seq(S) /\ Len(b) = IF i + 1 <= n THEN n - (i + 1) + 1 ELSE 0
        /\ \A j \in 1..(n - (i + 1) + 1) : b[j] = list[(i + 1) + j - 1]
    <3>1. i + 1 \in Int /\ n \in Int /\ \A j \in (i + 1)..n : list[j] \in S
      BY <2>1
    <3>. QED  BY <3>1, SubSeqProperties
  <2>. HIDE DEF a, b
  <2>4. Len(a) = i - 1 /\ \A j \in 1..(i - 1) : a[j] = list[j]
    BY <2>1, <2>2
  <2>5. Len(b) = n - i
    BY <2>1, <2>3
  <2>6. \A j \in 1..(n - i) : b[j] = list[i + j]
    <3>1. \A j \in 1..(n - i) : j \in 1..(n - (i + 1) + 1) /\ (i + 1) + j - 1 = i + j
      BY <2>1
    <3>. QED  BY <3>1, <2>3
  <2>. QED  BY <2>2, <2>3, <2>4, <2>5, <2>6
<1>4. TakenOff(list, x) = a \o b
  BY DEF TakenOff, RemoveAt, i
<1>. HIDE DEF a, b
<1>5. /\ a \o b \in Seq(S) /\ Len(a \o b) = n - 1
      /\ \A j \in 1..(n - 1) : (a \o b)[j] = IF j < i THEN list[j] ELSE list[j + 1]
  <2>1. n \in Nat /\ i \in Int /\ 1 <= i /\ i <= n
    BY <1>2
  <2>. HIDE DEF n
  <2>2. /\ a \o b \in Seq(S) /\ Len(a \o b) = Len(a) + Len(b)
        /\ \A j \in 1..(Len(a) + Len(b)) : (a \o b)[j] = IF j <= Len(a) THEN a[j] ELSE b[j - Len(a)]
    BY <1>3, ConcatProperties
  <2>3. ASSUME NEW j \in 1..(n - 1)
        PROVE  (a \o b)[j] = IF j < i THEN list[j] ELSE list[j + 1]
    <3>1. (a \o b)[j] = IF j <= i - 1 THEN a[j] ELSE b[j - (i - 1)]
      BY <2>1, <2>2, <1>3
    <3>2. CASE j < i
      <4>1. j <= i - 1 /\ j \in 1..(i - 1)
        BY <2>1, <3>2
      <4>. QED  BY <4>1, <3>1, <3>2, <1>3
    <3>3. CASE ~(j < i)
      <4>1. ~(j <= i - 1) /\ j - (i - 1) \in 1..(n - i) /\ i + (j - (i - 1)) = j + 1
        BY <2>1, <3>3
      <4>. QED  BY <4>1, <3>1, <3>3, <1>3
    <3>. QED  BY <3>2, <3>3
  <2>. QED  BY <2>1, <2>2, <2>3, <1>3
<1>6. DOMAIN (a \o b) = 1..(n - 1)
  BY <1>5
<1>. HIDE DEF n
<1>7. Range(a \o b) \subseteq Range(list)
  <2>1. SUFFICES ASSUME NEW j \in 1..(n - 1)
                 PROVE  (a \o b)[j] \in Range(list)
    BY <1>6 DEF Range
  <2>2. j \in 1..n /\ j + 1 \in 1..n
    BY <1>2
  <2>. QED  BY <2>2, <1>5, <1>2 DEF Range
<1>8. Range(list) \ {x} \subseteq Range(a \o b)
  <2>1. SUFFICES ASSUME NEW k \in 1..n, list[k] # x
                 PROVE  \E j \in 1..(n - 1) : (a \o b)[j] = list[k]
    BY <1>6, <1>2 DEF Range
  <2>2. CASE k < i
    <3>1. k \in 1..(n - 1)
      BY <2>2, <1>2
    <3>. QED  BY <3>1, <2>2, <1>5
  <2>3. CASE k > i
    <3>1. k - 1 \in 1..(n - 1) /\ ~(k - 1 < i) /\ (k - 1) + 1 = k
      BY <2>3, <1>2
    <3>2. (a \o b)[k - 1] = list[(k - 1) + 1]
      BY <3>1, <1>5
    <3>. QED  BY <3>1, <3>2
  <2>4. k # i /\ k \in Int /\ i \in Int
    BY <2>1, <1>1, <1>2
  <2>5. k < i \/ k > i
    BY <2>4
  <2>. QED  BY <2>2, <2>3, <2>5
<1>. QED  BY <1>4, <1>5, <1>7, <1>8

\* Who is added to a list.
LEMMA AddedDoes ==
  ASSUME NEW S, NEW list \in Seq(S), NEW x \in S
  PROVE  Append(list, x) \in Seq(S) /\ Range(Append(list, x)) = Range(list) \cup {x}
<1>1. /\ Append(list, x) \in Seq(S) /\ DOMAIN Append(list, x) = 1..(Len(list) + 1)
      /\ Len(list) \in Nat /\ DOMAIN list = 1..Len(list)
      /\ Append(list, x)[Len(list) + 1] = x
      /\ \A j \in 1..Len(list) : Append(list, x)[j] = list[j]
  OBVIOUS
<1>. QED  BY <1>1 DEF Range

\* Who has been called need not be called again.
LEMMA CalledDoes ==
  ASSUME NEW S, NEW list \in Seq(S), list # <<>>
  PROVE  /\ Tail(list) \in Seq(S) /\ Head(list) \in S
         /\ Range(list) \subseteq {Head(list)} \cup Range(Tail(list))
<1>1. /\ Tail(list) \in Seq(S) /\ Head(list) \in S /\ Head(list) = list[1]
      /\ Len(list) \in Nat /\ Len(list) > 0 /\ Len(Tail(list)) = Len(list) - 1
      /\ DOMAIN list = 1..Len(list) /\ DOMAIN Tail(list) = 1..(Len(list) - 1)
      /\ \A j \in 1..(Len(list) - 1) : Tail(list)[j] = list[j + 1]
  OBVIOUS
<1>2. SUFFICES ASSUME NEW k \in 1..Len(list), k # 1
               PROVE  list[k] \in Range(Tail(list))
  BY <1>1 DEF Range
<1>3. k - 1 \in 1..(Len(list) - 1) /\ (k - 1) + 1 = k
  BY <1>1, <1>2
<1>. QED  BY <1>1, <1>3 DEF Range

\* What a list holds is of its set.
LEMMA ListedIsIn ==
  ASSUME NEW S, NEW list \in Seq(S)
  PROVE  Range(list) \subseteq S
BY DEF Range

LEMMA NobodyListed == Range(<<>>) = {} /\ \A S : <<>> \in Seq(S)
BY DEF Range

------------------------------------------------------------------------------
(* The actions                                                               *)

\* At first nobody listens and nothing is remembered.
LEMMA InitIsGood ==
  ASSUME IsRegistry, Init
  PROVE  IInv
<1>1. Range(<<>>) = {} /\ <<>> \in Seq(Engines) /\ <<>> \in Seq(Observers) /\ <<>> \in Seq(Engines \cup Observers)
  BY NobodyListed
<1>2. DOMAIN staticMemo = {} /\ DOMAIN explicitMemo = {}
  BY DEF Init
<1>. QED  BY <1>1, <1>2 DEF Init, IInv, TypeOK, MemosStand, EnginesHear, ObserversHear, Callings, Phases

\* A change begins: everyone it concerns is called.
LEMMA CallIsGood ==
  ASSUME IsRegistry, IInv, Idle, NEW what \in {"registry", "preference"}, Call(what),
         UNCHANGED <<staticMemo, explicitMemo, engines, observers>>,
         what = "preference" => UNCHANGED entries
  PROVE  IInv'
<1>1. calling' = [what |-> what, left |-> engines] /\ calling'.what = what /\ calling'.left = engines
  BY DEF Call
<1>2. engines \in Seq(Engines) /\ engines \in Seq(Engines \cup Observers) /\ observers \in Seq(Observers)
  BY DEF IInv, TypeOK
<1>3. TypeOK'
  BY <1>1, <1>2 DEF TypeOK, Callings, Phases
<1>4. Range(engines) \subseteq Engines /\ Range(observers) \subseteq Observers
  BY <1>2, ListedIsIn
<1>5. /\ untold \cap Engines = {} /\ untold \cap Range(observers) = {}
  BY DEF IInv, EnginesHear, ObserversHear, Idle
<1>6. EnginesHear'
  <2>1. untold' \cap Engines \subseteq Range(engines)
    BY <1>4, <1>5 DEF Call, IsRegistry
  <2>. QED  BY <2>1, <1>1 DEF EnginesHear
<1>7. ObserversHear'
  <2>1. what = "preference" => untold' \cap Range(observers) = {}
    BY <1>4, <1>5 DEF Call, IsRegistry
  <2>. QED  BY <2>1, <1>1 DEF ObserversHear
<1>8. MemosStand'
  <2>1. what = "preference" => MemosStand'
    BY <1>1 DEF IInv, MemosStand, Idle
  <2>. QED  BY <2>1, <1>1 DEF MemosStand
<1>. QED  BY <1>3, <1>6, <1>7, <1>8 DEF IInv

\* An answer is remembered.
LEMMA AskIsGood ==
  ASSUME IsRegistry, IInv, NEW n, AskStatic(n) \/ AskExplicit(n)
  PROVE  IInv'
<1>1. /\ Idle /\ UNCHANGED <<entries, engines, observers, calling, untold>>
      /\ calling.what # "registry"
  BY DEF AskStatic, AskExplicit, Idle
<1>2. TypeOK' /\ EnginesHear' /\ ObserversHear'
  BY <1>1 DEF IInv, TypeOK, EnginesHear, ObserversHear
<1>3. /\ \A m \in DOMAIN staticMemo : staticMemo[m] = StaticDependencies(entries, m)
      /\ \A m \in DOMAIN explicitMemo :
           explicitMemo[m] = DependsOnExplicit(entries, StaticDependencies(entries, m).names)
  BY <1>1 DEF IInv, MemosStand
<1>4. ASSUME staticMemo' = Remember(staticMemo, n, StaticDependencies(entries, n))
      PROVE  \A m \in DOMAIN staticMemo' : staticMemo'[m] = StaticDependencies(entries, m)
  BY <1>3, <1>4 DEF Remember
<1>5. CASE AskStatic(n)
  <2>1. UNCHANGED explicitMemo /\ staticMemo' = Remember(staticMemo, n, StaticDependencies(entries, n))
    BY <1>5 DEF AskStatic
  <2>. QED  BY <2>1, <1>1, <1>2, <1>3, <1>4 DEF IInv, MemosStand
<1>6. CASE AskExplicit(n)
  <2>. DEFINE closure == StaticDependencies(entries, n)
              answer == DependsOnExplicit(entries, closure.names)
  <2>1. (IF Known(n) THEN staticMemo[n] ELSE StaticDependencies(entries, n)) = closure
    BY <1>3 DEF Known
  <2>2. /\ staticMemo' = Remember(staticMemo, n, closure)
        /\ explicitMemo' = Remember(explicitMemo, n, answer)
    BY <1>6, <2>1 DEF AskExplicit
  <2>3. \A m \in DOMAIN explicitMemo' :
          explicitMemo'[m] = DependsOnExplicit(entries, StaticDependencies(entries, m).names)
    <3>. HIDE DEF closure
    <3>1. SUFFICES ASSUME NEW m \in DOMAIN explicitMemo'
                   PROVE  explicitMemo'[m] = DependsOnExplicit(entries, StaticDependencies(entries, m).names)
      OBVIOUS
    <3>2. CASE m = n
      BY <3>2, <2>2 DEF closure, Remember
    <3>3. CASE m # n
      <4>1. m \in DOMAIN explicitMemo /\ explicitMemo'[m] = explicitMemo[m]
        BY <3>1, <3>3, <2>2 DEF Remember
      <4>. QED  BY <4>1, <1>3
    <3>. QED  BY <3>2, <3>3
  <2>. QED  BY <2>2, <2>3, <1>1, <1>2, <1>4 DEF IInv, MemosStand
<1>. QED  BY <1>5, <1>6

\* Between broadcasts a session comes or goes.
LEMMA SessionIsGood ==
  ASSUME IsRegistry, IInv, NEW e \in Engines, SessionLoaded(e) \/ SessionClosed(e)
  PROVE  IInv'
<1>1. /\ UNCHANGED <<entries, staticMemo, explicitMemo, observers, calling>>
      /\ untold' \subseteq untold /\ calling.what = "nothing"
  BY DEF SessionLoaded, SessionClosed, Idle
<1>2. untold \cap Engines = {} /\ untold \cap Range(observers) = {}
  BY <1>1 DEF IInv, EnginesHear, ObserversHear
<1>3. engines \in Seq(Engines)
  BY DEF IInv, TypeOK
<1>4. engines' \in Seq(Engines)
  <2>1. CASE SessionLoaded(e)
    BY <2>1, <1>3, AddedDoes DEF SessionLoaded, Enrol
  <2>2. CASE SessionClosed(e)
    <3>1. e \in Range(engines) /\ engines' = TakenOff(engines, e)
      BY <2>2 DEF SessionClosed, Withdraw
    <3>. QED  BY <3>1, <1>3, TakenOffDoes
  <2>. QED  BY <2>1, <2>2
<1>5. TypeOK'
  BY <1>1, <1>4 DEF IInv, TypeOK
<1>6. EnginesHear' /\ ObserversHear'
  <2>1. untold' \cap Engines = {} /\ untold' \cap Range(observers) = {}
    BY <1>1, <1>2
  <2>. QED  BY <2>1, <1>1 DEF EnginesHear, ObserversHear
<1>. QED  BY <1>1, <1>5, <1>6 DEF IInv, MemosStand

\* An engine is told, or is gone; a listener of it may end a session or begin one.
LEMMA TellEngineIsGood ==
  ASSUME IsRegistry, IInv, TellEngine
  PROVE  IInv'
<1>. DEFINE h == Head(calling.left)
            rest == Tail(calling.left)
<1>1. /\ calling.what \in {"registry", "preference"} /\ calling.left # <<>>
      /\ calling' = [calling EXCEPT !.left = rest]
      /\ UNCHANGED <<entries, staticMemo, explicitMemo, observers>>
  BY DEF TellEngine
<1>2. /\ engines \in Seq(Engines) /\ observers \in Seq(Observers)
      /\ calling \in Callings /\ calling.left \in Seq(Engines \cup Observers)
  BY DEF IInv, TypeOK, Callings
<1>3. rest \in Seq(Engines \cup Observers) /\ Range(calling.left) \subseteq {h} \cup Range(rest)
  BY <1>1, <1>2, CalledDoes
<1>4. calling'.what = calling.what /\ calling'.left = rest /\ calling' \in Callings
  BY <1>1, <1>2, <1>3 DEF Callings
<1>. HIDE DEF h, rest
<1>5. /\ untold \cap Engines \subseteq Range(engines)
      /\ untold \cap Engines \subseteq Range(calling.left)
      /\ calling.what # "registry" => untold \cap Range(observers) = {}
  BY <1>1 DEF IInv, EnginesHear, ObserversHear
<1>6. /\ engines' \in Seq(Engines) /\ untold' \subseteq untold
      /\ (untold' \cap Engines) \subseteq Range(engines')
      /\ h \notin Engines \cap untold'
  <2>1. CASE h \notin Range(engines) /\ UNCHANGED <<engines, untold>>
    BY <2>1, <1>2, <1>5
  <2>2. CASE h \in Range(engines) /\ UNCHANGED engines /\ untold' = untold \ {h}
    BY <2>2, <1>2, <1>5
  <2>3. CASE \E x \in Range(engines) : h \in Range(engines) /\ Withdraw(x) /\ untold' = untold \ {h, x}
    <3>1. PICK x \in Range(engines) : Withdraw(x) /\ untold' = untold \ {h, x}
      BY <2>3
    <3>2. engines' \in Seq(Engines) /\ Range(engines) \ {x} \subseteq Range(engines')
      BY <3>1, <1>2, TakenOffDoes DEF Withdraw
    <3>. QED  BY <3>1, <3>2, <1>5
  <2>4. CASE \E x \in Engines : h \in Range(engines) /\ Enrol(x) /\ untold' = untold \ {h, x}
    <3>1. PICK x \in Engines : Enrol(x) /\ untold' = untold \ {h, x}
      BY <2>4
    <3>2. engines' \in Seq(Engines) /\ Range(engines') = Range(engines) \cup {x}
      BY <3>1, <1>2, AddedDoes DEF Enrol
    <3>. QED  BY <3>1, <3>2, <1>5
  <2>. QED  BY <2>1, <2>2, <2>3, <2>4 DEF TellEngine, h
<1>7. TypeOK'
  BY <1>1, <1>2, <1>4, <1>6 DEF TypeOK
<1>8. EnginesHear'
  BY <1>1, <1>3, <1>4, <1>5, <1>6 DEF EnginesHear
<1>9. ObserversHear'
  BY <1>1, <1>4, <1>5, <1>6 DEF ObserversHear
<1>10. MemosStand'
  BY <1>1, <1>4 DEF IInv, MemosStand
<1>. QED  BY <1>7, <1>8, <1>9, <1>10 DEF IInv

\* The engines have heard: the memos go, and the observers' turn comes.
LEMMA EnginesToldIsGood ==
  ASSUME IsRegistry, IInv, EnginesTold
  PROVE  IInv'
<1>1. /\ calling.what \in {"registry", "preference"} /\ calling.left = <<>>
      /\ UNCHANGED <<entries, engines, observers, untold>>
  BY DEF EnginesTold
<1>2. engines \in Seq(Engines) /\ observers \in Seq(Observers)
  BY DEF IInv, TypeOK
<1>3. untold \cap Engines = {}
  BY <1>1, NobodyListed DEF IInv, EnginesHear
<1>4. CASE calling.what = "registry"
  <2>1. calling' = [what |-> "observers", left |-> observers] /\ staticMemo' = <<>> /\ explicitMemo' = <<>>
    BY <1>4 DEF EnginesTold
  <2>2. calling'.what = "observers" /\ calling'.left = observers /\ observers \in Seq(Engines \cup Observers)
    BY <2>1, <1>2
  <2>3. TypeOK'
    BY <2>1, <2>2, <1>1, <1>2 DEF TypeOK, Callings, Phases
  <2>4. DOMAIN staticMemo' = {} /\ DOMAIN explicitMemo' = {}
    BY <2>1
  <2>. QED  BY <2>2, <2>3, <2>4, <1>1, <1>3 DEF IInv, MemosStand, EnginesHear, ObserversHear
<1>5. CASE calling.what = "preference"
  <2>1. calling' = [what |-> "nothing", left |-> <<>>] /\ UNCHANGED <<staticMemo, explicitMemo>>
    BY <1>5 DEF EnginesTold
  <2>2. calling'.what = "nothing"
    BY <2>1
  <2>3. TypeOK'
    BY <2>1, <1>1, <1>2, NobodyListed DEF TypeOK, Callings, Phases
  <2>4. untold \cap Range(observers) = {}
    BY <1>5 DEF IInv, ObserversHear
  <2>. QED  BY <2>1, <2>2, <2>3, <2>4, <1>1, <1>3, <1>5 DEF IInv, MemosStand, EnginesHear, ObserversHear
<1>. QED  BY <1>1, <1>4, <1>5

\* An observer is told, and may take one off the list.
LEMMA TellObserverIsGood ==
  ASSUME IsRegistry, IInv, TellObserver
  PROVE  IInv'
<1>. DEFINE h == Head(calling.left)
            rest == Tail(calling.left)
<1>1. /\ calling.what = "observers" /\ calling.left # <<>>
      /\ calling' = [calling EXCEPT !.left = rest]
      /\ untold' = untold \ {h}
      /\ UNCHANGED <<entries, staticMemo, explicitMemo, engines>>
  BY DEF TellObserver
<1>2. /\ engines \in Seq(Engines) /\ observers \in Seq(Observers)
      /\ calling \in Callings /\ calling.left \in Seq(Engines \cup Observers)
  BY DEF IInv, TypeOK, Callings
<1>3. rest \in Seq(Engines \cup Observers) /\ Range(calling.left) \subseteq {h} \cup Range(rest)
  BY <1>1, <1>2, CalledDoes
<1>4. calling'.what = "observers" /\ calling'.left = rest /\ calling' \in Callings
  BY <1>1, <1>2, <1>3 DEF Callings
<1>. HIDE DEF h, rest
<1>5. observers' \in Seq(Observers) /\ Range(observers') \subseteq Range(observers)
  <2>1. CASE UNCHANGED observers
    BY <2>1, <1>2
  <2>2. CASE \E o \in Observers : o \in Range(observers) /\ observers' = TakenOff(observers, o)
    <3>1. PICK o \in Range(observers) : observers' = TakenOff(observers, o)
      BY <2>2
    <3>. QED  BY <3>1, <1>2, TakenOffDoes
  <2>. QED  BY <2>1, <2>2 DEF TellObserver
<1>6. untold \cap Engines = {} /\ untold \cap Range(observers) \subseteq Range(calling.left)
  BY <1>1 DEF IInv, EnginesHear, ObserversHear
<1>7. TypeOK'
  BY <1>1, <1>2, <1>4, <1>5 DEF TypeOK
<1>8. EnginesHear' /\ ObserversHear'
  BY <1>1, <1>3, <1>4, <1>5, <1>6 DEF EnginesHear, ObserversHear
<1>9. MemosStand'
  BY <1>1, <1>4 DEF IInv, MemosStand
<1>. QED  BY <1>7, <1>8, <1>9 DEF IInv

\* All have heard.
LEMMA ObserversToldIsGood ==
  ASSUME IsRegistry, IInv, ObserversTold
  PROVE  IInv'
<1>1. /\ calling.what = "observers" /\ calling.left = <<>>
      /\ calling' = [what |-> "nothing", left |-> <<>>] /\ calling'.what = "nothing"
      /\ UNCHANGED <<entries, staticMemo, explicitMemo, engines, observers, untold>>
  BY DEF ObserversTold
<1>2. TypeOK'
  BY <1>1, NobodyListed DEF IInv, TypeOK, Callings, Phases
<1>3. untold \cap Engines = {} /\ untold \cap Range(observers) = {}
  BY <1>1, NobodyListed DEF IInv, EnginesHear, ObserversHear
<1>. QED  BY <1>1, <1>2, <1>3 DEF IInv, MemosStand, EnginesHear, ObserversHear

\* An observer who joins has nothing to hear yet.
LEMMA AddObserverIsGood ==
  ASSUME IsRegistry, IInv, NEW o \in Observers, AddObserver(o)
  PROVE  IInv'
<1>1. /\ calling.what = "nothing" /\ untold' = untold \ {o}
      /\ observers' = Append(observers, o)
      /\ UNCHANGED <<entries, staticMemo, explicitMemo, engines, calling>>
  BY DEF AddObserver, Idle
<1>2. observers' \in Seq(Observers) /\ Range(observers') = Range(observers) \cup {o}
  BY <1>1, AddedDoes DEF IInv, TypeOK
<1>. QED  BY <1>1, <1>2 DEF IInv, TypeOK, MemosStand, EnginesHear, ObserversHear

LEMMA StepIsGood ==
  ASSUME IsRegistry, IInv, [Next]_vars
  PROVE  IInv'
<1>1. CASE UNCHANGED vars
  BY <1>1 DEF vars, IInv, TypeOK, MemosStand, EnginesHear, ObserversHear
<1>2. ASSUME NEW id \in Ids, Register(id) \/ Unregister(id)
      PROVE  IInv'
  BY <1>2, CallIsGood DEF Register, Unregister
<1>3. ASSUME NEW p \in Prefs, NEW text \in Texts, ChangePreference(p, text)
      PROVE  IInv'
  BY <1>3, CallIsGood DEF ChangePreference
<1>. QED
  BY <1>1, <1>2, <1>3, AskIsGood, SessionIsGood, TellEngineIsGood, EnginesToldIsGood, TellObserverIsGood,
     ObserversToldIsGood, AddObserverIsGood DEF Next

------------------------------------------------------------------------------
(* The theorems                                                              *)

\* The inductive invariant: what is remembered, who is listed and who is still
\* to be called stay in step through every broadcast.
THEOREM RegistryInvariant == ASSUME IsRegistry PROVE Spec => []IInv
<1>1. Init => IInv
  BY InitIsGood
<1>2. IInv /\ [Next]_vars => IInv'
  BY StepIsGood
<1>. QED  BY <1>1, <1>2, PTL DEF Spec

\* Between broadcasts every memo holds what the registrations say now, whichever
\* was filled first and whatever was registered, replaced or taken away since.
\* (staticDependencies, dependsOnExplicit, registrationsChanged)
THEOREM MemosAreAlwaysCurrent == ASSUME IsRegistry PROVE Spec => []MemosAreCurrent
<1>1. IInv => MemosAreCurrent
  BY DEF IInv, MemosStand, MemosAreCurrent, Idle
<1>. QED  BY <1>1, RegistryInvariant, PTL

\* A broadcast that is over has reached every session and every observer still
\* listed, however many were destroyed, loaded or removed by those it called.
\* (broadcast, notifyPreferenceChanged, registrationsChanged)
THEOREM EveryoneAlwaysHears == ASSUME IsRegistry PROVE Spec => []EveryoneHears
<1>1. IInv => EveryoneHears
  <2>1. SUFFICES ASSUME IInv, Idle
                 PROVE  untold \cap (Range(engines) \cup Range(observers)) = {}
    BY DEF EveryoneHears
  <2>2. Range(engines) \subseteq Engines
    BY <2>1, ListedIsIn DEF IInv, TypeOK
  <2>3. untold \cap Engines = {} /\ untold \cap Range(observers) = {}
    BY <2>1 DEF IInv, EnginesHear, ObserversHear, Idle
  <2>. QED  BY <2>2, <2>3
<1>. QED  BY <1>1, RegistryInvariant, PTL
=============================================================================
