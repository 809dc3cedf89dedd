-------------------------- MODULE EnvironmentProofs --------------------------
(***************************************************************************)
(* Theorems about the environment check, for every set of components and     *)
(* every graph of requirements, circles included.                            *)
(***************************************************************************)
EXTENDS Environment, FiniteSetTheorems, WellFoundedInduction, TLAPS

Entries ==
    [type : {"ENVIRONMENT_PINNED"}, values : Pins]
      \cup [type : {"DEPENDENCY_DECLARED"}, component : Components,
            requires : Requirements]

\* Nothing is called invalid that every closed set would not contain too.
Forced ==
    pc \in {"pass", "done"} =>
        /\ Changed(pinned, current) \subseteq invalid
        /\ \A T \in SUBSET Components :
              Changed(pinned, current) \subseteq T /\ Closed(T) => invalid \subseteq T

\* While a pass has added nothing, the components it has visited are settled.
Settled ==
    pc \in {"pass", "done"} /\ ~progressed =>
        \A c \in Components \ left : graph[c] \cap invalid # {} => c \in invalid

Finished == pc = "done" => left = {} /\ ~progressed

LoopInv == TypeOK /\ Forced /\ Settled /\ Finished

-----------------------------------------------------------------------------
(* What is read from the chain has its type                                  *)

\* A non-empty set of positions of the chain has a last one: the one with the
\* fewest positions after it.
LEMMA LastIsMember ==
    ASSUME NEW n \in Nat, NEW S \in SUBSET (1..n), S # {}
    PROVE  Last(S) \in S /\ \A j \in S : j <= Last(S)
<1> DEFINE N == 1..n
           After(i) == {j \in S : i < j}
           Tails == {After(i) : i \in S}
           R == StrictSubsetOrdering(N)
<1>1. IsFiniteSet(N)
  BY FS_Interval
<1>2. IsWellFoundedOn(R, SUBSET N)
  BY <1>1, FS_StrictSubsetOrderingWellFounded, FS_FiniteSubsetsOfFinite
<1>3. Tails \subseteq SUBSET N /\ Tails # {}
  OBVIOUS
<1>4. PICK t \in Tails : \A u \in Tails : <<u, t>> \notin R
  <2> HIDE DEF N, R, Tails
  <2>1. \E t \in Tails : \A u \in Tails : ~ (<<u, t>> \in R)
    BY <1>2, <1>3, WFMin, Zenon
  <2> QED BY <2>1, Zenon
<1>5. PICK i \in S : t = After(i)
  BY <1>4
<1>6. ASSUME NEW j \in S, i < j
      PROVE  FALSE
  <2>0. S \subseteq Int
    OBVIOUS
  <2>1. After(j) \subseteq After(i) /\ j \in After(i) /\ j \notin After(j)
    <3>1. \A k \in S : j < k => i < k
      BY <1>6, <2>0
    <3>2. After(j) \subseteq After(i)
      BY <3>1
    <3>3. j \in After(i)
      BY <1>6
    <3>4. ~ (j < j)
      BY <2>0
    <3>5. j \notin After(j)
      BY <3>4
    <3> QED BY <3>2, <3>3, <3>5
  <2>2. After(j) \in Tails /\ After(j) \in SUBSET N /\ t \in SUBSET N
    BY <1>5
  <2>3. <<After(j), t>> \in R
    BY <2>1, <2>2, <1>5 DEF StrictSubsetOrdering
  <2> QED BY <2>2, <2>3, <1>4
<1>7. \A j \in S : j <= i
  BY <1>6
<1> QED BY <1>7 DEF Last

LEMMA PinHasType ==
    ASSUME log \in Seq(Entries), PinsOf(log) # {}
    PROVE  PinnedEnvironment(log) \in Snapshots
<1>1. Len(log) \in Nat /\ PinsOf(log) \in SUBSET (1..Len(log))
  BY DEF PinsOf
<1>2. Last(PinsOf(log)) \in PinsOf(log)
  BY <1>1, LastIsMember
<1>3. log[Last(PinsOf(log))] \in Entries
  BY <1>1, <1>2
<1>4. log[Last(PinsOf(log))].type = "ENVIRONMENT_PINNED"
  BY <1>2 DEF PinsOf
<1>5. log[Last(PinsOf(log))].values \in Pins
  BY <1>3, <1>4 DEF Entries
<1> QED BY <1>5, EnvironmentConstantsOK DEF PinnedEnvironment

LEMMA GraphHasType ==
    ASSUME log \in Seq(Entries)
    PROVE  DependencyGraph(log) \in Graphs
<1> SUFFICES ASSUME NEW c \in Components, DeclarationsOf(log, c) # {}
             PROVE  log[Last(DeclarationsOf(log, c))].requires \in SUBSET Components
  BY DEF DependencyGraph, Graphs
<1> DEFINE i == Last(DeclarationsOf(log, c))
<1>1. Len(log) \in Nat /\ DeclarationsOf(log, c) \in SUBSET (1..Len(log))
  BY DEF DeclarationsOf
<1>2. i \in DeclarationsOf(log, c)
  BY <1>1, LastIsMember
<1>3. log[i] \in Entries /\ log[i].type = "DEPENDENCY_DECLARED"
  BY <1>1, <1>2 DEF DeclarationsOf
<1>4. log[i].requires \in Requirements
  BY <1>3 DEF Entries
<1> QED BY <1>4, EnvironmentConstantsOK

-----------------------------------------------------------------------------
(* The steps                                                                 *)

\* Types are kept by every step.
LEMMA TypeStep ==
    ASSUME TypeOK, [Next]_vars
    PROVE  TypeOK'
<1> USE DEF TypeOK
<1>0. log \in Seq(Entries) /\ Len(log) \in Nat
  BY DEF Entries
<1>1. ASSUME NEW e \in Entries, Append1(e)
      PROVE  TypeOK'
  <2>1. log' \in Seq(Entries) /\ Len(log') = Len(log) + 1
    BY <1>0, <1>1 DEF Append1
  <2>2. base \in 0..Len(log')
    BY <2>1, <1>0
  <2> QED BY <1>1, <2>1, <2>2 DEF Append1, locals, Entries
<1>2. ASSUME NEW v \in Pins, PinEnvironment(v)
      PROVE  TypeOK'
  <2>1. EnvironmentPinned(v) \in Entries
    BY DEF EnvironmentPinned, Entries
  <2> QED BY <1>1, <1>2, <2>1 DEF PinEnvironment
<1>3. ASSUME NEW c \in Components, NEW r \in Requirements, DeclareDependency(c, r)
      PROVE  TypeOK'
  <2>1. DependencyDeclared(c, r) \in Entries
    BY DEF DependencyDeclared, Entries
  <2> QED BY <1>1, <1>3, <2>1 DEF DeclareDependency
<1>4. ASSUME NEW found \in Observations, Begin(found)
      PROVE  TypeOK'
  <2>1. found \in Snapshots
    BY EnvironmentConstantsOK
  <2>2. CASE UNCHANGED vars
    BY <2>2 DEF vars, locals
  <2>3. CASE PinsOf(log) # {} /\ ~UNCHANGED vars
    <3>1. PinnedEnvironment(log) \in Snapshots
      BY <2>3, <1>0, PinHasType
    <3> QED BY <3>1, <2>1, <2>3, <1>4, <1>0 DEF Begin
  <2> QED BY <2>2, <2>3, <1>4 DEF Begin
<1>5. ASSUME ReadGraph
      PROVE  TypeOK'
  <2>1. DependencyGraph(log) \in Graphs
    BY <1>0, GraphHasType
  <2>2. Changed(pinned, current) \in SUBSET Components
    BY DEF Changed
  <2> QED BY <1>5, <2>1, <2>2 DEF ReadGraph
<1>6. ASSUME NEW c \in Components, Visit(c)
      PROVE  TypeOK'
  BY <1>6 DEF Visit
<1>7. ASSUME EndPass
      PROVE  TypeOK'
  BY <1>7 DEF EndPass
<1>8. ASSUME Report
      PROVE  TypeOK'
  <2>1. Nothing \in Snapshots /\ NoGraph \in Graphs
    BY DEF Nothing, Snapshots, NoGraph, Graphs
  <2>2. base' \in 0..Len(log')
    BY <1>8, <1>0 DEF Report
  <2>3. graph' \in Graphs /\ pinned' \in Snapshots /\ current' \in Snapshots
    BY <1>8, <2>1 DEF Report
  <2>4. invalid' \in SUBSET Components /\ left' \in SUBSET Components
    BY <1>8 DEF Report
  <2> QED BY <1>8, <2>2, <2>3, <2>4 DEF Report
<1>9. CASE UNCHANGED vars
  BY <1>9 DEF vars, locals
<1> QED BY <1>2, <1>3, <1>4, <1>5, <1>6, <1>7, <1>8, <1>9 DEF Next, Check

\* A visit adds only what every closed set has, and settles what it visits.
LEMMA VisitStep ==
    ASSUME LoopInv, NEW c \in Components, Visit(c)
    PROVE  Forced' /\ Settled' /\ Finished'
<1> USE DEF LoopInv, TypeOK
<1>1. pc = "pass" /\ pc' = "pass" /\ c \in left /\ left' = left \ {c}
      /\ pinned' = pinned /\ current' = current /\ graph' = graph
  BY DEF Visit
<1>2. CASE Adds(c) /\ invalid' = invalid \cup {c} /\ progressed' = TRUE
  <2>1. ASSUME NEW T \in SUBSET Components,
               Changed(pinned, current) \subseteq T, Closed(T)
        PROVE  invalid' \subseteq T
    <3>1. invalid \subseteq T
      BY <1>1, <2>1 DEF Forced
    <3>2. graph[c] \cap T # {}
      BY <1>2, <3>1 DEF Adds
    <3> QED BY <1>2, <2>1, <3>1, <3>2 DEF Closed
  <2>2. Forced'
    BY <1>1, <1>2, <2>1 DEF Forced, Changed, Closed
  <2> QED BY <1>1, <1>2, <2>2 DEF Settled, Finished
<1>3. CASE ~Adds(c) /\ invalid' = invalid /\ progressed' = progressed
  <2>1. Forced'
    BY <1>1, <1>3 DEF Forced, Changed, Closed
  <2>2. graph[c] \cap invalid # {} => c \in invalid
    BY <1>3 DEF Adds
  <2>3. Settled'
    BY <1>1, <1>3, <2>2 DEF Settled
  <2> QED BY <1>1, <2>1, <2>3 DEF Finished
<1> QED BY <1>2, <1>3 DEF Visit

LEMMA LoopStep ==
    ASSUME LoopInv, [Next]_vars
    PROVE  LoopInv'
<1> USE DEF LoopInv
<1>0. TypeOK'
  BY TypeStep
<1> DEFINE Rest == Forced' /\ Settled' /\ Finished'
<1>1. ASSUME pc' = pc, UNCHANGED locals
      PROVE  Rest
  BY <1>1 DEF Forced, Settled, Finished, Changed, Closed, locals
<1>2. ASSUME NEW found \in Observations, Begin(found)
      PROVE  Rest
  <2>1. CASE UNCHANGED vars
    BY <2>1, <1>1 DEF vars
  <2>2. CASE pc' = "graph"
    BY <2>2 DEF Forced, Settled, Finished
  <2> QED BY <1>2, <2>1, <2>2 DEF Begin
<1>3. ASSUME ReadGraph
      PROVE  Rest
  BY <1>3, <1>0 DEF ReadGraph, Forced, Settled, Finished, Changed
<1>4. ASSUME NEW c \in Components, Visit(c)
      PROVE  Rest
  BY <1>4, VisitStep
<1>5. ASSUME EndPass
      PROVE  Rest
  <2>1. Forced'
    BY <1>5 DEF EndPass, Forced, Changed, Closed
  <2>2. Settled'
    BY <1>5 DEF EndPass, Settled
  <2> QED BY <1>5, <2>1, <2>2 DEF EndPass, Finished
<1>6. ASSUME Report
      PROVE  Rest
  BY <1>6 DEF Report, Forced, Settled, Finished
<1>7. ASSUME NEW e, Append1(e)
      PROVE  Rest
  BY <1>1, <1>7 DEF Append1
<1>8. ASSUME UNCHANGED vars
      PROVE  Rest
  BY <1>1, <1>8 DEF vars
<1>9. Rest
  BY <1>2, <1>3, <1>4, <1>5, <1>6, <1>7, <1>8
     DEF Next, Check, PinEnvironment, DeclareDependency
<1> QED BY <1>0, <1>9

LEMMA LoopInit ==
    ASSUME Init
    PROVE  LoopInv
<1>1. Nothing \in Snapshots /\ NoGraph \in Graphs
  BY DEF Nothing, Snapshots, NoGraph, Graphs
<1>2. log \in Seq(Entries) /\ base \in 0..Len(log)
  BY DEF Init
<1>3. invalid \in SUBSET Components /\ left \in SUBSET Components
  BY DEF Init
<1>4. TypeOK
  BY <1>1, <1>2, <1>3 DEF Init, TypeOK, Entries
<1> QED BY <1>4 DEF Init, LoopInv, Forced, Settled, Finished

-----------------------------------------------------------------------------

\* The check keeps its types, for any components, snapshots and declarations
\* (environment.py, store.py pinned_environment and dependency_graph).
THEOREM EnvironmentTypeCorrect == Spec => []TypeOK
<1>1. Init => LoopInv
  BY LoopInit
<1>2. LoopInv /\ [Next]_vars => LoopInv'
  BY LoopStep
<1>3. LoopInv => TypeOK
  BY DEF LoopInv
<1> QED BY <1>1, <1>2, <1>3, PTL DEF Spec

\* validate_environment ends with the least set that holds every change and all
\* that requires one of its members: for every graph, finite or not, circular or
\* not, and every order of visits.
THEOREM StaleIsExact == Spec => []StaleIsLeastClosure
<1>1. Init => LoopInv
  BY LoopInit
<1>2. LoopInv /\ [Next]_vars => LoopInv'
  BY LoopStep
<1>3. LoopInv => StaleIsLeastClosure
  BY DEF LoopInv, StaleIsLeastClosure, Forced, Settled, Finished, Closed
<1> QED BY <1>1, <1>2, <1>3, PTL DEF Spec

\* What a check compares is a pin of the chain, the last one when the check began;
\* the chain keeps it.
PinIsFromTheChain ==
    pc # "idle" =>
        \E i \in 1..base :
            /\ log[i].type = "ENVIRONMENT_PINNED" /\ pinned = log[i].values
            /\ \A j \in i + 1..base : log[j].type # "ENVIRONMENT_PINNED"

LEMMA PinStays ==
    ASSUME TypeOK, PinIsFromTheChain, [Next]_vars
    PROVE  PinIsFromTheChain'
<1>0. log \in Seq(Entries) /\ Len(log) \in Nat /\ base \in 0..Len(log)
  BY DEF TypeOK, Entries
<1>1. ASSUME pc # "idle" \/ pc' = "idle", UNCHANGED <<pinned, base>>,
             \A i \in 1..base : log'[i] = log[i]
      PROVE  PinIsFromTheChain'
  <2> SUFFICES ASSUME pc' # "idle"
               PROVE  \E i \in 1..base :
                         /\ log'[i].type = "ENVIRONMENT_PINNED" /\ pinned = log'[i].values
                         /\ \A j \in i + 1..base : log'[j].type # "ENVIRONMENT_PINNED"
    BY <1>1 DEF PinIsFromTheChain
  <2>1. PICK i \in 1..base :
            /\ log[i].type = "ENVIRONMENT_PINNED" /\ pinned = log[i].values
            /\ \A j \in i + 1..base : log[j].type # "ENVIRONMENT_PINNED"
    BY <1>1 DEF PinIsFromTheChain
  <2>2. \A j \in i + 1..base : j \in 1..base
    BY <1>0
  <2> QED BY <1>1, <2>1, <2>2
<1>2. ASSUME NEW e \in Entries, Append1(e)
      PROVE  PinIsFromTheChain'
  <2>1. \A i \in 1..base : log'[i] = log[i]
    BY <1>0, <1>2 DEF Append1
  <2>2. UNCHANGED <<pc, pinned, base>>
    BY <1>2 DEF Append1, locals
  <2> QED BY <1>1, <2>1, <2>2
<1>3. ASSUME NEW v \in Pins, PinEnvironment(v)
      PROVE  PinIsFromTheChain'
  BY <1>2, <1>3 DEF PinEnvironment, EnvironmentPinned, Entries
<1>4. ASSUME NEW c \in Components, NEW r \in Requirements, DeclareDependency(c, r)
      PROVE  PinIsFromTheChain'
  BY <1>2, <1>4 DEF DeclareDependency, DependencyDeclared, Entries
<1>5. ASSUME NEW found \in Observations, Begin(found)
      PROVE  PinIsFromTheChain'
  <2>1. CASE UNCHANGED vars
    BY <1>1, <1>5, <2>1 DEF Begin, vars, locals
  <2>2. CASE PinsOf(log) # {} /\ ~ UNCHANGED vars
    <3> DEFINE i == Last(PinsOf(log))
    <3>1. /\ base' = Len(log) /\ log' = log /\ pinned' = log[i].values
      BY <1>5, <2>2 DEF Begin, PinnedEnvironment
    <3>2. PinsOf(log) \in SUBSET (1..Len(log))
      BY DEF PinsOf
    <3>3. i \in PinsOf(log) /\ \A j \in PinsOf(log) : j <= i
      BY <1>0, <2>2, <3>2, LastIsMember
    <3> HIDE DEF i
    <3>4. i \in 1..Len(log) /\ log[i].type = "ENVIRONMENT_PINNED"
      BY <3>3 DEF PinsOf
    <3>5. ASSUME NEW j \in i + 1..Len(log)
          PROVE  log[j].type # "ENVIRONMENT_PINNED"
      <4>1. j \in 1..Len(log) /\ ~ (j <= i)
        BY <1>0, <3>4
      <4> QED BY <3>3, <4>1 DEF PinsOf
    <3> QED BY <3>1, <3>4, <3>5 DEF PinIsFromTheChain
  <2> QED BY <1>5, <2>1, <2>2 DEF Begin
<1>6. ASSUME Check \/ UNCHANGED vars
      PROVE  PinIsFromTheChain'
  <2>1. UNCHANGED log
    BY <1>6 DEF Check, ReadGraph, Visit, EndPass, Report, vars
  <2>2. CASE Report
    BY <2>2 DEF Report, PinIsFromTheChain
  <2>3. CASE ~ Report
    <3>1. (pc # "idle" \/ pc' = "idle") /\ UNCHANGED <<pinned, base>>
      BY <1>6, <2>3 DEF Check, ReadGraph, Visit, EndPass, vars, locals
    <3> QED BY <1>1, <2>1, <3>1
  <2> QED BY <2>2, <2>3
<1> QED BY <1>3, <1>4, <1>5, <1>6 DEF Next

\* However pins and declarations are written meanwhile, a verdict is safe only if at
\* a moment of the check the pin agreed with what was found, and unsafe only if it
\* did not (environment.py validate_environment, cli.py check-env).
THEOREM VerdictsHaveTheirMoment == Spec => []VerdictHasItsMoment
<1> DEFINE Inv == LoopInv /\ PinIsFromTheChain
<1>1. Init => Inv
  BY LoopInit DEF Init, PinIsFromTheChain
<1>2. Inv /\ [Next]_vars => Inv'
  BY LoopStep, PinStays DEF LoopInv
<1>3. ASSUME Inv, pc = "done"
      PROVE  VerdictHasItsMoment
  <2>1. PICK i \in 1..base :
            /\ log[i].type = "ENVIRONMENT_PINNED" /\ pinned = log[i].values
            /\ \A j \in i + 1..base : log[j].type # "ENVIRONMENT_PINNED"
    BY <1>3 DEF PinIsFromTheChain
  <2>2. i \in 1..Len(log)
    BY <1>3 DEF LoopInv, TypeOK
  <2>3. Safe <=> Changed(pinned, current) = {}
    BY <1>3 DEF LoopInv, Forced, Safe, Closed
  <2>4. Changed(pinned, current) = {}
            <=> \A c \in Components : log[i].values[c] \in {Missing, current[c]}
    BY <2>1 DEF Changed
  <2> QED BY <2>1, <2>2, <2>3, <2>4 DEF VerdictHasItsMoment
<1>4. Inv => VerdictHasItsMoment
  BY <1>3 DEF VerdictHasItsMoment
<1> QED BY <1>1, <1>2, <1>4, PTL DEF Spec

-----------------------------------------------------------------------------
(* Termination                                                               *)

Size(S) == Cardinality(S)

\* What a pass leaves to do, at most: a visit of each component that is left, and
\* another pass for each that may still be made invalid.
PassWork(toVisit, stale, again) ==
    2 + Size(toVisit)
      + (Size(Components) + 1) * (2 * Size(Components \ stale) + IF again THEN 1 ELSE 0)

Work ==
    CASE pc = "graph" -> 3 + Size(Components) + (Size(Components) + 1) * (2 * Size(Components))
      [] pc = "pass" -> PassWork(left, invalid, progressed)
      [] pc = "done" -> 1
      [] OTHER -> 0

\* Every step of a check leaves less to do, and no other step more.
WorkRunsOut ==
    [][/\ Work \in Nat /\ Work' \in Nat
       /\ Check => Work' < Work
       /\ pc # "idle" /\ ~Check => Work' = Work]_vars

\* Sizes of the parts of a finite set of components.
LEMMA Sizes ==
    ASSUME IsFiniteSet(Components)
    PROVE  /\ Size(Components) \in Nat
           /\ \A S \in SUBSET Components : Size(S) \in 0..Size(Components)
           /\ \A S \in SUBSET Components : \A c \in S : Size(S \ {c}) = Size(S) - 1
           /\ Size({}) = 0
<1>1. Size(Components) \in Nat
  BY FS_CardinalityType DEF Size
<1>2. \A S \in SUBSET Components : IsFiniteSet(S) /\ Size(S) \in 0..Size(Components)
  BY <1>1, FS_Subset, FS_CardinalityType DEF Size
<1>3. \A S \in SUBSET Components : \A c \in S : Size(S \ {c}) = Size(S) - 1
  BY <1>2, FS_RemoveElement DEF Size
<1> QED BY <1>1, <1>2, <1>3, FS_EmptySet DEF Size

LEMMA PassWorkIsNat ==
    ASSUME IsFiniteSet(Components), NEW toVisit \in SUBSET Components,
           NEW stale \in SUBSET Components, NEW again \in BOOLEAN
    PROVE  /\ PassWork(toVisit, stale, again) \in Nat
           /\ PassWork(toVisit, stale, again) >= 2
<1> DEFINE n == Size(Components)
           k == Size(Components \ stale)
           b == IF again THEN 1 ELSE 0
<1>1. n \in Nat /\ k \in Nat /\ b \in Nat /\ Size(toVisit) \in Nat
  <2>1. Components \ stale \in SUBSET Components
    OBVIOUS
  <2> QED BY <2>1, Sizes
<1> HIDE DEF n, k, b
<1>2. 2 * k + b \in Nat /\ n + 1 \in Nat
  BY <1>1
<1>3. (n + 1) * (2 * k + b) \in Nat
  BY <1>2
<1> QED BY <1>1, <1>3 DEF PassWork, n, k, b

LEMMA WorkIsNat ==
    ASSUME IsFiniteSet(Components), TypeOK
    PROVE  Work \in Nat
<1>1. CASE pc = "graph"
  <2> DEFINE n == Size(Components)
  <2>1. n \in Nat
    BY Sizes
  <2> HIDE DEF n
  <2>2. (n + 1) * (2 * n) \in Nat
    BY <2>1
  <2>3. Work = 3 + n + (n + 1) * (2 * n)
    BY <1>1 DEF Work, n
  <2> QED BY <2>1, <2>2, <2>3
<1>2. CASE pc = "pass"
  <2>1. Work = PassWork(left, invalid, progressed)
    BY <1>2 DEF Work
  <2> QED BY <2>1, PassWorkIsNat DEF TypeOK
<1>3. CASE pc \notin {"graph", "pass"}
  BY <1>3 DEF Work
<1> QED BY <1>1, <1>2, <1>3

\* A visit does one piece of the work.  Making a component invalid may cost another
\* pass, for which there is one component less.
LEMMA VisitWorks ==
    ASSUME IsFiniteSet(Components), TypeOK, NEW c \in Components, Visit(c)
    PROVE  Work' < Work
<1> DEFINE n == Size(Components)
           l == Size(left)
           k == Size(Components \ invalid)
           b == IF progressed THEN 1 ELSE 0
<1>1. /\ pc = "pass" /\ pc' = "pass" /\ c \in left /\ left' = left \ {c}
      /\ left \in SUBSET Components /\ invalid \in SUBSET Components
  BY DEF Visit, TypeOK
<1>2. /\ Work = 2 + l + (n + 1) * (2 * k + b)
      /\ Work' = 2 + Size(left') + (n + 1) * (2 * Size(Components \ invalid')
                                               + IF progressed' THEN 1 ELSE 0)
  BY <1>1 DEF Work, PassWork
<1>3. n \in Nat /\ k \in Nat /\ b \in Nat /\ l \in Nat /\ Size(left') = l - 1
  <2>1. Components \ invalid \in SUBSET Components
    OBVIOUS
  <2> QED BY <1>1, <2>1, Sizes
<1>4. CASE invalid' = invalid /\ progressed' = progressed
  <2>1. Work' = 2 + (l - 1) + (n + 1) * (2 * k + b)
    BY <1>2, <1>3, <1>4
  <2> HIDE DEF n, l, k, b
  <2>2. (n + 1) * (2 * k + b) \in Nat
    <3>1. 2 * k + b \in Nat /\ n + 1 \in Nat
      BY <1>3
    <3> QED BY <3>1
  <2> QED BY <1>2, <1>3, <2>1, <2>2
<1>5. CASE Adds(c) /\ invalid' = invalid \cup {c} /\ progressed' = TRUE
  <2>1. Components \ invalid' = (Components \ invalid) \ {c} /\ c \in Components \ invalid
    BY <1>5 DEF Adds
  <2>2. Size(Components \ invalid') = k - 1
    BY <2>1, Sizes
  <2>3. Work' = 2 + (l - 1) + (n + 1) * (2 * (k - 1) + 1)
    BY <1>2, <1>3, <1>5, <2>2
  <2> HIDE DEF n, l, k, b
  <2>4. (n + 1) * (2 * (k - 1) + 1) = (n + 1) * (2 * k + b) - (n + 1) * (b + 1)
    BY <1>3
  <2>5. (n + 1) * (b + 1) \in Nat /\ (n + 1) * (2 * k + b) \in Nat
    <3>1. b + 1 \in Nat /\ n + 1 \in Nat /\ 2 * k + b \in Nat
      BY <1>3
    <3> QED BY <3>1
  <2> QED BY <1>2, <1>3, <2>3, <2>4, <2>5
<1> QED BY <1>4, <1>5 DEF Visit

\* The end of a pass begins another only if this one has added a component, or gives
\* the verdict.
LEMMA EndPassWorks ==
    ASSUME IsFiniteSet(Components), TypeOK, EndPass
    PROVE  Work' < Work
<1> DEFINE n == Size(Components)
           k == Size(Components \ invalid)
<1>1. pc = "pass" /\ left = {} /\ invalid' = invalid
  BY DEF EndPass
<1>2. Work = PassWork(left, invalid, progressed)
  BY <1>1 DEF Work
<1>3. n \in Nat /\ k \in Nat /\ Size({}) = 0
  <2>1. Components \ invalid \in SUBSET Components
    OBVIOUS
  <2> QED BY <2>1, Sizes
<1>4. CASE progressed /\ left' = Components /\ progressed' = FALSE /\ pc' = pc
  <2>1. Work = 2 + 0 + (n + 1) * (2 * k + 1)
    BY <1>1, <1>2, <1>3, <1>4 DEF PassWork
  <2>2. Work' = 2 + n + (n + 1) * (2 * k + 0)
    BY <1>1, <1>4 DEF Work, PassWork
  <2> HIDE DEF n, k
  <2>3. (n + 1) * (2 * k + 1) = (n + 1) * (2 * k + 0) + (n + 1)
    BY <1>3
  <2>4. (n + 1) * (2 * k + 0) \in Nat
    <3>1. 2 * k + 0 \in Nat /\ n + 1 \in Nat
      BY <1>3
    <3> QED BY <3>1
  <2> QED BY <1>3, <2>1, <2>2, <2>3, <2>4
<1>5. CASE pc' = "done"
  <2>1. Work >= 2 /\ Work \in Nat
    BY <1>2, PassWorkIsNat DEF TypeOK
  <2>2. Work' = 1
    BY <1>5 DEF Work
  <2> QED BY <2>1, <2>2
<1> QED BY <1>4, <1>5 DEF EndPass

\* The first pass finds less to do than the check foresaw.
LEMMA ReadGraphWorks ==
    ASSUME IsFiniteSet(Components), TypeOK, ReadGraph
    PROVE  Work' < Work
<1> DEFINE n == Size(Components)
           k == Size(Components \ invalid')
<1>1. pc = "graph" /\ pc' = "pass" /\ left' = Components /\ progressed' = FALSE
  BY DEF ReadGraph
<1>2. Work = 3 + n + (n + 1) * (2 * n) /\ Work' = 2 + n + (n + 1) * (2 * k + 0)
  BY <1>1 DEF Work, PassWork
<1>3. n \in Nat /\ k \in 0..n
  <2>1. Components \ invalid' \in SUBSET Components
    OBVIOUS
  <2> QED BY <2>1, Sizes
<1> HIDE DEF n, k
<1>4. (n + 1) * (2 * n) = (n + 1) * (2 * k + 0) + (n + 1) * (2 * (n - k))
  BY <1>3
<1>5. (n + 1) * (2 * (n - k)) \in Nat /\ (n + 1) * (2 * k + 0) \in Nat
  <2>1. n + 1 \in Nat /\ 2 * (n - k) \in Nat /\ 2 * k + 0 \in Nat
    BY <1>3
  <2> QED BY <2>1
<1> QED BY <1>2, <1>3, <1>4, <1>5

\* validate_environment stops: with finitely many components, and whatever requires
\* whatever, each step of a check leaves it with less to do, a natural number that
\* no pin or declaration written meanwhile brings back up.
THEOREM CheckRunsOutOfWork ==
    ASSUME IsFiniteSet(Components)
    PROVE  Spec => WorkRunsOut
<1> DEFINE A == /\ Work \in Nat /\ Work' \in Nat
                /\ Check => Work' < Work
                /\ pc # "idle" /\ ~Check => Work' = Work
<1>1. TypeOK /\ TypeOK' /\ [Next]_vars => [A]_vars
  <2> SUFFICES ASSUME TypeOK, TypeOK', Next PROVE A
    OBVIOUS
  <2>1. Work \in Nat
    BY WorkIsNat
  <2>2. Work' \in Nat
    <3>1. CASE pc' = "graph"
      <4>1. Work' = 3 + Size(Components) + (Size(Components) + 1) * (2 * Size(Components))
        BY <3>1 DEF Work
      <4>2. Size(Components) \in Nat
        BY Sizes
      <4> HIDE DEF Size
      <4>3. (Size(Components) + 1) * (2 * Size(Components)) \in Nat
        BY <4>2
      <4> QED BY <4>1, <4>2, <4>3
    <3>2. CASE pc' = "pass"
      <4>1. Work' = PassWork(left', invalid', progressed')
        BY <3>2 DEF Work
      <4> QED BY <4>1, PassWorkIsNat DEF TypeOK
    <3>3. CASE pc' \notin {"graph", "pass"}
      BY <3>3 DEF Work
    <3> QED BY <3>1, <3>2, <3>3
  <2>3. Check => Work' < Work
    <3>1. CASE Report
      <4>1. Work = 1 /\ Work' = 0
        BY <3>1 DEF Report, Work
      <4> QED BY <4>1
    <3> QED BY <3>1, VisitWorks, EndPassWorks, ReadGraphWorks DEF Check
  <2>4. pc # "idle" /\ ~Check => Work' = Work
    <3> SUFFICES ASSUME pc # "idle", ~Check PROVE Work' = Work
      OBVIOUS
    <3>1. pc' = pc /\ UNCHANGED locals
      BY DEF Next, Begin, PinEnvironment, DeclareDependency, Append1
    <3> QED BY <3>1 DEF Work, locals
  <2> QED BY <2>1, <2>2, <2>3, <2>4
<1> QED BY <1>1, EnvironmentTypeCorrect, PTL DEF Spec, WorkRunsOut
=============================================================================
