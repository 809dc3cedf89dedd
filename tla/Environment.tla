----------------------------- MODULE Environment -----------------------------
(***************************************************************************)
(* Environment drift: what a mission has pinned and which component requires *)
(* which (store.py), and the check of both against the environment found now *)
(* (environment.py), as `everrun check-env` (cli.py) and recover             *)
(* (recovery.py) run it: two reads of the chain, then a loop over the        *)
(* declared components until no pass adds a stale one.                       *)
(***************************************************************************)
EXTENDS Integers, Sequences, FiniteSets

CONSTANTS
    Components,    \* facts, findings, decisions: whatever is pinned or requires
    Values,        \* values of a component
    Missing,       \* the component has no entry
    Pins,          \* snapshots that are pinned
    Observations,  \* environments that are found
    Requirements,  \* sets of components that are declared as requirements
    MaxEvents      \* bound on the length of the chain

Snapshots == [Components -> Values \cup {Missing}]
Graphs == [Components -> SUBSET Components]

ASSUME EnvironmentConstantsOK ==
    /\ Missing \notin Values
    /\ Pins \subseteq Snapshots /\ Observations \subseteq Snapshots
    /\ Requirements \subseteq SUBSET Components
    /\ MaxEvents \in Nat

VARIABLES
    log,           \* the chain, of which only these two types of event matter
    pc,            \* next statement of the check
    pinned,        \* local: previous, the values read
    current,       \* argument: the environment found
    graph,         \* local: dependencies
    invalid,       \* local: changed or stale
    left,          \* local: components this pass has yet to visit
    progressed,    \* local: this pass has added one
    base           \* history: length of the chain when the check began

locals == <<pinned, current, graph, invalid, left, progressed>>
vars == <<log, pc, locals, base>>

EnvironmentPinned(v) == [type |-> "ENVIRONMENT_PINNED", values |-> v]
DependencyDeclared(c, r) ==
    [type |-> "DEPENDENCY_DECLARED", component |-> c, requires |-> r]

Nothing == [c \in Components |-> Missing]
NoGraph == [c \in Components |-> {}]

-----------------------------------------------------------------------------
(* What is read from the chain                                               *)

PinsOf(chain) == {i \in 1..Len(chain) : chain[i].type = "ENVIRONMENT_PINNED"}

DeclarationsOf(chain, c) ==
    {i \in 1..Len(chain) : /\ chain[i].type = "DEPENDENCY_DECLARED"
                           /\ chain[i].component = c}

Last(S) == CHOOSE i \in S : \A j \in S : j <= i

\* Faulty variant: the events are searched from the front.
FirstPinned(chain) ==
    chain[CHOOSE i \in PinsOf(chain) : \A j \in PinsOf(chain) : i <= j].values

PinnedEnvironment(chain) == chain[Last(PinsOf(chain))].values

\* A later declaration of a component replaces the earlier one; a component that
\* was never declared requires nothing.
DependencyGraph(chain) ==
    [c \in Components |->
        IF DeclarationsOf(chain, c) = {} THEN {}
        ELSE chain[Last(DeclarationsOf(chain, c))].requires]

\* Entries that only the environment found has are not compared.
Changed(previous, found) ==
    {k \in Components : previous[k] # Missing /\ previous[k] # found[k]}

-----------------------------------------------------------------------------

Init ==
    /\ log = <<>>
    /\ pc = "idle"
    /\ pinned = Nothing /\ current = Nothing /\ graph = NoGraph
    /\ invalid = {} /\ left = {} /\ progressed = FALSE
    /\ base = 0

Append1(e) ==
    /\ Len(log) < MaxEvents
    /\ log' = Append(log, e)
    /\ UNCHANGED <<pc, locals, base>>

\* Faulty variant: a pin discards what was declared before.
PinEnvironmentAfresh(v) ==
    /\ log' = <<EnvironmentPinned(v)>>
    /\ UNCHANGED <<pc, locals, base>>

PinEnvironment(v) == Append1(EnvironmentPinned(v))

DeclareDependency(c, r) == Append1(DependencyDeclared(c, r))

\* Without a pin there is nothing to check, and no verdict.
Begin(found) ==
    /\ pc = "idle"
    /\ \/ PinsOf(log) = {} /\ UNCHANGED vars
       \/ /\ PinsOf(log) # {}
          /\ pc' = "graph"
          /\ pinned' = PinnedEnvironment(log)
          /\ current' = found
          /\ base' = Len(log)
          /\ UNCHANGED <<log, graph, invalid, left, progressed>>

ReadGraph ==
    /\ pc = "graph"
    /\ pc' = "pass"
    /\ graph' = DependencyGraph(log)
    /\ invalid' = Changed(pinned, current)
    /\ left' = Components
    /\ progressed' = FALSE
    /\ UNCHANGED <<log, pinned, current, base>>

\* Faulty variant: a component that is stale already counts as progress.
AddsAgain(c) == graph[c] \cap invalid # {}

Adds(c) == c \notin invalid /\ graph[c] \cap invalid # {}

\* The order of the dictionary is left open: no verdict may depend on it.
Visit(c) ==
    /\ pc = "pass" /\ c \in left
    /\ left' = left \ {c}
    /\ \/ /\ Adds(c)
          /\ invalid' = invalid \cup {c}
          /\ progressed' = TRUE
       \/ /\ ~Adds(c)
          /\ UNCHANGED <<invalid, progressed>>
    /\ UNCHANGED <<log, pc, pinned, current, graph, base>>

\* Faulty variant: one pass is taken to be enough.
EndPassAlways ==
    /\ pc = "pass" /\ left = {}
    /\ pc' = "done"
    /\ UNCHANGED <<log, locals, base>>

EndPass ==
    /\ pc = "pass" /\ left = {}
    /\ \/ /\ progressed
          /\ left' = Components
          /\ progressed' = FALSE
          /\ UNCHANGED pc
       \/ /\ ~progressed
          /\ pc' = "done"
          /\ UNCHANGED <<left, progressed>>
    /\ UNCHANGED <<log, pinned, current, graph, invalid, base>>

Safe == invalid = {}

\* The verdict is given and the locals are gone.
Report ==
    /\ pc = "done"
    /\ pc' = "idle"
    /\ pinned' = Nothing /\ current' = Nothing /\ graph' = NoGraph
    /\ invalid' = {} /\ left' = {} /\ progressed' = FALSE
    /\ base' = 0
    /\ UNCHANGED log

Check == ReadGraph \/ EndPass \/ Report \/ \E c \in Components : Visit(c)

Next ==
    \/ \E v \in Pins : PinEnvironment(v)
    \/ \E c \in Components, r \in Requirements : DeclareDependency(c, r)
    \/ \E found \in Observations : Begin(found)
    \/ Check

Spec == Init /\ [][Next]_vars

\* A check that has begun keeps running.
FairSpec == Spec /\ WF_vars(Check)

-----------------------------------------------------------------------------
(* Properties                                                                *)

TypeOK ==
    /\ log \in Seq([type : {"ENVIRONMENT_PINNED"}, values : Pins]
                    \cup [type : {"DEPENDENCY_DECLARED"}, component : Components,
                          requires : Requirements])
    /\ pc \in {"idle", "graph", "pass", "done"}
    /\ pinned \in Snapshots /\ current \in Snapshots
    /\ graph \in Graphs
    /\ invalid \in SUBSET Components /\ left \in SUBSET Components
    /\ progressed \in BOOLEAN
    /\ base \in 0..Len(log)

\* Whatever requires a member of S is a member of S.
Closed(S) == \A c \in Components : graph[c] \cap S # {} => c \in S

\* However components are declared (in circles too) and in whatever order they are
\* visited, the verdict covers what changed and everything that requires it, at any
\* distance, and nothing else: the least closed set.
StaleIsLeastClosure ==
    pc = "done" =>
        /\ Changed(pinned, current) \subseteq invalid
        /\ Closed(invalid)
        /\ \A T \in SUBSET Components :
              Changed(pinned, current) \subseteq T /\ Closed(T) => invalid \subseteq T

\* Pins and declarations may be written while a check runs.  Its verdict is safe
\* only if at some moment of the check the latest pin agreed with what was found,
\* and unsafe only if at some moment it did not.
VerdictHasItsMoment ==
    pc = "done" =>
        \E i \in 1..Len(log) :
            /\ log[i].type = "ENVIRONMENT_PINNED"
            /\ \A j \in i + 1..base : log[j].type # "ENVIRONMENT_PINNED"
            /\ Safe <=> \A c \in Components : log[i].values[c] \in {Missing, current[c]}

\* Every check comes to a verdict, also when components require each other.
ChecksEnd == pc = "graph" ~> pc = "idle"
=============================================================================
