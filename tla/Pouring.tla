------------------------------- MODULE Pouring -------------------------------
(***************************************************************************)
(* Pouring of course_scala/W7.scala: paths from empty glasses are extended *)
(* by all moves, a level at a time, until one ends with the target amount  *)
(* in some glass.  The streams are lazy: a level is made when the search   *)
(* asks for it, and println asks for the first solution only.              *)
(***************************************************************************)
EXTENDS Integers, Sequences, FiniteSets

CONSTANT Problems       \* the capacities of the glasses, and the target

ASSUME ProblemAssumption ==
    \A p \in Problems : p.capacity \in Seq(Nat) /\ p.target \in Nat

VARIABLES
    search,             \* what println(problem.solution(target)) is doing
    capacity, target,
    paths,              \* the level of pathSets that was made last
    explored,
    solution            \* the first path found, as a set of at most one
pourVars == <<search, capacity, target, paths, explored, solution>>

glasses == DOMAIN capacity
initialState == [g \in glasses |-> 0]

moves ==
    [move : {"Empty", "Fill"}, glass : glasses]
    \cup {p \in [move : {"Pour"}, from : glasses, to : glasses] : p.from # p.to}

Smaller(x, y) == IF x <= y THEN x ELSE y
\* A glass that is poured into is taken for empty.
Overflowing(m, state) ==
    CASE m.move = "Empty" -> [state EXCEPT ![m.glass] = 0]
      [] m.move = "Fill" -> [state EXCEPT ![m.glass] = capacity[m.glass]]
      [] m.move = "Pour" ->
           LET amount == Smaller(state[m.from], capacity[m.to])
           IN  [state EXCEPT ![m.from] = @ - amount, ![m.to] = @ + amount]
\* All of a glass is poured, or nothing.
AllOrNothing(m, state) ==
    CASE m.move = "Empty" -> [state EXCEPT ![m.glass] = 0]
      [] m.move = "Fill" -> [state EXCEPT ![m.glass] = capacity[m.glass]]
      [] m.move = "Pour" ->
           IF state[m.from] <= capacity[m.to] - state[m.to]
             THEN [state EXCEPT ![m.from] = 0, ![m.to] = @ + state[m.from]]
             ELSE state
change(m, state) ==
    CASE m.move = "Empty" -> [state EXCEPT ![m.glass] = 0]
      [] m.move = "Fill" -> [state EXCEPT ![m.glass] = capacity[m.glass]]
      [] m.move = "Pour" ->
           LET amount == Smaller(state[m.from], capacity[m.to] - state[m.to])
           IN  [state EXCEPT ![m.from] = @ - amount, ![m.to] = @ + amount]

extend(path, m) == [history |-> Append(path.history, m), endState |-> change(m, path.endState)]
Contains(state, amount) == \E g \in glasses : state[g] = amount

PourInit ==
    /\ search = "not begun"
    /\ capacity = <<>> /\ target = 0
    /\ paths = {} /\ explored = {} /\ solution = {}

\* The problem is made, and from(Set(initialPath), Set(initialState)) called.
BeginSearch ==
    /\ search = "not begun" /\ search' = "searching"
    /\ \E p \in Problems : capacity' = p.capacity /\ target' = p.target
    /\ LET empty == [g \in DOMAIN capacity' |-> 0]
       IN  /\ paths' = {[history |-> <<>>, endState |-> empty]}
           /\ explored' = {empty}
    /\ UNCHANGED solution

\* The next level of from, without the states that earlier levels have reached.
More == {next \in {extend(path, m) : path \in paths, m \in moves} :
            next.endState \notin explored}
from ==
    /\ search = "searching" /\ paths # {}
    /\ ~\E path \in paths : Contains(path.endState, target)
    /\ paths' = More
    /\ explored' = explored \cup {path.endState : path \in More}
    /\ UNCHANGED <<search, capacity, target, solution>>

\* The order within a level is that of a Set.
TakeSolution ==
    /\ search = "searching"
    /\ \E path \in paths : Contains(path.endState, target) /\ solution' = {path}
    /\ search' = "found"
    /\ UNCHANGED <<capacity, target, paths, explored>>

\* The stream of levels has ended.
StreamEnds ==
    /\ search = "searching" /\ paths = {}
    /\ search' = "no solution"
    /\ UNCHANGED <<capacity, target, paths, explored, solution>>

PourNext == BeginSearch \/ from \/ TakeSolution \/ StreamEnds
PourFinished == search \in {"found", "no solution"} /\ UNCHANGED pourVars

PourSpec == PourInit /\ [][PourNext \/ PourFinished]_pourVars
-----------------------------------------------------------------------------
\* The states that some sequence of at most so many moves leads to.
Grown(states) == states \cup {change(m, s) : m \in moves, s \in states}
Within(bound) ==
    LET within[n \in 0..bound] == IF n = 0 THEN {initialState} ELSE Grown(within[n - 1])
    IN  within
WithinMoves(bound) == Within(bound)[bound]

\* The states that a history leads through.
StatesOf(history) ==
    LET state[n \in 0..Len(history)] ==
          IF n = 0 THEN initialState ELSE change(history[n], state[n - 1])
    IN  state

\* Which amounts can be measured at all.
Measurable(amount) ==
    /\ \E g \in glasses : amount <= capacity[g]
    /\ \A g \in glasses : \A d \in 1..capacity[g] :
         (\A h \in glasses : capacity[h] % d = 0) => amount % d = 0

\* The solution is a sequence of moves that ends with the target and no shorter
\* one does; its target is one that can be measured.
SolutionShortest ==
    \A path \in solution :
        /\ Contains(StatesOf(path.history)[Len(path.history)], target)
        /\ Measurable(target)
        /\ path.history # <<>> =>
             \A s \in WithinMoves(Len(path.history) - 1) : ~Contains(s, target)

\* The search ends without a solution only if the target is more than any glass
\* holds, or no multiple of what divides all the capacities.
NothingMissed == search = "no solution" => ~Measurable(target)
=============================================================================
