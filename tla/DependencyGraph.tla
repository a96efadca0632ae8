-------------------------- MODULE DependencyGraph --------------------------
(***************************************************************************)
(* The dependency graph of transaction templates                           *)
(* (internal/model/dependency.go, template.go): what the templates read    *)
(* and write gives the edges, and two depth-first searches look for        *)
(* cycles.  The nodes, and the edges of a node, come from Go maps, so a    *)
(* search visits them in any order.  Edges are kept as a set: an edge that *)
(* was added twice is followed twice, to no effect but a repeated line in  *)
(* the list of cycles.                                                     *)
(***************************************************************************)
EXTENDS Naturals, Sequences, SequencesExt, FiniteSets

CONSTANTS
  Names,     \* names of templates
  Keys,
  MaxCalls   \* bound: calls that add a read, a write or an edge

ASSUME GraphAssumption == IsFiniteSet(Names)

VARIABLES
  staticReads, staticWrites,   \* of each template
  nodes,      \* the templates in the graph
  edges,      \* the edges
  search,     \* the search that runs: "none", "HasCycle" or "FindCycles"
  visited,
  recStack,
  path,       \* the nodes being visited, from the root down
  todo,       \* todo[n]: the edges of n that its visit has not looked at
  cycles,     \* what FindCycles has listed
  answered,   \* the search that has just returned
  found,      \* what HasCycle returned
  calls

graph == <<staticReads, staticWrites, nodes, edges>>
frame == <<visited, recStack, path, todo>>
result == <<cycles, answered, found>>
vars == <<graph, search, frame, result, calls>>

Types == {"WR", "WW", "RW"}

Edge == [from : Names, to : Names, type : Types, key : Keys]

Searches == {"HasCycle", "FindCycles"}

TypeOK ==
  /\ staticReads \in [Names -> SUBSET Keys]
  /\ staticWrites \in [Names -> SUBSET Keys]
  /\ nodes \subseteq Names
  /\ edges \subseteq Edge
  /\ search \in Searches \cup {"none"}
  /\ visited \subseteq Names /\ recStack \subseteq Names
  /\ path \in Seq(Names)
  /\ todo \in [Names -> SUBSET Edge]
  /\ \A c \in cycles : c \in Seq(Names)
  /\ answered \in Searches \cup {"none"}
  /\ found \in BOOLEAN

NoFrame ==
  /\ visited = {}
  /\ recStack = {}
  /\ path = <<>>
  /\ todo = [n \in Names |-> {}]

Init ==
  /\ staticReads = [n \in Names |-> {}]
  /\ staticWrites = [n \in Names |-> {}]
  /\ nodes = {}
  /\ edges = {}
  /\ search = "none"
  /\ NoFrame
  /\ cycles = {}
  /\ answered = "none"
  /\ found = FALSE
  /\ calls = 0

-----------------------------------------------------------------------------
(* Building the graph. *)

(* A call that changes the graph; the results of a search are dropped.     *)
Change(n) ==
  /\ search = "none"
  /\ calls + n <= MaxCalls
  /\ calls' = calls + n
  /\ answered' = "none"
  /\ cycles' = {}
  /\ found' = FALSE
  /\ UNCHANGED <<search, frame>>

AddRead(n, k) ==
  /\ Change(1)
  /\ staticReads' = [staticReads EXCEPT ![n] = @ \cup {k}]
  /\ UNCHANGED <<staticWrites, nodes, edges>>

AddWrite(n, k) ==
  /\ Change(1)
  /\ staticWrites' = [staticWrites EXCEPT ![n] = @ \cup {k}]
  /\ UNCHANGED <<staticReads, nodes, edges>>

AddTemplate(n) ==
  /\ Change(0)
  /\ nodes' = nodes \cup {n}
  /\ UNCHANGED <<staticReads, staticWrites, edges>>

AddEdge(e) ==
  /\ Change(1)
  /\ edges' = edges \cup {e}
  /\ UNCHANGED <<staticReads, staticWrites, nodes>>

(* Mutant: no anti-dependencies.                                           *)
DependenciesOnWrites ==
  {e \in Edge :
     /\ e.from # e.to /\ {e.from, e.to} \subseteq nodes
     /\ \/ e.type = "WR" /\ e.key \in staticWrites[e.from] \cap staticReads[e.to]
        \/ e.type = "WW" /\ e.key \in staticWrites[e.from] \cap staticWrites[e.to]}

(* Between any two different templates of the graph.                       *)
Dependencies ==
  {e \in Edge :
     /\ e.from # e.to /\ {e.from, e.to} \subseteq nodes
     /\ \/ e.type = "WR" /\ e.key \in staticWrites[e.from] \cap staticReads[e.to]
        \/ e.type = "WW" /\ e.key \in staticWrites[e.from] \cap staticWrites[e.to]
        \/ e.type = "RW" /\ e.key \in staticReads[e.from] \cap staticWrites[e.to]}

BuildFromTemplates ==
  /\ Change(0)
  /\ edges' = edges \cup Dependencies
  /\ UNCHANGED <<staticReads, staticWrites, nodes>>

-----------------------------------------------------------------------------
(* The searches: HasCycle and FindCycles, with the recursive dfs in each. *)

Start(s) ==
  /\ search = "none"
  /\ search' = s
  /\ cycles' = {}
  /\ answered' = "none"
  /\ found' = FALSE
  /\ UNCHANGED <<graph, frame, calls>>

Return(s, isFound) ==
  /\ search' = "none"
  /\ answered' = s
  /\ found' = isFound
  /\ visited' = {}
  /\ recStack' = {}
  /\ path' = <<>>
  /\ todo' = [n \in Names |-> {}]
  /\ UNCHANGED <<graph, cycles, calls>>

(* dfs(n) begins; todoNow is todo without the edge that led there.         *)
Visit(n, todoNow) ==
  /\ visited' = visited \cup {n}
  /\ recStack' = recStack \cup {n}
  /\ path' = Append(path, n)
  /\ todo' = [todoNow EXCEPT ![n] = {e \in edges : e.from = n}]
  /\ UNCHANGED <<graph, search, result, calls>>

VisitRoot(n) ==
  /\ search # "none"
  /\ path = <<>>
  /\ n \in nodes \ visited
  /\ Visit(n, todo)

(* Mutant: one node of the cycle is left out.                              *)
CycleToShort(n) == SubSeq(path, SelectInSeq(path, LAMBDA m : m = n) + 1, Len(path))

(* The part of the path from n on.                                         *)
CycleTo(n) == SubSeq(path, SelectInSeq(path, LAMBDA m : m = n), Len(path))

(* An edge to a node that is being visited: HasCycle returns at once.      *)
Close(e) ==
  \/ search = "HasCycle" /\ Return("HasCycle", TRUE)
  \/ /\ search = "FindCycles"
     /\ cycles' = cycles \cup {CycleTo(e.to)}
     /\ todo' = [todo EXCEPT ![e.from] = @ \ {e}]
     /\ UNCHANGED <<graph, search, visited, recStack, path, answered, found, calls>>

Follow(e) ==
  /\ path # <<>>
  /\ e \in todo[Last(path)]
  /\ \/ e.to \notin visited /\ Visit(e.to, [todo EXCEPT ![e.from] = @ \ {e}])
     \/ e.to \in recStack /\ Close(e)
     \/ /\ e.to \in visited \ recStack
        /\ todo' = [todo EXCEPT ![e.from] = @ \ {e}]
        /\ UNCHANGED <<graph, search, visited, recStack, path, result, calls>>

(* Mutant: the node stays on the stack.                                    *)
LeaveOnStack ==
  /\ path # <<>>
  /\ todo[Last(path)] = {}
  /\ path' = Front(path)
  /\ UNCHANGED <<graph, search, visited, recStack, todo, result, calls>>

(* dfs returns.                                                            *)
Leave ==
  /\ path # <<>>
  /\ todo[Last(path)] = {}
  /\ recStack' = recStack \ {Last(path)}
  /\ path' = Front(path)
  /\ UNCHANGED <<graph, search, visited, todo, result, calls>>

Finish ==
  /\ search # "none"
  /\ path = <<>>
  /\ nodes \subseteq visited
  /\ Return(search, FALSE)

Next ==
  \/ \E n \in Names, k \in Keys : AddRead(n, k) \/ AddWrite(n, k)
  \/ \E n \in Names : AddTemplate(n) \/ VisitRoot(n)
  \/ \E e \in Edge : AddEdge(e) \/ Follow(e)
  \/ BuildFromTemplates
  \/ \E s \in Searches : Start(s)
  \/ Leave
  \/ Finish

Spec == Init /\ [][Next]_vars

-----------------------------------------------------------------------------
(* Properties. *)

Leads(n, m) == \E e \in edges : e.from = n /\ e.to = m

(* m can be reached from n: what has n, and with a node all that its edges *)
(* lead to, has m.                                                         *)
Joined(n, m) ==
  \A ns \in SUBSET Names :
    n \in ns /\ (\A e \in edges : e.from \in ns => e.to \in ns) => m \in ns

(* Every cycle the searches can meet, once from each of its nodes: simple, *)
(* and reached from a template of the graph.  A name that is in no         *)
(* template is searched when an edge leads there.                          *)
AllCycles ==
  {c \in SeqOf(Names, Cardinality(Names)) :
     /\ c # <<>>
     /\ \A i, j \in DOMAIN c : c[i] = c[j] => i = j
     /\ \A i \in DOMAIN c : Leads(c[i], c[IF i = Len(c) THEN 1 ELSE i + 1])
     /\ \E n \in nodes : Joined(n, c[1])}

(* dependency.go "HasCycle detects if there is a cycle in the dependency   *)
(* graph": in whatever order nodes and edges come, it answers whether a    *)
(* cycle can be reached.                                                   *)
HasCycleIsExact ==
  answered = "HasCycle" => (found <=> AllCycles # {})

(* FindCycles lists cycles of the graph, and at least one in every knot of *)
(* them: each cycle has a listed one that it can reach and come back from. *)
CyclesInEveryKnot ==
  answered = "FindCycles" =>
    /\ cycles \subseteq AllCycles
    /\ \A c \in AllCycles : \E d \in cycles : Joined(c[1], d[1]) /\ Joined(d[1], c[1])

(* dependency.go "Used to detect cycles for serializability analysis":     *)
(* what the analysis comes to, on a graph built from templates, is whether *)
(* two of them use a key that one of them writes; for dependencies come    *)
(* in pairs of opposite directions.                                        *)
CycleIsConflict ==
  answered = "HasCycle" /\ edges = Dependencies =>
    (found <=> \E t, u \in nodes :
                 /\ t # u
                 /\ staticWrites[t] \cap (staticReads[u] \cup staticWrites[u]) # {})

(* dependency.go:137 "FindCycles returns all cycles in the graph".         *)
FindsAllCycles ==
  answered = "FindCycles" =>
    \A c \in AllCycles : \E d \in cycles : Len(d) = Len(c) /\ ToSet(d) = ToSet(c)
=============================================================================
