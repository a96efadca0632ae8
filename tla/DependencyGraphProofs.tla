----------------------- MODULE DependencyGraphProofs -----------------------
(***************************************************************************)
(* What the two searches answer, for any templates, any graph and any      *)
(* order of visits.  The invariant is about the edges a search has looked  *)
(* at: each led to a node it has left for good, on down the path, or into  *)
(* a cycle that it listed.  A node is left when all its edges have been    *)
(* looked at, so the last node of a cycle to be left is reached over an    *)
(* edge of the third kind.                                                 *)
(***************************************************************************)
EXTENDS DependencyGraph, WellFoundedInduction, FiniteSetTheorems, TLAPS

(* The nodes whose visit is over.                                          *)
Left == visited \ recStack

Searching ==
  /\ search = "none" => NoFrame
  /\ search # "none" => answered = "none"
  /\ search = "HasCycle" => cycles = {}

(* The stack is the path, and the path follows edges.                      *)
Stack ==
  /\ recStack = {path[i] : i \in DOMAIN path}
  /\ \A i, j \in DOMAIN path : path[i] = path[j] => i = j
  /\ \A i \in DOMAIN path : i > 1 => Leads(path[i - 1], path[i])
  /\ recStack \subseteq visited

Reached == \A n \in visited : \E r \in nodes : Joined(r, n)

Down(n, m) == \E i, j \in DOMAIN path : i < j /\ path[i] = n /\ path[j] = m

InOneCycle(n, m) == \E d \in cycles : n \in ToSet(d) /\ m \in ToSet(d)

Looked ==
  /\ \A n \in Names : todo[n] \subseteq {e \in edges : e.from = n}
  /\ \A n \in Left : todo[n] = {}
  /\ \A e \in edges :
       e.from \in visited /\ e \notin todo[e.from] =>
         /\ e.to \in visited
         /\ e.to \in Left \/ Down(e.from, e.to) \/ InOneCycle(e.from, e.to)

Meets(c) == \E d \in cycles : ToSet(c) \cap ToSet(d) # {}

Listed ==
  /\ cycles \subseteq AllCycles
  /\ \A c \in AllCycles : ToSet(c) \subseteq Left => Meets(c)

SearchInv == TypeOK /\ Searching /\ Stack /\ Reached /\ Looked /\ Listed

GraphInv == SearchInv /\ HasCycleIsExact /\ CyclesInEveryKnot
-----------------------------------------------------------------------------
(* Reachability and cycles. *)

LEMMA JoinedFacts ==
  ASSUME NEW n, NEW m, NEW r, Joined(r, n)
  PROVE  /\ Joined(n, n)
         /\ Leads(n, m) => Joined(r, m)
         /\ Joined(n, m) => Joined(r, m)
BY DEF Joined, Leads

LEMMA JoinedSelf == \A n : Joined(n, n)
BY DEF Joined

LEMMA SameCycles ==
  ASSUME UNCHANGED <<nodes, edges>>
  PROVE  /\ AllCycles' = AllCycles
         /\ \A n, m : Joined(n, m)' <=> Joined(n, m)
         /\ \A n, m : Leads(n, m)' <=> Leads(n, m)
<1>1. /\ \A n, m : Joined(n, m)' <=> Joined(n, m)
      /\ \A n, m : Leads(n, m)' <=> Leads(n, m)
  BY DEF Joined, Leads
<1> QED
  BY <1>1 DEF AllCycles

LEMMA CycleFacts ==
  ASSUME NEW c \in AllCycles
  PROVE  /\ c \in Seq(Names) /\ Len(c) \in Nat \ {0}
         /\ DOMAIN c = 1..Len(c) /\ ToSet(c) \subseteq Names
         /\ \A i \in 1..Len(c) : i < Len(c) => Leads(c[i], c[i + 1])
         /\ Leads(c[Len(c)], c[1])
         /\ \E n \in nodes : Joined(n, c[1])
<1>1. PICK m \in 0..Cardinality(Names) : c \in [1..m -> Names]
  BY DEF AllCycles, SeqOf
<1>2. Cardinality(Names) \in Nat
  BY GraphAssumption, FS_CardinalityType
<1>3. m \in Nat
  BY <1>2
<1>4. c \in Seq(Names) /\ Len(c) = m /\ DOMAIN c = 1..m
  BY <1>1, <1>3
<1>5. m # 0
  BY <1>4 DEF AllCycles
<1>6. \A i \in 1..m : Leads(c[i], c[IF i = m THEN 1 ELSE i + 1])
  BY <1>4 DEF AllCycles
<1>7. Leads(c[m], c[1]) /\ \A i \in 1..m : i < m => Leads(c[i], c[i + 1])
  BY <1>3, <1>5, <1>6
<1> QED
  BY <1>1, <1>3, <1>4, <1>5, <1>7 DEF AllCycles, ToSet

LEMMA MakeCycle ==
  ASSUME NEW c \in Seq(Names), c # <<>>,
         \A i, j \in DOMAIN c : c[i] = c[j] => i = j,
         \A i \in 1..Len(c) : i < Len(c) => Leads(c[i], c[i + 1]),
         Leads(c[Len(c)], c[1]),
         NEW n \in nodes, Joined(n, c[1])
  PROVE  c \in AllCycles
<1>1. Len(c) \in Nat /\ DOMAIN c = 1..Len(c) /\ c \in [1..Len(c) -> Names]
  OBVIOUS
<1>2. c \in Injection(1..Len(c), Names)
  BY <1>1 DEF Injection, IsInjective
<1>3. Cardinality(Names) \in Nat
  BY GraphAssumption, FS_CardinalityType
<1>4. Cardinality(1..Len(c)) = Len(c)
  BY <1>1, FS_Interval
<1>5. Len(c) <= Cardinality(Names)
  BY <1>2, <1>4, GraphAssumption, FS_Injection
<1>6. c \in SeqOf(Names, Cardinality(Names))
  BY <1>1, <1>3, <1>5 DEF SeqOf
<1>7. \A i \in DOMAIN c : Leads(c[i], c[IF i = Len(c) THEN 1 ELSE i + 1])
  BY <1>1
<1> QED
  BY <1>6, <1>7 DEF AllCycles

LEMMA Least ==
  ASSUME NEW T \in SUBSET Nat, T # {}
  PROVE  \E n \in T : \A m \in T : n <= m
<1>1. PICK n \in T : \A m \in T : ~(<<m, n>> \in OpToRel(<, Nat))
  BY WFMin, NatLessThanWellFounded
<1>2. ASSUME NEW m \in T
      PROVE  n <= m
  <2>1. m \in Nat /\ n \in Nat
    OBVIOUS
  <2>2. ~(m < n)
    BY <1>1, <2>1 DEF OpToRel
  <2> QED
    BY <2>1, <2>2
<1> QED
  BY <1>2

(* From every node of a cycle one gets to every other.                     *)
LEMMA AlongCycle ==
  ASSUME NEW c \in AllCycles, NEW i \in DOMAIN c, NEW j \in DOMAIN c
  PROVE  Joined(c[i], c[j])
<1>1. SUFFICES ASSUME NEW ns \in SUBSET Names, c[i] \in ns,
                      \A e \in edges : e.from \in ns => e.to \in ns
               PROVE  c[j] \in ns
  BY DEF Joined
<1>2. \A n, m : Leads(n, m) /\ n \in ns => m \in ns
  BY <1>1 DEF Leads
<1>3. /\ Len(c) \in Nat \ {0} /\ DOMAIN c = 1..Len(c)
      /\ \A k \in 1..Len(c) : k < Len(c) => Leads(c[k], c[k + 1])
      /\ Leads(c[Len(c)], c[1])
  BY CycleFacts
<1>4. ASSUME NEW k \in 1..Len(c), c[k] \in ns, NEW l \in k..Len(c)
      PROVE  c[l] \in ns
  <2> DEFINE bad == {m \in k..Len(c) : c[m] \notin ns}
  <2>1. SUFFICES ASSUME bad # {} PROVE FALSE
    OBVIOUS
  <2>2. bad \in SUBSET Nat
    BY <1>3
  <2>3. PICK m \in bad : \A m2 \in bad : m <= m2
    BY <2>1, <2>2, Least
  <2>4. m \in k..Len(c) /\ c[m] \notin ns /\ m # k
    BY <1>4
  <2>5. m - 1 \in 1..Len(c) /\ m - 1 \in k..Len(c) /\ m - 1 < Len(c) /\ (m - 1) + 1 = m
    BY <1>3, <2>4
  <2>6. m - 1 \notin bad
    BY <2>2, <2>3, <2>5
  <2>7. c[m - 1] \in ns
    BY <2>5, <2>6
  <2>8. Leads(c[m - 1], c[m])
    BY <1>3, <2>5
  <2> QED
    BY <1>2, <2>4, <2>7, <2>8
<1>5. c[Len(c)] \in ns
  BY <1>1, <1>3, <1>4
<1>6. c[1] \in ns
  BY <1>2, <1>3, <1>5
<1> QED
  BY <1>3, <1>4, <1>6

-----------------------------------------------------------------------------
(* The steps of a search. *)

LEMMA PathFacts ==
  ASSUME SearchInv
  PROVE  /\ path \in Seq(Names) /\ Len(path) \in Nat /\ DOMAIN path = 1..Len(path)
         /\ path # <<>> => /\ Len(path) # 0
                           /\ Last(path) = path[Len(path)]
                           /\ Last(path) \in recStack
                           /\ Last(path) \in Names
         /\ recStack \subseteq visited /\ visited \subseteq Names
<1>1. path \in Seq(Names) /\ visited \subseteq Names /\ recStack \subseteq visited
  BY DEF SearchInv, TypeOK, Stack
<1>2. Len(path) \in Nat /\ DOMAIN path = 1..Len(path) /\ (path # <<>> => Len(path) # 0)
  BY <1>1
<1>3. path # <<>> => Last(path) = path[Len(path)] /\ Len(path) \in DOMAIN path
  BY <1>2 DEF Last
<1>4. \A i \in DOMAIN path : path[i] \in recStack /\ path[i] \in Names
  BY <1>1 DEF SearchInv, Stack
<1> QED
  BY <1>1, <1>2, <1>3, <1>4

(* The search goes down to n, from the node at the end of the path if the  *)
(* path has any.                                                           *)
LEMMA VisitKeeps ==
  ASSUME SearchInv, search # "none", NEW n \in Names \ visited,
         NEW todoNow \in [Names -> SUBSET Edge], Visit(n, todoNow),
         \A m \in Names : todoNow[m] \subseteq todo[m],
         IF path = <<>> THEN n \in nodes ELSE Leads(Last(path), n),
         \A e \in edges : e.from \in visited /\ e \notin todoNow[e.from] =>
            \/ e \notin todo[e.from]
            \/ path # <<>> /\ e.from = Last(path) /\ e.to = n
  PROVE  SearchInv'
<1>1. /\ UNCHANGED <<graph, search, result, calls>>
      /\ visited' = visited \cup {n}
      /\ recStack' = recStack \cup {n}
      /\ path' = Append(path, n)
      /\ todo' = [todoNow EXCEPT ![n] = {e \in edges : e.from = n}]
  BY DEF Visit
<1>2. /\ edges \subseteq Edge /\ nodes \subseteq Names
      /\ edges' = edges /\ nodes' = nodes /\ cycles' = cycles
  BY <1>1 DEF SearchInv, TypeOK, graph, result
<1>3. TypeOK'
  <2>1. path' \in Seq(Names)
    BY <1>1, PathFacts
  <2>2. todo' \in [Names -> SUBSET Edge]
    BY <1>1, <1>2
  <2> QED
    BY <1>1, <2>1, <2>2 DEF SearchInv, TypeOK, graph, result
<1>4. Searching'
  BY <1>1 DEF SearchInv, Searching, result
<1>5. /\ DOMAIN path' = 1..(Len(path) + 1)
      /\ path'[Len(path) + 1] = n
      /\ \A i \in DOMAIN path : path'[i] = path[i]
  BY <1>1, PathFacts
<1>6. Stack'
  <2>1. recStack' = {path'[i] : i \in DOMAIN path'}
    BY <1>1, <1>5, PathFacts DEF SearchInv, Stack
  <2>2. \A i, j \in DOMAIN path' : path'[i] = path'[j] => i = j
    <3>1. \A i \in DOMAIN path : path[i] # n
      BY PathFacts DEF SearchInv, Stack
    <3> QED
      BY <1>5, <3>1, PathFacts DEF SearchInv, Stack
  <2>3. ASSUME NEW i \in DOMAIN path', i > 1
        PROVE  Leads(path[i - 1], path[i])'
    <3>1. CASE i \in DOMAIN path
      <4>1. i - 1 \in DOMAIN path
        BY <2>3, <3>1, PathFacts
      <4>2. Leads(path[i - 1], path[i])
        BY <2>3, <3>1 DEF SearchInv, Stack
      <4>3. path'[i - 1] = path[i - 1] /\ path'[i] = path[i]
        BY <1>5, <3>1, <4>1
      <4> QED
        BY <1>2, <4>2, <4>3 DEF Leads
    <3>2. CASE i = Len(path) + 1
      <4>1. path # <<>> /\ i - 1 = Len(path) /\ Len(path) \in DOMAIN path
        BY <2>3, <3>2, PathFacts
      <4>2. Leads(path[Len(path)], n)
        BY <4>1, PathFacts
      <4>3. path'[i - 1] = path[Len(path)] /\ path'[i] = n
        BY <1>5, <3>2, <4>1
      <4> QED
        BY <1>2, <4>2, <4>3 DEF Leads
    <3> QED
      BY <1>5, <3>1, <3>2, PathFacts
  <2>4. recStack' \subseteq visited'
    BY <1>1, PathFacts
  <2> QED
    BY <2>1, <2>2, <2>3, <2>4 DEF Stack
<1>7. Left' = Left
  BY <1>1, PathFacts DEF Left
<1>8. Reached'
  <2>1. \E r \in nodes : Joined(r, n)
    <3>1. CASE path = <<>>
      BY <3>1, JoinedSelf
    <3>2. CASE path # <<>>
      <4>1. PICK r \in nodes : Joined(r, Last(path))
        BY <3>2, PathFacts DEF SearchInv, Reached
      <4> QED
        BY <3>2, <4>1, JoinedFacts
    <3> QED
      BY <3>1, <3>2
  <2>2. \A m \in visited' : \E r \in nodes : Joined(r, m)
    BY <1>1, <2>1 DEF SearchInv, Reached
  <2> QED
    BY <1>2, <2>2, SameCycles DEF Reached
<1>9. Looked'
  <2>1. \A m \in Names : todo'[m] \subseteq {e \in edges : e.from = m}
    BY <1>1 DEF SearchInv, Looked
  <2>2. \A m \in Left' : todo'[m] = {}
    <3>1. Left \subseteq Names \ {n}
      BY PathFacts DEF Left
    <3>2. \A m \in Left : todoNow[m] = {}
      BY <3>1 DEF SearchInv, Looked
    <3> QED
      BY <1>1, <1>7, <3>1, <3>2
  <2>3. ASSUME NEW e \in edges, e.from \in visited', e \notin todo'[e.from]
        PROVE  /\ e.to \in visited'
               /\ e.to \in Left' \/ Down(e.from, e.to)' \/ InOneCycle(e.from, e.to)'
    <3>1. e.from \in Names
      BY <1>2 DEF Edge
    <3>2. e.from # n
      BY <1>1, <2>3, <3>1
    <3>3. e.from \in visited /\ e \notin todoNow[e.from]
      BY <1>1, <2>3, <3>1, <3>2
    <3>4. CASE e \notin todo[e.from]
      <4>1. /\ e.to \in visited
            /\ e.to \in Left \/ Down(e.from, e.to) \/ InOneCycle(e.from, e.to)
        BY <3>3, <3>4 DEF SearchInv, Looked
      <4>2. Down(e.from, e.to) => Down(e.from, e.to)'
        BY <1>5, PathFacts DEF Down
      <4>3. InOneCycle(e.from, e.to)' <=> InOneCycle(e.from, e.to)
        BY <1>2 DEF InOneCycle
      <4> QED
        BY <1>1, <1>7, <4>1, <4>2, <4>3
    <3>5. CASE path # <<>> /\ e.from = Last(path) /\ e.to = n
      <4>1. /\ Len(path) \in DOMAIN path' /\ Len(path) + 1 \in DOMAIN path'
            /\ Len(path) < Len(path) + 1 /\ path'[Len(path)] = e.from
        BY <1>5, <3>5, PathFacts
      <4>2. Down(e.from, e.to)'
        BY <1>5, <3>5, <4>1 DEF Down
      <4> QED
        BY <1>1, <3>5, <4>2
    <3> QED
      BY <3>3, <3>4, <3>5
  <2> QED
    BY <1>2, <2>1, <2>2, <2>3 DEF Looked
<1>10. Listed'
  <2>1. \A c : Meets(c)' <=> Meets(c)
    BY <1>2 DEF Meets
  <2> QED
    BY <1>2, <1>7, <2>1, SameCycles DEF SearchInv, Listed
<1> QED
  BY <1>3, <1>4, <1>6, <1>8, <1>9, <1>10 DEF SearchInv

(* An edge from the end of the path to a node that was visited before is   *)
(* struck off.                                                             *)
LEMMA StrikeOff ==
  ASSUME SearchInv, search # "none", path # <<>>, NEW e \in todo[Last(path)],
         UNCHANGED <<graph, search, visited, recStack, path, answered, found, calls>>,
         todo' = [todo EXCEPT ![e.from] = @ \ {e}],
         cycles \subseteq cycles', cycles' \subseteq AllCycles,
         search = "HasCycle" => cycles' = cycles,
         e.to \in Left \/ (e.to \in visited /\ InOneCycle(e.from, e.to)')
  PROVE  SearchInv'
<1>1. edges' = edges /\ nodes' = nodes /\ Left' = Left
  BY DEF graph, Left
<1>2. e \in edges /\ e.from = Last(path) /\ e.from \in Names
  BY PathFacts DEF SearchInv, Looked
<1>3. TypeOK'
  <2>1. todo' \in [Names -> SUBSET Edge]
    BY <1>2 DEF SearchInv, TypeOK
  <2>2. \A c \in cycles' : c \in Seq(Names)
    BY CycleFacts
  <2> QED
    BY <2>1, <2>2 DEF SearchInv, TypeOK, graph
<1>4. Searching'
  BY DEF SearchInv, Searching
<1>5. Stack'
  BY <1>1, SameCycles DEF SearchInv, Stack
<1>6. Reached'
  BY <1>1, SameCycles DEF SearchInv, Reached
<1>7. Looked'
  <2>1. \A m \in Names : todo'[m] \subseteq todo[m]
    BY <1>2 DEF SearchInv, TypeOK
  <2>2. \A m \in Names : todo'[m] \subseteq {e2 \in edges : e2.from = m}
    BY <2>1 DEF SearchInv, Looked
  <2>3. \A m \in Left' : todo'[m] = {}
    BY <1>1, <2>1, PathFacts DEF SearchInv, Looked, Left
  <2>4. ASSUME NEW e2 \in edges, e2.from \in visited', e2 \notin todo'[e2.from]
        PROVE  /\ e2.to \in visited'
               /\ e2.to \in Left' \/ Down(e2.from, e2.to)' \/ InOneCycle(e2.from, e2.to)'
    <3>1. CASE e2 = e
      BY <1>1, <3>1, PathFacts DEF Left
    <3>2. CASE e2 # e
      <4>1. e2 \notin todo[e2.from]
        BY <2>4, <3>2, PathFacts DEF SearchInv, TypeOK
      <4>2. /\ e2.to \in visited
            /\ e2.to \in Left \/ Down(e2.from, e2.to) \/ InOneCycle(e2.from, e2.to)
        BY <2>4, <4>1 DEF SearchInv, Looked
      <4>3. Down(e2.from, e2.to) => Down(e2.from, e2.to)'
        BY DEF Down
      <4>4. InOneCycle(e2.from, e2.to) => InOneCycle(e2.from, e2.to)'
        BY DEF InOneCycle
      <4> QED
        BY <1>1, <4>2, <4>3, <4>4
    <3> QED
      BY <3>1, <3>2
  <2> QED
    BY <1>1, <2>2, <2>3, <2>4 DEF Looked
<1>8. Listed'
  <2>1. \A c : Meets(c) => Meets(c)'
    BY DEF Meets
  <2> QED
    BY <1>1, <2>1, SameCycles DEF SearchInv, Listed
<1> QED
  BY <1>3, <1>4, <1>5, <1>6, <1>7, <1>8 DEF SearchInv

(* The part of the path from a node of it to its end, closed by an edge    *)
(* back, is a cycle.                                                       *)
LEMMA BackIsCycle ==
  ASSUME SearchInv, path # <<>>, NEW e \in todo[Last(path)], e.to \in recStack
  PROVE  /\ CycleTo(e.to) \in AllCycles
         /\ e.from \in ToSet(CycleTo(e.to)) /\ e.to \in ToSet(CycleTo(e.to))
<1>1. e \in edges /\ e.from = Last(path)
  BY PathFacts DEF SearchInv, Looked
<1>2. PICK i \in DOMAIN path : path[i] = e.to
  BY DEF SearchInv, Stack
<1>3. i \in 1..Len(path) /\ Len(path) \in Nat
  BY PathFacts
<1>4. SelectInSeq(path, LAMBDA m : m = e.to) = i
  <2>1. {j \in 1..Len(path) : path[j] = e.to} = {i}
    BY <1>2, <1>3, PathFacts DEF SearchInv, Stack
  <2>2. Min({i}) = i
    BY <1>3 DEF Min
  <2> QED
    BY <2>1, <2>2 DEF SelectInSeq
<1> DEFINE d == SubSeq(path, i, Len(path))
<1>5. CycleTo(e.to) = d
  BY <1>4 DEF CycleTo
<1>6. /\ d \in Seq(Names) /\ Len(d) = Len(path) - i + 1 /\ Len(d) \in Nat \ {0}
      /\ DOMAIN d = 1..Len(d)
      /\ \A j \in 1..Len(d) : d[j] = path[i + j - 1] /\ i + j - 1 \in DOMAIN path
  BY <1>3, PathFacts
<1> HIDE DEF d
<1>7. d[1] = e.to /\ d[Len(d)] = e.from
  <2>1. 1 \in 1..Len(d) /\ Len(d) \in 1..Len(d)
    BY <1>6
  <2>2. d[1] = path[i + (1 - 1)] /\ d[Len(d)] = path[i + (Len(d) - 1)]
    BY <1>6, <2>1, Zenon
  <2>3. i + (1 - 1) = i
    BY <1>3
  <2>4. i + (Len(d) - 1) = Len(path)
    BY <1>3, <1>6
  <2> QED
    BY <1>1, <1>2, <2>2, <2>3, <2>4, PathFacts
<1>8. \A j, k \in DOMAIN d : d[j] = d[k] => j = k
  BY <1>3, <1>6 DEF SearchInv, Stack
<1>9. ASSUME NEW j \in 1..Len(d), j < Len(d)
      PROVE  Leads(d[j], d[j + 1])
  <2>1. /\ i + j \in DOMAIN path /\ i + j > 1
        /\ d[j] = path[(i + j) - 1] /\ d[j + 1] = path[i + j]
    BY <1>3, <1>6, <1>9, PathFacts
  <2> QED
    BY <2>1 DEF SearchInv, Stack
<1>10. Leads(d[Len(d)], d[1])
  BY <1>1, <1>7 DEF Leads
<1>11. PICK n \in nodes : Joined(n, d[1])
  BY <1>7, PathFacts DEF SearchInv, Reached
<1>12. d # <<>>
  BY <1>6
<1>13. d \in AllCycles
  BY <1>6, <1>8, <1>9, <1>10, <1>11, <1>12, MakeCycle
<1>14. e.from \in ToSet(d) /\ e.to \in ToSet(d)
  BY <1>6, <1>7 DEF ToSet
<1> QED
  BY <1>5, <1>13, <1>14

LEMMA LeaveKeeps ==
  ASSUME SearchInv, search # "none", Leave
  PROVE  SearchInv'
<1> DEFINE t == Last(path)
<1>1. /\ path # <<>> /\ todo[t] = {}
      /\ recStack' = recStack \ {t} /\ path' = SubSeq(path, 1, Len(path) - 1)
      /\ UNCHANGED <<graph, search, visited, todo, result, calls>>
  BY DEF Leave, Front
<1>2. /\ t = path[Len(path)] /\ t \in recStack /\ t \in Names
      /\ Len(path) \in Nat \ {0} /\ DOMAIN path = 1..Len(path)
      /\ recStack \subseteq visited /\ visited \subseteq Names
  BY <1>1, PathFacts
<1> HIDE DEF t
<1>3. /\ edges \subseteq Edge
      /\ edges' = edges /\ nodes' = nodes /\ cycles' = cycles
  BY <1>1 DEF SearchInv, TypeOK, graph, result
<1>4. path' \in Seq(Names)
  BY <1>1, <1>2, PathFacts
<1>5. /\ DOMAIN path' = 1..(Len(path) - 1)
      /\ \A i \in DOMAIN path' : path'[i] = path[i]
  BY <1>1, <1>2, PathFacts
<1>6. Left' = Left \cup {t}
  BY <1>1, <1>2 DEF Left
<1>7. TypeOK'
  BY <1>1, <1>4 DEF SearchInv, TypeOK, graph, result
<1>8. Searching'
  BY <1>1 DEF SearchInv, Searching, result
<1>9. Stack'
  <2>1. \A i \in DOMAIN path : path[i] = t => i = Len(path)
    BY <1>2 DEF SearchInv, Stack
  <2>2. recStack' = {path'[i] : i \in DOMAIN path'}
    <3>1. \A i \in DOMAIN path : i # Len(path) <=> i \in DOMAIN path'
      BY <1>2, <1>5
    <3> QED
      BY <1>1, <1>2, <1>5, <2>1, <3>1 DEF SearchInv, Stack
  <2>3. \A i, j \in DOMAIN path' : path'[i] = path'[j] => i = j
    BY <1>2, <1>5 DEF SearchInv, Stack
  <2>4. ASSUME NEW i \in DOMAIN path', i > 1
        PROVE  Leads(path[i - 1], path[i])'
    <3>1. i \in DOMAIN path /\ i - 1 \in DOMAIN path'
      BY <1>2, <1>5, <2>4
    <3>2. Leads(path[i - 1], path[i])
      BY <2>4, <3>1 DEF SearchInv, Stack
    <3>3. path'[i - 1] = path[i - 1] /\ path'[i] = path[i]
      BY <1>5, <3>1
    <3> QED
      BY <1>3, <3>2, <3>3 DEF Leads
  <2>5. recStack' \subseteq visited'
    BY <1>1, <1>2
  <2> QED
    BY <2>2, <2>3, <2>4, <2>5 DEF Stack
<1>10. Reached'
  BY <1>1, <1>3, SameCycles DEF SearchInv, Reached
<1>11. Looked'
  <2>1. \A m \in Left' : todo'[m] = {}
    BY <1>1, <1>6 DEF SearchInv, Looked
  <2>2. ASSUME NEW e \in edges, e.from \in visited', e \notin todo'[e.from]
        PROVE  /\ e.to \in visited'
               /\ e.to \in Left' \/ Down(e.from, e.to)' \/ InOneCycle(e.from, e.to)'
    <3>1. /\ e.to \in visited
          /\ e.to \in Left \/ Down(e.from, e.to) \/ InOneCycle(e.from, e.to)
      BY <1>1, <2>2 DEF SearchInv, Looked
    <3>2. ASSUME Down(e.from, e.to)
          PROVE  e.to = t \/ Down(e.from, e.to)'
      <4>1. PICK i \in DOMAIN path, j \in DOMAIN path :
              i < j /\ path[i] = e.from /\ path[j] = e.to
        BY <3>2 DEF Down
      <4>2. CASE j = Len(path)
        BY <1>2, <4>1, <4>2
      <4>3. CASE j # Len(path)
        BY <1>2, <1>5, <4>1, <4>3 DEF Down
      <4> QED
        BY <4>2, <4>3
    <3>3. InOneCycle(e.from, e.to)' <=> InOneCycle(e.from, e.to)
      BY <1>3 DEF InOneCycle
    <3> QED
      BY <1>1, <1>6, <3>1, <3>2, <3>3
  <2> QED
    BY <1>1, <1>3, <2>1, <2>2 DEF SearchInv, Looked
<1>12. Listed'
  <2>1. ASSUME NEW c \in AllCycles, ToSet(c) \subseteq Left \cup {t}
        PROVE  Meets(c)
    <3>1. CASE t \notin ToSet(c)
      BY <2>1, <3>1 DEF SearchInv, Listed
    <3>2. CASE t \in ToSet(c)
      <4>1. PICK p \in ToSet(c) : Leads(p, t)
        <5>1. PICK i \in DOMAIN c : c[i] = t
          BY <3>2 DEF ToSet
        <5>2. CASE i = 1
          <6>1. Leads(c[Len(c)], c[1]) /\ Len(c) \in DOMAIN c
            BY CycleFacts
          <6> QED
            BY <5>1, <5>2, <6>1 DEF ToSet
        <5>3. CASE i # 1
          <6>1. i - 1 \in DOMAIN c /\ i - 1 \in 1..Len(c) /\ i - 1 < Len(c) /\ (i - 1) + 1 = i
            BY <5>3, CycleFacts
          <6>2. Leads(c[i - 1], c[(i - 1) + 1])
            BY <6>1, CycleFacts
          <6> QED
            BY <5>1, <6>1, <6>2 DEF ToSet
        <5> QED
          BY <5>2, <5>3
      <4>2. PICK e \in edges : e.from = p /\ e.to = t
        BY <4>1 DEF Leads
      <4>3. p \in Left \cup {t} /\ todo[p] = {} /\ p \in visited
        BY <1>1, <1>2, <2>1 DEF SearchInv, Looked, Left
      <4>4. t \in Left \/ Down(p, t) \/ InOneCycle(p, t)
        BY <4>2, <4>3 DEF SearchInv, Looked
      <4>5. ~Down(p, t)
        <5>1. SUFFICES ASSUME NEW i \in DOMAIN path, NEW j \in DOMAIN path,
                              i < j, path[i] = p, path[j] = t
                       PROVE  FALSE
          BY DEF Down
        <5>2. p \in recStack
          BY <5>1 DEF SearchInv, Stack
        <5>3. p = t
          BY <4>3, <5>2 DEF Left
        <5>4. i = j
          BY <5>1, <5>3 DEF SearchInv, Stack
        <5> QED
          BY <1>2, <5>1, <5>4
      <4>6. InOneCycle(p, t)
        BY <1>2, <4>4, <4>5 DEF Left
      <4> QED
        BY <3>2, <4>6 DEF InOneCycle, Meets
    <3> QED
      BY <3>1, <3>2
  <2>2. \A c : Meets(c)' <=> Meets(c)
    BY <1>3 DEF Meets
  <2>3. AllCycles' = AllCycles
    BY <1>3, SameCycles
  <2>4. cycles' \subseteq AllCycles'
    BY <1>3, <2>3 DEF SearchInv, Listed
  <2>5. \A c \in AllCycles' : ToSet(c) \subseteq Left' => Meets(c)'
    BY <1>6, <2>1, <2>2, <2>3
  <2> QED
    BY <2>4, <2>5 DEF Listed
<1> QED
  BY <1>7, <1>8, <1>9, <1>10, <1>11, <1>12 DEF SearchInv

(* The search is over, or has no more to do.                               *)
LEMMA ReturnKeeps ==
  ASSUME SearchInv, NEW s \in Searches, NEW isFound \in BOOLEAN, Return(s, isFound)
  PROVE  SearchInv' /\ AllCycles' = AllCycles
<1>1. /\ NoFrame' /\ search' = "none" /\ answered' = s /\ found' = isFound
      /\ UNCHANGED <<graph, cycles, calls>>
  BY DEF Return, NoFrame
<1>2. edges' = edges /\ nodes' = nodes
  BY <1>1 DEF graph
<1>3. AllCycles' = AllCycles
  BY <1>2, SameCycles
<1>4. TypeOK'
  <2>1. path' \in Seq(Names)
    BY <1>1 DEF NoFrame
  <2> QED
    BY <1>1, <2>1 DEF SearchInv, TypeOK, graph, NoFrame
<1>5. Searching'
  BY <1>1 DEF Searching
<1>6. DOMAIN path' = {} /\ Left' = {}
  BY <1>1 DEF NoFrame, Left
<1>7. Stack' /\ Reached'
  BY <1>1, <1>6 DEF NoFrame, Stack, Reached
<1>8. Looked'
  BY <1>1, <1>2, <1>6 DEF NoFrame, Looked
<1>9. Listed'
  <2>1. ASSUME NEW c \in AllCycles
        PROVE  ToSet(c) # {}
    <3>1. 1 \in DOMAIN c
      BY CycleFacts
    <3> QED
      BY <3>1 DEF ToSet
  <2> QED
    BY <1>1, <1>3, <1>6, <2>1 DEF SearchInv, Listed
<1> QED
  BY <1>3, <1>4, <1>5, <1>7, <1>8, <1>9 DEF SearchInv

(* When the search ends by itself, it has visited and left everything that *)
(* can be reached, and met every cycle.                                    *)
LEMMA FinishMeets ==
  ASSUME SearchInv, path = <<>>, nodes \subseteq visited, NEW c \in AllCycles
  PROVE  Meets(c)
<1>1. recStack = {} /\ Left = visited
  BY DEF SearchInv, Stack, Left
<1>2. visited \in SUBSET Names
  BY DEF SearchInv, TypeOK
<1>3. ASSUME NEW e \in edges, e.from \in visited
      PROVE  e.to \in visited
  BY <1>1, <1>3 DEF SearchInv, Looked
<1>4. \A n \in visited : \A m : Joined(n, m) => m \in visited
  BY <1>2, <1>3 DEF Joined
<1>5. c[1] \in visited /\ 1 \in DOMAIN c
  BY <1>4, CycleFacts
<1>6. \A i \in DOMAIN c : c[i] \in visited
  BY <1>4, <1>5, AlongCycle
<1>7. ToSet(c) \subseteq Left
  BY <1>1, <1>6 DEF ToSet
<1> QED
  BY <1>7 DEF SearchInv, Listed

LEMMA MeetsInKnot ==
  ASSUME SearchInv, NEW c \in AllCycles, Meets(c)
  PROVE  \E d \in cycles : Joined(c[1], d[1]) /\ Joined(d[1], c[1])
<1>1. PICK d \in cycles : ToSet(c) \cap ToSet(d) # {}
  BY DEF Meets
<1>2. d \in AllCycles
  BY DEF SearchInv, Listed
<1>3. PICK i \in DOMAIN c, j \in DOMAIN d : c[i] = d[j]
  BY <1>1 DEF ToSet
<1>4. 1 \in DOMAIN c /\ 1 \in DOMAIN d
  BY <1>2, CycleFacts
<1>5. Joined(c[1], c[i]) /\ Joined(c[i], c[1])
  BY <1>4, AlongCycle
<1>6. Joined(d[1], d[j]) /\ Joined(d[j], d[1])
  BY <1>2, <1>4, AlongCycle
<1> QED
  BY <1>3, <1>5, <1>6, JoinedFacts

LEMMA FinishAnswers ==
  ASSUME SearchInv, Finish
  PROVE  GraphInv'
<1>1. /\ search \in Searches /\ path = <<>> /\ nodes \subseteq visited
      /\ Return(search, FALSE)
  BY DEF Finish, SearchInv, TypeOK
<1>2. SearchInv' /\ AllCycles' = AllCycles
  BY <1>1, ReturnKeeps
<1>3. /\ answered' = search /\ found' = FALSE /\ cycles' = cycles
      /\ edges' = edges /\ nodes' = nodes
  BY <1>1 DEF Return, graph
<1>4. HasCycleIsExact'
  <2>1. search = "HasCycle" => AllCycles = {}
    BY <1>1, FinishMeets DEF SearchInv, Searching, Meets
  <2> QED
    BY <1>2, <1>3, <2>1 DEF HasCycleIsExact
<1>5. CyclesInEveryKnot'
  <2>1. cycles \subseteq AllCycles
    BY DEF SearchInv, Listed
  <2>2. \A c \in AllCycles :
          \E d \in cycles : Joined(c[1], d[1]) /\ Joined(d[1], c[1])
    BY <1>1, FinishMeets, MeetsInKnot
  <2>3. \A n, m : Joined(n, m)' <=> Joined(n, m)
    BY <1>3, SameCycles
  <2> QED
    BY <1>2, <1>3, <2>1, <2>2, <2>3 DEF CyclesInEveryKnot
<1> QED
  BY <1>2, <1>4, <1>5 DEF GraphInv

LEMMA FollowKeeps ==
  ASSUME SearchInv, NEW e \in Edge, Follow(e)
  PROVE  GraphInv'
<1>1. path # <<>> /\ e \in todo[Last(path)]
  BY DEF Follow
<1>2. search # "none" /\ answered = "none" /\ search \in Searches
  BY <1>1 DEF SearchInv, Searching, NoFrame, TypeOK
<1>3. e \in edges /\ e.from = Last(path) /\ e.to \in Names /\ e.from \in Names
  BY <1>1, PathFacts DEF SearchInv, Looked, Edge
<1>4. answered' = "none" /\ SearchInv' => GraphInv'
  BY DEF GraphInv, HasCycleIsExact, CyclesInEveryKnot
<1> DEFINE now == [todo EXCEPT ![e.from] = @ \ {e}]
<1>5. now \in [Names -> SUBSET Edge] /\ \A m \in Names : now[m] \subseteq todo[m]
  BY <1>3 DEF SearchInv, TypeOK
<1>6. CASE e.to \notin visited /\ Visit(e.to, now)
  <2>1. Leads(Last(path), e.to)
    BY <1>3 DEF Leads
  <2>2. ASSUME NEW e2 \in edges, e2.from \in visited, e2 \notin now[e2.from]
        PROVE  e2 \notin todo[e2.from] \/ (e2.from = Last(path) /\ e2.to = e.to)
    BY <1>3, <2>2 DEF SearchInv, TypeOK
  <2>3. SearchInv'
    <3> HIDE DEF now
    <3> QED
      BY <1>1, <1>2, <1>3, <1>5, <1>6, <2>1, <2>2, VisitKeeps
  <2> QED
    BY <1>2, <1>4, <1>6, <2>3 DEF Visit, result
<1>7. CASE e.to \in recStack /\ Close(e)
  <2>1. /\ CycleTo(e.to) \in AllCycles
        /\ e.from \in ToSet(CycleTo(e.to)) /\ e.to \in ToSet(CycleTo(e.to))
    BY <1>1, <1>7, BackIsCycle
  <2>2. CASE search = "HasCycle" /\ Return("HasCycle", TRUE)
    <3>1. SearchInv' /\ AllCycles' = AllCycles
      BY <2>2, ReturnKeeps DEF Searches
    <3>2. HasCycleIsExact' /\ CyclesInEveryKnot'
      BY <2>1, <2>2, <3>1 DEF HasCycleIsExact, CyclesInEveryKnot, Return
    <3> QED
      BY <3>1, <3>2 DEF GraphInv
  <2>3. CASE /\ search = "FindCycles"
             /\ cycles' = cycles \cup {CycleTo(e.to)}
             /\ todo' = now
             /\ UNCHANGED <<graph, search, visited, recStack, path, answered, found, calls>>
    <3>1. cycles \subseteq cycles' /\ cycles' \subseteq AllCycles
      BY <2>1, <2>3 DEF SearchInv, Listed
    <3>2. InOneCycle(e.from, e.to)'
      BY <2>1, <2>3 DEF InOneCycle
    <3>3. e.to \in visited
      BY <1>7, PathFacts
    <3>4. SearchInv'
      BY <1>1, <1>2, <2>3, <3>1, <3>2, <3>3, StrikeOff
    <3> QED
      BY <1>2, <1>4, <2>3, <3>4
  <2> QED
    BY <1>7, <2>2, <2>3 DEF Close
<1>8. CASE /\ e.to \in visited \ recStack
           /\ todo' = now
           /\ UNCHANGED <<graph, search, visited, recStack, path, result, calls>>
  <2>1. cycles' = cycles /\ answered' = answered /\ found' = found
    BY <1>8 DEF result
  <2>2. cycles \subseteq AllCycles /\ e.to \in Left
    BY <1>8 DEF SearchInv, Listed, Left
  <2>3. SearchInv'
    BY <1>1, <1>2, <1>8, <2>1, <2>2, StrikeOff
  <2> QED
    BY <1>2, <1>4, <2>1, <2>3
<1> QED
  BY <1>6, <1>7, <1>8 DEF Follow

(* Before a search has taken a step.                                       *)
LEMMA StartKeeps ==
  ASSUME TypeOK', NoFrame', cycles' = {}, search' # "none" => answered' = "none"
  PROVE  SearchInv'
<1>1. DOMAIN path' = {} /\ Left' = {}
  BY DEF NoFrame, Left
<1>2. Searching'
  BY DEF Searching
<1>3. Stack' /\ Reached'
  BY <1>1 DEF NoFrame, Stack, Reached
<1>4. Looked'
  BY <1>1 DEF NoFrame, Looked
<1>5. Listed'
  <2>1. ASSUME NEW c \in AllCycles'
        PROVE  ToSet(c) # {}
    <3>1. c # <<>> /\ c \in SeqOf(Names, Cardinality(Names))
      BY <2>1 DEF AllCycles
    <3>2. Cardinality(Names) \in Nat
      BY GraphAssumption, FS_CardinalityType
    <3>3. PICK m \in 0..Cardinality(Names) : c \in [1..m -> Names]
      BY <3>1 DEF SeqOf
    <3>4. c \in Seq(Names)
      BY <3>2, <3>3
    <3>5. 1 \in DOMAIN c
      BY <3>1, <3>4
    <3> QED
      BY <3>5 DEF ToSet
  <2> QED
    BY <1>1, <2>1 DEF Listed
<1> QED
  BY <1>2, <1>3, <1>4, <1>5 DEF SearchInv

LEMMA FreshKeeps ==
  ASSUME TypeOK', NoFrame', cycles' = {}, answered' = "none"
  PROVE  GraphInv'
BY StartKeeps DEF GraphInv, HasCycleIsExact, CyclesInEveryKnot

LEMMA InitHolds == Init => GraphInv
<1>1. SUFFICES ASSUME Init PROVE GraphInv
  OBVIOUS
<1>2. TypeOK
  <2>1. path \in Seq(Names) /\ todo \in [Names -> SUBSET Edge]
    BY <1>1 DEF Init, NoFrame
  <2>2. /\ staticReads \in [Names -> SUBSET Keys]
        /\ staticWrites \in [Names -> SUBSET Keys]
    BY <1>1 DEF Init
  <2> QED
    BY <1>1, <2>1, <2>2 DEF Init, NoFrame, TypeOK
<1>3. Searching
  BY <1>1 DEF Init, Searching
<1>4. DOMAIN path = {} /\ Left = {}
  BY <1>1 DEF Init, NoFrame, Left
<1>5. Stack /\ Reached
  BY <1>1, <1>4 DEF Init, NoFrame, Stack, Reached
<1>6. Looked
  BY <1>1, <1>4 DEF Init, NoFrame, Looked
<1>7. Listed
  <2>1. ASSUME NEW c \in AllCycles
        PROVE  ToSet(c) # {}
    <3>1. 1 \in DOMAIN c
      BY CycleFacts
    <3> QED
      BY <3>1 DEF ToSet
  <2> QED
    BY <1>1, <1>4, <2>1 DEF Init, Listed
<1> QED
  BY <1>1, <1>2, <1>3, <1>5, <1>6, <1>7
     DEF Init, GraphInv, SearchInv, HasCycleIsExact, CyclesInEveryKnot

LEMMA StutterKeeps ==
  ASSUME GraphInv, UNCHANGED vars
  PROVE  GraphInv'
<1>1. /\ UNCHANGED <<graph, search, visited, recStack, path, todo>>
      /\ UNCHANGED <<cycles, answered, found>>
      /\ edges' = edges /\ nodes' = nodes
  BY DEF vars, graph, frame, result
<1>2. AllCycles' = AllCycles /\ \A n, m : Joined(n, m)' <=> Joined(n, m)
  BY <1>1, SameCycles
<1>3. TypeOK' /\ Searching'
  BY <1>1 DEF GraphInv, SearchInv, TypeOK, Searching, NoFrame, graph
<1>4. Stack' /\ Reached' /\ Looked' /\ Listed'
  <2>1. Left' = Left
    BY <1>1 DEF Left
  <2>2. Stack'
    BY <1>1 DEF GraphInv, SearchInv, Stack, Leads
  <2>3. Reached'
    BY <1>1, <1>2 DEF GraphInv, SearchInv, Reached
  <2>4. Looked'
    BY <1>1, <2>1 DEF GraphInv, SearchInv, Looked, Down, InOneCycle
  <2>5. Listed'
    BY <1>1, <1>2, <2>1 DEF GraphInv, SearchInv, Listed, Meets
  <2> QED
    BY <2>2, <2>3, <2>4, <2>5
<1>5. HasCycleIsExact' /\ CyclesInEveryKnot'
  BY <1>1, <1>2 DEF GraphInv, HasCycleIsExact, CyclesInEveryKnot
<1> QED
  BY <1>3, <1>4, <1>5 DEF GraphInv, SearchInv

LEMMA NextKeeps ==
  ASSUME GraphInv, [Next]_vars
  PROVE  GraphInv'
<1>1. SearchInv /\ TypeOK /\ (search = "none" => NoFrame)
  BY DEF GraphInv, SearchInv, Searching
<1>2. ASSUME NEW n \in Nat, Change(n), TypeOK'
      PROVE  GraphInv'
  BY <1>1, <1>2, FreshKeeps DEF Change, frame, NoFrame
<1>3. ASSUME NEW n \in Names, NEW k \in Keys, AddRead(n, k) \/ AddWrite(n, k)
      PROVE  GraphInv'
  <2>1. TypeOK' /\ Change(1)
    BY <1>1, <1>3 DEF AddRead, AddWrite, Change, frame, TypeOK
  <2> QED
    BY <1>2, <2>1
<1>4. ASSUME NEW n \in Names, AddTemplate(n)
      PROVE  GraphInv'
  <2>1. TypeOK' /\ Change(0)
    BY <1>1, <1>4 DEF AddTemplate, Change, frame, TypeOK
  <2> QED
    BY <1>2, <2>1
<1>5. ASSUME NEW e \in Edge, AddEdge(e)
      PROVE  GraphInv'
  <2>1. TypeOK' /\ Change(1)
    BY <1>1, <1>5 DEF AddEdge, Change, frame, TypeOK
  <2> QED
    BY <1>2, <2>1
<1>6. CASE BuildFromTemplates
  <2>1. TypeOK' /\ Change(0)
    BY <1>1, <1>6 DEF BuildFromTemplates, Dependencies, Change, frame, TypeOK
  <2> QED
    BY <1>2, <2>1
<1>7. ASSUME NEW s \in Searches, Start(s)
      PROVE  GraphInv'
  <2>1. NoFrame /\ search' = s /\ cycles' = {} /\ answered' = "none" /\ found' = FALSE
        /\ UNCHANGED <<graph, frame>>
    BY <1>1, <1>7 DEF Start
  <2>2. TypeOK' /\ NoFrame'
    BY <1>1, <2>1 DEF TypeOK, NoFrame, graph, frame
  <2>3. SearchInv'
    BY <1>1, <2>1, <2>2, StartKeeps
  <2> QED
    BY <2>1, <2>3 DEF GraphInv, HasCycleIsExact, CyclesInEveryKnot
<1>8. ASSUME NEW n \in Names, VisitRoot(n)
      PROVE  GraphInv'
  <2>1. /\ search # "none" /\ path = <<>> /\ n \in nodes \ visited /\ Visit(n, todo)
        /\ todo \in [Names -> SUBSET Edge]
    BY <1>1, <1>8 DEF VisitRoot, TypeOK
  <2>2. SearchInv'
    BY <1>1, <2>1, VisitKeeps
  <2>3. answered' = "none"
    BY <1>1, <2>1 DEF Visit, result, SearchInv, Searching
  <2> QED
    BY <2>2, <2>3 DEF GraphInv, HasCycleIsExact, CyclesInEveryKnot
<1>9. CASE Leave
  <2>1. search # "none"
    BY <1>1, <1>9 DEF Leave, NoFrame
  <2>2. SearchInv'
    BY <1>1, <1>9, <2>1, LeaveKeeps
  <2>3. answered' = "none"
    BY <1>1, <1>9, <2>1 DEF Leave, result, SearchInv, Searching
  <2> QED
    BY <2>2, <2>3 DEF GraphInv, HasCycleIsExact, CyclesInEveryKnot
<1>10. CASE UNCHANGED vars
  BY <1>10, StutterKeeps
<1> QED
  BY <1>1, <1>3, <1>4, <1>5, <1>6, <1>7, <1>8, <1>9, <1>10, FollowKeeps, FinishAnswers
     DEF Next

(* The inductive invariant of building and searching.                      *)
THEOREM GraphInvariant == Spec => []GraphInv
<1>1. Init => GraphInv
  BY InitHolds
<1> QED
  BY <1>1, NextKeeps, PTL DEF Spec

(* dependency.go "HasCycle detects if there is a cycle": whatever the      *)
(* order of the maps, it answers whether one can be reached.               *)
THEOREM CycleFound == Spec => []HasCycleIsExact
<1>1. GraphInv => HasCycleIsExact
  BY DEF GraphInv
<1> QED
  BY <1>1, GraphInvariant, PTL

(* FindCycles lists cycles only, and one in every knot of them.            *)
THEOREM KnotsFound == Spec => []CyclesInEveryKnot
<1>1. GraphInv => CyclesInEveryKnot
  BY DEF GraphInv
<1> QED
  BY <1>1, GraphInvariant, PTL

LEMMA ConflictIsCycle ==
  ASSUME TypeOK, edges = Dependencies, NEW t \in nodes, NEW u \in nodes, t # u,
         NEW k \in staticWrites[t] \cap (staticReads[u] \cup staticWrites[u])
  PROVE  AllCycles # {}
<1>1. t \in Names /\ u \in Names /\ k \in Keys
  BY DEF TypeOK
<1>2. Leads(t, u) /\ Leads(u, t)
  <2>1. ASSUME NEW e \in Edge, e \in Dependencies
        PROVE  Leads(e.from, e.to)
    BY <2>1 DEF Leads
  <2> DEFINE Dep(a, b, y) == [from |-> a, to |-> b, type |-> y, key |-> k]
  <2>2. \A a, b \in Names, y \in Types : Dep(a, b, y) \in Edge
    BY <1>1 DEF Edge
  <2>3. CASE k \in staticReads[u]
    <3>1. Dep(t, u, "WR") \in Dependencies /\ Dep(u, t, "RW") \in Dependencies
      BY <1>1, <2>2, <2>3 DEF Dependencies, Types
    <3> QED
      BY <1>1, <2>1, <2>2, <3>1 DEF Types
  <2>4. CASE k \in staticWrites[u]
    <3>1. Dep(t, u, "WW") \in Dependencies /\ Dep(u, t, "WW") \in Dependencies
      BY <1>1, <2>2, <2>4 DEF Dependencies, Types
    <3> QED
      BY <1>1, <2>1, <2>2, <3>1 DEF Types
  <2> QED
    BY <2>3, <2>4
<1> DEFINE c == <<t, u>>
<1>3. c \in Seq(Names) /\ Len(c) = 2 /\ c[1] = t /\ c[2] = u /\ c # <<>>
  BY <1>1
<1>4. \A i, j \in DOMAIN c : c[i] = c[j] => i = j
  BY <1>3
<1>5. \A i \in 1..Len(c) : i < Len(c) => Leads(c[i], c[i + 1])
  BY <1>2, <1>3
<1>6. Joined(t, c[1]) /\ Leads(c[Len(c)], c[1])
  BY <1>2, <1>3, JoinedSelf
<1> HIDE DEF c
<1>7. c \in AllCycles
  BY <1>3, <1>4, <1>5, <1>6, MakeCycle
<1> QED
  BY <1>7

LEMMA CycleHasConflict ==
  ASSUME edges = Dependencies, NEW c \in AllCycles
  PROVE  \E t, u \in nodes :
           /\ t # u
           /\ staticWrites[t] \cap (staticReads[u] \cup staticWrites[u]) # {}
<1>1. PICK e \in edges : TRUE
  BY CycleFacts DEF Leads
<1> QED
  BY <1>1 DEF Dependencies

(* On a graph built from templates, HasCycle answers whether two of them   *)
(* use a key that one of them writes.                                      *)
THEOREM CyclesAreConflicts == Spec => []CycleIsConflict
<1>1. GraphInv => CycleIsConflict
  <2>1. SUFFICES ASSUME GraphInv, answered = "HasCycle", edges = Dependencies
                 PROVE  found <=> \E t, u \in nodes :
                          /\ t # u
                          /\ staticWrites[t] \cap (staticReads[u] \cup staticWrites[u]) # {}
    BY DEF CycleIsConflict
  <2>2. found <=> AllCycles # {}
    BY <2>1 DEF GraphInv, HasCycleIsExact
  <2>3. TypeOK
    BY <2>1 DEF GraphInv, SearchInv
  <2> QED
    BY <2>1, <2>2, <2>3, ConflictIsCycle, CycleHasConflict
<1> QED
  BY <1>1, GraphInvariant, PTL
=============================================================================
