------------------------ MODULE TraceAssembly_proofs ------------------------
(* Proofs about TraceAssembly, for every number of cases, every candidate    *)
(* graph, every limit and every bound.                                       *)
(*                                                                           *)
(* The argument.  Answers are shaped like their tasks, whether they come     *)
(* from the model, a fallback or a checkpoint (CheckpointsFit), so what the  *)
(* main thread combines is: a cannot edge leaves the decision only through   *)
(* an accepted consistency review (CannotsKept) because a bridge is a        *)
(* possible edge (BridgesArePossible).  The union loop keeps two facts about *)
(* the edges behind it: the components are sound, and what it left apart     *)
(* stays impossible to join, because blocks only grow and a cannot edge      *)
(* between two blocks follows them (SplitsForced).  The traces are then      *)
(* parts of blocks, disjoint from each other, from the standalone cases and  *)
(* from the components still open (PhasesApart).                             *)
(*                                                                           *)
(* Replays.  A key is written only while nothing is saved under it (OneEach) *)
(* and what is saved stays (Retains).  The result of the union loop is a     *)
(* function of the decision (BuiltFrom), so a run without trouble ends with  *)
(* a function of the disk (ResultOn), and a later run asks nothing new.      *)
(*                                                                           *)
(* The end of a run.  It is never stuck (NeverStuck) and every step but a    *)
(* new run takes something off a finite stock (RunsGoDown).                  *)
EXTENDS TraceAssembly, FiniteSetTheorems, TLAPS

USE DEF Reviewing, Building, Decision, Verdict

Built == stage \in {"components", "bridge", "final", "phase", "outcome", "done"}

\* Why the two labels of a must edge stay apart.
Forced(c, d, k, l) ==
    \/ \E f \in EdgesOf(d, "cannot_link") : {c[f[1]], c[f[2]]} = {k, l}
    \/ Cardinality(Block(c, k) \cup Block(c, l)) > Limit

\* The output o of the input i of a task of stage s.
Shape(s, i, o) ==
    /\ s = "link" => o \in [i -> Decision]
    /\ s = "consistency" => o \subseteq i[1]
    /\ s = "bridge" => o \in [i[3] -> Verdict]
    /\ s = "phase" => o \in Partitions(i[1])
    /\ s = "outcome" => o \subseteq i

CheckpointsFit ==
    /\ checkpoint = [s \in Reviewing |-> checkpoint[s]]
    /\ \A s \in Reviewing : \A x \in checkpoint[s] : Shape(s, x[1], x[2])

LinkOpen ==
    stage = "link" =>
        /\ verdict \in [Edge -> Decision \cup {None}]
        /\ \A t \in DOMAIN todo : t \subseteq Edge
        /\ weak = {} /\ trouble \subseteq {"link"}

OneReview ==
    /\ stage = "consistency" =>
        /\ \A t \in DOMAIN todo : t \subseteq EdgesOf(decision, "cannot_link")
        /\ \A t, u \in DOMAIN todo : t = u
        /\ DOMAIN todo # {} => weak = {} /\ "consistency" \notin trouble
    /\ "consistency" \in trouble => weak = {}

CannotsKept ==
    stage # "link" =>
        \A e \in Edge : linked[e] = "cannot_link" =>
                            decision[e] = "cannot_link" \/ e \in weak

BridgesArePossible ==
    stage = "bridge" =>
        /\ \A t \in DOMAIN todo : t \subseteq EdgesOf(decision, "possible_link")
        /\ \A e \in Edge : verdict[e] # None =>
               verdict[e] \in Verdict /\ decision[e] = "possible_link"

SoundBlocks == Built => Sound(comp, decision)

SplitsForced ==
    Built =>
        /\ queue \subseteq EdgesOf(decision, "must_link")
        /\ stage \notin Building => queue = {}
        /\ downgraded \cap queue = {}
        /\ \A e \in EdgesOf(decision, "must_link") \ queue :
               IF comp[e[1]] = comp[e[2]] THEN e \notin downgraded
               ELSE e \in downgraded
                    /\ Forced(comp, decision, comp[e[1]], comp[e[2]])

PhasesApart ==
    stage = "phase" =>
        /\ \A t \in DOMAIN todo : \E k \in Case : t = Block(comp, k)
        /\ \A t, u \in DOMAIN todo : t = u \/ t \cap u = {}
        /\ \A t \in DOMAIN todo : t \cap standalone = {}
                                  /\ \A T \in traces : t \cap T = {}
        /\ client => Case = (UNION traces) \cup standalone \cup (UNION DOMAIN todo)

TracesInBlocks ==
    /\ \A T \in traces : \E k \in Case : T \subseteq Block(comp, k)
    /\ \A T \in traces : T \cap standalone = {}
    /\ \A T, U \in traces : T = U \/ T \cap U = {}
    /\ ~Assembled => traces = {} /\ standalone = {}

AllAssigned ==
    stage \in {"outcome", "done"} =>
        /\ client => Unassigned = {}
        /\ \A t \in DOMAIN todo : t = traces

AllDecided ==
    stage # "link" /\ "link" \notin trouble =>
        \A e \in Edge : decision[e] # None

IInv ==
    /\ TypeOK /\ CheckpointsFit
    /\ LinkOpen /\ OneReview /\ CannotsKept /\ BridgesArePossible
    /\ SoundBlocks /\ SplitsForced
    /\ PhasesApart /\ TracesInBlocks /\ AllAssigned /\ AllDecided
-----------------------------------------------------------------------------
(* Blocks                                                                   *)

Labels == [Case -> Case]

LEMMA CasesFinite == IsFiniteSet(Case) /\ \A S \in SUBSET Case : IsFiniteSet(S)
  <1>1. IsFiniteSet(1..NCase)
    BY CaseAssumption, FS_Interval
  <1> QED
    BY <1>1, FS_Subset DEF Case

LEMMA EdgeEnds ==
    \A e \in Edge : e[1] \in Case /\ e[2] \in Case /\ e[1] # e[2]
  BY EdgeAssumption DEF Case

LEMMA BlockFinite ==
    ASSUME NEW c, NEW k
    PROVE  /\ Block(c, k) \subseteq Case
           /\ IsFiniteSet(Block(c, k))
           /\ Cardinality(Block(c, k)) \in Nat
  BY CasesFinite, FS_CardinalityType DEF Block

LEMMA BlocksDisjoint ==
    ASSUME NEW c, NEW k, NEW l
    PROVE  Block(c, k) = Block(c, l) \/ Block(c, k) \cap Block(c, l) = {}
  BY DEF Block

\* Before any union the components are sound.
LEMMA SingletonsSound ==
    ASSUME NEW d
    PROVE  /\ [b \in Case |-> b] \in Labels
           /\ Sound([b \in Case |-> b], d)
  <1> DEFINE c == [b \in Case |-> b]
  <1>1. ASSUME NEW k \in Case
        PROVE  Cardinality(Block(c, k)) <= Limit
    <2>1. Block(c, k) = {k}
      BY DEF Block
    <2> QED
      BY <2>1, FS_Singleton, BoundAssumption
  <1>2. \A e \in EdgesOf(d, "cannot_link") : c[e[1]] # c[e[2]]
    BY EdgeEnds DEF EdgesOf
  <1> QED
    BY <1>1, <1>2 DEF Sound, Labels

\* What a union does to the labels...
LEMMA UnionLabels ==
    ASSUME NEW c \in Labels, NEW k \in Case, NEW l \in Case
    PROVE  /\ Union(c, k, l) \in Labels
           /\ \A a, b \in Case : c[a] = c[b] => Union(c, k, l)[a] = Union(c, k, l)[b]
  BY DEF Union, Labels

LEMMA UnionJoins ==
    ASSUME NEW c \in Labels, NEW k \in Case, NEW l \in Case,
           NEW a \in Case, NEW b \in Case,
           Union(c, k, l)[a] = Union(c, k, l)[b], c[a] # c[b]
    PROVE  \/ c[a] = k /\ c[b] = l
           \/ c[a] = l /\ c[b] = k
  <1> DEFINE keep == IF k < l THEN k ELSE l
  <1>1. keep \in {k, l}
    OBVIOUS
  <1>2. Union(c, k, l) = [x \in Case |-> IF c[x] \in {k, l} THEN keep ELSE c[x]]
    BY DEF Union
  <1> HIDE DEF keep
  <1>3. (IF c[a] \in {k, l} THEN keep ELSE c[a]) = (IF c[b] \in {k, l} THEN keep ELSE c[b])
    BY <1>2
  <1>4. c[a] \in {k, l} /\ c[b] \in {k, l}
    BY <1>1, <1>3
  <1> QED
    BY <1>4

\* ... and to the blocks.
LEMMA UnionBlocks ==
    ASSUME NEW c \in Labels, NEW k \in Case, NEW l \in Case, NEW j \in Case
    PROVE  \/ Block(Union(c, k, l), j) = Block(c, j)
           \/ Block(Union(c, k, l), j) = {}
           \/ Block(Union(c, k, l), j) = Block(c, k) \cup Block(c, l)
  <1> DEFINE keep == IF k < l THEN k ELSE l
             u == Union(c, k, l)
  <1>1. keep \in {k, l}
    OBVIOUS
  <1>2. u = [x \in Case |-> IF c[x] \in {k, l} THEN keep ELSE c[x]]
    BY DEF Union
  <1> HIDE DEF keep, u
  <1>3. \A b \in Case : u[b] = IF c[b] \in {k, l} THEN keep ELSE c[b]
    BY <1>2
  <1>4. j \notin {k, l} => Block(u, j) = Block(c, j)
    BY <1>1, <1>3 DEF Block
  <1>5. j = keep => Block(u, j) = Block(c, k) \cup Block(c, l)
    BY <1>1, <1>3 DEF Block
  <1>6. j \in {k, l} /\ j # keep => Block(u, j) = {}
    BY <1>1, <1>3 DEF Block
  <1> QED
    BY <1>4, <1>5, <1>6 DEF u

\* A union that is allowed keeps the components sound...
LEMMA UnionSound ==
    ASSUME NEW c \in Labels, NEW d, NEW k \in Case, NEW l \in Case,
           Sound(c, d), Blockers(c, d, k, l) = {}, ~TooLarge(c, k, l)
    PROVE  Sound(Union(c, k, l), d)
  <1> DEFINE u == Union(c, k, l)
  <1>1. ASSUME NEW e \in EdgesOf(d, "cannot_link")
        PROVE  u[e[1]] # u[e[2]]
    <2>1. c[e[1]] # c[e[2]] /\ {c[e[1]], c[e[2]]} # {k, l}
      BY DEF Sound, Blockers
    <2>2. e[1] \in Case /\ e[2] \in Case
      BY EdgeEnds DEF EdgesOf
    <2>3. SUFFICES ASSUME u[e[1]] = u[e[2]] PROVE FALSE
      OBVIOUS
    <2>4. \/ c[e[1]] = k /\ c[e[2]] = l
          \/ c[e[1]] = l /\ c[e[2]] = k
      BY <2>1, <2>2, <2>3, UnionJoins
    <2> QED
      BY <2>1, <2>4
  <1>2. ASSUME NEW j \in Case
        PROVE  Cardinality(Block(u, j)) <= Limit
    <2>1. CASE Block(u, j) = Block(c, j)
      BY <2>1 DEF Sound
    <2>2. CASE Block(u, j) = {}
      BY <2>2, FS_EmptySet, BoundAssumption
    <2>3. CASE Block(u, j) = Block(c, k) \cup Block(c, l)
      <3>1. Cardinality(Block(c, k)) + Cardinality(Block(c, l)) <= Limit
        BY BlockFinite, BoundAssumption DEF TooLarge
      <3>2. Cardinality(Block(c, k) \cup Block(c, l))
              = Cardinality(Block(c, k)) + Cardinality(Block(c, l))
                  - Cardinality(Block(c, k) \cap Block(c, l))
        BY BlockFinite, FS_Union
      <3>3. Cardinality(Block(c, k) \cap Block(c, l)) \in Nat
        BY CasesFinite, FS_CardinalityType DEF Block
      <3>4. Cardinality(Block(c, k)) \in Nat /\ Cardinality(Block(c, l)) \in Nat
        BY BlockFinite
      <3> QED
        BY <2>3, <3>1, <3>2, <3>3, <3>4, BoundAssumption
    <2> QED
      BY <2>1, <2>2, <2>3, UnionBlocks
  <1> QED
    BY <1>1, <1>2 DEF Sound

\* ... and what had to stay apart still has to.
LEMMA UnionForced ==
    ASSUME NEW c \in Labels, NEW d, NEW k \in Case, NEW l \in Case,
           Blockers(c, d, k, l) = {}, ~TooLarge(c, k, l), k # l,
           NEW a \in Case, NEW b \in Case, c[a] # c[b],
           Forced(c, d, c[a], c[b])
    PROVE  LET u == Union(c, k, l)
           IN  u[a] # u[b] /\ Forced(u, d, u[a], u[b])
  <1> DEFINE u == Union(c, k, l)
  <1>1. \A x, y \in Case : c[x] = c[y] => u[x] = u[y]
    BY UnionLabels
  <1>2. Block(c, c[a]) \subseteq Block(u, u[a]) /\ Block(c, c[b]) \subseteq Block(u, u[b])
    BY <1>1 DEF Block
  <1>3. {c[a], c[b]} # {k, l}
    <2>1. SUFFICES ASSUME {c[a], c[b]} = {k, l} PROVE FALSE
      OBVIOUS
    <2>2. \/ c[a] = k /\ c[b] = l
          \/ c[a] = l /\ c[b] = k
      BY <2>1
    <2>3. ~ \E f \in EdgesOf(d, "cannot_link") : {c[f[1]], c[f[2]]} = {c[a], c[b]}
      BY <2>1 DEF Blockers
    <2>4. Cardinality(Block(c, k) \cup Block(c, l)) > Limit
      BY <2>2, <2>3 DEF Forced
    <2>5. Cardinality(Block(c, k) \cup Block(c, l))
            = Cardinality(Block(c, k)) + Cardinality(Block(c, l))
                - Cardinality(Block(c, k) \cap Block(c, l))
      BY BlockFinite, FS_Union
    <2>6. Cardinality(Block(c, k) \cap Block(c, l)) \in Nat
      BY CasesFinite, FS_CardinalityType DEF Block
    <2> QED
      BY <2>4, <2>5, <2>6, BlockFinite, BoundAssumption DEF TooLarge
  <1>4. u[a] # u[b]
    <2>1. SUFFICES ASSUME u[a] = u[b] PROVE FALSE
      OBVIOUS
    <2>2. \/ c[a] = k /\ c[b] = l
          \/ c[a] = l /\ c[b] = k
      BY <2>1, UnionJoins
    <2> QED
      BY <1>3, <2>2
  <1>5. CASE \E f \in EdgesOf(d, "cannot_link") : {c[f[1]], c[f[2]]} = {c[a], c[b]}
    <2>1. PICK f \in EdgesOf(d, "cannot_link") : {c[f[1]], c[f[2]]} = {c[a], c[b]}
      BY <1>5
    <2>2. f[1] \in Case /\ f[2] \in Case
      BY EdgeEnds DEF EdgesOf
    <2>3. \/ c[f[1]] = c[a] /\ c[f[2]] = c[b]
          \/ c[f[1]] = c[b] /\ c[f[2]] = c[a]
      BY <2>1
    <2>4. {u[f[1]], u[f[2]]} = {u[a], u[b]}
      BY <2>2, <2>3, <1>1
    <2> QED
      BY <2>4, <1>4 DEF Forced
  <1>6. CASE Cardinality(Block(c, c[a]) \cup Block(c, c[b])) > Limit
    <2>1. Block(c, c[a]) \cup Block(c, c[b]) \subseteq Block(u, u[a]) \cup Block(u, u[b])
      BY <1>2
    <2>2. IsFiniteSet(Block(u, u[a]) \cup Block(u, u[b]))
      BY CasesFinite DEF Block
    <2>3. /\ Cardinality(Block(c, c[a]) \cup Block(c, c[b]))
               <= Cardinality(Block(u, u[a]) \cup Block(u, u[b]))
          /\ Cardinality(Block(c, c[a]) \cup Block(c, c[b])) \in Nat
          /\ Cardinality(Block(u, u[a]) \cup Block(u, u[b])) \in Nat
      BY <2>1, <2>2, FS_Subset, FS_CardinalityType
    <2> QED
      BY <1>6, <2>3, <1>4, BoundAssumption DEF Forced
  <1> QED
    BY <1>5, <1>6 DEF Forced
-----------------------------------------------------------------------------
(* Tasks and answers                                                        *)

LEMMA ChunksInside ==
    ASSUME NEW S
    PROVE  \A t \in Chunks(S) : t \subseteq S
  BY DEF Chunks

LEMMA OpenDomain ==
    ASSUME NEW T
    PROVE  DOMAIN Open(T) = T /\ \A t \in T : Open(T)[t] = 0
  BY DEF Open

LEMMA InitInvariant == Init => IInv
  <1> SUFFICES ASSUME Init PROVE IInv
    OBVIOUS
  <1>1. DOMAIN todo \in {Chunks(Edge), {}} /\ \A t \in DOMAIN todo : todo[t] = 0
    BY OpenDomain DEF Init
  <1>2. \A t \in DOMAIN todo : t \subseteq Edge
    BY <1>1, ChunksInside
  <1>3. comp \in [Case -> Case]
    BY DEF Init
  <1>4. TypeOK
    BY <1>1, <1>3, BoundAssumption DEF Init, TypeOK, Attempts
  <1>5. CheckpointsFit
    BY DEF Init, CheckpointsFit
  <1>6. LinkOpen /\ OneReview /\ AllDecided
    BY <1>2 DEF Init, LinkOpen, OneReview, AllDecided
  <1>7. /\ CannotsKept /\ BridgesArePossible /\ SoundBlocks /\ SplitsForced
        /\ PhasesApart /\ TracesInBlocks /\ AllAssigned
    BY DEF Init, CannotsKept, BridgesArePossible, SoundBlocks, SplitsForced, Built,
           PhasesApart, TracesInBlocks, AllAssigned
  <1> QED
    BY <1>4, <1>5, <1>6, <1>7 DEF IInv

\* An answer of the shape its task asks for.
Fits(t, o) ==
    /\ stage = "link" => o \in [t -> Decision \cup {None}]
    /\ stage = "consistency" => o \subseteq t
    /\ stage = "bridge" => o \in [t -> Verdict]
    /\ stage = "phase" => o = {} \/ o \in Partitions(t)
    /\ stage = "outcome" => o \subseteq t

\* What a task that ends does, however it ends.
Ends(t, o) ==
    /\ Answer(t, o) /\ Fits(t, o)
    /\ \/ trouble' = trouble
       \/ trouble' = trouble \cup {stage} /\ (stage = "consistency" => o = {})
    /\ faults' \in 0..MaxFault

LEMMA AcceptedFits ==
    ASSUME IInv, NEW t \in DOMAIN todo, NEW o \in Accepted(t)
    PROVE  Fits(t, o)
  BY DEF IInv, TypeOK, Accepted, Fits, None

LEMMA WorkerEnds ==
    ASSUME IInv, NEW t \in DOMAIN todo, DecideTask(t)
    PROVE  /\ CheckpointsFit'
           /\ AskAgain(t) \/ \E o : Ends(t, o)
  <1> USE DEF IInv
  <1>0. stage \in Reviewing /\ faults \in 0..MaxFault
    BY DEF TypeOK
  <1>1. CASE ReadCheckpoint(t)
    <2>1. PICK x \in checkpoint[stage] : x[1] = Input(t) /\ Answer(t, x[2])
      BY <1>1 DEF ReadCheckpoint, Known
    <2>2. Shape(stage, Input(t), x[2])
      BY <2>1, <1>0 DEF CheckpointsFit
    <2>4. Fits(t, x[2])
      BY <2>2, <1>0 DEF Shape, Input, Fits
    <2>3. UNCHANGED <<trouble, checkpoint, faults>>
      BY <1>1 DEF ReadCheckpoint
    <2> QED
      BY <2>1, <2>4, <2>3, <1>0 DEF Ends, CheckpointsFit
  <1>2. CASE Accept(t)
    <2>1. PICK o \in Accepted(t) :
            /\ Answer(t, o)
            /\ checkpoint' = [checkpoint EXCEPT ![stage] = @ \cup {<<Input(t), o>>}]
      BY <1>2 DEF Accept
    <2>2. UNCHANGED <<trouble, faults>>
      BY <1>2 DEF Accept
    <2>3. Fits(t, o)
      BY AcceptedFits
    <2>4. Shape(stage, Input(t), o)
      BY <1>0 DEF Shape, Input, Accepted
    <2>5. /\ checkpoint' = [s \in Reviewing |-> checkpoint'[s]]
          /\ \A s \in Reviewing : \A x \in checkpoint'[s] :
                \/ x \in checkpoint[s]
                \/ s = stage /\ x = <<Input(t), o>>
      BY <2>1, <1>0 DEF CheckpointsFit
    <2>6. ASSUME NEW s \in Reviewing, NEW x \in checkpoint'[s]
          PROVE  Shape(s, x[1], x[2])
      <3>1. CASE x \in checkpoint[s]
        BY <3>1 DEF CheckpointsFit
      <3>2. CASE s = stage /\ x = <<Input(t), o>>
        <4>1. x[1] = Input(t) /\ x[2] = o
          BY <3>2
        <4> QED
          BY <3>2, <4>1, <2>4
      <3> QED
        BY <3>1, <3>2, <2>5
    <2>7. CheckpointsFit'
      BY <2>5, <2>6 DEF CheckpointsFit, Shape, Partitions
    <2>8. Ends(t, o)
      BY <2>1, <2>2, <2>3, <1>0 DEF Ends
    <2> QED
      BY <2>7, <2>8
  <1>3. CASE AskAgain(t)
    BY <1>3 DEF AskAgain, CheckpointsFit
  <1>4. CASE GiveUp(t)
    <2>1. PICK o \in Flawed(t) : Answer(t, o) /\ checkpoint' = checkpoint
      BY <1>4 DEF GiveUp, WriteFlawed
    <2>2. trouble' = trouble \cup {stage} /\ faults' \in 0..MaxFault
      BY <1>4, <1>0, BoundAssumption DEF GiveUp, Fault
    <2>3. Fits(t, o) /\ (stage = "consistency" => o = {})
      BY <1>0 DEF Flawed, Fallback, Fits
    <2> QED
      BY <2>1, <2>2, <2>3 DEF Ends, CheckpointsFit
  <1>5. CASE CallFails(t)
    <2>1. Answer(t, Fallback(t)) /\ checkpoint' = checkpoint
      BY <1>5 DEF CallFails
    <2>2. trouble' = trouble \cup {stage} /\ faults' \in 0..MaxFault
      BY <1>5, <1>0, BoundAssumption DEF CallFails, Fault
    <2>3. Fits(t, Fallback(t)) /\ (stage = "consistency" => Fallback(t) = {})
      BY <1>0 DEF Fallback, Fits
    <2> QED
      BY <2>1, <2>2, <2>3 DEF Ends, CheckpointsFit
  <1> QED
    BY <1>1, <1>2, <1>3, <1>4, <1>5 DEF DecideTask
-----------------------------------------------------------------------------
(* The steps of the pool                                                    *)

\* Asking again changes the count of one task only.
LEMMA AskPreserves ==
    ASSUME IInv, NEW t \in DOMAIN todo, AskAgain(t)
    PROVE  IInv'
  <1> USE DEF IInv
  <1>1. /\ DOMAIN todo' = DOMAIN todo
        /\ todo' = [todo EXCEPT ![t] = @ + 1]
        /\ todo[t] + 1 < Attempts[stage]
        /\ UNCHANGED <<stage, verdict, weak, traces, standalone, resolved, trouble>>
        /\ UNCHANGED <<decision, marks, comp, queue, downgraded>>
        /\ UNCHANGED <<checkpoint, client, linked, guarded, settled, faults>>
    BY DEF AskAgain, graph, past
  <1>2. \A u \in DOMAIN todo' : stage \in Reviewing
                                /\ todo'[u] \in 0..(Attempts[stage] - 1)
    <2>1. stage \in Reviewing /\ \A u \in DOMAIN todo : todo[u] \in 0..(Attempts[stage] - 1)
      BY DEF TypeOK
    <2>2. Attempts[stage] \in Nat
      BY <2>1 DEF Attempts
    <2> QED
      BY <1>1, <2>1, <2>2
  <1>3. TypeOK'
    BY <1>1, <1>2 DEF TypeOK
  <1>4. CheckpointsFit'
    BY <1>1 DEF CheckpointsFit
  <1>5. /\ LinkOpen' /\ OneReview' /\ CannotsKept' /\ BridgesArePossible'
        /\ SoundBlocks' /\ AllDecided'
    BY <1>1 DEF LinkOpen, OneReview, CannotsKept, BridgesArePossible, SoundBlocks,
                AllDecided, Built
  <1>6. SplitsForced' /\ PhasesApart' /\ AllAssigned'
    BY <1>1 DEF SplitsForced, PhasesApart, AllAssigned, Built, Unassigned
  <1>7. TracesInBlocks'
    BY <1>1 DEF TracesInBlocks, Assembled
  <1> QED
    BY <1>3, <1>4, <1>5, <1>6, <1>7

\* A task that ends adds its answer and nothing else.
LEMMA EndsPreserves ==
    ASSUME IInv, CheckpointsFit', NEW t \in DOMAIN todo, NEW o, Ends(t, o)
    PROVE  IInv'
  <1> USE DEF IInv
  <1>0. stage \in Reviewing
    BY DEF TypeOK
  <1>1. /\ stage' = stage
        /\ todo' = [u \in (DOMAIN todo) \ {t} |-> todo[u]]
        /\ verdict' = IF stage \in {"link", "bridge"}
                      THEN [e \in Edge |-> IF e \in t THEN o[e] ELSE verdict[e]]
                      ELSE verdict
        /\ weak' = IF stage = "consistency" THEN o ELSE weak
        /\ traces' = IF stage = "phase" THEN traces \cup o ELSE traces
        /\ standalone' = IF stage = "phase" /\ o = {}
                         THEN standalone \cup t ELSE standalone
        /\ resolved' = IF stage = "outcome" THEN o ELSE resolved
        /\ UNCHANGED <<decision, marks, comp, queue, downgraded>>
        /\ UNCHANGED <<client, linked, guarded, settled>>
    BY DEF Ends, Answer, graph, past
  <1>2. DOMAIN todo' = (DOMAIN todo) \ {t}
    BY <1>1
  <1>3. Fits(t, o)
    BY DEF Ends
  <1>4. /\ \/ trouble' = trouble
           \/ trouble' = trouble \cup {stage} /\ (stage = "consistency" => o = {})
        /\ faults' \in 0..MaxFault
    BY DEF Ends
  <1>5. stage = "consistency" => o \subseteq EdgesOf(decision, "cannot_link")
    BY <1>3 DEF Fits, OneReview
  <1>6. stage = "phase" => /\ t \subseteq Case
                           /\ UNION o \subseteq t
                           /\ o = {} \/ UNION o = t
                           /\ \A A, B \in o : A = B \/ A \cap B = {}
    BY <1>3, BlockFinite DEF Fits, Partitions, PhasesApart
  <1>7. TypeOK'
    <2>1. verdict' \in [Edge -> Decision \cup Verdict \cup {None}]
      BY <1>1, <1>3, <1>0 DEF TypeOK, Fits
    <2>2. weak' \subseteq Edge
      BY <1>1, <1>5 DEF TypeOK, EdgesOf
    <2>3. traces' \subseteq SUBSET Case /\ standalone' \subseteq Case
      BY <1>1, <1>6 DEF TypeOK
    <2>4. resolved' \subseteq SUBSET Case
      BY <1>1, <1>3 DEF TypeOK, Fits, AllAssigned
    <2>5. \A u \in DOMAIN todo' : stage' \in Reviewing
                                  /\ todo'[u] \in 0..(Attempts[stage'] - 1)
      BY <1>1, <1>2 DEF TypeOK
    <2>6. trouble' \subseteq Reviewing \cup Building
      BY <1>0, <1>4 DEF TypeOK
    <2> QED
      BY <1>1, <1>4, <2>1, <2>2, <2>3, <2>4, <2>5, <2>6 DEF TypeOK
  <1>8. LinkOpen'
    BY <1>1, <1>2, <1>3, <1>4 DEF LinkOpen, Fits
  <1>9. OneReview'
    <2>1. CASE stage = "consistency"
      <3>1. DOMAIN todo' = {}
        BY <2>1, <1>2 DEF OneReview
      <3>2. "consistency" \notin trouble
        BY <2>1 DEF OneReview
      <3>3. "consistency" \in trouble' => o = {}
        BY <1>4, <3>2, <2>1
      <3> QED
        BY <2>1, <1>1, <3>1, <3>3 DEF OneReview
    <2>2. CASE stage # "consistency"
      BY <2>2, <1>1, <1>4, <1>0 DEF OneReview
    <2> QED
      BY <2>1, <2>2
  <1>10. CannotsKept'
    <2>1. CASE stage = "consistency"
      <3>1. weak = {}
        BY <2>1 DEF OneReview
      <3> QED
        BY <2>1, <3>1, <1>1 DEF CannotsKept
    <2>2. CASE stage # "consistency"
      BY <2>2, <1>1 DEF CannotsKept
    <2> QED
      BY <2>1, <2>2
  <1>11. BridgesArePossible'
    BY <1>1, <1>2, <1>3 DEF BridgesArePossible, Fits, EdgesOf
  <1>12. SoundBlocks' /\ SplitsForced' /\ AllDecided'
    BY <1>1, <1>4, <1>0 DEF SoundBlocks, SplitsForced, AllDecided, Built
  <1>13. PhasesApart'
    <2>1. CASE stage = "phase"
      <3>1. /\ traces' = traces \cup o
            /\ standalone' = IF o = {} THEN standalone \cup t ELSE standalone
        BY <2>1, <1>1
      <3>2. \A u \in DOMAIN todo' : u \in DOMAIN todo /\ u \cap t = {}
        BY <1>2, <2>1 DEF PhasesApart
      <3>3. \A u \in DOMAIN todo' : u \cap standalone' = {}
                                    /\ \A T \in traces' : u \cap T = {}
        BY <3>1, <3>2, <2>1, <1>6 DEF PhasesApart
      <3>4. \A x \in UNION DOMAIN todo : x \in t \/ x \in UNION DOMAIN todo'
        BY <1>2
      <3>5. \A x \in t : x \in (UNION traces') \cup standalone'
        BY <3>1, <2>1, <1>6
      <3>6. client' => Case = (UNION traces') \cup standalone' \cup (UNION DOMAIN todo')
        <4>1. SUFFICES ASSUME client
              PROVE  Case = (UNION traces') \cup standalone' \cup (UNION DOMAIN todo')
          BY <1>1
        <4>2. Case = (UNION traces) \cup standalone \cup (UNION DOMAIN todo)
          BY <4>1, <2>1 DEF PhasesApart
        <4>3. (UNION traces') \cup standalone' \subseteq Case
          BY <1>7 DEF TypeOK
        <4>4. UNION DOMAIN todo' \subseteq Case
          BY <4>2, <1>2
        <4>5. (UNION traces) \cup standalone \subseteq (UNION traces') \cup standalone'
          BY <3>1
        <4> QED
          BY <4>2, <4>3, <4>4, <4>5, <3>4, <3>5
      <3>7. /\ \A u \in DOMAIN todo' : \E k \in Case : u = Block(comp', k)
            /\ \A u, w \in DOMAIN todo' : u = w \/ u \cap w = {}
        BY <3>2, <1>1, <2>1 DEF PhasesApart
      <3> QED
        BY <3>3, <3>6, <3>7 DEF PhasesApart
    <2>2. CASE stage # "phase"
      BY <2>2, <1>1 DEF PhasesApart
    <2> QED
      BY <2>1, <2>2
  <1>14. TracesInBlocks'
    <2>1. CASE stage = "phase"
      <3>1. /\ traces' = traces \cup o
            /\ standalone' = IF o = {} THEN standalone \cup t ELSE standalone
            /\ comp' = comp
        BY <2>1, <1>1
      <3>2. PICK k \in Case : t = Block(comp, k)
        BY <2>1 DEF PhasesApart
      <3>3. \A T \in o : T \subseteq Block(comp, k)
        BY <3>2, <2>1, <1>6
      <3>4. \A T \in traces' : \E j \in Case : T \subseteq Block(comp', j)
        BY <3>1, <3>3 DEF TracesInBlocks
      <3>5. t \cap standalone = {} /\ \A T \in traces : t \cap T = {}
        BY <2>1 DEF PhasesApart
      <3>6. \A T \in traces' : T \cap standalone' = {}
        BY <3>1, <3>5, <1>6, <2>1 DEF TracesInBlocks
      <3>7. \A T \in o : T \subseteq t
        BY <1>6, <2>1
      <3>8. \A T \in traces, U \in o : T \cap U = {}
        BY <3>5, <3>7
      <3>9. \A T, U \in traces' : T = U \/ T \cap U = {}
        BY <3>1, <3>8, <1>6, <2>1 DEF TracesInBlocks
      <3> QED
        BY <3>4, <3>6, <3>9, <2>1, <1>1 DEF TracesInBlocks, Assembled
    <2>2. CASE stage # "phase"
      BY <2>2, <1>1 DEF TracesInBlocks, Assembled
    <2> QED
      BY <2>1, <2>2
  <1>15. AllAssigned'
    BY <1>1, <1>2, <1>0 DEF AllAssigned, Unassigned
  <1> QED
    BY <1>7, <1>8, <1>9, <1>10, <1>11, <1>12, <1>13, <1>14, <1>15
-----------------------------------------------------------------------------
(* The steps of the main thread                                             *)

\* One review of all conflicting edges is opened on the combined decision.
LEMMA CombineLinkPreserves == IInv /\ CombineLink => IInv'
  <1> SUFFICES ASSUME IInv, CombineLink PROVE IInv'
    OBVIOUS
  <1> USE DEF IInv
  <1>1. /\ stage = "link" /\ stage' = "consistency"
        /\ decision' = [e \in Edge |-> IF e \in HeldBack(verdict)
                                       THEN "possible_link" ELSE verdict[e]]
        /\ marks' = {}
        /\ trouble' = IF \E e \in Edge : verdict[e] = None
                      THEN trouble \cup {"link"} ELSE trouble
        /\ linked' = decision' /\ guarded' = HeldBack(verdict)
        /\ UNCHANGED <<verdict, weak, traces, standalone, resolved, comp, queue>>
        /\ UNCHANGED <<downgraded, checkpoint, client, settled, faults>>
    BY DEF CombineLink, MarksKept
  <1>2. /\ \A t \in DOMAIN todo' : todo'[t] = 0
        /\ \A t \in DOMAIN todo' : t = Conflicts(decision')
    BY OpenDomain DEF CombineLink
  <1>3. Conflicts(decision') \subseteq EdgesOf(decision', "cannot_link")
    BY DEF Conflicts
  <1>4. decision' \in [Edge -> Decision \cup {None}] /\ HeldBack(verdict) \subseteq Edge
    BY <1>1, EdgeAssumption DEF LinkOpen, HeldBack
  <1>5. TypeOK'
    BY <1>1, <1>2, <1>4 DEF TypeOK, Attempts
  <1>6. CheckpointsFit' /\ TracesInBlocks'
    BY <1>1 DEF CheckpointsFit, TracesInBlocks, Assembled
  <1>7. LinkOpen' /\ OneReview'
    BY <1>1, <1>2, <1>3 DEF LinkOpen, OneReview
  <1>8. CannotsKept' /\ BridgesArePossible' /\ SoundBlocks' /\ SplitsForced'
    BY <1>1 DEF CannotsKept, BridgesArePossible, SoundBlocks, SplitsForced, Built
  <1>9. PhasesApart' /\ AllAssigned'
    BY <1>1 DEF PhasesApart, AllAssigned
  <1>10. AllDecided'
    BY <1>1 DEF AllDecided, None
  <1> QED
    BY <1>5, <1>6, <1>7, <1>8, <1>9, <1>10

\* The components are built from singletons, every must edge before them.
LEMMA BuildingStarts ==
    ASSUME StartBuilding(decision'), stage' \in Building
    PROVE  /\ comp' \in [Case -> Case] /\ SoundBlocks' /\ SplitsForced'
           /\ queue' \subseteq Edge /\ downgraded' = {}
  <1>1. Sound(comp', decision') /\ comp' \in [Case -> Case]
    BY SingletonsSound DEF StartBuilding, Labels
  <1>2. queue' = EdgesOf(decision', "must_link") /\ downgraded' = {}
    BY DEF StartBuilding
  <1> QED
    BY <1>1, <1>2 DEF SoundBlocks, SplitsForced, EdgesOf

LEMMA CombineConsistencyPreserves == IInv /\ CombineConsistency => IInv'
  <1> SUFFICES ASSUME IInv, CombineConsistency PROVE IInv'
    OBVIOUS
  <1> USE DEF IInv
  <1>1. /\ stage = "consistency" /\ stage' = "components"
        /\ decision' = [e \in Edge |-> IF e \in weak THEN "possible_link"
                                       ELSE decision[e]]
        /\ UNCHANGED <<todo, verdict, weak, traces, standalone, resolved, trouble>>
        /\ UNCHANGED <<marks, checkpoint, client, linked, guarded, settled, faults>>
        /\ DOMAIN todo = {}
    BY DEF CombineConsistency, Answered, review, past
  <1>2. /\ comp' \in [Case -> Case] /\ SoundBlocks' /\ SplitsForced'
        /\ queue' \subseteq Edge /\ downgraded' = {}
    BY <1>1, BuildingStarts DEF CombineConsistency
  <1>3. TypeOK'
    BY <1>1, <1>2 DEF TypeOK
  <1>4. CheckpointsFit' /\ TracesInBlocks'
    BY <1>1 DEF CheckpointsFit, TracesInBlocks, Assembled
  <1>5. LinkOpen' /\ OneReview' /\ CannotsKept' /\ BridgesArePossible'
    BY <1>1 DEF LinkOpen, OneReview, CannotsKept, BridgesArePossible
  <1>6. PhasesApart' /\ AllAssigned' /\ AllDecided'
    BY <1>1 DEF PhasesApart, AllAssigned, AllDecided, None
  <1> QED
    BY <1>2, <1>3, <1>4, <1>5, <1>6

\* The edge the loop reached: inside a component, held apart, or a union.
LEMMA UnionStepPreserves == IInv /\ UnionStep => IInv'
  <1> SUFFICES ASSUME IInv, UnionStep PROVE IInv'
    OBVIOUS
  <1> USE DEF IInv
  <1>1. /\ stage \in Building /\ stage' = stage
        /\ UNCHANGED <<todo, verdict, weak, traces, standalone, resolved, trouble>>
        /\ UNCHANGED <<decision, marks, checkpoint, client, linked, guarded>>
        /\ UNCHANGED <<settled, faults>>
    BY DEF UnionStep, review, past
  <1>2. PICK e \in queue :
            /\ queue' = queue \ {e}
            /\ \/ comp[e[1]] = comp[e[2]] /\ comp' = comp /\ downgraded' = downgraded
               \/ /\ comp[e[1]] # comp[e[2]]
                  /\ \/ Blockers(comp, decision, comp[e[1]], comp[e[2]]) # {}
                     \/ TooLarge(comp, comp[e[1]], comp[e[2]])
                  /\ downgraded' = downgraded \cup {e} /\ comp' = comp
               \/ /\ comp[e[1]] # comp[e[2]]
                  /\ Blockers(comp, decision, comp[e[1]], comp[e[2]]) = {}
                  /\ ~TooLarge(comp, comp[e[1]], comp[e[2]])
                  /\ comp' = Union(comp, comp[e[1]], comp[e[2]])
                  /\ downgraded' = downgraded
    BY DEF UnionStep
  <1> DEFINE k == comp[e[1]]
             l == comp[e[2]]
  <1>3. /\ comp \in Labels /\ queue \subseteq Edge /\ downgraded \subseteq Edge
        /\ e \in EdgesOf(decision, "must_link") /\ e[1] \in Case /\ e[2] \in Case
        /\ k \in Case /\ l \in Case /\ Sound(comp, decision)
    BY <1>1, EdgeEnds DEF TypeOK, Labels, SoundBlocks, SplitsForced, Built
  <1>4. comp' \in Labels /\ Sound(comp', decision)
    <2>1. Union(comp, k, l) \in Labels
      BY <1>3, UnionLabels
    <2>2. CASE comp' = comp
      BY <2>2, <1>3
    <2>3. CASE /\ Blockers(comp, decision, k, l) = {} /\ ~TooLarge(comp, k, l)
               /\ comp' = Union(comp, k, l)
      <3>1. Sound(Union(comp, k, l), decision)
        BY <2>3, <1>3, UnionSound
      <3> QED
        BY <2>1, <2>3, <3>1
    <2> QED
      BY <1>2, <2>2, <2>3
  <1>5. TypeOK'
    BY <1>1, <1>2, <1>3, <1>4 DEF TypeOK, Labels
  <1>6. SoundBlocks'
    BY <1>1, <1>4 DEF SoundBlocks
  <1>7. SplitsForced'
    <2>1. /\ queue \subseteq EdgesOf(decision, "must_link")
          /\ downgraded \cap queue = {}
          /\ \A f \in EdgesOf(decision, "must_link") \ queue :
                 IF comp[f[1]] = comp[f[2]] THEN f \notin downgraded
                 ELSE f \in downgraded
                      /\ Forced(comp, decision, comp[f[1]], comp[f[2]])
      BY <1>1 DEF SplitsForced, Built
    <2>2. /\ queue' \subseteq EdgesOf(decision, "must_link")
          /\ downgraded' \cap queue' = {}
      BY <1>2, <2>1
    <2>3. ASSUME NEW f \in EdgesOf(decision, "must_link") \ queue'
          PROVE  IF comp'[f[1]] = comp'[f[2]] THEN f \notin downgraded'
                 ELSE f \in downgraded'
                      /\ Forced(comp', decision, comp'[f[1]], comp'[f[2]])
      <3>0. f[1] \in Case /\ f[2] \in Case /\ (f = e \/ f \notin queue)
        BY <1>2, EdgeEnds DEF EdgesOf
      <3>1. CASE k = l
        BY <3>1, <3>0, <1>2, <2>1
      <3>2. CASE /\ k # l /\ comp' = comp /\ downgraded' = downgraded \cup {e}
                 /\ \/ Blockers(comp, decision, k, l) # {}
                    \/ TooLarge(comp, k, l)
        <4>1. Forced(comp, decision, k, l)
          <5>1. CASE Blockers(comp, decision, k, l) # {}
            BY <5>1 DEF Blockers, Forced
          <5>2. CASE TooLarge(comp, k, l)
            <6>1. Block(comp, k) \cap Block(comp, l) = {}
              BY <3>2 DEF Block
            <6>2. Cardinality(Block(comp, k) \cup Block(comp, l))
                    = Cardinality(Block(comp, k)) + Cardinality(Block(comp, l))
              <7>1. /\ IsFiniteSet(Block(comp, k)) /\ IsFiniteSet(Block(comp, l))
                    /\ Cardinality(Block(comp, k)) \in Nat
                    /\ Cardinality(Block(comp, l)) \in Nat
                BY BlockFinite
              <7>2. Cardinality(Block(comp, k) \cup Block(comp, l))
                      = Cardinality(Block(comp, k)) + Cardinality(Block(comp, l))
                          - Cardinality(Block(comp, k) \cap Block(comp, l))
                BY <7>1, FS_Union
              <7>3. Cardinality(Block(comp, k) \cap Block(comp, l)) = 0
                BY <6>1, FS_EmptySet
              <7> QED
                BY <7>1, <7>2, <7>3
            <6> QED
              BY <5>2, <6>2 DEF TooLarge, Forced
          <5> QED
            BY <3>2, <5>1, <5>2
        <4> QED
          BY <3>0, <3>2, <4>1, <2>1
      <3>3. CASE /\ k # l /\ comp' = Union(comp, k, l) /\ downgraded' = downgraded
                 /\ Blockers(comp, decision, k, l) = {} /\ ~TooLarge(comp, k, l)
        <4>1. CASE f = e
          <5>1. comp'[e[1]] = comp'[e[2]]
            BY <3>3, <1>3 DEF Union, Labels
          <5> QED
            BY <4>1, <5>1, <3>3, <1>2, <2>1
        <4>2. CASE f # e /\ comp[f[1]] = comp[f[2]]
          <5>1. \A a, b \in Case :
                   comp[a] = comp[b] => Union(comp, k, l)[a] = Union(comp, k, l)[b]
            <6>1. comp \in Labels /\ k \in Case /\ l \in Case
              BY <1>3
            <6> HIDE DEF k, l
            <6> QED
              BY <6>1, UnionLabels
          <5>2. comp'[f[1]] = comp'[f[2]]
            BY <4>2, <5>1, <3>0, <3>3
          <5> QED
            BY <4>2, <5>2, <3>0, <3>3, <2>1
        <4>3. CASE f # e /\ comp[f[1]] # comp[f[2]]
          <5>1. f \in downgraded /\ Forced(comp, decision, comp[f[1]], comp[f[2]])
            BY <4>3, <3>0, <2>1
          <5>2. comp'[f[1]] # comp'[f[2]]
                /\ Forced(comp', decision, comp'[f[1]], comp'[f[2]])
            BY <5>1, <4>3, <3>3, <3>0, <1>3, UnionForced
          <5> QED
            BY <5>1, <5>2, <3>3
        <4> QED
          BY <4>1, <4>2, <4>3
      <3> QED
        BY <1>2, <3>1, <3>2, <3>3
    <2> QED
      BY <1>1, <2>2, <2>3 DEF SplitsForced, Forced
  <1>8. CheckpointsFit' /\ TracesInBlocks' /\ LinkOpen' /\ OneReview'
    BY <1>1 DEF CheckpointsFit, TracesInBlocks, Assembled, LinkOpen, OneReview
  <1>9. /\ CannotsKept' /\ BridgesArePossible' /\ PhasesApart' /\ AllAssigned'
        /\ AllDecided'
    BY <1>1 DEF CannotsKept, BridgesArePossible, PhasesApart, AllAssigned, AllDecided
  <1> QED
    BY <1>5, <1>6, <1>7, <1>8, <1>9

\* Candidates are possible edges; the review of them starts from nothing.
LEMMA OfferBridgesPreserves == IInv /\ OfferBridges => IInv'
  <1> SUFFICES ASSUME IInv, OfferBridges PROVE IInv'
    OBVIOUS
  <1> USE DEF IInv
  <1>1. /\ stage = "components" /\ stage' = "bridge" /\ queue = {}
        /\ verdict' = [e \in Edge |-> None]
        /\ UNCHANGED <<weak, traces, standalone, resolved, trouble, decision, marks>>
        /\ UNCHANGED <<comp, queue, downgraded, checkpoint, client, linked>>
        /\ UNCHANGED <<guarded, settled, faults>>
    BY DEF OfferBridges, graph, past
  <1>2. /\ \A t \in DOMAIN todo' : todo'[t] = 0
        /\ \A t \in DOMAIN todo' : t \in Chunks(Candidates(comp, decision, marks))
    BY OpenDomain DEF OfferBridges
  <1>3. \A t \in DOMAIN todo' : t \subseteq EdgesOf(decision, "possible_link")
    BY <1>2, ChunksInside DEF Candidates
  <1>4. TypeOK'
    BY <1>1, <1>2 DEF TypeOK, Attempts
  <1>5. BridgesArePossible'
    BY <1>1, <1>3 DEF BridgesArePossible
  <1>6. SoundBlocks' /\ SplitsForced'
    BY <1>1 DEF SoundBlocks, SplitsForced, Built
  <1>7. CheckpointsFit' /\ TracesInBlocks' /\ LinkOpen' /\ OneReview'
    BY <1>1 DEF CheckpointsFit, TracesInBlocks, Assembled, LinkOpen, OneReview
  <1>8. CannotsKept' /\ PhasesApart' /\ AllAssigned' /\ AllDecided'
    BY <1>1 DEF CannotsKept, PhasesApart, AllAssigned, AllDecided
  <1> QED
    BY <1>4, <1>5, <1>6, <1>7, <1>8

\* A bridge is a possible edge, so no cannot edge is overruled by one.
LEMMA CombineBridgesPreserves == IInv /\ CombineBridges => IInv'
  <1> SUFFICES ASSUME IInv, CombineBridges PROVE IInv'
    OBVIOUS
  <1> USE DEF IInv
  <1>1. /\ stage = "bridge" /\ stage' = "final"
        /\ decision' = [e \in Edge |->
                          CASE verdict[e] = "promote_must"   -> "must_link"
                            [] verdict[e] = "confirm_cannot" -> "cannot_link"
                            [] OTHER                         -> decision[e]]
        /\ UNCHANGED <<todo, verdict, weak, traces, standalone, resolved, trouble>>
        /\ UNCHANGED <<marks, checkpoint, client, linked, guarded, settled, faults>>
        /\ DOMAIN todo = {}
    BY DEF CombineBridges, Answered, review, past
  <1>2. /\ comp' \in [Case -> Case] /\ SoundBlocks' /\ SplitsForced'
        /\ queue' \subseteq Edge /\ downgraded' = {}
    BY <1>1, BuildingStarts DEF CombineBridges
  <1>3. \A e \in Edge :
           decision'[e] = decision[e]
           \/ (verdict[e] # None /\ decision'[e] \in {"must_link", "cannot_link"})
    BY <1>1 DEF None
  <1>4. decision' \in [Edge -> Decision \cup {None}]
    BY <1>1, <1>3 DEF TypeOK
  <1>5. TypeOK'
    BY <1>1, <1>2, <1>4 DEF TypeOK
  <1>6. CannotsKept'
    BY <1>1, <1>3 DEF CannotsKept, BridgesArePossible
  <1>7. AllDecided'
    BY <1>1, <1>3 DEF AllDecided, None
  <1>8. CheckpointsFit' /\ TracesInBlocks' /\ LinkOpen' /\ OneReview'
    BY <1>1 DEF CheckpointsFit, TracesInBlocks, Assembled, LinkOpen, OneReview
  <1>9. BridgesArePossible' /\ PhasesApart' /\ AllAssigned'
    BY <1>1 DEF BridgesArePossible, PhasesApart, AllAssigned
  <1> QED
    BY <1>2, <1>5, <1>6, <1>7, <1>8, <1>9

\* The components with a root are the tasks, all other cases are standalone.
LEMMA OpenPhasesPreserves == IInv /\ OpenPhases => IInv'
  <1> SUFFICES ASSUME IInv, OpenPhases PROVE IInv'
    OBVIOUS
  <1> USE DEF IInv
  <1> DEFINE rooted == {C \in Components(comp) : C \cap Root # {}}
  <1>1. /\ stage = "final" /\ stage' = "phase" /\ queue = {}
        /\ todo' = IF client THEN Open(rooted) ELSE Open({})
        /\ standalone' = IF client THEN Case \ (UNION rooted) ELSE {}
        /\ trouble' \subseteq trouble \cup {"final", "phase"} /\ trouble \subseteq trouble'
        /\ UNCHANGED <<verdict, weak, traces, resolved, decision, marks, comp>>
        /\ UNCHANGED <<queue, downgraded, checkpoint, client, linked, guarded>>
        /\ UNCHANGED <<settled, faults>>
    BY DEF OpenPhases, graph, past
  <1>2. /\ DOMAIN todo' = IF client THEN rooted ELSE {}
        /\ \A t \in DOMAIN todo' : todo'[t] = 0
    BY <1>1, OpenDomain
  <1>3. \A t \in rooted : \E k \in Case : t = Block(comp, k)
    BY DEF TypeOK, Components
  <1>4. \A t, u \in rooted : t = u \/ t \cap u = {}
    <2> SUFFICES ASSUME NEW t \in rooted, NEW u \in rooted
                 PROVE  t = u \/ t \cap u = {}
      OBVIOUS
    <2>1. PICK k \in Case, l \in Case : t = Block(comp, k) /\ u = Block(comp, l)
      BY <1>3
    <2> HIDE DEF rooted, IInv
    <2> QED
      BY <2>1, BlocksDisjoint
  <1>5. traces = {}
    BY <1>1 DEF TracesInBlocks, Assembled
  <1>6. \A t \in rooted : t \subseteq Case
    BY <1>3, BlockFinite
  <1> HIDE DEF rooted
  <1>7. TypeOK'
    BY <1>1, <1>2 DEF TypeOK, Attempts
  <1>8. PhasesApart'
    <2>1. client => Case = (UNION traces') \cup standalone' \cup (UNION DOMAIN todo')
      BY <1>1, <1>2, <1>6, <1>5
    <2>2. \A t \in DOMAIN todo' : t \cap standalone' = {}
                                  /\ \A T \in traces' : t \cap T = {}
      BY <1>1, <1>2, <1>5
    <2> QED
      BY <1>1, <1>2, <1>3, <1>4, <2>1, <2>2 DEF PhasesApart
  <1>9. TracesInBlocks'
    BY <1>1, <1>5 DEF TracesInBlocks, Assembled
  <1>10. SoundBlocks' /\ SplitsForced'
    BY <1>1 DEF SoundBlocks, SplitsForced, Built
  <1>11. CheckpointsFit' /\ LinkOpen' /\ OneReview' /\ CannotsKept'
    BY <1>1 DEF CheckpointsFit, LinkOpen, OneReview, CannotsKept
  <1>12. BridgesArePossible' /\ AllAssigned' /\ AllDecided'
    BY <1>1 DEF BridgesArePossible, AllAssigned, AllDecided
  <1> QED
    BY <1>7, <1>8, <1>9, <1>10, <1>11, <1>12

\* No task is open: every case is in a trace or standalone.
LEMMA CombinePhasesPreserves == IInv /\ CombinePhases => IInv'
  <1> SUFFICES ASSUME IInv, CombinePhases PROVE IInv'
    OBVIOUS
  <1> USE DEF IInv
  <1>1. /\ stage = "phase" /\ stage' = "outcome" /\ DOMAIN todo = {}
        /\ UNCHANGED <<verdict, weak, traces, standalone, resolved, trouble>>
        /\ UNCHANGED <<decision, marks, comp, queue, downgraded, checkpoint>>
        /\ UNCHANGED <<client, linked, guarded, settled, faults>>
    BY DEF CombinePhases, Answered, graph, past
  <1>2. /\ \A t \in DOMAIN todo' : todo'[t] = 0
        /\ \A t \in DOMAIN todo' : t = traces
    BY OpenDomain DEF CombinePhases
  <1>3. AllAssigned'
    BY <1>1, <1>2 DEF AllAssigned, PhasesApart, Unassigned
  <1>4. TypeOK'
    BY <1>1, <1>2 DEF TypeOK, Attempts
  <1>5. SoundBlocks' /\ SplitsForced'
    BY <1>1 DEF SoundBlocks, SplitsForced, Built
  <1>6. CheckpointsFit' /\ TracesInBlocks' /\ LinkOpen' /\ OneReview'
    BY <1>1 DEF CheckpointsFit, TracesInBlocks, Assembled, LinkOpen, OneReview
  <1>7. CannotsKept' /\ BridgesArePossible' /\ PhasesApart' /\ AllDecided'
    BY <1>1 DEF CannotsKept, BridgesArePossible, PhasesApart, AllDecided
  <1> QED
    BY <1>3, <1>4, <1>5, <1>6, <1>7

LEMMA CompileBundlePreserves == IInv /\ CompileBundle => IInv'
  <1> SUFFICES ASSUME IInv, CompileBundle PROVE IInv'
    OBVIOUS
  <1> USE DEF IInv
  <1>1. /\ stage = "outcome" /\ stage' = "done" /\ DOMAIN todo = {}
        /\ UNCHANGED <<todo, verdict, weak, traces, standalone, resolved, trouble>>
        /\ UNCHANGED <<decision, marks, comp, queue, downgraded, checkpoint>>
        /\ UNCHANGED <<client, linked, guarded, faults>>
    BY DEF CompileBundle, Answered, review, graph
  <1>2. TypeOK' /\ AllAssigned'
    BY <1>1 DEF TypeOK, AllAssigned, Unassigned
  <1>3. SoundBlocks' /\ SplitsForced'
    BY <1>1 DEF SoundBlocks, SplitsForced, Built
  <1>4. CheckpointsFit' /\ TracesInBlocks' /\ LinkOpen' /\ OneReview'
    BY <1>1 DEF CheckpointsFit, TracesInBlocks, Assembled, LinkOpen, OneReview
  <1>5. CannotsKept' /\ BridgesArePossible' /\ PhasesApart' /\ AllDecided'
    BY <1>1 DEF CannotsKept, BridgesArePossible, PhasesApart, AllDecided
  <1> QED
    BY <1>2, <1>3, <1>4, <1>5

\* A new run starts as the first did, over the checkpoints that fit.
LEMMA RunAgainPreserves == IInv /\ RunAgain => IInv'
  <1> SUFFICES ASSUME IInv, RunAgain PROVE IInv'
    OBVIOUS
  <1> USE DEF IInv
  <1>1. /\ \A t \in DOMAIN todo' : t \in Chunks(Edge)
        /\ \A t \in DOMAIN todo' : todo'[t] = 0
    BY OpenDomain DEF RunAgain
  <1>2. \A t \in DOMAIN todo' : t \subseteq Edge
    BY <1>1, ChunksInside
  <1>3. faults' \in 0..MaxFault
    BY BoundAssumption DEF RunAgain, Fault, TypeOK
  <1>4. comp' \in [Case -> Case]
    BY DEF RunAgain
  <1>5. TypeOK'
    BY <1>1, <1>3, <1>4 DEF RunAgain, TypeOK, Attempts
  <1>6. CheckpointsFit'
    BY DEF RunAgain, CheckpointsFit
  <1>7. LinkOpen' /\ OneReview' /\ AllDecided'
    BY <1>2 DEF RunAgain, LinkOpen, OneReview, AllDecided
  <1>8. /\ CannotsKept' /\ BridgesArePossible' /\ SoundBlocks' /\ SplitsForced'
        /\ PhasesApart' /\ TracesInBlocks' /\ AllAssigned'
    BY DEF RunAgain, CannotsKept, BridgesArePossible, SoundBlocks, SplitsForced,
           Built, PhasesApart, TracesInBlocks, AllAssigned
  <1> QED
    BY <1>5, <1>6, <1>7, <1>8
-----------------------------------------------------------------------------
(* The theorems                                                             *)

\* The invariant the argument is made with.
THEOREM Invariance == Spec => []IInv
  <1>1. Init => IInv
    BY InitInvariant
  <1>2. IInv /\ [Next]_vars => IInv'
    <2> SUFFICES ASSUME IInv, [Next]_vars PROVE IInv'
      OBVIOUS
    <2>1. CASE MainThread
      BY <2>1, CombineLinkPreserves, CombineConsistencyPreserves,
         UnionStepPreserves, OfferBridgesPreserves, CombineBridgesPreserves,
         OpenPhasesPreserves, CombinePhasesPreserves, CompileBundlePreserves
         DEF MainThread
    <2>2. CASE Worker
      <3>1. PICK t \in DOMAIN todo : DecideTask(t)
        BY <2>2 DEF Worker
      <3>2. CheckpointsFit' /\ (AskAgain(t) \/ \E o : Ends(t, o))
        BY <3>1, WorkerEnds
      <3>3. CASE AskAgain(t)
        BY <3>3, AskPreserves
      <3>4. CASE \E o : Ends(t, o)
        BY <3>4, <3>2, EndsPreserves
      <3> QED
        BY <3>2, <3>3, <3>4
    <2>3. CASE RunAgain
      BY <2>3, RunAgainPreserves
    <2>4. CASE UNCHANGED vars
      <3>1. /\ UNCHANGED <<stage, todo, verdict, weak, traces, standalone, resolved>>
            /\ UNCHANGED <<trouble, decision, marks, comp, queue, downgraded>>
            /\ UNCHANGED <<checkpoint, client, linked, guarded, settled, faults>>
        BY <2>4 DEF vars, review, graph, past
      <3>2. TypeOK' /\ CheckpointsFit' /\ LinkOpen' /\ OneReview' /\ CannotsKept'
        BY <3>1 DEF IInv, TypeOK, CheckpointsFit, LinkOpen, OneReview, CannotsKept
      <3>3. BridgesArePossible' /\ SoundBlocks' /\ SplitsForced' /\ AllDecided'
        BY <3>1 DEF IInv, BridgesArePossible, SoundBlocks, SplitsForced, AllDecided,
                    Built
      <3>4. PhasesApart' /\ TracesInBlocks' /\ AllAssigned'
        BY <3>1 DEF IInv, PhasesApart, TracesInBlocks, AllAssigned, Assembled,
                    Unassigned
      <3> QED
        BY <3>2, <3>3, <3>4 DEF IInv
    <2> QED
      BY <2>1, <2>2, <2>3, <2>4 DEF Next
  <1> QED
    BY <1>1, <1>2, PTL DEF Spec

\* Every variable keeps its type; a task never exceeds its attempts.
THEOREM TypeCorrect == Spec => []TypeOK
  <1>1. IInv => TypeOK
    BY DEF IInv
  <1> QED
    BY <1>1, Invariance, PTL

\* Whatever was promoted, failed or fell back, the components the union loop
\* works on and leaves hold no cannot edge and respect the limit.
THEOREM SoundComponents == Spec => []ComponentsAreSound
  <1>1. IInv => ComponentsAreSound
    BY DEF IInv, SoundBlocks, Built, ComponentsAreSound, Assembled
  <1> QED
    BY <1>1, Invariance, PTL

\* The must edges the loop downgraded are exactly those no union could honour.
THEOREM SplitsAreForced == Spec => []OnlyForcedSplits
  <1>1. IInv => OnlyForcedSplits
    BY DEF IInv, SplitsForced, Built, OnlyForcedSplits, Assembled, Forced
  <1> QED
    BY <1>1, Invariance, PTL

\* No trace joins a pair the link stage or the final decision keeps apart.
THEOREM SafeTraces == Spec => []TracesAreSafe
  <1>1. IInv => TracesAreSafe
    <2> SUFFICES ASSUME IInv, Assembled, NEW T \in traces
                 PROVE  /\ Cardinality(T) <= Limit
                        /\ \A e \in Edge :
                              {e[1], e[2]} \subseteq T =>
                                 /\ decision[e] # "cannot_link"
                                 /\ linked[e] = "cannot_link" =>
                                       e \in weak /\ "consistency" \notin trouble
      BY DEF TracesAreSafe
    <2>1. PICK k \in Case : T \subseteq Block(comp, k)
      BY DEF IInv, TracesInBlocks
    <2>2. Sound(comp, decision)
      BY DEF IInv, SoundBlocks, Built, Assembled
    <2>3. Cardinality(T) <= Limit
      <3>1. /\ Cardinality(T) <= Cardinality(Block(comp, k))
            /\ Cardinality(T) \in Nat /\ Cardinality(Block(comp, k)) \in Nat
        BY <2>1, BlockFinite, FS_Subset, FS_CardinalityType
      <3> QED
        BY <3>1, <2>2, BoundAssumption DEF Sound
    <2>4. ASSUME NEW e \in Edge, e[1] \in T, e[2] \in T
          PROVE  decision[e] # "cannot_link"
      BY <2>1, <2>2, <2>4 DEF Sound, Block, EdgesOf
    <2>5. ASSUME NEW e \in Edge, e[1] \in T, e[2] \in T, linked[e] = "cannot_link"
          PROVE  e \in weak /\ "consistency" \notin trouble
      BY <2>4, <2>5 DEF IInv, CannotsKept, OneReview, Assembled
    <2> QED
      BY <2>3, <2>4, <2>5
  <1> QED
    BY <1>1, Invariance, PTL

\* Nothing is assigned twice or forgotten, whatever failed.
THEOREM NothingForgotten == Spec => []EverythingAccountedFor
  <1>1. IInv => EverythingAccountedFor
    BY DEF IInv, TracesInBlocks, AllAssigned, AllDecided, EverythingAccountedFor,
           Valid
  <1> QED
    BY <1>1, Invariance, PTL
-----------------------------------------------------------------------------
(* The union loop is a function of the decision                             *)
(*                                                                          *)
(* A state of the loop is a pair <<labels, edges not yet reached>>.  The    *)
(* states it passes through are the least set that holds the first one and  *)
(* is closed under a turn: two of them with the same edges left are equal,  *)
(* because the edges left determine the edge taken before.                  *)

LoopStates == Labels \X SUBSET Edge

Least(q, e) == e \in q /\ \A f \in q \ {e} : Before(e, f)

\* What a turn for the edge e does to the labels c.
Turned(c, d, e) ==
    LET k == c[e[1]]
        l == c[e[2]]
    IN  IF k # l /\ Blockers(c, d, k, l) = {} /\ ~TooLarge(c, k, l)
        THEN Union(c, k, l) ELSE c

LoopStart(d) == <<[b \in Case |-> b], EdgesOf(d, "must_link")>>
LoopTurn(x, d, e) == <<Turned(x[1], d, e), x[2] \ {e}>>

LoopClosed(S, d) ==
    /\ LoopStart(d) \in S
    /\ \A x \in S : \A e \in Edge : Least(x[2], e) => LoopTurn(x, d, e) \in S

Loop(d) == {x \in LoopStates : \A S \in SUBSET LoopStates : LoopClosed(S, d) => x \in S}

\* The components the loop ends with.
BuiltFrom(d) == CHOOSE c : <<c, {}>> \in Loop(d)

LEMMA BeforeOrders ==
    ASSUME NEW e \in Edge, NEW f \in Edge
    PROVE  /\ ~(Before(e, f) /\ Before(f, e))
           /\ ~Before(e, e)
           /\ e = f \/ Before(e, f) \/ Before(f, e)
  <1>1. /\ e[1] \in Int /\ e[2] \in Int /\ f[1] \in Int /\ f[2] \in Int
        /\ e = <<e[1], e[2]>> /\ f = <<f[1], f[2]>>
    BY EdgeAssumption, CaseAssumption DEF Case
  <1> QED
    BY <1>1 DEF Before

LEMMA TurnStays ==
    ASSUME NEW x \in LoopStates, NEW d, NEW e \in Edge
    PROVE  LoopTurn(x, d, e) \in LoopStates
  <1>1. x[1] \in Labels /\ x[2] \in SUBSET Edge
    BY DEF LoopStates
  <1>2. x[1][e[1]] \in Case /\ x[1][e[2]] \in Case
    BY <1>1, EdgeEnds DEF Labels
  <1>3. Turned(x[1], d, e) \in Labels
    BY <1>1, <1>2, UnionLabels DEF Turned
  <1> QED
    BY <1>1, <1>3 DEF LoopTurn, LoopStates

LEMMA StartStays ==
    ASSUME NEW d
    PROVE  LoopStart(d) \in LoopStates
  BY DEF LoopStart, LoopStates, EdgesOf, Labels

LEMMA LoopIsClosed ==
    ASSUME NEW d
    PROVE  LoopClosed(Loop(d), d)
  <1>1. LoopStart(d) \in Loop(d)
    BY StartStays DEF Loop, LoopClosed
  <1>2. ASSUME NEW x \in Loop(d), NEW e \in Edge, Least(x[2], e)
        PROVE  LoopTurn(x, d, e) \in Loop(d)
    <2>1. x \in LoopStates
      BY DEF Loop
    <2>2. LoopTurn(x, d, e) \in LoopStates
      BY <2>1, TurnStays
    <2>3. ASSUME NEW S \in SUBSET LoopStates, LoopClosed(S, d)
          PROVE  LoopTurn(x, d, e) \in S
      <3>1. x \in S
        BY <2>3 DEF Loop
      <3> QED
        BY <3>1, <2>3, <1>2 DEF LoopClosed
    <2> QED
      BY <2>2, <2>3 DEF Loop
  <1> QED
    BY <1>1, <1>2 DEF LoopClosed

\* What holds of the first state and after every turn holds of every state.
LEMMA LoopLeast ==
    ASSUME NEW d, NEW S \in SUBSET Loop(d), LoopClosed(S, d)
    PROVE  S = Loop(d)
  <1>1. S \in SUBSET LoopStates
    BY DEF Loop
  <1> QED
    BY <1>1 DEF Loop

\* The edges left are the last ones of the order.
LEMMA LoopSuffix ==
    ASSUME NEW d, NEW x \in Loop(d)
    PROVE  /\ x[2] \subseteq EdgesOf(d, "must_link")
           /\ \A e \in x[2] : \A f \in EdgesOf(d, "must_link") : Before(e, f) => f \in x[2]
  <1> DEFINE M == EdgesOf(d, "must_link")
             Good(y) == /\ y[2] \subseteq M
                        /\ \A e \in y[2] : \A f \in M : Before(e, f) => f \in y[2]
             S == {y \in Loop(d) : Good(y)}
  <1>0. M \subseteq Edge
    BY DEF EdgesOf
  <1>1. LoopStart(d) \in S
    BY LoopIsClosed DEF LoopClosed, LoopStart
  <1>2. ASSUME NEW y \in S, NEW e \in Edge, Least(y[2], e)
        PROVE  LoopTurn(y, d, e) \in S
    <2>1. LoopTurn(y, d, e) \in Loop(d)
      BY <1>2, LoopIsClosed DEF LoopClosed
    <2>2. LoopTurn(y, d, e)[2] = y[2] \ {e}
      BY DEF LoopTurn
    <2>3. ASSUME NEW g \in y[2] \ {e}, NEW f \in M, Before(g, f)
          PROVE  f \in y[2] \ {e}
      <3>1. f \in y[2]
        BY <2>3
      <3>2. Before(e, g)
        BY <1>2 DEF Least
      <3>3. f # e
        BY <3>2, <2>3, <1>0, BeforeOrders
      <3> QED
        BY <3>1, <3>3
    <2>4. Good(LoopTurn(y, d, e))
      BY <2>2, <2>3
    <2> QED
      BY <2>1, <2>4
  <1>3. S = Loop(d)
    <2>1. LoopClosed(S, d)
      BY <1>1, <1>2 DEF LoopClosed
    <2> HIDE DEF Good
    <2> QED
      BY <2>1, LoopLeast
  <1> QED
    BY <1>3

\* Every state is the first one or the turn of another.
LEMMA LoopFrom ==
    ASSUME NEW d, NEW x \in Loop(d)
    PROVE  \/ x = LoopStart(d)
           \/ \E y \in Loop(d) : \E e \in Edge : Least(y[2], e) /\ x = LoopTurn(y, d, e)
  <1> DEFINE From(z) ==
               \/ z = LoopStart(d)
               \/ \E y \in Loop(d) : \E e \in Edge : Least(y[2], e) /\ z = LoopTurn(y, d, e)
             S == {z \in Loop(d) : From(z)}
  <1>1. LoopClosed(S, d)
    BY LoopIsClosed DEF LoopClosed
  <1>2. S = Loop(d)
    <2> HIDE DEF From
    <2> QED
      BY <1>1, LoopLeast
  <1> QED
    BY <1>2

\* Two states with the same edges left are the same state.
LEMMA LoopUnique ==
    ASSUME NEW d, NEW x \in Loop(d), NEW y \in Loop(d), x[2] = y[2]
    PROVE  x = y
  <1> DEFINE M == EdgesOf(d, "must_link")
             Only(u) == \A z \in Loop(d) : z[2] = u[2] => z = u
             S == {u \in Loop(d) : Only(u)}
  <1>0. M \subseteq Edge /\ LoopStart(d)[2] = M
    BY DEF EdgesOf, LoopStart
  <1>1. LoopStart(d) \in S
    <2>1. ASSUME NEW z \in Loop(d), z[2] = M
          PROVE  z = LoopStart(d)
      <3>1. SUFFICES ASSUME z # LoopStart(d) PROVE FALSE
        OBVIOUS
      <3>2. PICK w \in Loop(d), e \in Edge : Least(w[2], e) /\ z = LoopTurn(w, d, e)
        BY <3>1, LoopFrom
      <3>3. e \in w[2] /\ e \notin z[2]
        BY <3>2 DEF Least, LoopTurn
      <3> QED
        BY <3>3, <2>1, LoopSuffix
    <2> QED
      BY <2>1, <1>0, LoopIsClosed DEF LoopClosed
  <1>2. ASSUME NEW u \in S, NEW e \in Edge, Least(u[2], e)
        PROVE  LoopTurn(u, d, e) \in S
    <2>1. LoopTurn(u, d, e) \in Loop(d) /\ LoopTurn(u, d, e)[2] = u[2] \ {e}
      BY <1>2, LoopIsClosed DEF LoopClosed, LoopTurn
    <2>2. ASSUME NEW z \in Loop(d), z[2] = u[2] \ {e}
          PROVE  z = LoopTurn(u, d, e)
      <3>1. e \in u[2] /\ e \in M
        BY <1>2, LoopSuffix DEF Least
      <3>2. z # LoopStart(d)
        BY <3>1, <2>2, <1>0
      <3>3. PICK w \in Loop(d), f \in Edge : Least(w[2], f) /\ z = LoopTurn(w, d, f)
        BY <3>2, LoopFrom
      <3>4. w[2] \ {f} = u[2] \ {e} /\ f \in w[2] /\ f \in M
        BY <3>3, <2>2, LoopSuffix DEF LoopTurn, Least
      <3>5. e = f
        <4>1. Before(e, f) => f \in u[2]
          BY <3>1, <3>4, LoopSuffix
        <4>2. Before(f, e) => e \in w[2]
          BY <3>1, <3>4, LoopSuffix
        <4> QED
          BY <3>1, <3>4, <4>1, <4>2, BeforeOrders
      <3>6. w[2] = u[2]
        BY <3>1, <3>4, <3>5
      <3>7. w = u
        BY <3>6
      <3> QED
        BY <3>3, <3>5, <3>7
    <2> QED
      BY <2>1, <2>2
  <1>3. S = Loop(d)
    <2>1. LoopClosed(S, d)
      BY <1>1, <1>2 DEF LoopClosed
    <2> HIDE DEF Only
    <2> QED
      BY <2>1, LoopLeast
  <1> QED
    BY <1>3

\* So the components are a function of the decision.
LEMMA LoopEnds ==
    ASSUME NEW d, NEW c, <<c, {}>> \in Loop(d)
    PROVE  BuiltFrom(d) = c
  <1> DEFINE b == BuiltFrom(d)
  <1>1. <<b, {}>> \in Loop(d)
    BY DEF BuiltFrom
  <1> HIDE DEF b
  <1>2. <<b, {}>> = <<c, {}>>
    BY <1>1, LoopUnique
  <1> QED
    BY <1>2 DEF b
-----------------------------------------------------------------------------
(* Replay: what a run without trouble computes, as functions of the disk D  *)

Under(D, s, i) == {x \in D[s] : x[1] = i}

\* The output saved for the input i of stage s.
AnswerOn(D, s, i) == (CHOOSE x \in Under(D, s, i) : TRUE)[2]

\* The task that holds e when S is cut into tasks.
ChunkOf(e, S) == {f \in S : Rank(f, S) \div ChunkSize = Rank(e, S) \div ChunkSize}

\* What the main thread combines the answers of a stage with.
Guarded(v)   == [e \in Edge |-> IF e \in HeldBack(v) THEN "possible_link" ELSE v[e]]
Weakened(d, W) == [e \in Edge |-> IF e \in W THEN "possible_link" ELSE d[e]]
Promoted(d, v) ==
    [e \in Edge |-> CASE v[e] = "promote_must"   -> "must_link"
                      [] v[e] = "confirm_cannot" -> "cannot_link"
                      [] OTHER                   -> d[e]]
Rooted(c) == {C \in Components(c) : C \cap Root # {}}

LinkAnswer(D) == [e \in Edge |-> AnswerOn(D, "link", ChunkOf(e, Edge))[e]]
LinkedOn(D)   == Guarded(LinkAnswer(D))

ReviewKey(d)  == <<Conflicts(d), EdgesOf(d, "must_link")>>
WeakOn(D, d)  == IF Conflicts(d) = {} THEN {} ELSE AnswerOn(D, "consistency", ReviewKey(d))
ReviewedOn(D) == Weakened(LinkedOn(D), WeakOn(D, LinkedOn(D)))

Bridges(d, c)      == Candidates(c, d, {})
BridgeKey(d, c, t) == <<Bridges(d, c), c, t>>
BridgeAnswer(D, d, c) ==
    [e \in Edge |->
        IF e \in Bridges(d, c)
        THEN AnswerOn(D, "bridge", BridgeKey(d, c, ChunkOf(e, Bridges(d, c))))[e]
        ELSE None]
BridgedOn(D) ==
    Promoted(ReviewedOn(D), BridgeAnswer(D, ReviewedOn(D), BuiltFrom(ReviewedOn(D))))
FinalOn(D)   == BuiltFrom(BridgedOn(D))

\* The traces of the components in T, and their cases left standalone.
TracesOf(D, d, T) == UNION {AnswerOn(D, "phase", <<C, d>>) : C \in T}
AloneOf(D, d, T)  == UNION {C \in T : AnswerOn(D, "phase", <<C, d>>) = {}}
Rootless(c)       == Case \ UNION Rooted(c)
TracedOn(D)       == TracesOf(D, BridgedOn(D), Rooted(FinalOn(D)))
AloneOn(D)        ==
    Rootless(FinalOn(D)) \cup AloneOf(D, BridgedOn(D), Rooted(FinalOn(D)))
ResolvedOn(D, T)  == IF T = {} THEN {} ELSE AnswerOn(D, "outcome", T)

ResultOn(D) ==
    [decision |-> BridgedOn(D), components |-> Components(FinalOn(D)),
     traces |-> TracedOn(D), standalone |-> AloneOn(D),
     resolved |-> ResolvedOn(D, TracedOn(D))]

\* Everything such a run asks for is saved, stage by stage.
LinkKept(D)   == \A e \in Edge : Under(D, "link", ChunkOf(e, Edge)) # {}
ReviewKept(D) ==
    Conflicts(LinkedOn(D)) # {} => Under(D, "consistency", ReviewKey(LinkedOn(D))) # {}
BridgesKept(D, d, c) ==
    \A e \in Bridges(d, c) :
        Under(D, "bridge", BridgeKey(d, c, ChunkOf(e, Bridges(d, c)))) # {}
BridgeKept(D)  == BridgesKept(D, ReviewedOn(D), BuiltFrom(ReviewedOn(D)))
PhasesKept(D, d, T) == \A C \in T : Under(D, "phase", <<C, d>>) # {}
PhaseKept(D)   == PhasesKept(D, BridgedOn(D), Rooted(FinalOn(D)))
OutcomeKept(D) == TracedOn(D) # {} => Under(D, "outcome", TracedOn(D)) # {}

Complete(D) ==
    LinkKept(D) /\ ReviewKept(D) /\ BridgeKept(D) /\ PhaseKept(D) /\ OutcomeKept(D)

\* Nothing that is saved on D changes on E.
Retains(D, E) ==
    \A s \in Reviewing : \A i : Under(D, s, i) # {} => Under(E, s, i) = Under(D, s, i)

-----------------------------------------------------------------------------
(* What is saved stays, and so does what is computed from it                *)

LEMMA RetainsAnswer ==
    ASSUME NEW D, NEW E, Retains(D, E), NEW s \in Reviewing, NEW i, Under(D, s, i) # {}
    PROVE  Under(E, s, i) # {} /\ AnswerOn(E, s, i) = AnswerOn(D, s, i)
  BY DEF Retains, AnswerOn

LEMMA OnlyAnswer ==
    ASSUME NEW D, NEW s, NEW i, NEW x \in Under(D, s, i), \A y \in Under(D, s, i) : y = x
    PROVE  AnswerOn(D, s, i) = x[2]
  BY DEF AnswerOn

LEMMA RetainsLink ==
    ASSUME NEW D, NEW E, Retains(D, E), LinkKept(D)
    PROVE  LinkKept(E) /\ LinkAnswer(E) = LinkAnswer(D) /\ LinkedOn(E) = LinkedOn(D)
  <1>1. ASSUME NEW e \in Edge
        PROVE  /\ Under(E, "link", ChunkOf(e, Edge)) # {}
               /\ AnswerOn(E, "link", ChunkOf(e, Edge)) = AnswerOn(D, "link", ChunkOf(e, Edge))
    BY RetainsAnswer DEF LinkKept
  <1>2. LinkAnswer(E) = LinkAnswer(D)
    BY <1>1 DEF LinkAnswer
  <1> QED
    BY <1>1, <1>2 DEF LinkKept, LinkedOn

LEMMA RetainsReview ==
    ASSUME NEW D, NEW E, Retains(D, E), LinkKept(D), ReviewKept(D)
    PROVE  /\ ReviewKept(E) /\ ReviewedOn(E) = ReviewedOn(D)
           /\ WeakOn(E, LinkedOn(D)) = WeakOn(D, LinkedOn(D))
  <1>1. LinkedOn(E) = LinkedOn(D)
    BY RetainsLink
  <1>2. Conflicts(LinkedOn(D)) # {} =>
            /\ Under(E, "consistency", ReviewKey(LinkedOn(D))) # {}
            /\ AnswerOn(E, "consistency", ReviewKey(LinkedOn(D)))
                 = AnswerOn(D, "consistency", ReviewKey(LinkedOn(D)))
    BY RetainsAnswer DEF ReviewKept
  <1>3. WeakOn(E, LinkedOn(D)) = WeakOn(D, LinkedOn(D))
    BY <1>2 DEF WeakOn
  <1> QED
    BY <1>1, <1>2, <1>3 DEF ReviewKept, ReviewedOn

LEMMA RetainsBridges ==
    ASSUME NEW D, NEW E, Retains(D, E), NEW d, NEW c, BridgesKept(D, d, c)
    PROVE  BridgesKept(E, d, c) /\ BridgeAnswer(E, d, c) = BridgeAnswer(D, d, c)
  <1>1. ASSUME NEW e \in Bridges(d, c)
        PROVE  LET k == BridgeKey(d, c, ChunkOf(e, Bridges(d, c)))
               IN  /\ Under(E, "bridge", k) # {}
                   /\ AnswerOn(E, "bridge", k) = AnswerOn(D, "bridge", k)
    BY RetainsAnswer DEF BridgesKept
  <1> QED
    BY <1>1 DEF BridgesKept, BridgeAnswer

LEMMA RetainsBridge ==
    ASSUME NEW D, NEW E, Retains(D, E), LinkKept(D), ReviewKept(D), BridgeKept(D)
    PROVE  BridgeKept(E) /\ BridgedOn(E) = BridgedOn(D) /\ FinalOn(E) = FinalOn(D)
  <1>1. ReviewedOn(E) = ReviewedOn(D)
    BY RetainsReview
  <1> QED
    BY <1>1, RetainsBridges DEF BridgeKept, BridgedOn, FinalOn

LEMMA RetainsPhases ==
    ASSUME NEW D, NEW E, Retains(D, E), NEW d, NEW T, PhasesKept(D, d, T)
    PROVE  /\ PhasesKept(E, d, T) /\ TracesOf(E, d, T) = TracesOf(D, d, T)
           /\ AloneOf(E, d, T) = AloneOf(D, d, T)
  <1>1. ASSUME NEW C \in T
        PROVE  /\ Under(E, "phase", <<C, d>>) # {}
               /\ AnswerOn(E, "phase", <<C, d>>) = AnswerOn(D, "phase", <<C, d>>)
    BY RetainsAnswer DEF PhasesKept
  <1> QED
    BY <1>1 DEF PhasesKept, TracesOf, AloneOf

LEMMA RetainsPhase ==
    ASSUME NEW D, NEW E, Retains(D, E),
           LinkKept(D), ReviewKept(D), BridgeKept(D), PhaseKept(D)
    PROVE  PhaseKept(E) /\ TracedOn(E) = TracedOn(D) /\ AloneOn(E) = AloneOn(D)
  BY RetainsBridge, RetainsPhases DEF PhaseKept, TracedOn, AloneOn

LEMMA RetainsOutcome ==
    ASSUME NEW D, NEW E, Retains(D, E), NEW T, T # {} => Under(D, "outcome", T) # {}
    PROVE  /\ T # {} => Under(E, "outcome", T) # {}
           /\ ResolvedOn(E, T) = ResolvedOn(D, T)
  BY RetainsAnswer DEF ResolvedOn

LEMMA RetainsComplete ==
    ASSUME NEW D, NEW E, Retains(D, E), Complete(D)
    PROVE  Complete(E) /\ ResultOn(E) = ResultOn(D)
  <1>1. LinkKept(E) /\ ReviewKept(E) /\ BridgeKept(E) /\ PhaseKept(E)
    BY RetainsLink, RetainsReview, RetainsBridge, RetainsPhase DEF Complete
  <1>2. /\ BridgedOn(E) = BridgedOn(D) /\ FinalOn(E) = FinalOn(D)
        /\ TracedOn(E) = TracedOn(D) /\ AloneOn(E) = AloneOn(D)
    BY RetainsBridge, RetainsPhase DEF Complete
  <1>3. /\ OutcomeKept(E)
        /\ ResolvedOn(E, TracedOn(D)) = ResolvedOn(D, TracedOn(D))
    BY <1>2, RetainsOutcome DEF Complete, OutcomeKept
  <1> QED
    BY <1>1, <1>2, <1>3 DEF Complete, ResultOn

-----------------------------------------------------------------------------
(* Cutting a set of edges into tasks                                        *)

LEMMA EdgesFinite == IsFiniteSet(Edge) /\ \A S \in SUBSET Edge : IsFiniteSet(S)
  <1>1. IsFiniteSet(Case \X Case)
    BY CasesFinite, FS_Product
  <1> QED
    BY <1>1, EdgeAssumption, FS_Subset

\* Every edge is in exactly one task.
LEMMA ChunksPartition ==
    ASSUME NEW S \in SUBSET Edge
    PROVE  /\ \A e \in S : e \in ChunkOf(e, S) /\ ChunkOf(e, S) \in Chunks(S)
           /\ \A t \in Chunks(S) : t # {} /\ t \subseteq S /\ \A e \in t : t = ChunkOf(e, S)
  <1>1. ASSUME NEW e \in S
        PROVE  Rank(e, S) \div ChunkSize \in 0..Cardinality(S)
    <2>1. /\ Rank(e, S) \in Nat /\ Cardinality(S) \in Nat
          /\ Rank(e, S) <= Cardinality(S)
      BY EdgesFinite, FS_Subset, FS_CardinalityType DEF Rank
    <2>2. ChunkSize \in Nat \ {0}
      BY BoundAssumption
    <2> QED
      BY <2>1, <2>2
  <1>2. ASSUME NEW e \in S
        PROVE  e \in ChunkOf(e, S) /\ ChunkOf(e, S) \in Chunks(S)
    BY <1>1 DEF ChunkOf, Chunks
  <1>3. ASSUME NEW t \in Chunks(S), NEW e \in t
        PROVE  t = ChunkOf(e, S)
    BY DEF Chunks, ChunkOf
  <1>4. \A t \in Chunks(S) : t # {}
    BY DEF Chunks
  <1> QED
    BY <1>2, <1>3, <1>4, ChunksInside
-----------------------------------------------------------------------------
(* The invariant of a replay                                                *)

OneEach == \A s \in Reviewing : \A x, y \in checkpoint[s] : x[1] = y[1] => x = y

Unmarked == marks = {}

\* The union loop is where the decision leads it.
LoopHeld ==
    /\ stage \in Building => <<comp, queue>> \in Loop(decision)
    /\ stage \in {"bridge", "phase", "outcome", "done"} => comp = BuiltFrom(decision)

\* A run without a model has trouble before its traces.
Asked == Assembled /\ trouble = {} => client

\* The reviews behind a run left what the disk says...
Behind ==
    /\ stage # "link" => LinkKept(checkpoint)
    /\ stage \notin {"link", "consistency"} => ReviewKept(checkpoint)
    /\ stage \in {"components", "bridge"} => decision = ReviewedOn(checkpoint)
    /\ stage \in {"final"} \/ Assembled =>
          BridgeKept(checkpoint) /\ decision = BridgedOn(checkpoint)
    /\ stage \in {"outcome", "done"} => PhaseKept(checkpoint)

\* ... and a review that is going on holds what is saved for the tasks that
\* have ended.
LinkHeld ==
    stage = "link" =>
        /\ DOMAIN todo \subseteq Chunks(Edge)
        /\ \A e \in Edge : ChunkOf(e, Edge) \notin DOMAIN todo =>
              /\ Under(checkpoint, "link", ChunkOf(e, Edge)) # {}
              /\ verdict[e] = AnswerOn(checkpoint, "link", ChunkOf(e, Edge))[e]

ReviewHeld ==
    stage = "consistency" =>
        /\ decision = LinkedOn(checkpoint)
        /\ DOMAIN todo \subseteq {Conflicts(decision)} \ {{}}
        /\ DOMAIN todo = {} =>
              /\ ReviewKept(checkpoint)
              /\ weak = WeakOn(checkpoint, decision)

BridgeHeld ==
    stage = "bridge" =>
        LET S == Bridges(decision, comp)
        IN  /\ DOMAIN todo \subseteq Chunks(S)
            /\ \A e \in Edge \ S : verdict[e] = None
            /\ \A e \in S : ChunkOf(e, S) \notin DOMAIN todo =>
                  LET k == BridgeKey(decision, comp, ChunkOf(e, S))
                  IN  /\ Under(checkpoint, "bridge", k) # {}
                      /\ verdict[e] = AnswerOn(checkpoint, "bridge", k)[e]

PhaseHeld ==
    stage = "phase" =>
        LET ended == Rooted(comp) \ DOMAIN todo
        IN  /\ DOMAIN todo \subseteq Rooted(comp)
            /\ PhasesKept(checkpoint, decision, ended)
            /\ traces = TracesOf(checkpoint, decision, ended)
            /\ standalone = Rootless(comp) \cup AloneOf(checkpoint, decision, ended)

OutcomeHeld ==
    /\ stage \in {"outcome", "done"} =>
        /\ traces = TracedOn(checkpoint) /\ standalone = AloneOn(checkpoint)
        /\ DOMAIN todo \subseteq {traces} \ {{}}
        /\ DOMAIN todo = {} =>
              /\ traces # {} => Under(checkpoint, "outcome", traces) # {}
              /\ resolved = ResolvedOn(checkpoint, traces)
    /\ stage \notin {"outcome", "done"} => resolved = {}

Held == Behind /\ LinkHeld /\ ReviewHeld /\ BridgeHeld /\ PhaseHeld /\ OutcomeHeld

InGoodOrder == client /\ trouble = {} => Held

SettledFits ==
    settled # {} => Complete(checkpoint) /\ settled = {ResultOn(checkpoint)}

\* Nothing goes wrong in a run that finds everything saved.
Smooth == settled # {} /\ client => trouble = {}

RInv ==
    /\ OneEach /\ Unmarked /\ LoopHeld /\ Asked
    /\ InGoodOrder /\ SettledFits /\ Smooth

\* Every open task of such a run is answered by the disk.
LEMMA ReplayKnows ==
    ASSUME IInv, RInv, settled # {}, client, NEW t \in DOMAIN todo
    PROVE  Known(t) # {}
  <1>0. /\ Held /\ Complete(checkpoint) /\ marks = {} /\ stage \in Reviewing
    BY DEF RInv, Smooth, InGoodOrder, SettledFits, Unmarked, IInv, TypeOK
  <1>1. Known(t) = Under(checkpoint, stage, Input(t))
    BY DEF Known, Under
  <1>2. CASE stage = "link"
    <2>1. t \in Chunks(Edge)
      BY <1>0, <1>2 DEF Held, LinkHeld
    <2>2. PICK e \in t : e \in Edge /\ t = ChunkOf(e, Edge)
      BY <2>1, ChunksPartition
    <2> QED
      BY <2>2, <1>0, <1>1, <1>2 DEF Complete, LinkKept, Input
  <1>3. CASE stage = "consistency"
    <2>1. decision = LinkedOn(checkpoint) /\ t = Conflicts(decision) /\ t # {}
      BY <1>0, <1>3 DEF Held, ReviewHeld
    <2>2. Input(t) = ReviewKey(LinkedOn(checkpoint))
      BY <2>1, <1>3 DEF Input, ReviewKey
    <2> QED
      BY <2>1, <2>2, <1>0, <1>1, <1>3 DEF Complete, ReviewKept
  <1>4. CASE stage = "bridge"
    <2>1. decision = ReviewedOn(checkpoint) /\ comp = BuiltFrom(decision)
      BY <1>0, <1>4 DEF Held, Behind, RInv, LoopHeld
    <2>2. t \in Chunks(Bridges(decision, comp))
      BY <1>0, <1>4 DEF Held, BridgeHeld
    <2>3. Bridges(decision, comp) \subseteq Edge
      BY DEF Bridges, Candidates, EdgesOf
    <2>4. PICK e \in t : e \in Bridges(decision, comp)
                         /\ t = ChunkOf(e, Bridges(decision, comp))
      BY <2>2, <2>3, ChunksPartition
    <2>5. Input(t) = BridgeKey(decision, comp, t)
      BY <1>0, <1>4 DEF Input, BridgeKey, Bridges
    <2> QED
      BY <2>1, <2>4, <2>5, <1>0, <1>1, <1>4 DEF Complete, BridgeKept, BridgesKept
  <1>5. CASE stage = "phase"
    <2>1. decision = BridgedOn(checkpoint) /\ comp = FinalOn(checkpoint)
      BY <1>0, <1>5 DEF Held, Behind, RInv, LoopHeld, FinalOn, Assembled
    <2>2. t \in Rooted(comp) /\ Input(t) = <<t, decision>>
      BY <1>0, <1>5 DEF Held, PhaseHeld, Input
    <2> QED
      BY <2>1, <2>2, <1>0, <1>1, <1>5 DEF Complete, PhaseKept, PhasesKept
  <1>6. CASE stage = "outcome"
    <2>1. t = TracedOn(checkpoint) /\ t # {} /\ Input(t) = t
      BY <1>0, <1>6 DEF Held, OutcomeHeld, Input
    <2> QED
      BY <2>1, <1>0, <1>1, <1>6 DEF Complete, OutcomeKept
  <1> QED
    BY <1>0, <1>2, <1>3, <1>4, <1>5, <1>6

\* And a run that is done has the result of the disk.
LEMMA DoneResult ==
    ASSUME IInv, RInv, client, trouble = {}, stage \in {"outcome", "done"}, DOMAIN todo = {}
    PROVE  Complete(checkpoint) /\ Result = ResultOn(checkpoint)
  <1>1. Held
    BY DEF RInv, InGoodOrder
  <1>2. decision = BridgedOn(checkpoint) /\ comp = FinalOn(checkpoint)
    BY <1>1 DEF Held, Behind, RInv, LoopHeld, FinalOn, Assembled
  <1>3. /\ traces = TracedOn(checkpoint) /\ standalone = AloneOn(checkpoint)
        /\ OutcomeKept(checkpoint) /\ resolved = ResolvedOn(checkpoint, TracedOn(checkpoint))
    BY <1>1 DEF Held, OutcomeHeld, OutcomeKept
  <1>4. LinkKept(checkpoint) /\ ReviewKept(checkpoint) /\ BridgeKept(checkpoint)
        /\ PhaseKept(checkpoint)
    BY <1>1 DEF Held, Behind, Assembled
  <1> QED
    BY <1>2, <1>3, <1>4 DEF Complete, Result, ResultOn

LEMMA RInvImplies == IInv /\ RInv => ReplayIsStable
  <1> SUFFICES ASSUME IInv, RInv, settled # {}, client
               PROVE  /\ \A t \in DOMAIN todo : Known(t) # {}
                      /\ stage = "done" => settled = {Result}
    BY DEF ReplayIsStable
  <1>1. \A t \in DOMAIN todo : Known(t) # {}
    BY ReplayKnows
  <1>2. ASSUME stage = "done" PROVE settled = {Result}
    <2>1. DOMAIN todo = {} /\ trouble = {}
      BY <1>2 DEF RInv, Smooth, IInv, TypeOK
    <2> QED
      BY <2>1, <1>2, DoneResult DEF RInv, SettledFits
  <1> QED
    BY <1>1, <1>2
-----------------------------------------------------------------------------
(* The steps of the pool keep it                                            *)

\* A task ends with what the disk says, then or from now on.
Taken(t, o) ==
    /\ Answer(t, o) /\ UNCHANGED trouble
    /\ OneEach' /\ Retains(checkpoint, checkpoint')
    /\ Under(checkpoint', stage, Input(t)) # {}
    /\ AnswerOn(checkpoint', stage, Input(t)) = o

LEMMA WorkerTakes ==
    ASSUME IInv, OneEach, NEW t \in DOMAIN todo, ReadCheckpoint(t) \/ Accept(t)
    PROVE  \E o : Taken(t, o)
  <1>0. stage \in Reviewing
    BY DEF IInv, TypeOK
  <1>1. CASE ReadCheckpoint(t)
    <2>1. PICK x \in Known(t) : Answer(t, x[2])
      BY <1>1 DEF ReadCheckpoint
    <2>2. UNCHANGED <<trouble, checkpoint>>
      BY <1>1 DEF ReadCheckpoint
    <2>3. OneEach' /\ Retains(checkpoint, checkpoint')
      BY <2>2 DEF OneEach, Retains
    <2>4. x \in Under(checkpoint, stage, Input(t))
          /\ \A y \in Under(checkpoint, stage, Input(t)) : y = x
      BY <1>0 DEF Known, Under, OneEach
    <2>5. AnswerOn(checkpoint, stage, Input(t)) = x[2]
      BY <2>4, OnlyAnswer
    <2> QED
      BY <2>1, <2>2, <2>3, <2>4, <2>5 DEF Taken
  <1>2. CASE Accept(t)
    <2>1. PICK o \in Accepted(t) :
            /\ Answer(t, o)
            /\ checkpoint' = [checkpoint EXCEPT ![stage] = @ \cup {<<Input(t), o>>}]
      BY <1>2 DEF Accept
    <2>2. UNCHANGED trouble /\ Known(t) = {}
      BY <1>2 DEF Accept
    <2>3. /\ checkpoint'[stage] = checkpoint[stage] \cup {<<Input(t), o>>}
          /\ \A s \in Reviewing \ {stage} : checkpoint'[s] = checkpoint[s]
      BY <2>1, <1>0 DEF IInv, CheckpointsFit
    <2> DEFINE i == Input(t)
    <2>4. \A x \in checkpoint[stage] : x[1] # i
      BY <2>2 DEF Known
    <2> HIDE DEF i
    <2>5. checkpoint'[stage] = checkpoint[stage] \cup {<<i, o>>}
      BY <2>3 DEF i
    <2>6. OneEach'
      <3>1. ASSUME NEW s \in Reviewing, NEW x \in checkpoint'[s], NEW y \in checkpoint'[s],
                   x[1] = y[1]
            PROVE  x = y
        <4>1. CASE s # stage
          BY <4>1, <3>1, <2>3 DEF OneEach
        <4>2. CASE s = stage
          BY <4>2, <3>1, <2>4, <2>5 DEF OneEach
        <4> QED
          BY <4>1, <4>2
      <3> QED
        BY <3>1 DEF OneEach
    <2>7. Under(checkpoint', stage, i) = {<<i, o>>}
      BY <2>4, <2>5 DEF Under
    <2>8. AnswerOn(checkpoint', stage, i) = o
      <3>1. <<i, o>> \in Under(checkpoint', stage, i)
            /\ \A y \in Under(checkpoint', stage, i) : y = <<i, o>>
        BY <2>7
      <3>2. AnswerOn(checkpoint', stage, i) = <<i, o>>[2]
        BY <3>1, OnlyAnswer
      <3> QED
        BY <3>2
    <2>9. Retains(checkpoint, checkpoint')
      <3>1. ASSUME NEW s \in Reviewing, NEW j, Under(checkpoint, s, j) # {}
            PROVE  Under(checkpoint', s, j) = Under(checkpoint, s, j)
        <4>1. CASE s # stage
          BY <4>1, <2>3 DEF Under
        <4>2. CASE s = stage
          BY <4>2, <3>1, <2>4, <2>5 DEF Under
        <4> QED
          BY <4>1, <4>2
      <3> QED
        BY <3>1 DEF Retains
    <2> QED
      BY <2>1, <2>2, <2>6, <2>7, <2>8, <2>9 DEF Taken, i
  <1> QED
    BY <1>1, <1>2

\* What the end of a task leaves alone.
LEMMA TakenFrame ==
    ASSUME IInv, NEW t \in DOMAIN todo, NEW o, Answer(t, o)
    PROVE  /\ DOMAIN todo' = (DOMAIN todo) \ {t} /\ stage \in Reviewing
           /\ UNCHANGED <<stage, decision, marks, comp, queue, downgraded>>
           /\ UNCHANGED <<client, linked, guarded, settled>>
  BY DEF Answer, graph, past, IInv, TypeOK

LEMMA TakenBehind ==
    ASSUME IInv, Held, NEW t \in DOMAIN todo, NEW o, Taken(t, o)
    PROVE  Behind'
  <1> DEFINE D == checkpoint
             E == checkpoint'
  <1>1. Retains(D, E) /\ Behind
    BY DEF Taken, Held
  <1>2. UNCHANGED <<stage, decision, comp>> /\ stage \in Reviewing
    BY TakenFrame DEF Taken
  <1>3. stage # "link" => LinkKept(E)
    BY <1>1, RetainsLink DEF Behind
  <1>4. stage \notin {"link", "consistency"} => ReviewKept(E) /\ ReviewedOn(E) = ReviewedOn(D)
    BY <1>1, RetainsReview DEF Behind
  <1>5. stage \in {"phase", "outcome"} => BridgeKept(E) /\ BridgedOn(E) = BridgedOn(D)
    BY <1>1, RetainsBridge DEF Behind, Assembled
  <1>6. stage = "outcome" => PhaseKept(E)
    BY <1>1, RetainsPhase DEF Behind, Assembled
  <1> HIDE DEF D
  <1>7. stage' # "link" => LinkKept(checkpoint')
    BY <1>2, <1>3
  <1>8. stage' \notin {"link", "consistency"} => ReviewKept(checkpoint')
    BY <1>2, <1>4
  <1>9. stage' \in {"components", "bridge"} => decision' = ReviewedOn(checkpoint')
    BY <1>1, <1>2, <1>4 DEF Behind, D
  <1>10. stage' \in {"final"} \/ Assembled' =>
            BridgeKept(checkpoint') /\ decision' = BridgedOn(checkpoint')
    BY <1>1, <1>2, <1>5 DEF Behind, D, Assembled
  <1>11. stage' \in {"outcome", "done"} => PhaseKept(checkpoint')
    BY <1>2, <1>6
  <1> QED
    BY <1>7, <1>8, <1>9, <1>10, <1>11 DEF Behind

\* The edges of the chunk have their verdict from the disk, all others kept it.
LEMMA TakenLink ==
    ASSUME IInv, Held, NEW t \in DOMAIN todo, NEW o, Taken(t, o), stage = "link"
    PROVE  LinkHeld'
  <1>1. /\ DOMAIN todo' = (DOMAIN todo) \ {t} /\ DOMAIN todo \subseteq Chunks(Edge)
        /\ verdict' = [e \in Edge |-> IF e \in t THEN o[e] ELSE verdict[e]]
        /\ Input(t) = t
    BY TakenFrame DEF Taken, Answer, Held, LinkHeld, Input
  <1>2. ASSUME NEW e \in Edge, ChunkOf(e, Edge) \notin DOMAIN todo'
        PROVE  /\ Under(checkpoint', "link", ChunkOf(e, Edge)) # {}
               /\ verdict'[e] = AnswerOn(checkpoint', "link", ChunkOf(e, Edge))[e]
    <2>1. CASE ChunkOf(e, Edge) = t
      <3>1. e \in t
        BY <2>1, ChunksPartition
      <3> QED
        BY <2>1, <3>1, <1>1 DEF Taken
    <2>2. CASE ChunkOf(e, Edge) # t
      <3>1. e \notin t
        BY <2>2, <1>1, ChunksPartition
      <3>2. ChunkOf(e, Edge) \notin DOMAIN todo
        BY <2>2, <1>1, <1>2
      <3>3. /\ Under(checkpoint, "link", ChunkOf(e, Edge)) # {}
            /\ verdict[e] = AnswerOn(checkpoint, "link", ChunkOf(e, Edge))[e]
        BY <3>2 DEF Held, LinkHeld
      <3>4. /\ Under(checkpoint', "link", ChunkOf(e, Edge)) # {}
            /\ AnswerOn(checkpoint', "link", ChunkOf(e, Edge))
                 = AnswerOn(checkpoint, "link", ChunkOf(e, Edge))
        BY <3>3, RetainsAnswer DEF Taken
      <3> QED
        BY <3>1, <3>3, <3>4, <1>1
    <2> QED
      BY <2>1, <2>2
  <1> QED
    BY <1>1, <1>2 DEF LinkHeld

LEMMA TakenReview ==
    ASSUME IInv, Held, NEW t \in DOMAIN todo, NEW o, Taken(t, o), stage = "consistency"
    PROVE  ReviewHeld'
  <1>1. /\ decision = LinkedOn(checkpoint) /\ DOMAIN todo' = {} /\ decision' = decision
        /\ t = Conflicts(decision) /\ t # {}
    BY TakenFrame DEF Taken, Held, ReviewHeld
  <1>2. LinkedOn(checkpoint') = LinkedOn(checkpoint)
    BY RetainsLink DEF Taken, Held, Behind
  <1>3. Input(t) = ReviewKey(decision) /\ weak' = o
    BY <1>1 DEF Input, ReviewKey, Taken, Answer
  <1>4. /\ Under(checkpoint', "consistency", ReviewKey(decision)) # {}
        /\ AnswerOn(checkpoint', "consistency", ReviewKey(decision)) = o
    BY <1>3 DEF Taken
  <1>5. ReviewKept(checkpoint') /\ weak' = WeakOn(checkpoint', decision)
    BY <1>1, <1>2, <1>3, <1>4 DEF ReviewKept, WeakOn
  <1> QED
    BY <1>1, <1>2, <1>5 DEF ReviewHeld

LEMMA TakenBridge ==
    ASSUME IInv, Unmarked, Held, NEW t \in DOMAIN todo, NEW o, Taken(t, o),
           stage = "bridge"
    PROVE  BridgeHeld'
  <1> DEFINE S == Bridges(decision, comp)
             Key(e) == BridgeKey(decision, comp, ChunkOf(e, S))
  <1>1. /\ DOMAIN todo' = (DOMAIN todo) \ {t} /\ DOMAIN todo \subseteq Chunks(S)
        /\ verdict' = [e \in Edge |-> IF e \in t THEN o[e] ELSE verdict[e]]
        /\ Input(t) = BridgeKey(decision, comp, t)
        /\ UNCHANGED <<stage, decision, comp>>
    BY TakenFrame DEF Taken, Answer, Held, BridgeHeld, Input, BridgeKey, Bridges, Unmarked
  <1>2. S \subseteq Edge
    BY DEF Bridges, Candidates, EdgesOf
  <1>3. t \in Chunks(S) /\ t \subseteq S
    BY <1>1, <1>2, ChunksPartition
  <1>4. \A e \in Edge \ S : verdict'[e] = None
    BY <1>1, <1>3 DEF Held, BridgeHeld
  <1>5. ASSUME NEW e \in S, ChunkOf(e, S) \notin DOMAIN todo'
        PROVE  /\ Under(checkpoint', "bridge", Key(e)) # {}
               /\ verdict'[e] = AnswerOn(checkpoint', "bridge", Key(e))[e]
    <2>0. e \in Edge
      BY <1>2
    <2>1. CASE ChunkOf(e, S) = t
      <3>1. e \in t
        BY <2>1, <1>2, ChunksPartition
      <3>2. Key(e) = Input(t)
        BY <2>1, <1>1
      <3> HIDE DEF Key
      <3> QED
        BY <3>1, <3>2, <1>1, <2>0 DEF Taken
    <2>2. CASE ChunkOf(e, S) # t
      <3>1. e \notin t
        BY <2>2, <1>2, <1>3, ChunksPartition
      <3>2. ChunkOf(e, S) \notin DOMAIN todo
        BY <2>2, <1>1, <1>5
      <3>3. /\ Under(checkpoint, "bridge", Key(e)) # {}
            /\ verdict[e] = AnswerOn(checkpoint, "bridge", Key(e))[e]
        BY <3>2 DEF Held, BridgeHeld
      <3>4. /\ Under(checkpoint', "bridge", Key(e)) # {}
            /\ AnswerOn(checkpoint', "bridge", Key(e)) = AnswerOn(checkpoint, "bridge", Key(e))
        BY <3>3, RetainsAnswer DEF Taken
      <3> QED
        BY <3>1, <3>3, <3>4, <1>1, <2>0
    <2> QED
      BY <2>1, <2>2
  <1> QED
    BY <1>1, <1>4, <1>5 DEF BridgeHeld

\* The component is one more whose phases the disk holds.
LEMMA TakenPhase ==
    ASSUME IInv, Held, NEW t \in DOMAIN todo, NEW o, Taken(t, o), stage = "phase"
    PROVE  PhaseHeld'
  <1> DEFINE ended == Rooted(comp) \ DOMAIN todo
             E == checkpoint'
  <1>1. /\ DOMAIN todo' = (DOMAIN todo) \ {t} /\ DOMAIN todo \subseteq Rooted(comp)
        /\ traces' = traces \cup o
        /\ standalone' = IF o = {} THEN standalone \cup t ELSE standalone
        /\ Input(t) = <<t, decision>>
        /\ UNCHANGED <<stage, decision, comp>>
    BY TakenFrame DEF Taken, Answer, Held, PhaseHeld, Input
  <1>2. Rooted(comp) \ DOMAIN todo' = ended \cup {t}
    BY <1>1
  <1>3. /\ PhasesKept(E, decision, ended)
        /\ traces = TracesOf(E, decision, ended)
        /\ standalone = Rootless(comp) \cup AloneOf(E, decision, ended)
    <2>1. /\ PhasesKept(checkpoint, decision, ended)
          /\ traces = TracesOf(checkpoint, decision, ended)
          /\ standalone = Rootless(comp) \cup AloneOf(checkpoint, decision, ended)
      BY DEF Held, PhaseHeld
    <2> HIDE DEF ended
    <2> QED
      BY <2>1, RetainsPhases DEF Taken
  <1>4. Under(E, "phase", <<t, decision>>) # {} /\ AnswerOn(E, "phase", <<t, decision>>) = o
    BY <1>1 DEF Taken
  <1> HIDE DEF ended, E
  <1>5. PhasesKept(E, decision, ended \cup {t})
    BY <1>3, <1>4 DEF PhasesKept
  <1>6. traces' = TracesOf(E, decision, ended \cup {t})
    BY <1>1, <1>3, <1>4 DEF TracesOf
  <1>7. standalone' = Rootless(comp) \cup AloneOf(E, decision, ended \cup {t})
    <2>1. AloneOf(E, decision, ended \cup {t})
            = AloneOf(E, decision, ended) \cup (IF o = {} THEN t ELSE {})
      BY <1>4 DEF AloneOf
    <2> QED
      BY <2>1, <1>1, <1>3
  <1>8. DOMAIN todo' \subseteq Rooted(comp)
    BY <1>1
  <1> QED
    BY <1>1, <1>2, <1>5, <1>6, <1>7, <1>8 DEF PhaseHeld, E

LEMMA TakenOutcome ==
    ASSUME IInv, Held, NEW t \in DOMAIN todo, NEW o, Taken(t, o)
    PROVE  OutcomeHeld'
  <1>0. /\ DOMAIN todo' = (DOMAIN todo) \ {t} /\ stage' = stage /\ stage \in Reviewing
    BY TakenFrame DEF Taken
  <1>1. CASE stage # "outcome"
    BY <1>0, <1>1 DEF Held, OutcomeHeld, Taken, Answer
  <1>2. CASE stage = "outcome"
    <2>1. /\ t = traces /\ t # {} /\ DOMAIN todo' = {} /\ Input(t) = traces
          /\ traces = TracedOn(checkpoint) /\ standalone = AloneOn(checkpoint)
      BY <1>0, <1>2 DEF Held, OutcomeHeld, Input
    <2>2. /\ TracedOn(checkpoint') = TracedOn(checkpoint)
          /\ AloneOn(checkpoint') = AloneOn(checkpoint)
      BY <1>2, RetainsPhase DEF Taken, Held, Behind, Assembled
    <2>3. UNCHANGED <<traces, standalone>> /\ resolved' = o
      BY <1>2 DEF Taken, Answer
    <2>4. /\ Under(checkpoint', "outcome", traces) # {}
          /\ resolved' = ResolvedOn(checkpoint', traces)
      BY <2>1, <2>3, <1>2 DEF Taken, ResolvedOn
    <2> QED
      BY <1>0, <1>2, <2>1, <2>2, <2>3, <2>4 DEF OutcomeHeld
  <1> QED
    BY <1>1, <1>2

LEMMA TakenPreserves ==
    ASSUME IInv, RInv, NEW t \in DOMAIN todo, NEW o, Taken(t, o)
    PROVE  RInv'
  <1>1. /\ UNCHANGED <<stage, decision, marks, comp, queue, client, settled, trouble>>
        /\ stage \in Reviewing
    BY TakenFrame DEF Taken
  <1>2. OneEach' /\ Unmarked' /\ LoopHeld' /\ Asked' /\ Smooth'
    BY <1>1 DEF RInv, Taken, Unmarked, LoopHeld, Asked, Assembled, Smooth
  <1>3. SettledFits'
    <2>1. Complete(checkpoint) => Complete(checkpoint')
                                  /\ ResultOn(checkpoint') = ResultOn(checkpoint)
      BY RetainsComplete DEF Taken
    <2> QED
      BY <1>1, <2>1 DEF RInv, SettledFits
  <1>4. ASSUME client, trouble = {} PROVE Held'
    <2>1. Held /\ Unmarked
      BY <1>4 DEF RInv, InGoodOrder
    <2>2. Behind' /\ OutcomeHeld'
      BY <2>1, TakenBehind, TakenOutcome
    <2>3. LinkHeld' /\ ReviewHeld'
      BY <2>1, <1>1, TakenLink, TakenReview DEF LinkHeld, ReviewHeld
    <2>4. BridgeHeld' /\ PhaseHeld'
      BY <2>1, <1>1, TakenBridge, TakenPhase DEF BridgeHeld, PhaseHeld
    <2> QED
      BY <2>2, <2>3, <2>4 DEF Held
  <1>5. InGoodOrder'
    BY <1>1, <1>4 DEF InGoodOrder
  <1> QED
    BY <1>2, <1>3, <1>5 DEF RInv

\* Asking again changes no answer.
LEMMA AskKeepsReplay ==
    ASSUME IInv, RInv, NEW t \in DOMAIN todo, AskAgain(t)
    PROVE  RInv'
  <1>1. /\ DOMAIN todo' = DOMAIN todo
        /\ UNCHANGED <<stage, verdict, weak, traces, standalone, resolved, trouble>>
        /\ UNCHANGED <<decision, marks, comp, queue, downgraded>>
        /\ UNCHANGED <<checkpoint, client, settled>>
    BY DEF AskAgain, graph, past
  <1>2. OneEach' /\ Unmarked' /\ LoopHeld' /\ Asked' /\ SettledFits' /\ Smooth'
    BY <1>1 DEF RInv, OneEach, Unmarked, LoopHeld, Asked, Assembled, SettledFits, Smooth
  <1>3. Held => Behind' /\ LinkHeld' /\ ReviewHeld'
    BY <1>1 DEF Held, Behind, LinkHeld, ReviewHeld, Assembled
  <1>4. Held => BridgeHeld' /\ PhaseHeld' /\ OutcomeHeld'
    BY <1>1 DEF Held, BridgeHeld, PhaseHeld, OutcomeHeld
  <1>5. InGoodOrder'
    BY <1>1, <1>3, <1>4 DEF RInv, InGoodOrder, Held
  <1> QED
    BY <1>2, <1>5 DEF RInv

\* A task that fails was not on the disk, so this is not a replay.
LEMMA FailureKeepsReplay ==
    ASSUME IInv, RInv, NEW t \in DOMAIN todo, GiveUp(t) \/ CallFails(t)
    PROVE  RInv'
  <1>1. /\ Known(t) = {} /\ trouble' = trouble \cup {stage} /\ UNCHANGED checkpoint
        /\ \E o : Answer(t, o)
    BY DEF GiveUp, CallFails, WriteFlawed
  <1>2. /\ UNCHANGED <<stage, decision, marks, comp, queue, downgraded>>
        /\ UNCHANGED <<client, settled>> /\ trouble' # {}
    BY <1>1, TakenFrame
  <1>3. ~(settled # {} /\ client)
    BY <1>1, ReplayKnows
  <1>4. OneEach' /\ Unmarked' /\ LoopHeld' /\ SettledFits'
    BY <1>1, <1>2 DEF RInv, OneEach, Unmarked, LoopHeld, SettledFits
  <1>5. Asked' /\ InGoodOrder' /\ Smooth'
    BY <1>2, <1>3 DEF Asked, InGoodOrder, Smooth
  <1> QED
    BY <1>4, <1>5 DEF RInv
-----------------------------------------------------------------------------
(* The steps of the main thread keep it                                     *)

\* With every task answered, each edge has the verdict the disk gives it.
LEMMA LinkAnswered ==
    ASSUME IInv, Held, stage = "link", DOMAIN todo = {}
    PROVE  /\ LinkKept(checkpoint) /\ verdict = LinkAnswer(checkpoint)
           /\ \A e \in Edge : verdict[e] # None
  <1>1. ASSUME NEW e \in Edge
        PROVE  /\ Under(checkpoint, "link", ChunkOf(e, Edge)) # {}
               /\ verdict[e] = AnswerOn(checkpoint, "link", ChunkOf(e, Edge))[e]
    BY DEF Held, LinkHeld
  <1>2. verdict = LinkAnswer(checkpoint)
    BY <1>1 DEF LinkAnswer, IInv, TypeOK
  <1>3. ASSUME NEW e \in Edge
        PROVE  verdict[e] # None
    <2>1. PICK x \in Under(checkpoint, "link", ChunkOf(e, Edge)) :
            x = CHOOSE y \in Under(checkpoint, "link", ChunkOf(e, Edge)) : TRUE
      BY <1>1
    <2>2. x[2] \in [ChunkOf(e, Edge) -> Decision]
      BY <2>1 DEF Under, IInv, CheckpointsFit, Shape
    <2>3. e \in ChunkOf(e, Edge)
      BY ChunksPartition
    <2>4. verdict[e] \in Decision
      BY <1>1, <2>1, <2>2, <2>3 DEF AnswerOn
    <2> QED
      BY <2>4 DEF None
  <1> QED
    BY <1>1, <1>2, <1>3 DEF LinkKept

LEMMA CombineLinkKeeps == IInv /\ RInv /\ CombineLink => RInv'
  <1> SUFFICES ASSUME IInv, RInv, CombineLink PROVE RInv'
    OBVIOUS
  <1>1. /\ stage = "link" /\ DOMAIN todo = {} /\ stage' = "consistency"
        /\ decision' = Guarded(verdict) /\ marks' = {}
        /\ todo' = Open({Conflicts(decision')} \ {{}})
        /\ UNCHANGED <<verdict, weak, traces, standalone, resolved, comp, queue>>
        /\ UNCHANGED <<checkpoint, client, settled>>
    BY DEF CombineLink, Answered, MarksKept, Guarded
  <1>2. /\ trouble \subseteq trouble'
        /\ (\A e \in Edge : verdict[e] # None) => trouble' = trouble
    BY DEF CombineLink
  <1>3. DOMAIN todo' = {Conflicts(decision')} \ {{}}
    BY <1>1, OpenDomain
  <1>4. OneEach' /\ Unmarked' /\ LoopHeld' /\ Asked' /\ SettledFits'
    BY <1>1 DEF RInv, OneEach, Unmarked, LoopHeld, Asked, Assembled, SettledFits
  <1>5. Smooth'
    BY <1>1, <1>2, LinkAnswered DEF RInv, Smooth, InGoodOrder
  <1>6. ASSUME Held PROVE Held'
    <2>1. LinkKept(checkpoint) /\ decision' = LinkedOn(checkpoint)
      BY <1>1, <1>6, LinkAnswered DEF LinkedOn
    <2>2. weak' = {} /\ resolved' = {}
      BY <1>1, <1>6 DEF IInv, LinkOpen, Held, OutcomeHeld
    <2>3. DOMAIN todo' = {} => ReviewKept(checkpoint') /\ weak' = WeakOn(checkpoint', decision')
      BY <1>1, <1>3, <2>1, <2>2 DEF ReviewKept, WeakOn
    <2>4. ReviewHeld'
      BY <1>1, <1>3, <2>1, <2>3 DEF ReviewHeld
    <2>5. Behind' /\ LinkHeld' /\ BridgeHeld' /\ PhaseHeld' /\ OutcomeHeld'
      BY <1>1, <2>1, <2>2 DEF Behind, LinkHeld, BridgeHeld, PhaseHeld, OutcomeHeld, Assembled
    <2> QED
      BY <2>4, <2>5 DEF Held
  <1>7. InGoodOrder'
    BY <1>1, <1>2, <1>6 DEF RInv, InGoodOrder
  <1> QED
    BY <1>4, <1>5, <1>7 DEF RInv

LEMMA BuildingStartsLoop ==
    ASSUME NEW d, NEW c, NEW q, c = [b \in Case |-> b], q = EdgesOf(d, "must_link")
    PROVE  <<c, q>> \in Loop(d)
  BY LoopIsClosed DEF LoopClosed, LoopStart

LEMMA CombineConsistencyKeeps == IInv /\ RInv /\ CombineConsistency => RInv'
  <1> SUFFICES ASSUME IInv, RInv, CombineConsistency PROVE RInv'
    OBVIOUS
  <1>1. /\ stage = "consistency" /\ DOMAIN todo = {} /\ stage' = "components"
        /\ decision' = Weakened(decision, weak)
        /\ comp' = [b \in Case |-> b] /\ queue' = EdgesOf(decision', "must_link")
        /\ UNCHANGED <<todo, verdict, weak, traces, standalone, resolved, trouble>>
        /\ UNCHANGED <<marks, checkpoint, client, settled>>
    BY DEF CombineConsistency, Answered, Weakened, StartBuilding, review, past
  <1>2. LoopHeld'
    <2>1. <<comp', queue'>> \in Loop(decision')
      BY <1>1, BuildingStartsLoop
    <2> QED
      BY <1>1, <2>1 DEF LoopHeld
  <1>3. OneEach' /\ Unmarked' /\ Asked' /\ SettledFits' /\ Smooth'
    BY <1>1 DEF RInv, OneEach, Unmarked, Asked, Assembled, SettledFits, Smooth
  <1>4. ASSUME Held PROVE Held'
    <2>1. LinkKept(checkpoint) /\ ReviewKept(checkpoint) /\ resolved = {}
      BY <1>1, <1>4 DEF Held, Behind, ReviewHeld, OutcomeHeld
    <2>2. decision' = ReviewedOn(checkpoint)
      BY <1>1, <1>4 DEF Held, ReviewHeld, ReviewedOn
    <2>3. Behind'
      BY <1>1, <2>1, <2>2 DEF Behind, Assembled
    <2>4. LinkHeld' /\ ReviewHeld' /\ BridgeHeld' /\ PhaseHeld' /\ OutcomeHeld'
      BY <1>1, <2>1 DEF LinkHeld, ReviewHeld, BridgeHeld, PhaseHeld, OutcomeHeld
    <2> QED
      BY <2>3, <2>4 DEF Held
  <1>5. InGoodOrder'
    BY <1>1, <1>4 DEF RInv, InGoodOrder
  <1> QED
    BY <1>2, <1>3, <1>5 DEF RInv

LEMMA UnionStepKeeps == IInv /\ RInv /\ UnionStep => RInv'
  <1> SUFFICES ASSUME IInv, RInv, UnionStep PROVE RInv'
    OBVIOUS
  <1>1. /\ stage \in Building
        /\ UNCHANGED <<stage, todo, verdict, weak, traces, standalone, resolved, trouble>>
        /\ UNCHANGED <<decision, marks, checkpoint, client, settled>>
    BY DEF UnionStep, review, past
  <1>2. PICK e \in queue :
            /\ \A f \in queue \ {e} : Before(e, f)
            /\ queue' = queue \ {e}
            /\ LET k == comp[e[1]]
                   l == comp[e[2]]
               IN  \/ k = l /\ UNCHANGED <<comp, downgraded>>
                   \/ /\ k # l
                      /\ Blockers(comp, decision, k, l) # {} \/ TooLarge(comp, k, l)
                      /\ downgraded' = downgraded \cup {e}
                      /\ UNCHANGED comp
                   \/ /\ k # l
                      /\ Blockers(comp, decision, k, l) = {}
                      /\ ~TooLarge(comp, k, l)
                      /\ comp' = Union(comp, k, l)
                      /\ UNCHANGED downgraded
    BY DEF UnionStep
  <1>3. comp' = Turned(comp, decision, e)
    BY <1>2 DEF Turned
  <1>4. <<comp, queue>> \in Loop(decision) /\ e \in Edge
    BY <1>1, <1>2 DEF RInv, LoopHeld, IInv, TypeOK
  <1>5. LoopTurn(<<comp, queue>>, decision, e) \in Loop(decision)
    <2>1. Least(<<comp, queue>>[2], e)
      BY <1>2 DEF Least
    <2> QED
      BY <2>1, <1>4, LoopIsClosed DEF LoopClosed
  <1>6. LoopTurn(<<comp, queue>>, decision, e) = <<comp', queue'>>
    BY <1>2, <1>3 DEF LoopTurn
  <1>7. LoopHeld'
    BY <1>1, <1>5, <1>6 DEF LoopHeld
  <1>8. OneEach' /\ Unmarked' /\ Asked' /\ SettledFits' /\ Smooth'
    BY <1>1 DEF RInv, OneEach, Unmarked, Asked, Assembled, SettledFits, Smooth
  <1>9. Held => Held'
    BY <1>1 DEF Held, Behind, Assembled, LinkHeld, ReviewHeld, BridgeHeld, PhaseHeld,
                OutcomeHeld
  <1>10. InGoodOrder'
    BY <1>1, <1>9 DEF RInv, InGoodOrder
  <1> QED
    BY <1>7, <1>8, <1>10 DEF RInv

\* The loop has ended, so the components are those of the decision.
LEMMA LoopHasEnded ==
    ASSUME RInv, stage \in Building, queue = {}
    PROVE  comp = BuiltFrom(decision)
  BY LoopEnds DEF RInv, LoopHeld

LEMMA OfferBridgesKeeps == IInv /\ RInv /\ OfferBridges => RInv'
  <1> SUFFICES ASSUME IInv, RInv, OfferBridges PROVE RInv'
    OBVIOUS
  <1>1. /\ stage = "components" /\ queue = {} /\ stage' = "bridge"
        /\ todo' = Open(Chunks(Candidates(comp, decision, marks)))
        /\ verdict' = [e \in Edge |-> None]
        /\ UNCHANGED <<weak, traces, standalone, resolved, trouble>>
        /\ UNCHANGED <<decision, marks, comp, queue, checkpoint, client, settled>>
    BY DEF OfferBridges, graph, past
  <1>2. comp = BuiltFrom(decision)
    BY <1>1, LoopHasEnded
  <1>3. LoopHeld'
    BY <1>1, <1>2 DEF LoopHeld
  <1>4. OneEach' /\ Unmarked' /\ Asked' /\ SettledFits' /\ Smooth'
    BY <1>1 DEF RInv, OneEach, Unmarked, Asked, Assembled, SettledFits, Smooth
  <1>5. BridgeHeld'
    <2> DEFINE S == Bridges(decision, comp)
    <2>1. DOMAIN todo' = Chunks(S)
      BY <1>1, OpenDomain DEF Bridges, RInv, Unmarked
    <2>2. S \subseteq Edge
      BY DEF Bridges, Candidates, EdgesOf
    <2>3. \A e \in S : ChunkOf(e, S) \in DOMAIN todo'
      BY <2>1, <2>2, ChunksPartition
    <2>4. S' = S
      BY <1>1
    <2> HIDE DEF S
    <2>5. \A e \in Edge \ S' : verdict'[e] = None
      BY <1>1
    <2>6. DOMAIN todo' \subseteq Chunks(S')
      BY <2>1, <2>4
    <2> QED
      BY <2>3, <2>4, <2>5, <2>6 DEF BridgeHeld, S
  <1>6. ASSUME Held PROVE Held'
    <2>1. Behind' /\ LinkHeld' /\ ReviewHeld' /\ PhaseHeld' /\ OutcomeHeld'
      BY <1>1, <1>6 DEF Held, Behind, LinkHeld, ReviewHeld, PhaseHeld, OutcomeHeld, Assembled
    <2> QED
      BY <2>1, <1>5 DEF Held
  <1>7. InGoodOrder'
    BY <1>1, <1>6 DEF RInv, InGoodOrder
  <1> QED
    BY <1>3, <1>4, <1>7 DEF RInv

LEMMA CombineBridgesKeeps == IInv /\ RInv /\ CombineBridges => RInv'
  <1> SUFFICES ASSUME IInv, RInv, CombineBridges PROVE RInv'
    OBVIOUS
  <1>1. /\ stage = "bridge" /\ DOMAIN todo = {} /\ stage' = "final"
        /\ decision' = Promoted(decision, verdict)
        /\ comp' = [b \in Case |-> b] /\ queue' = EdgesOf(decision', "must_link")
        /\ UNCHANGED <<todo, verdict, weak, traces, standalone, resolved, trouble>>
        /\ UNCHANGED <<marks, checkpoint, client, settled>>
    BY DEF CombineBridges, Answered, Promoted, StartBuilding, review, past
  <1>2. LoopHeld'
    <2>1. <<comp', queue'>> \in Loop(decision')
      BY <1>1, BuildingStartsLoop
    <2> QED
      BY <1>1, <2>1 DEF LoopHeld
  <1>3. OneEach' /\ Unmarked' /\ Asked' /\ SettledFits' /\ Smooth'
    BY <1>1 DEF RInv, OneEach, Unmarked, Asked, Assembled, SettledFits, Smooth
  <1>4. ASSUME Held PROVE Held'
    <2>1. /\ LinkKept(checkpoint) /\ ReviewKept(checkpoint) /\ resolved = {}
          /\ decision = ReviewedOn(checkpoint) /\ comp = BuiltFrom(decision)
      BY <1>1, <1>4 DEF Held, Behind, OutcomeHeld, RInv, LoopHeld
    <2> DEFINE S == Bridges(decision, comp)
               Key(e) == BridgeKey(decision, comp, ChunkOf(e, S))
    <2>2. /\ \A e \in Edge \ S : verdict[e] = None
          /\ \A e \in S : /\ Under(checkpoint, "bridge", Key(e)) # {}
                           /\ verdict[e] = AnswerOn(checkpoint, "bridge", Key(e))[e]
      BY <1>1, <1>4 DEF Held, BridgeHeld
    <2>3. BridgesKept(checkpoint, decision, comp)
      BY <2>2 DEF BridgesKept
    <2>4. verdict = BridgeAnswer(checkpoint, decision, comp)
      BY <2>2 DEF BridgeAnswer, IInv, TypeOK
    <2>5. BridgeKept(checkpoint) /\ decision' = BridgedOn(checkpoint)
      BY <1>1, <2>1, <2>3, <2>4 DEF BridgeKept, BridgedOn
    <2>6. Behind'
      BY <1>1, <2>1, <2>5 DEF Behind, Assembled
    <2>7. LinkHeld' /\ ReviewHeld' /\ BridgeHeld' /\ PhaseHeld' /\ OutcomeHeld'
      BY <1>1, <2>1 DEF LinkHeld, ReviewHeld, BridgeHeld, PhaseHeld, OutcomeHeld
    <2> QED
      BY <2>6, <2>7 DEF Held
  <1>5. InGoodOrder'
    BY <1>1, <1>4 DEF RInv, InGoodOrder
  <1> QED
    BY <1>2, <1>3, <1>5 DEF RInv

\* With a model the components are sound, so that no trouble is added.
LEMMA OpenPhasesKeeps == IInv /\ RInv /\ OpenPhases => RInv'
  <1> SUFFICES ASSUME IInv, RInv, OpenPhases PROVE RInv'
    OBVIOUS
  <1>1. /\ stage = "final" /\ queue = {} /\ stage' = "phase"
        /\ client => todo' = Open(Rooted(comp)) /\ standalone' = Rootless(comp)
        /\ UNCHANGED <<verdict, weak, traces, resolved>>
        /\ UNCHANGED <<decision, marks, comp, queue, checkpoint, client, settled>>
    BY DEF OpenPhases, graph, past, Rooted, Rootless
  <1>2. Sound(comp, decision)
    BY <1>1 DEF IInv, SoundBlocks, Built
  <1>3. /\ client => trouble' = trouble
        /\ ~client => "phase" \in trouble'
    BY <1>2 DEF OpenPhases
  <1>4. trouble \subseteq trouble'
    BY DEF OpenPhases
  <1>5. comp = BuiltFrom(decision)
    BY <1>1, LoopHasEnded
  <1>6. LoopHeld' /\ Asked'
    BY <1>1, <1>3, <1>5 DEF LoopHeld, Asked
  <1>7. OneEach' /\ Unmarked' /\ SettledFits' /\ Smooth'
    BY <1>1, <1>3 DEF RInv, OneEach, Unmarked, SettledFits, Smooth
  <1>8. ASSUME Held, client PROVE Held'
    <2>1. DOMAIN todo' = Rooted(comp)
      BY <1>1, <1>8, OpenDomain
    <2>2. traces' = {} /\ resolved' = {}
      BY <1>1, <1>8 DEF IInv, TracesInBlocks, Assembled, Held, OutcomeHeld
    <2>3. PhaseHeld'
      <3>1. Rooted(comp') \ DOMAIN todo' = {}
        BY <1>1, <2>1
      <3>2. /\ PhasesKept(checkpoint', decision', {})
            /\ TracesOf(checkpoint', decision', {}) = {}
            /\ AloneOf(checkpoint', decision', {}) = {}
        BY DEF PhasesKept, TracesOf, AloneOf
      <3>3. standalone' = Rootless(comp') /\ DOMAIN todo' \subseteq Rooted(comp')
        BY <1>1, <1>8, <2>1
      <3> QED
        BY <3>1, <3>2, <3>3, <2>2 DEF PhaseHeld
    <2>4. Behind'
      BY <1>1, <1>8 DEF Held, Behind, Assembled
    <2>5. LinkHeld' /\ ReviewHeld' /\ BridgeHeld' /\ OutcomeHeld'
      BY <1>1, <2>2 DEF LinkHeld, ReviewHeld, BridgeHeld, OutcomeHeld
    <2> QED
      BY <2>3, <2>4, <2>5 DEF Held
  <1>9. InGoodOrder'
    BY <1>1, <1>4, <1>8 DEF RInv, InGoodOrder
  <1> QED
    BY <1>6, <1>7, <1>9 DEF RInv

LEMMA CombinePhasesKeeps == IInv /\ RInv /\ CombinePhases => RInv'
  <1> SUFFICES ASSUME IInv, RInv, CombinePhases PROVE RInv'
    OBVIOUS
  <1>1. /\ stage = "phase" /\ DOMAIN todo = {} /\ stage' = "outcome"
        /\ trouble = {} => todo' = Open({traces} \ {{}})
        /\ UNCHANGED <<verdict, weak, traces, standalone, resolved, trouble>>
        /\ UNCHANGED <<decision, marks, comp, queue, checkpoint, client, settled>>
    BY DEF CombinePhases, Answered, graph, past
  <1>2. OneEach' /\ Unmarked' /\ LoopHeld' /\ Asked' /\ SettledFits' /\ Smooth'
    BY <1>1 DEF RInv, OneEach, Unmarked, LoopHeld, Asked, Assembled, SettledFits, Smooth
  <1>3. ASSUME Held, trouble = {} PROVE Held'
    <2>1. decision = BridgedOn(checkpoint) /\ comp = FinalOn(checkpoint)
      BY <1>1, <1>3 DEF Held, Behind, RInv, LoopHeld, FinalOn, Assembled
    <2>2. /\ PhasesKept(checkpoint, decision, Rooted(comp))
          /\ traces = TracesOf(checkpoint, decision, Rooted(comp))
          /\ standalone = Rootless(comp) \cup AloneOf(checkpoint, decision, Rooted(comp))
          /\ resolved = {}
      <3>1. Rooted(comp) \ DOMAIN todo = Rooted(comp)
        BY <1>1
      <3> QED
        BY <3>1, <1>1, <1>3 DEF Held, PhaseHeld, OutcomeHeld
    <2>3. PhaseKept(checkpoint) /\ traces = TracedOn(checkpoint) /\ standalone = AloneOn(checkpoint)
      BY <2>1, <2>2 DEF PhaseKept, TracedOn, AloneOn
    <2>4. DOMAIN todo' = {traces} \ {{}}
      BY <1>1, <1>3, OpenDomain
    <2>5. OutcomeHeld'
      BY <1>1, <2>2, <2>3, <2>4 DEF OutcomeHeld, ResolvedOn
    <2>6. Behind'
      BY <1>1, <1>3, <2>3 DEF Held, Behind, Assembled
    <2>7. LinkHeld' /\ ReviewHeld' /\ BridgeHeld' /\ PhaseHeld'
      BY <1>1 DEF LinkHeld, ReviewHeld, BridgeHeld, PhaseHeld
    <2> QED
      BY <2>5, <2>6, <2>7 DEF Held
  <1>4. InGoodOrder'
    BY <1>1, <1>3 DEF RInv, InGoodOrder
  <1> QED
    BY <1>2, <1>4 DEF RInv

\* The first run without trouble leaves on the disk all a replay needs.
LEMMA CompileBundleKeeps == IInv /\ RInv /\ CompileBundle => RInv'
  <1> SUFFICES ASSUME IInv, RInv, CompileBundle PROVE RInv'
    OBVIOUS
  <1>1. /\ stage = "outcome" /\ stage' = "done" /\ DOMAIN todo = {}
        /\ settled' = IF settled = {} /\ trouble = {} THEN {Result} ELSE settled
        /\ UNCHANGED <<todo, verdict, weak, traces, standalone, resolved, trouble>>
        /\ UNCHANGED <<decision, marks, comp, queue, checkpoint, client>>
    BY DEF CompileBundle, Answered, review, graph
  <1>2. OneEach' /\ Unmarked' /\ LoopHeld' /\ Asked'
    BY <1>1 DEF RInv, OneEach, Unmarked, LoopHeld, Asked, Assembled
  <1>3. Smooth'
    BY <1>1 DEF RInv, Smooth
  <1>4. SettledFits'
    <2>1. CASE settled = {} /\ trouble = {}
      <3>1. client
        BY <1>1, <2>1 DEF RInv, Asked, Assembled
      <3>2. Complete(checkpoint) /\ Result = ResultOn(checkpoint)
        BY <1>1, <2>1, <3>1, DoneResult
      <3> QED
        BY <1>1, <2>1, <3>2 DEF SettledFits
    <2>2. CASE ~(settled = {} /\ trouble = {})
      BY <1>1, <2>2 DEF RInv, SettledFits
    <2> QED
      BY <2>1, <2>2
  <1>5. Held => Held'
    BY <1>1 DEF Held, Behind, Assembled, LinkHeld, ReviewHeld, BridgeHeld, PhaseHeld,
                OutcomeHeld
  <1>6. InGoodOrder'
    BY <1>1, <1>5 DEF RInv, InGoodOrder
  <1> QED
    BY <1>2, <1>3, <1>4, <1>6 DEF RInv

\* A run that starts has asked nothing: every chunk is open.
LEMMA StartHeld ==
    ASSUME stage = "link", todo = Open(Chunks(Edge)), resolved = {}
    PROVE  Held
  <1>1. DOMAIN todo = Chunks(Edge)
    BY OpenDomain
  <1>2. \A e \in Edge : ChunkOf(e, Edge) \in DOMAIN todo
    BY <1>1, ChunksPartition
  <1>3. LinkHeld
    BY <1>1, <1>2 DEF LinkHeld
  <1>4. Behind /\ ReviewHeld /\ BridgeHeld /\ PhaseHeld /\ OutcomeHeld
    BY DEF Behind, ReviewHeld, BridgeHeld, PhaseHeld, OutcomeHeld, Assembled
  <1> QED
    BY <1>3, <1>4 DEF Held

LEMMA RunAgainKeeps == IInv /\ RInv /\ RunAgain => RInv'
  <1> SUFFICES ASSUME IInv, RInv, RunAgain PROVE RInv'
    OBVIOUS
  <1>1. /\ stage' = "link" /\ marks' = {} /\ resolved' = {} /\ trouble' = {}
        /\ client' => todo' = Open(Chunks(Edge))
        /\ UNCHANGED <<checkpoint, settled>>
    BY DEF RunAgain
  <1>2. OneEach' /\ Unmarked' /\ LoopHeld' /\ Asked' /\ SettledFits' /\ Smooth'
    BY <1>1 DEF RInv, OneEach, Unmarked, LoopHeld, Asked, Assembled, SettledFits, Smooth
  <1>3. InGoodOrder'
    <2>1. ASSUME client' PROVE Held'
      <3>1. DOMAIN todo' = Chunks(Edge)
        BY <1>1, <2>1, OpenDomain
      <3>2. \A e \in Edge : ChunkOf(e, Edge) \in DOMAIN todo'
        BY <3>1, ChunksPartition
      <3>3. LinkHeld'
        BY <3>1, <3>2 DEF LinkHeld
      <3>4. Behind' /\ ReviewHeld' /\ BridgeHeld' /\ PhaseHeld' /\ OutcomeHeld'
        BY <1>1 DEF Behind, ReviewHeld, BridgeHeld, PhaseHeld, OutcomeHeld, Assembled
      <3> QED
        BY <3>3, <3>4 DEF Held
    <2> QED
      BY <2>1 DEF InGoodOrder
  <1> QED
    BY <1>2, <1>3 DEF RInv

-----------------------------------------------------------------------------
(* The theorems about replays                                               *)

\* What is saved under a key is unique, what the main thread holds is what the
\* disk says, and after a run that settled nothing can fail any more.
THEOREM ReplayInvariance == Spec => []RInv
  <1>1. Init => RInv
    <2> SUFFICES ASSUME Init PROVE RInv
      OBVIOUS
    <2>1. OneEach /\ Unmarked /\ LoopHeld /\ Asked /\ SettledFits /\ Smooth
      BY DEF Init, OneEach, Unmarked, LoopHeld, Asked, Assembled, SettledFits, Smooth
    <2>2. InGoodOrder
      BY StartHeld DEF Init, InGoodOrder
    <2> QED
      BY <2>1, <2>2 DEF RInv
  <1>2. IInv /\ RInv /\ [Next]_vars => RInv'
    <2> SUFFICES ASSUME IInv, RInv, [Next]_vars PROVE RInv'
      OBVIOUS
    <2>1. CASE MainThread
      BY <2>1, CombineLinkKeeps, CombineConsistencyKeeps, UnionStepKeeps,
         OfferBridgesKeeps, CombineBridgesKeeps, OpenPhasesKeeps, CombinePhasesKeeps,
         CompileBundleKeeps DEF MainThread
    <2>2. CASE Worker
      <3>1. PICK t \in DOMAIN todo : DecideTask(t)
        BY <2>2 DEF Worker
      <3>2. CASE ReadCheckpoint(t) \/ Accept(t)
        <4>1. PICK o : Taken(t, o)
          BY <3>2, WorkerTakes DEF RInv
        <4> QED
          BY <4>1, TakenPreserves
      <3>3. CASE AskAgain(t)
        BY <3>3, AskKeepsReplay
      <3>4. CASE GiveUp(t) \/ CallFails(t)
        BY <3>4, FailureKeepsReplay
      <3> QED
        BY <3>1, <3>2, <3>3, <3>4 DEF DecideTask
    <2>3. CASE RunAgain
      BY <2>3, RunAgainKeeps
    <2>4. CASE UNCHANGED vars
      <3>1. /\ UNCHANGED <<stage, todo, verdict, weak, traces, standalone, resolved>>
            /\ UNCHANGED <<trouble, decision, marks, comp, queue, downgraded>>
            /\ UNCHANGED <<checkpoint, client, settled>>
        BY <2>4 DEF vars, review, graph, past
      <3>2. OneEach' /\ Unmarked' /\ LoopHeld' /\ Asked' /\ SettledFits' /\ Smooth'
        BY <3>1 DEF RInv, OneEach, Unmarked, LoopHeld, Asked, Assembled, SettledFits, Smooth
      <3>3. Held => Behind' /\ LinkHeld' /\ ReviewHeld'
        BY <3>1 DEF Held, Behind, LinkHeld, ReviewHeld, Assembled
      <3>4. Held => BridgeHeld' /\ PhaseHeld' /\ OutcomeHeld'
        BY <3>1 DEF Held, BridgeHeld, PhaseHeld, OutcomeHeld
      <3> QED
        BY <3>1, <3>2, <3>3, <3>4 DEF RInv, InGoodOrder, Held
    <2> QED
      BY <2>1, <2>2, <2>3, <2>4 DEF Next
  <1> QED
    BY <1>1, <1>2, Invariance, PTL DEF Spec

\* An answer that was accepted and written is never replaced, whatever fails,
\* is asked again or dies: what later runs read is what the first one decided.
THEOREM SavedStays == Spec => [][Retains(checkpoint, checkpoint')]_vars
  <1>1. ASSUME IInv, RInv, Next PROVE Retains(checkpoint, checkpoint')
    <2>1. ASSUME NEW t \in DOMAIN todo, ReadCheckpoint(t) \/ Accept(t)
          PROVE  Retains(checkpoint, checkpoint')
      BY <1>1, <2>1, WorkerTakes DEF RInv, Taken
    <2>2. CASE UNCHANGED checkpoint
      BY <2>2 DEF Retains
    <2>3. CASE MainThread
      <3>1. UNCHANGED checkpoint
        BY <2>3 DEF MainThread, CombineLink, CombineConsistency, UnionStep, OfferBridges,
           CombineBridges, OpenPhases, CombinePhases, CompileBundle
      <3> QED
        BY <2>2, <3>1
    <2>4. CASE Worker
      <3>1. PICK t \in DOMAIN todo : DecideTask(t)
        BY <2>4 DEF Worker
      <3>2. CASE AskAgain(t) \/ GiveUp(t) \/ CallFails(t)
        BY <2>2, <3>2 DEF AskAgain, GiveUp, CallFails, WriteFlawed
      <3> QED
        BY <2>1, <3>1, <3>2 DEF DecideTask
    <2>5. CASE RunAgain
      BY <2>2, <2>5 DEF RunAgain
    <2> QED
      BY <1>1, <2>3, <2>4, <2>5 DEF Next
  <1> QED
    BY <1>1, Invariance, ReplayInvariance, PTL DEF Spec

\* Once a run went through without trouble, every later run with a model
\* finds each answer it needs on the disk and ends with the same result.
THEOREM ReplaysAreStable == Spec => []ReplayIsStable
  <1>1. IInv /\ RInv => ReplayIsStable
    BY RInvImplies
  <1> QED
    BY <1>1, Invariance, ReplayInvariance, PTL
-----------------------------------------------------------------------------
(* What the end of a run rests on                                           *)
(*                                                                          *)
(* RunEnds is left to TLC.  Proved are the two facts it follows from under  *)
(* the fairness of Spec: wherever a run stands somebody can go on, and      *)
(* every step but a new run goes down a well-founded order.                 *)

\* A model's answer can be accepted, or the checkpoint of the task be read.
CanBeDecided(t) ==
    \/ Known(t) = {} /\ Accepted(t) # {}
    \/ Known(t) # {} /\ todo[t] = 0

\* Every open task can be decided; with none left, the guard of the step of
\* the main thread holds.
CanGoOn ==
    \/ stage = "done"
    \/ stage \in Reviewing /\ \A t \in DOMAIN todo : CanBeDecided(t)
    \/ stage \in Building /\ (queue = {} \/ \E e \in queue : Least(queue, e))

\* A task that was asked about has no checkpoint: none of another task of
\* the stage can be taken for its own.
AskedUnknown == \A t \in DOMAIN todo : todo[t] # 0 => Known(t) = {}

LEMMA InputsApart ==
    ASSUME stage \in Reviewing, NEW t, NEW u, Input(t) = Input(u)
    PROVE  t = u
  BY DEF Input

LEMMA AskedUnknownInit == Init => AskedUnknown
  BY OpenDomain DEF Init, AskedUnknown

\* A task asked about stays unknown while it is open.
LEMMA AskedUnknownWorker ==
    ASSUME IInv, AskedUnknown, NEW t \in DOMAIN todo, DecideTask(t)
    PROVE  AskedUnknown'
  <1>0. stage \in Reviewing
    BY DEF IInv, TypeOK
  <1>1. CASE AskAgain(t)
    <2>1. /\ Known(t) = {} /\ todo' = [todo EXCEPT ![t] = @ + 1]
          /\ UNCHANGED <<stage, decision, marks, comp, checkpoint>>
      BY <1>1 DEF AskAgain, graph
    <2>2. \A u : Known(u)' = Known(u)
      BY <2>1 DEF Known, Input
    <2> QED
      BY <2>1, <2>2 DEF AskedUnknown
  <1>2. CASE ~AskAgain(t)
    <2>1. PICK o : Answer(t, o)
      BY <1>2 DEF DecideTask, ReadCheckpoint, Accept, GiveUp, CallFails
    <2>2. /\ DOMAIN todo' = (DOMAIN todo) \ {t}
          /\ \A u \in DOMAIN todo' : todo'[u] = todo[u]
          /\ UNCHANGED <<stage, decision, marks, comp>>
      BY <2>1 DEF Answer, graph
    <2>3. \/ UNCHANGED checkpoint
          \/ \E p : checkpoint' = [checkpoint EXCEPT ![stage] = @ \cup {<<Input(t), p>>}]
      BY <1>2 DEF DecideTask, ReadCheckpoint, Accept, GiveUp, CallFails, WriteFlawed
    <2>4. ASSUME NEW u \in DOMAIN todo', Known(u) = {}
          PROVE  Known(u)' = {}
      <3>1. u # t
        BY <2>2, <2>4
      <3>2. \A x \in checkpoint'[stage] : x \in checkpoint[stage] \/ x[1] = Input(t)
        BY <2>3, <1>0 DEF IInv, CheckpointsFit
      <3>3. Input(u) # Input(t)
        BY <3>1, <1>0, InputsApart
      <3>4. Input(u)' = Input(u)
        BY <2>2 DEF Input
      <3> QED
        BY <2>2, <2>4, <3>2, <3>3, <3>4 DEF Known
    <2> QED
      BY <2>2, <2>4 DEF AskedUnknown
  <1> QED
    BY <1>1, <1>2

\* The main thread opens tasks that nobody has asked about.
LEMMA AskedUnknownMain ==
    ASSUME IInv, AskedUnknown, MainThread \/ RunAgain
    PROVE  AskedUnknown'
  <1>1. CASE CombineLink \/ OfferBridges \/ OpenPhases \/ CombinePhases \/ RunAgain
    <2>1. \A t \in DOMAIN todo' : todo'[t] = 0
      BY <1>1, OpenDomain DEF CombineLink, OfferBridges, OpenPhases, CombinePhases, RunAgain
    <2> QED
      BY <2>1 DEF AskedUnknown
  <1>2. CASE CombineConsistency \/ CombineBridges \/ CompileBundle
    <2>1. DOMAIN todo = {} /\ UNCHANGED todo
      BY <1>2 DEF CombineConsistency, CombineBridges, CompileBundle, Answered, review
    <2> QED
      BY <2>1 DEF AskedUnknown
  <1>3. CASE UnionStep
    <2>1. UNCHANGED todo /\ stage \in Building
      BY <1>3 DEF UnionStep, review
    <2>2. DOMAIN todo = {}
      BY <2>1 DEF IInv, TypeOK, Building, Reviewing
    <2> QED
      BY <2>1, <2>2 DEF AskedUnknown
  <1> QED
    BY <1>1, <1>2, <1>3 DEF MainThread

\* A set of edges that is not empty has a first one.
LEMMA FirstEdge ==
    ASSUME NEW S \in SUBSET Edge, S # {}
    PROVE  \E e \in S : Least(S, e)
  <1> DEFINE Below(e) == {f \in S : Before(f, e)}
             T == {Below(e) : e \in S}
             R == StrictSubsetOrdering(S)
  <1>1. IsWellFoundedOn(R, FiniteSubsetsOf(S))
    BY FS_StrictSubsetOrderingWellFounded
  <1>2. T \subseteq FiniteSubsetsOf(S) /\ T # {}
    <2>1. ASSUME NEW e \in S PROVE Below(e) \in FiniteSubsetsOf(S)
      <3>1. Below(e) \in SUBSET Edge /\ Below(e) \in SUBSET S
        OBVIOUS
      <3> HIDE DEF Below
      <3>2. IsFiniteSet(Below(e))
        BY <3>1, EdgesFinite
      <3> QED
        BY <3>1, <3>2 DEF FiniteSubsetsOf
    <2>2. PICK e : e \in S
      OBVIOUS
    <2> HIDE DEF Below
    <2> QED
      BY <2>1, <2>2
  <1>3. PICK e \in S : \A U \in T : ~(<<U, Below(e)>> \in R)
    <2> HIDE DEF R
    <2>1. PICK x \in T : \A y \in T : ~(<<y, x>> \in R)
      BY <1>1, <1>2, WFMin
    <2> QED
      BY <2>1
  <1>4. \A f \in S : ~Before(f, e)
    <2>1. SUFFICES ASSUME NEW f \in S, Before(f, e) PROVE FALSE
      OBVIOUS
    <2>2. \A g \in S : Before(g, f) => Before(g, e)
      BY <2>1, EdgeAssumption, CaseAssumption DEF Before, Case
    <2>3. f \in Below(e) /\ f \notin Below(f)
      BY <2>1, BeforeOrders
    <2>4. <<Below(f), Below(e)>> \in R
      BY <2>2, <2>3 DEF StrictSubsetOrdering
    <2> QED
      BY <2>4, <1>3
  <1> QED
    BY <1>4, BeforeOrders DEF Least

LEMMA AnswersExist ==
    ASSUME stage \in Reviewing, NEW t
    PROVE  Accepted(t) # {}
  <1>1. CASE stage = "phase"
    <2>1. {t} \ {{}} \in Partitions(t)
      BY DEF Partitions
    <2> QED
      BY <1>1, <2>1 DEF Accepted
  <1>2. CASE stage = "link"
    <2>1. [e \in t |-> "must_link"] \in [t -> Decision]
      OBVIOUS
    <2> QED
      BY <1>2, <2>1 DEF Accepted
  <1>3. CASE stage = "bridge"
    <2>1. [e \in t |-> "keep_possible"] \in [t -> Verdict]
      OBVIOUS
    <2> QED
      BY <1>3, <2>1 DEF Accepted
  <1>4. CASE stage \in {"consistency", "outcome"}
    BY <1>4 DEF Accepted
  <1> QED
    BY <1>1, <1>2, <1>3, <1>4

\* Wherever a run stands, the pool or the main thread can go on: no task
\* waits for a checkpoint it may not read, and the union loop has a next edge.
THEOREM NeverStuck == Spec => []CanGoOn
  <1>1. IInv /\ AskedUnknown /\ [Next]_vars => AskedUnknown'
    <2> SUFFICES ASSUME IInv, AskedUnknown, [Next]_vars PROVE AskedUnknown'
      OBVIOUS
    <2>1. CASE Worker
      <3>1. PICK t \in DOMAIN todo : DecideTask(t)
        BY <2>1 DEF Worker
      <3> QED
        BY <3>1, AskedUnknownWorker
    <2>2. CASE MainThread \/ RunAgain
      BY <2>2, AskedUnknownMain
    <2>3. CASE UNCHANGED vars
      BY <2>3 DEF vars, review, graph, AskedUnknown, Known, Input
    <2> QED
      BY <2>1, <2>2, <2>3 DEF Next
  <1>2. IInv /\ AskedUnknown => CanGoOn
    <2> SUFFICES ASSUME IInv, AskedUnknown PROVE CanGoOn
      OBVIOUS
    <2>1. stage \in Reviewing \cup Building \cup {"done"} /\ queue \subseteq Edge
      BY DEF IInv, TypeOK
    <2>2. stage \in Building /\ queue # {} => \E e \in queue : Least(queue, e)
      BY <2>1, FirstEdge
    <2>3. stage \in Reviewing => \A t \in DOMAIN todo : CanBeDecided(t)
      BY AnswersExist DEF CanBeDecided, AskedUnknown
    <2> QED
      BY <2>1, <2>2, <2>3 DEF CanGoOn
  <1> QED
    BY <1>1, <1>2, AskedUnknownInit, Invariance, PTL DEF Spec

\* What is left of a run: the stages behind this one, and in this one the
\* attempts of the open tasks and the edges of the union loop.
StageRank ==
    [link |-> 7, consistency |-> 6, components |-> 5, bridge |-> 4, final |-> 3,
     phase |-> 2, outcome |-> 1, done |-> 0]

StepsLeft ==
    {x \in (DOMAIN todo) \X (0..2) : todo[x[1]] <= x[2]} \cup (queue \X {3})

LEMMA StepsLeftFinite == IInv => IsFiniteSet(StepsLeft)
  <1> SUFFICES ASSUME IInv PROVE IsFiniteSet(StepsLeft)
    OBVIOUS
  <1>1. IsFiniteSet(DOMAIN todo)
    <2>1. CASE stage \in {"link", "consistency", "bridge"}
      <3>1. DOMAIN todo \in SUBSET SUBSET Edge
        BY <2>1 DEF IInv, LinkOpen, OneReview, BridgesArePossible, EdgesOf
      <3> QED
        BY <3>1, EdgesFinite, FS_SUBSET, FS_Subset
    <2>2. CASE stage = "phase"
      <3>1. DOMAIN todo \in SUBSET SUBSET Case
        BY <2>2 DEF IInv, PhasesApart, Block
      <3> QED
        BY <3>1, CasesFinite, FS_SUBSET, FS_Subset
    <2>3. CASE stage = "outcome"
      <3>1. DOMAIN todo \in SUBSET {traces}
        BY <2>3 DEF IInv, AllAssigned
      <3> QED
        BY <3>1, FS_Singleton, FS_Subset
    <2>4. CASE stage \notin Reviewing
      <3>1. DOMAIN todo = {}
        BY <2>4 DEF IInv, TypeOK
      <3> QED
        BY <3>1, FS_EmptySet
    <2> QED
      BY <2>1, <2>2, <2>3, <2>4
  <1>2. IsFiniteSet((DOMAIN todo) \X (0..2))
    <2>1. 0 \in Int /\ 2 \in Int
      OBVIOUS
    <2>2. IsFiniteSet(0..2)
      BY <2>1, FS_Interval, Zenon
    <2> QED
      BY <1>1, <2>2, FS_Product
  <1>3. IsFiniteSet({x \in (DOMAIN todo) \X (0..2) : todo[x[1]] <= x[2]})
    BY <1>2, FS_Subset
  <1>4. IsFiniteSet(queue \X {3})
    <2>1. IsFiniteSet(queue)
      BY EdgesFinite DEF IInv, TypeOK
    <2> QED
      BY <2>1, FS_Singleton, FS_Product
  <1> QED
    BY <1>3, <1>4, FS_Union DEF StepsLeft

\* A step of this run goes down: to a later stage, or in the same stage to
\* fewer steps left.
GoesDown ==
    \/ StageRank[stage'] < StageRank[stage]
    \/ stage' = stage /\ Cardinality(StepsLeft') < Cardinality(StepsLeft)

LEMMA Fewer ==
    ASSUME NEW S, IsFiniteSet(S), NEW T \in SUBSET S, T # S
    PROVE  Cardinality(T) < Cardinality(S)
  <1>1. /\ Cardinality(T) <= Cardinality(S)
        /\ Cardinality(S) = Cardinality(T) => S = T
    BY FS_Subset
  <1>2. Cardinality(S) \in Nat /\ Cardinality(T) \in Nat
    BY FS_Subset, FS_CardinalityType
  <1> QED
    BY <1>1, <1>2

LEMMA WorkerGoesDown ==
    ASSUME IInv, NEW t \in DOMAIN todo, DecideTask(t)
    PROVE  stage' = stage /\ StepsLeft' \subseteq StepsLeft /\ StepsLeft' # StepsLeft
  <1>1. todo[t] \in 0..(Attempts[stage] - 1) /\ Attempts[stage] \in 2..3
    BY DEF IInv, TypeOK, Attempts
  <1>2. todo[t] \in 0..2 /\ <<t, todo[t]>> \in StepsLeft
    BY <1>1 DEF StepsLeft
  <1>3. CASE AskAgain(t)
    <2>1. stage' = stage /\ queue' = queue /\ todo' = [todo EXCEPT ![t] = @ + 1]
      BY <1>3 DEF AskAgain, graph
    <2>2. DOMAIN todo' = DOMAIN todo /\ todo'[t] = todo[t] + 1
          /\ \A u \in DOMAIN todo : u # t => todo'[u] = todo[u]
      BY <2>1
    <2>3. ASSUME NEW x \in StepsLeft' PROVE x \in StepsLeft
      <3>1. CASE x \in queue' \X {3}
        BY <3>1, <2>1 DEF StepsLeft
      <3>2. CASE x \in (DOMAIN todo') \X (0..2) /\ todo'[x[1]] <= x[2]
        <4>1. x[1] \in DOMAIN todo /\ x[2] \in 0..2
          BY <3>2, <2>2
        <4>2. todo[x[1]] <= x[2]
          BY <4>1, <3>2, <2>2, <1>2
        <4> QED
          BY <4>2, <3>2, <2>2 DEF StepsLeft
      <3> QED
        BY <3>1, <3>2, <2>3 DEF StepsLeft
    <2>4. <<t, todo[t]>> \notin StepsLeft'
      BY <1>2, <2>2 DEF StepsLeft
    <2> QED
      BY <1>2, <2>1, <2>3, <2>4
  <1>4. CASE ~AskAgain(t)
    <2>1. PICK o : Answer(t, o)
      BY <1>4 DEF DecideTask, ReadCheckpoint, Accept, GiveUp, CallFails
    <2>2. stage' = stage /\ queue' = queue /\ DOMAIN todo' = (DOMAIN todo) \ {t}
          /\ \A u \in DOMAIN todo' : todo'[u] = todo[u]
      BY <2>1 DEF Answer, graph
    <2>3. ASSUME NEW x \in StepsLeft' PROVE x \in StepsLeft
      BY <2>3, <2>2 DEF StepsLeft
    <2>4. <<t, todo[t]>> \notin StepsLeft'
      BY <1>2, <2>2 DEF StepsLeft
    <2> QED
      BY <1>2, <2>2, <2>3, <2>4
  <1> QED
    BY <1>3, <1>4

LEMMA UnionGoesDown ==
    ASSUME UnionStep
    PROVE  stage' = stage /\ StepsLeft' \subseteq StepsLeft /\ StepsLeft' # StepsLeft
  <1>1. PICK e \in queue : queue' = queue \ {e}
    BY DEF UnionStep
  <1>2. UNCHANGED <<stage, todo>>
    BY DEF UnionStep, review
  <1>3. <<e, 3>> \in StepsLeft /\ <<e, 3>> \notin StepsLeft'
    BY <1>1, <1>2 DEF StepsLeft
  <1>4. StepsLeft' \subseteq StepsLeft
    BY <1>1, <1>2 DEF StepsLeft
  <1> QED
    BY <1>2, <1>3, <1>4

\* Every step but a new run brings the run nearer to its end: attempts are
\* used up, tasks answered, edges taken, and no stage is entered twice.
THEOREM RunsGoDown == Spec => [][RunAgain \/ GoesDown]_vars
  <1>1. ASSUME IInv, MainThread \/ Worker PROVE GoesDown
    <2>1. CASE Worker
      <3>1. PICK t \in DOMAIN todo : DecideTask(t)
        BY <2>1 DEF Worker
      <3>2. /\ stage' = stage
            /\ StepsLeft' \in SUBSET StepsLeft /\ StepsLeft' # StepsLeft
        BY <3>1, <1>1, WorkerGoesDown
      <3> QED
        BY <3>2, <1>1, StepsLeftFinite, Fewer DEF GoesDown
    <2>2. CASE UnionStep
      <3>1. /\ stage' = stage
            /\ StepsLeft' \in SUBSET StepsLeft /\ StepsLeft' # StepsLeft
        BY <2>2, UnionGoesDown
      <3> QED
        BY <3>1, <1>1, StepsLeftFinite, Fewer DEF GoesDown
    <2>3. CASE MainThread /\ ~UnionStep
      <3>1. StageRank[stage'] < StageRank[stage]
        BY <2>3 DEF MainThread, CombineLink, CombineConsistency, OfferBridges,
            CombineBridges, OpenPhases, CombinePhases, CompileBundle, StageRank
      <3> QED
        BY <3>1 DEF GoesDown
    <2> QED
      BY <1>1, <2>1, <2>2, <2>3
  <1> QED
    BY <1>1, Invariance, PTL DEF Spec, Next
=============================================================================
