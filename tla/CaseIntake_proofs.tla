-------------------------- MODULE CaseIntake_proofs --------------------------
(* Proofs about CaseIntake, for every batch, every chunking, every set of    *)
(* replies and every number of runs.                                         *)
(*                                                                           *)
(* The argument.  A decision on disk was accepted (CheckpointsAreGood), so   *)
(* reading one is as good as an accepted answer: while a unit is sound, what *)
(* its chunks claimed and put aside is what their rows hold (ChunksAreKept), *)
(* and behind the anchor stage its attachments are accounted for too         *)
(* (AnchorsAreKept).  References never repeat, since each names its chunk    *)
(* (RefsAreApart).  W2 has results only of sound units, one for each atomic  *)
(* case unless it raised (ResultsFit); the cards of a clean batch then match *)
(* its fragments one to one.                                                 *)
(*                                                                           *)
(* The end of a batch: it is never stuck (NeverStuck), and every step but a  *)
(* new run takes a decision off those its units have left (BatchesGoDown).   *)
EXTENDS CaseIntake, TLAPS

Stages == {"boundary", "anchor", "w2", "done"}
Shelf  == {"boundary", "anchor", "w2"}

\* A decision of a chunk that the contract accepted.
GoodDecision(d, rows) ==
    /\ d.cases \subseteq FragmentOf(Ref) /\ d.nonCase \subseteq Message
    /\ \A c, e \in d.cases : c.ref = e.ref => c = e
    /\ Claimed(d.cases) \cup d.nonCase = rows
    /\ Claimed(d.cases) \cap d.nonCase = {}

AnyAnchors == SUBSET (Message \X ((Nat \X Ref) \cup {NoRef}))

\* An anchor decision that the contract accepted.
GoodAnchors(to, un, evidence, refs) ==
    /\ {p[1] : p \in to} \cup un = evidence
    /\ {p[1] : p \in to} \cap un = {}
    /\ {p[2] : p \in to} \subseteq refs

\* A complete W2 result of the fragments cs.
GoodResults(found, cs) ==
    found = {<<r, "case">> : r \in Refs({c \in cs : c.kind \in Atomic})}

CheckpointsAreGood ==
    /\ checkpoint = [s \in Shelf |-> checkpoint[s]]
    /\ \A x \in checkpoint["boundary"] : \A u \in Unit : \A i \in DOMAIN Rows[u] :
        x[1] = <<u, i>> => GoodDecision(x[2], Rows[u][i])
    /\ \A x \in checkpoint["anchor"] :
        /\ x[2].to \in AnyAnchors
        /\ GoodAnchors(x[2].to, x[2].loose, Evidence[x[1][1]], Refs(x[1][2]))
    /\ \A x \in checkpoint["w2"] : GoodResults(x[2], x[1][2])

StagesFit(u) ==
    /\ at[u] = "boundary" => chunk[u] < Len(Rows[u])
    /\ at[u] # "boundary" /\ sound[u] => chunk[u] = Len(Rows[u])
    /\ ended => at[u] = "done"

ChunksAreKept(u) ==
    sound[u] =>
        /\ Claimed(cases[u]) \cup nonCase[u] = UNION {Rows[u][i] : i \in 1..chunk[u]}
        /\ Claimed(cases[u]) \cap nonCase[u] = {}

RefsAreApart(u) ==
    /\ \A c, d \in cases[u] : c.ref = d.ref => c = d
    /\ \A c \in cases[u] :
        /\ chunk[u] > 0
        /\ IF Len(Rows[u]) > 1 THEN c.ref[1] \in 1..chunk[u] ELSE c.ref[1] = 0

AnchorsAreKept(u) ==
    at[u] \in {"w2", "done"} /\ sound[u] =>
        GoodAnchors(anchors[u], loose[u], Evidence[u], Refs(cases[u]))

ResultsFit(u) ==
    /\ results[u] # {} => at[u] = "done" /\ sound[u] /\ extractor
    /\ \A p \in results[u] : p[1] \in Refs(AtomicCases(u))
    /\ \A p, q \in results[u] : p[1] = q[1] => p = q
    /\ at[u] = "done" /\ sound[u] /\ extractor /\ u \notin raised =>
          \A c \in AtomicCases(u) : \E p \in results[u] : p[1] = c.ref

UnitInv(u) ==
    /\ StagesFit(u) /\ ChunksAreKept(u) /\ RefsAreApart(u)
    /\ AnchorsAreKept(u) /\ ResultsFit(u)

IInv == TypeOK /\ CheckpointsAreGood /\ \A u \in Unit : UnitInv(u)

-----------------------------------------------------------------------------
(* The rows of a unit                                                       *)

LEMMA RowsShape ==
    ASSUME NEW u \in Unit
    PROVE  /\ Len(Rows[u]) \in Nat \ {0}
           /\ DOMAIN Rows[u] = 1..Len(Rows[u])
           /\ \A i \in 1..Len(Rows[u]) : Rows[u][i] \subseteq Message
           /\ MessagesOf(u) \subseteq Message
           /\ Evidence[u] \subseteq MessagesOf(u)
  <1>1. Rows[u] \in Seq(SUBSET Message) /\ Len(Rows[u]) > 0
    BY RowsAssumption
  <1>2. /\ Len(Rows[u]) \in Nat \ {0}
        /\ DOMAIN Rows[u] = 1..Len(Rows[u])
        /\ \A i \in 1..Len(Rows[u]) : Rows[u][i] \subseteq Message
    BY <1>1
  <1>3. MessagesOf(u) \subseteq Message
    BY <1>2 DEF MessagesOf
  <1> QED
    BY <1>2, <1>3, EvidenceAssumption

LEMMA NextChunk ==
    ASSUME NEW u \in Unit, NEW k \in Nat, k < Len(Rows[u])
    PROVE  /\ k + 1 \in DOMAIN Rows[u]
           /\ UNION {Rows[u][i] : i \in 1..(k + 1)} =
                 (UNION {Rows[u][i] : i \in 1..k}) \cup Rows[u][k + 1]
           /\ Rows[u][k + 1] \subseteq MessagesOf(u)
           /\ (UNION {Rows[u][i] : i \in 1..k}) \cap Rows[u][k + 1] = {}
  <1>1. k + 1 \in 1..Len(Rows[u]) /\ DOMAIN Rows[u] = 1..Len(Rows[u])
    BY RowsShape
  <1>2. 1..(k + 1) = (1..k) \cup {k + 1}
    OBVIOUS
  <1>3. Rows[u][k + 1] \subseteq MessagesOf(u)
    BY <1>1 DEF MessagesOf
  <1>4. UNION {Rows[u][i] : i \in 1..(k + 1)} =
            (UNION {Rows[u][i] : i \in 1..k}) \cup Rows[u][k + 1]
    BY <1>2, Zenon
  <1>5. \A i \in 1..k : Rows[u][i] \cap Rows[u][k + 1] = {}
    <2>1. \A i \in 1..k : i \in DOMAIN Rows[u] /\ i # k + 1
      BY <1>1
    <2> QED
      BY <1>1, <2>1, RowsAssumption
  <1>6. (UNION {Rows[u][i] : i \in 1..k}) \cap Rows[u][k + 1] = {}
    BY <1>5
  <1> QED
    BY <1>1, <1>3, <1>4, <1>6

LEMMA Initially == Init => IInv
  <1> SUFFICES ASSUME Init PROVE IInv
    OBVIOUS
  <1>1. TypeOK
    <2>1. \A u \in Unit : chunk[u] <= Len(Rows[u])
      BY RowsShape DEF Init
    <2>2. \A u \in Unit : Claimed(cases[u]) \cup nonCase[u] \subseteq MessagesOf(u)
      BY DEF Init, Claimed
    <2>3. /\ client \in BOOLEAN /\ extractor \in BOOLEAN /\ ended \in BOOLEAN
          /\ sound \in [Unit -> BOOLEAN]
      BY DEF Init
    <2>4. /\ at \in [Unit -> {"boundary", "anchor", "w2", "done"}]
          /\ chunk \in [Unit -> Nat]
          /\ runs \in 1..MaxRuns /\ raised \subseteq Unit
      BY UnitAssumption DEF Init
    <2>5. /\ cases \in [Unit -> SUBSET FragmentOf(Nat \X Ref)]
          /\ nonCase \in [Unit -> SUBSET Message]
          /\ anchors \in [Unit -> SUBSET (Message \X ((Nat \X Ref) \cup {NoRef}))]
          /\ loose \in [Unit -> SUBSET Message]
          /\ results \in [Unit -> SUBSET ((Nat \X Ref) \X Outcome)]
      BY DEF Init
    <2> QED
      BY <2>1, <2>2, <2>3, <2>4, <2>5, Zenon DEF TypeOK
  <1>2. CheckpointsAreGood
    BY DEF Init, CheckpointsAreGood, Shelf
  <1>3. ASSUME NEW u \in Unit PROVE UnitInv(u)
    <2>1. StagesFit(u)
      BY RowsShape DEF Init, StagesFit
    <2>2. ChunksAreKept(u)
      BY DEF Init, ChunksAreKept, Claimed
    <2>3. RefsAreApart(u) /\ AnchorsAreKept(u) /\ ResultsFit(u)
      BY DEF Init, RefsAreApart, AnchorsAreKept, ResultsFit
    <2> QED
      BY <2>1, <2>2, <2>3 DEF UnitInv
  <1> QED
    BY <1>1, <1>2, <1>3 DEF IInv

-----------------------------------------------------------------------------
(* Steps of a unit                                                          *)

\* A step of another unit leaves the invariant of v alone.
LEMMA Untouched ==
    ASSUME NEW v \in Unit, UnitInv(v),
           at'[v] = at[v], chunk'[v] = chunk[v], cases'[v] = cases[v],
           nonCase'[v] = nonCase[v], sound'[v] = sound[v],
           anchors'[v] = anchors[v], loose'[v] = loose[v],
           results'[v] = results[v], v \in raised' <=> v \in raised,
           extractor' = extractor, ended' = ended
    PROVE  UnitInv(v)'
  <1>1. StagesFit(v)'
    BY DEF UnitInv, StagesFit
  <1>2. ChunksAreKept(v)'
    BY DEF UnitInv, ChunksAreKept
  <1>3. RefsAreApart(v)'
    BY DEF UnitInv, RefsAreApart
  <1>4. AnchorsAreKept(v)'
    BY DEF UnitInv, AnchorsAreKept
  <1>5. ResultsFit(v)'
    BY DEF UnitInv, ResultsFit, AtomicCases
  <1> QED
    BY <1>1, <1>2, <1>3, <1>4, <1>5 DEF UnitInv

\* What a chunk adds to the fragments of its unit.
Added(u, d) == {Referenced(u, chunk[u] + 1, c) : c \in d.cases}

LEMMA AddedShape ==
    ASSUME TypeOK, NEW u \in Unit, NEW d, d.cases \subseteq FragmentOf(Ref),
           chunk[u] < Len(Rows[u])
    PROVE  /\ Added(u, d) \subseteq FragmentOf(Nat \X Ref)
           /\ Claimed(Added(u, d)) = Claimed(d.cases)
           /\ \A a \in Added(u, d) :
                 a.ref[1] = IF Len(Rows[u]) > 1 THEN chunk[u] + 1 ELSE 0
           /\ (\A c, e \in d.cases : c.ref = e.ref => c = e) =>
                 \A a, b \in Added(u, d) : a.ref = b.ref => a = b
  <1> DEFINE i == IF Len(Rows[u]) > 1 THEN chunk[u] + 1 ELSE 0
  <1>1. i \in Nat
    BY RowsShape DEF TypeOK
  <1> DEFINE g(c) == Referenced(u, chunk[u] + 1, c)
  <1>2. ASSUME NEW c \in d.cases
        PROVE  /\ g(c) = [ref |-> <<i, c.ref>>, kind |-> c.kind, messages |-> c.messages]
               /\ c.ref \in Ref /\ c.kind \in Kind /\ c.messages \subseteq Message
    BY DEF FragmentOf, Prefixed, Referenced
  <1>3. Added(u, d) = {g(c) : c \in d.cases}
    BY DEF Added
  <1> HIDE DEF i, g
  <1>4. Added(u, d) \subseteq FragmentOf(Nat \X Ref)
    BY <1>1, <1>2, <1>3 DEF FragmentOf
  <1>5. Claimed(Added(u, d)) = Claimed(d.cases)
    <2>1. \A m : m \in Claimed(Added(u, d)) <=> \E c \in d.cases : m \in g(c).messages
      BY <1>3 DEF Claimed
    <2>2. \A c \in d.cases : g(c).messages = c.messages
      BY <1>2
    <2>3. \A m : m \in Claimed(d.cases) <=> \E c \in d.cases : m \in c.messages
      BY DEF Claimed
    <2> QED
      BY <2>1, <2>2, <2>3
  <1>6. \A a \in Added(u, d) : a.ref[1] = i
    BY <1>2, <1>3
  <1>7. ASSUME \A c, e \in d.cases : c.ref = e.ref => c = e,
               NEW a \in Added(u, d), NEW b \in Added(u, d), a.ref = b.ref
        PROVE  a = b
    <2>1. PICK c \in d.cases : a = g(c)
      BY <1>3
    <2>2. PICK e \in d.cases : b = g(e)
      BY <1>3
    <2>3. c.ref = e.ref
      BY <1>2, <2>1, <2>2, <1>7
    <2> QED
      BY <2>1, <2>2, <2>3, <1>7
  <1> QED
    BY <1>4, <1>5, <1>6, <1>7 DEF i

LEMMA CombineKeeps ==
    ASSUME TypeOK, \A v \in Unit : UnitInv(v), NEW u \in Unit, NEW d,
           NEW ok \in BOOLEAN, at[u] = "boundary", Combine(u, d, ok),
           d.cases \subseteq FragmentOf(Ref), d.nonCase \subseteq Message,
           \A c, e \in d.cases : c.ref = e.ref => c = e,
           Claimed(d.cases) \cup d.nonCase \subseteq Rows[u][chunk[u] + 1],
           ok => Claimed(d.cases) \cup d.nonCase = Rows[u][chunk[u] + 1],
           ok => Claimed(d.cases) \cap d.nonCase = {}
    PROVE  TypeOK' /\ (\A v \in Unit : UnitInv(v))'
  <1> USE DEF Stages
  <1>1. /\ chunk[u] \in Nat /\ chunk[u] < Len(Rows[u]) /\ ~ended
        /\ Len(Rows[u]) \in Nat
    BY RowsShape DEF TypeOK, UnitInv, StagesFit
  <1>2. /\ chunk' = [chunk EXCEPT ![u] = @ + 1]
        /\ at' = [at EXCEPT ![u] = IF chunk[u] + 1 = Len(Rows[u]) THEN "anchor" ELSE @]
        /\ cases' = [cases EXCEPT ![u] = @ \cup Added(u, d)]
        /\ nonCase' = [nonCase EXCEPT ![u] = @ \cup d.nonCase]
        /\ sound' = [sound EXCEPT ![u] = @ /\ ok]
        /\ UNCHANGED <<anchors, loose, results, raised, ended, setup, settled>>
    BY DEF Combine, Added
  <1>3. /\ Added(u, d) \subseteq FragmentOf(Nat \X Ref)
        /\ Claimed(Added(u, d)) = Claimed(d.cases)
        /\ \A a \in Added(u, d) :
              a.ref[1] = IF Len(Rows[u]) > 1 THEN chunk[u] + 1 ELSE 0
        /\ \A a, b \in Added(u, d) : a.ref = b.ref => a = b
    BY <1>1, AddedShape
  <1>4. /\ Claimed(cases'[u]) = Claimed(cases[u]) \cup Claimed(d.cases)
        /\ cases'[u] = cases[u] \cup Added(u, d)
        /\ nonCase'[u] = nonCase[u] \cup d.nonCase
        /\ sound'[u] = (sound[u] /\ ok)
        /\ chunk'[u] = chunk[u] + 1
    <2>1. /\ cases'[u] = cases[u] \cup Added(u, d)
          /\ nonCase'[u] = nonCase[u] \cup d.nonCase
          /\ chunk'[u] = chunk[u] + 1
      BY <1>2 DEF TypeOK
    <2>2. sound'[u] = (sound[u] /\ ok)
      BY <1>2 DEF TypeOK
    <2>3. Claimed(cases[u] \cup Added(u, d)) = Claimed(cases[u]) \cup Claimed(Added(u, d))
      BY DEF Claimed
    <2>4. Claimed(cases'[u]) = Claimed(cases[u]) \cup Claimed(d.cases)
      BY <1>3, <2>1, <2>3
    <2> QED
      BY <2>1, <2>2, <2>4
  <1>5. TypeOK'
    <2>1. /\ client' \in BOOLEAN /\ extractor' \in BOOLEAN /\ ended' \in BOOLEAN
          /\ sound' \in [Unit -> BOOLEAN]
      BY <1>2 DEF TypeOK, setup
    <2>2. /\ at' \in [Unit -> {"boundary", "anchor", "w2", "done"}]
          /\ chunk' \in [Unit -> Nat]
          /\ runs' \in 1..MaxRuns /\ raised' \subseteq Unit
      BY <1>1, <1>2 DEF TypeOK, setup
    <2>3. /\ cases' \in [Unit -> SUBSET FragmentOf(Nat \X Ref)]
          /\ nonCase' \in [Unit -> SUBSET Message]
      BY <1>2, <1>3 DEF TypeOK
    <2>4. /\ anchors' \in [Unit -> SUBSET (Message \X ((Nat \X Ref) \cup {NoRef}))]
          /\ loose' \in [Unit -> SUBSET Message]
          /\ results' \in [Unit -> SUBSET ((Nat \X Ref) \X Outcome)]
      BY <1>2 DEF TypeOK
    <2>5. ASSUME NEW v \in Unit
          PROVE  /\ chunk'[v] <= Len(Rows[v])
                 /\ Claimed(cases'[v]) \cup nonCase'[v] \subseteq MessagesOf(v)
      <3>1. CASE v = u
        <4>1. Rows[u][chunk[u] + 1] \subseteq MessagesOf(u)
          BY <1>1, NextChunk
        <4>2. Claimed(cases[u]) \cup nonCase[u] \subseteq MessagesOf(u)
          BY DEF TypeOK
        <4>3. chunk'[u] <= Len(Rows[u])
          BY <1>1, <1>4
        <4>4. Claimed(d.cases) \cup d.nonCase \subseteq MessagesOf(u)
          BY <4>1
        <4>5. Claimed(cases'[u]) \cup nonCase'[u] \subseteq MessagesOf(u)
          BY <1>4, <4>2, <4>4
        <4> QED
          BY <3>1, <4>3, <4>5
      <3>2. CASE v # u
        BY <1>2, <3>2 DEF TypeOK
      <3> QED
        BY <3>1, <3>2
    <2>6. /\ \A v \in Unit : chunk'[v] <= Len(Rows[v])
          /\ \A v \in Unit : Claimed(cases'[v]) \cup nonCase'[v] \subseteq MessagesOf(v)
      BY <2>5
    <2>7. (\A v \in Unit : /\ chunk[v] <= Len(Rows[v])
                           /\ Claimed(cases[v]) \cup nonCase[v] \subseteq MessagesOf(v))'
      BY <2>6 DEF Claimed
    <2> QED
      BY <2>1, <2>2, <2>3, <2>4, <2>7, Zenon DEF TypeOK
  <1>6. UnitInv(u)'
    <2>1. StagesFit(u)'
      BY <1>1, <1>2, <1>4 DEF StagesFit, TypeOK
    <2>2. ChunksAreKept(u)'
      <3>1. SUFFICES ASSUME sound'[u]
                     PROVE  /\ Claimed(cases'[u]) \cup nonCase'[u] =
                                   UNION {Rows[u][i] : i \in 1..chunk'[u]}
                            /\ Claimed(cases'[u]) \cap nonCase'[u] = {}
        BY DEF ChunksAreKept, Claimed
      <3>2. sound[u] /\ ok
        BY <1>4, <3>1
      <3>3. /\ Claimed(cases[u]) \cup nonCase[u] = UNION {Rows[u][i] : i \in 1..chunk[u]}
            /\ Claimed(cases[u]) \cap nonCase[u] = {}
        BY <3>2 DEF UnitInv, ChunksAreKept
      <3>4. /\ Claimed(d.cases) \cup d.nonCase = Rows[u][chunk[u] + 1]
            /\ Claimed(d.cases) \cap d.nonCase = {}
        BY <3>2
      <3>5. UNION {Rows[u][i] : i \in 1..(chunk[u] + 1)} =
                (UNION {Rows[u][i] : i \in 1..chunk[u]}) \cup Rows[u][chunk[u] + 1]
        BY <1>1, NextChunk
      <3>6. (UNION {Rows[u][i] : i \in 1..chunk[u]}) \cap Rows[u][chunk[u] + 1] = {}
        BY <1>1, NextChunk
      <3> HIDE DEF Claimed
      <3>7. Claimed(cases'[u]) \cap nonCase'[u] = {}
        BY <1>4, <3>3, <3>4, <3>6
      <3> QED
        BY <1>4, <3>3, <3>4, <3>5, <3>7
    <2>3. RefsAreApart(u)'
      <3>1. ASSUME NEW c \in cases'[u]
            PROVE  /\ chunk'[u] > 0
                   /\ IF Len(Rows[u]) > 1 THEN c.ref[1] \in 1..chunk'[u] ELSE c.ref[1] = 0
        BY <1>1, <1>3, <1>4 DEF UnitInv, RefsAreApart
      <3>2. ASSUME NEW c \in cases[u], NEW a \in Added(u, d)
            PROVE  c.ref # a.ref
        BY <1>1, <1>3 DEF UnitInv, RefsAreApart
      <3>3. ASSUME NEW c \in cases'[u], NEW e \in cases'[u], c.ref = e.ref
            PROVE  c = e
        BY <1>3, <1>4, <3>2, <3>3 DEF UnitInv, RefsAreApart
      <3> QED
        BY <3>1, <3>3 DEF RefsAreApart
    <2>4. AnchorsAreKept(u)'
      BY <1>2 DEF AnchorsAreKept, TypeOK
    <2>5. ResultsFit(u)'
      <3>1. results[u] = {}
        BY DEF UnitInv, ResultsFit
      <3>2. results'[u] = {} /\ at'[u] # "done"
        BY <1>2, <3>1 DEF TypeOK
      <3> QED
        BY <3>2 DEF ResultsFit
    <2> QED
      BY <2>1, <2>2, <2>3, <2>4, <2>5 DEF UnitInv
  <1>7. ASSUME NEW v \in Unit, v # u PROVE UnitInv(v)'
    BY <1>2, <1>7, Untouched DEF TypeOK, setup
  <1> QED
    BY <1>5, <1>6, <1>7

\* What the contract keeps of an answer, and what it accepts.
LEMMA NormalizedShape ==
    ASSUME NEW r \in Reply, NEW rows, rows \subseteq Message
    PROVE  LET d == Normalized(r, rows)
           IN  /\ d.cases \subseteq FragmentOf(Ref) /\ d.nonCase \subseteq Message
               /\ \A c, e \in d.cases : c.ref = e.ref => c = e
               /\ Claimed(d.cases) \cup d.nonCase \subseteq rows
               /\ BoundaryAccepted(r, rows) =>
                     /\ Claimed(d.cases) \cup d.nonCase = rows
                     /\ Claimed(d.cases) \cap d.nonCase = {}
  <1> DEFINE d == Normalized(r, rows)
             g(c) == [c EXCEPT !.messages = @ \cap rows]
  <1>1. /\ r.cases \subseteq FragmentOf(Ref) /\ r.nonCase \subseteq Message
        /\ \A c, e \in r.cases : c.ref = e.ref => c = e
    BY ReplyAssumption
  <1>2. d.cases = {g(c) : c \in r.cases} /\ d.nonCase = r.nonCase \cap rows
    BY DEF Normalized
  <1>3. ASSUME NEW c \in r.cases
        PROVE  /\ g(c).ref = c.ref /\ g(c).messages = c.messages \cap rows
               /\ g(c) \in FragmentOf(Ref)
    BY <1>1 DEF FragmentOf
  <1> HIDE DEF d, g
  <1>4. d.cases \subseteq FragmentOf(Ref) /\ d.nonCase \subseteq Message
    BY <1>1, <1>2, <1>3
  <1>5. \A c, e \in d.cases : c.ref = e.ref => c = e
    BY <1>1, <1>2, <1>3
  <1>6. \A m : m \in Claimed(d.cases) <=> m \in Claimed(r.cases) /\ m \in rows
    <2>1. \A m : m \in Claimed(d.cases) <=> \E c \in r.cases : m \in g(c).messages
      BY <1>2 DEF Claimed
    <2>2. \A m : m \in Claimed(r.cases) <=> \E c \in r.cases : m \in c.messages
      BY DEF Claimed
    <2> QED
      BY <1>3, <2>1, <2>2
  <1>7. Claimed(d.cases) \cup d.nonCase \subseteq rows
    BY <1>2, <1>6
  <1>8. BoundaryAccepted(r, rows) =>
            Claimed(d.cases) \cup d.nonCase = rows /\ Claimed(d.cases) \cap d.nonCase = {}
    BY <1>2, <1>6 DEF BoundaryAccepted
  <1> QED
    BY <1>4, <1>5, <1>7, <1>8 DEF d

LEMMA SaveShape ==
    ASSUME CheckpointsAreGood, NEW stage \in Shelf, NEW input, NEW output,
           Save(stage, input, output)
    PROVE  /\ checkpoint' = [s \in Shelf |-> checkpoint'[s]]
           /\ checkpoint'[stage] = checkpoint[stage] \cup {<<input, output>>}
           /\ \A s \in Shelf \ {stage} : checkpoint'[s] = checkpoint[s]
  BY DEF CheckpointsAreGood, Save

LEMMA SaveBoundary ==
    ASSUME CheckpointsAreGood, NEW u \in Unit, NEW i \in DOMAIN Rows[u], NEW d,
           GoodDecision(d, Rows[u][i]), Save("boundary", <<u, i>>, d)
    PROVE  CheckpointsAreGood'
  <1>1. /\ checkpoint' = [s \in Shelf |-> checkpoint'[s]]
        /\ checkpoint'["boundary"] = checkpoint["boundary"] \cup {<<<<u, i>>, d>>}
        /\ checkpoint'["anchor"] = checkpoint["anchor"]
        /\ checkpoint'["w2"] = checkpoint["w2"]
    BY SaveShape DEF Shelf
  <1>2. ASSUME NEW x \in checkpoint'["boundary"], NEW v \in Unit,
               NEW k \in DOMAIN Rows[v], x[1] = <<v, k>>
        PROVE  GoodDecision(x[2], Rows[v][k])
    BY <1>1, <1>2 DEF CheckpointsAreGood
  <1> QED
    BY <1>1, <1>2 DEF CheckpointsAreGood

LEMMA SaveAnchor ==
    ASSUME CheckpointsAreGood, NEW u \in Unit, NEW cs, NEW nc, NEW d,
           d.to \in AnyAnchors, GoodAnchors(d.to, d.loose, Evidence[u], Refs(cs)),
           Save("anchor", <<u, cs, nc>>, d)
    PROVE  CheckpointsAreGood'
  <1>1. /\ checkpoint' = [s \in Shelf |-> checkpoint'[s]]
        /\ checkpoint'["anchor"] = checkpoint["anchor"] \cup {<<<<u, cs, nc>>, d>>}
        /\ checkpoint'["boundary"] = checkpoint["boundary"]
        /\ checkpoint'["w2"] = checkpoint["w2"]
    BY SaveShape DEF Shelf
  <1>2. ASSUME NEW x \in checkpoint'["anchor"]
        PROVE  /\ x[2].to \in AnyAnchors
               /\ GoodAnchors(x[2].to, x[2].loose, Evidence[x[1][1]], Refs(x[1][2]))
    BY <1>1 DEF CheckpointsAreGood
  <1> QED
    BY <1>1, <1>2 DEF CheckpointsAreGood

LEMMA SaveW2 ==
    ASSUME CheckpointsAreGood, NEW manifest, NEW found,
           GoodResults(found, manifest[2]), Save("w2", manifest, found)
    PROVE  CheckpointsAreGood'
  <1>1. /\ checkpoint' = [s \in Shelf |-> checkpoint'[s]]
        /\ checkpoint'["w2"] = checkpoint["w2"] \cup {<<manifest, found>>}
        /\ checkpoint'["boundary"] = checkpoint["boundary"]
        /\ checkpoint'["anchor"] = checkpoint["anchor"]
    BY SaveShape DEF Shelf
  <1>2. ASSUME NEW x \in checkpoint'["w2"] PROVE GoodResults(x[2], x[1][2])
    BY <1>1 DEF CheckpointsAreGood
  <1> QED
    BY <1>1, <1>2 DEF CheckpointsAreGood

LEMMA CheckpointsUntouched ==
    ASSUME CheckpointsAreGood, UNCHANGED checkpoint PROVE CheckpointsAreGood'
  BY DEF CheckpointsAreGood

LEMMA BoundaryKeeps ==
    ASSUME IInv, NEW u \in Unit,
           BoundaryRead(u) \/ BoundaryAsk(u) \/ BoundaryFails(u)
    PROVE  IInv'
  <1> USE DEF IInv
  <1> DEFINE i == chunk[u] + 1
  <1>1. at[u] = "boundary" /\ i \in DOMAIN Rows[u] /\ Rows[u][i] \subseteq Message
    <2>1. at[u] = "boundary"
      BY DEF BoundaryRead, BoundaryAsk, BoundaryFails
    <2>2. chunk[u] \in Nat /\ chunk[u] < Len(Rows[u])
      BY <2>1 DEF UnitInv, StagesFit, TypeOK
    <2>3. i \in DOMAIN Rows[u]
      BY <2>2, NextChunk
    <2> QED
      BY <2>1, <2>3, RowsShape
  <1> HIDE DEF i
  <1>2. CASE BoundaryRead(u)
    <2>1. PICK x \in checkpoint["boundary"] :
              x[1] = <<u, i>> /\ Combine(u, x[2], TRUE)
      BY <1>2 DEF BoundaryRead, Saved, i
    <2>2. GoodDecision(x[2], Rows[u][i])
      BY <1>1, <2>1 DEF CheckpointsAreGood
    <2>3. TypeOK' /\ (\A v \in Unit : UnitInv(v))'
      BY <1>1, <2>1, <2>2, CombineKeeps DEF GoodDecision, i
    <2>4. CheckpointsAreGood'
      BY <1>2, CheckpointsUntouched DEF BoundaryRead
    <2> QED
      BY <2>3, <2>4
  <1>3. CASE BoundaryAsk(u)
    <2>1. PICK r \in Reply :
              /\ Combine(u, Normalized(r, Rows[u][i]), BoundaryAccepted(r, Rows[u][i]))
              /\ IF BoundaryAccepted(r, Rows[u][i])
                 THEN Save("boundary", <<u, i>>, Normalized(r, Rows[u][i]))
                 ELSE UNCHANGED checkpoint
      BY <1>3 DEF BoundaryAsk, i
    <2> DEFINE d == Normalized(r, Rows[u][i])
               ok == BoundaryAccepted(r, Rows[u][i])
    <2>2. /\ d.cases \subseteq FragmentOf(Ref) /\ d.nonCase \subseteq Message
          /\ \A c, e \in d.cases : c.ref = e.ref => c = e
          /\ Claimed(d.cases) \cup d.nonCase \subseteq Rows[u][i]
          /\ ok => Claimed(d.cases) \cup d.nonCase = Rows[u][i]
          /\ ok => Claimed(d.cases) \cap d.nonCase = {}
      BY <1>1, NormalizedShape
    <2>3. ok \in BOOLEAN
      BY DEF BoundaryAccepted
    <2>4. Combine(u, d, ok)
      BY <2>1
    <2>5. ok => Save("boundary", <<u, i>>, d)
      BY <2>1
    <2>6. ~ok => UNCHANGED checkpoint
      BY <2>1
    <2> HIDE DEF d, ok
    <2>7. TypeOK' /\ (\A v \in Unit : UnitInv(v))'
      BY <1>1, <2>2, <2>3, <2>4, CombineKeeps DEF i
    <2>8. CASE ok
      <3>1. GoodDecision(d, Rows[u][i])
        BY <2>2, <2>8 DEF GoodDecision
      <3>2. CheckpointsAreGood'
        BY <1>1, <2>5, <2>8, <3>1, SaveBoundary
      <3> QED
        BY <2>7, <3>2
    <2>9. CASE ~ok
      BY <2>6, <2>7, <2>9, CheckpointsUntouched
    <2> QED
      BY <2>8, <2>9
  <1>4. CASE BoundaryFails(u)
    <2> DEFINE d == [cases |-> {}, nonCase |-> {}]
    <2>1. Combine(u, d, FALSE) /\ UNCHANGED checkpoint
      BY <1>4 DEF BoundaryFails
    <2>2. d.cases = {} /\ d.nonCase = {} /\ Claimed(d.cases) = {}
      BY DEF Claimed
    <2> HIDE DEF d
    <2>3. TypeOK' /\ (\A v \in Unit : UnitInv(v))'
      BY <1>1, <2>1, <2>2, CombineKeeps DEF i
    <2> QED
      BY <2>1, <2>3, CheckpointsUntouched
  <1> QED
    BY <1>2, <1>3, <1>4

LEMMA DisabledKeeps ==
    ASSUME IInv, NEW u \in Unit, BoundaryDisabled(u)
    PROVE  IInv'
  <1> USE DEF IInv
  <1>1. /\ at[u] = "boundary"
        /\ at' = [at EXCEPT ![u] = "anchor"]
        /\ sound' = [sound EXCEPT ![u] = FALSE]
        /\ UNCHANGED <<chunk, cases, nonCase, anchors, loose, results, raised,
                       checkpoint, ended, setup, settled>>
    BY DEF BoundaryDisabled
  <1>2. TypeOK'
    <2>1. /\ client' \in BOOLEAN /\ extractor' \in BOOLEAN /\ ended' \in BOOLEAN
          /\ sound' \in [Unit -> BOOLEAN]
      BY <1>1 DEF TypeOK, setup
    <2>2. at' \in [Unit -> {"boundary", "anchor", "w2", "done"}]
      BY <1>1 DEF TypeOK
    <2> QED
      BY <1>1, <2>1, <2>2 DEF TypeOK, setup, Claimed
  <1>3. UnitInv(u)'
    <2>1. at'[u] = "anchor" /\ ~sound'[u] /\ ~ended /\ results[u] = {}
      BY <1>1 DEF TypeOK, UnitInv, StagesFit, ResultsFit
    <2>2. StagesFit(u)' /\ ChunksAreKept(u)' /\ AnchorsAreKept(u)'
      BY <1>1, <2>1 DEF StagesFit, ChunksAreKept, AnchorsAreKept
    <2>3. RefsAreApart(u)' /\ ResultsFit(u)'
      BY <1>1, <2>1 DEF UnitInv, RefsAreApart, ResultsFit
    <2> QED
      BY <2>2, <2>3 DEF UnitInv
  <1>4. ASSUME NEW v \in Unit, v # u PROVE UnitInv(v)'
    BY <1>1, <1>4, Untouched DEF TypeOK, setup
  <1>5. CheckpointsAreGood'
    BY <1>1, CheckpointsUntouched
  <1> QED
    BY <1>2, <1>3, <1>4, <1>5

LEMMA AnchorStep ==
    ASSUME TypeOK, \A v \in Unit : UnitInv(v), NEW u \in Unit, NEW a,
           NEW ok \in BOOLEAN, at[u] = "anchor", Anchor(u, a, ok),
           a.to \in AnyAnchors, a.loose \subseteq Message,
           sound[u] /\ ok =>
               GoodAnchors(a.to, a.loose, Evidence[u], Refs(cases[u]))
    PROVE  TypeOK' /\ (\A v \in Unit : UnitInv(v))'
  <1>1. /\ at' = [at EXCEPT ![u] = "w2"]
        /\ anchors' = [anchors EXCEPT ![u] = a.to]
        /\ loose' = [loose EXCEPT ![u] = a.loose]
        /\ sound' = [sound EXCEPT ![u] = @ /\ ok]
        /\ UNCHANGED <<chunk, cases, nonCase, results, raised, ended, setup, settled>>
    BY DEF Anchor
  <1>2. TypeOK'
    <2>1. /\ client' \in BOOLEAN /\ extractor' \in BOOLEAN /\ ended' \in BOOLEAN
          /\ sound' \in [Unit -> BOOLEAN]
      BY <1>1 DEF TypeOK, setup
    <2>2. at' \in [Unit -> {"boundary", "anchor", "w2", "done"}]
      BY <1>1 DEF TypeOK
    <2>3. /\ anchors' \in [Unit -> SUBSET (Message \X ((Nat \X Ref) \cup {NoRef}))]
          /\ loose' \in [Unit -> SUBSET Message]
      BY <1>1 DEF TypeOK, AnyAnchors
    <2> QED
      BY <1>1, <2>1, <2>2, <2>3 DEF TypeOK, setup, Claimed
  <1>3. UnitInv(u)'
    <2>1. /\ at'[u] = "w2" /\ ~ended /\ results[u] = {}
          /\ anchors'[u] = a.to /\ loose'[u] = a.loose
      BY <1>1 DEF TypeOK, UnitInv, StagesFit, ResultsFit
    <2>2. sound'[u] = (sound[u] /\ ok)
      BY <1>1 DEF TypeOK
    <2>3. StagesFit(u)'
      BY <1>1, <2>1, <2>2 DEF UnitInv, StagesFit
    <2>4. ChunksAreKept(u)'
      BY <1>1, <2>2 DEF UnitInv, ChunksAreKept
    <2>5. AnchorsAreKept(u)'
      BY <1>1, <2>1, <2>2 DEF AnchorsAreKept
    <2>6. RefsAreApart(u)' /\ ResultsFit(u)'
      BY <1>1, <2>1 DEF UnitInv, RefsAreApart, ResultsFit
    <2> QED
      BY <2>3, <2>4, <2>5, <2>6 DEF UnitInv
  <1>4. ASSUME NEW v \in Unit, v # u PROVE UnitInv(v)'
    BY <1>1, <1>4, Untouched DEF TypeOK, setup
  <1> QED
    BY <1>2, <1>3, <1>4

LEMMA AnchorKeeps ==
    ASSUME IInv, NEW u \in Unit,
           AnchorSkips(u) \/ AnchorRead(u) \/ AnchorAsk(u) \/ AnchorFails(u)
    PROVE  IInv'
  <1> USE DEF IInv
  <1>1. at[u] = "anchor"
    BY DEF AnchorSkips, AnchorRead, AnchorAsk, AnchorFails, MustAnchor
  <1>2. /\ NoAnchors.to = {} /\ NoAnchors.loose = {} /\ NoAnchors.to \in AnyAnchors
        /\ sound[u] \in BOOLEAN
    BY DEF NoAnchors, AnyAnchors, TypeOK
  <1>3. CASE AnchorSkips(u)
    <2>1. /\ Evidence[u] = {} \/ ~sound[u]
          /\ Anchor(u, NoAnchors, sound[u]) /\ UNCHANGED checkpoint
      BY <1>3 DEF AnchorSkips
    <2>2. Evidence[u] = {} =>
              GoodAnchors(NoAnchors.to, NoAnchors.loose, Evidence[u], Refs(cases[u]))
      BY <1>2 DEF GoodAnchors
    <2>3. TypeOK' /\ (\A v \in Unit : UnitInv(v))'
      BY <1>1, <1>2, <2>1, <2>2, AnchorStep
    <2> QED
      BY <2>1, <2>3, CheckpointsUntouched
  <1>4. CASE AnchorRead(u)
    <2>1. PICK x \in checkpoint["anchor"] :
              x[1] = <<u, cases[u], nonCase[u]>> /\ Anchor(u, x[2], TRUE)
      BY <1>4 DEF AnchorRead, Saved, AnchorInput
    <2>2. /\ x[2].to \in AnyAnchors
          /\ GoodAnchors(x[2].to, x[2].loose, Evidence[u], Refs(cases[u]))
      BY <2>1 DEF CheckpointsAreGood
    <2>3. x[2].loose \subseteq Message
      BY <2>2, RowsShape DEF GoodAnchors
    <2>4. TypeOK' /\ (\A v \in Unit : UnitInv(v))'
      BY <1>1, <2>1, <2>2, <2>3, AnchorStep
    <2> QED
      BY <1>4, <2>4, CheckpointsUntouched DEF AnchorRead
  <1>5. CASE AnchorAsk(u)
    <2>1. PICK b \in AnchorReply(Evidence[u], Refs(cases[u])) :
              LET ok == AnchorAccepted(b, Evidence[u], Refs(cases[u]))
                  d  == [to |-> b.to, loose |-> b.loose]
              IN  /\ Anchor(u, d, ok)
                  /\ IF ok THEN Save("anchor", AnchorInput(u), d)
                     ELSE UNCHANGED checkpoint
      BY <1>5 DEF AnchorAsk
    <2> DEFINE ok == AnchorAccepted(b, Evidence[u], Refs(cases[u]))
               d  == [to |-> b.to, loose |-> b.loose]
    <2>2. Anchor(u, d, ok) /\ d.to = b.to /\ d.loose = b.loose
      BY <2>1
    <2>3. ok => Save("anchor", <<u, cases[u], nonCase[u]>>, d)
      BY <2>1 DEF AnchorInput
    <2>4. ~ok => UNCHANGED checkpoint
      BY <2>1
    <2>5. ok \in BOOLEAN
      BY DEF AnchorAccepted
    <2>6. ok => GoodAnchors(b.to, b.loose, Evidence[u], Refs(cases[u]))
      BY DEF AnchorAccepted, GoodAnchors
    <2> HIDE DEF ok, d
    <2>7. /\ b.to \subseteq Evidence[u] \X (Refs(cases[u]) \cup {NoRef})
          /\ b.loose \subseteq Evidence[u]
      BY DEF AnchorReply
    <2>8. Refs(cases[u]) \subseteq Nat \X Ref /\ Evidence[u] \subseteq Message
      BY RowsShape DEF Refs, TypeOK, FragmentOf
    <2>9. b.to \in AnyAnchors /\ b.loose \subseteq Message
      BY <2>7, <2>8 DEF AnyAnchors
    <2>10. TypeOK' /\ (\A v \in Unit : UnitInv(v))'
      BY <1>1, <2>2, <2>5, <2>6, <2>9, AnchorStep
    <2>11. CASE ok
      <3>1. CheckpointsAreGood'
        BY <2>2, <2>3, <2>6, <2>9, <2>11, SaveAnchor
      <3> QED
        BY <2>10, <3>1
    <2>12. CASE ~ok
      BY <2>4, <2>10, <2>12, CheckpointsUntouched
    <2> QED
      BY <2>11, <2>12
  <1>6. CASE AnchorFails(u)
    <2>1. Anchor(u, NoAnchors, FALSE) /\ UNCHANGED checkpoint
      BY <1>6 DEF AnchorFails
    <2>2. TypeOK' /\ (\A v \in Unit : UnitInv(v))'
      BY <1>1, <1>2, <2>1, AnchorStep
    <2> QED
      BY <2>1, <2>2, CheckpointsUntouched
  <1> QED
    BY <1>3, <1>4, <1>5, <1>6

\* One outcome for each of the references R.
Each(R, f) == {<<r, f[r]>> : r \in R}

LEMMA OneOutcomeEach ==
    ASSUME NEW cs, NEW f, \A r \in Refs(cs) : f[r] \in Outcome
    PROVE  /\ Each(Refs(cs), f) \subseteq Refs(cs) \X Outcome
           /\ \A p, q \in Each(Refs(cs), f) : p[1] = q[1] => p = q
           /\ \A c \in cs : \E p \in Each(Refs(cs), f) : p[1] = c.ref
           /\ (\A p \in Each(Refs(cs), f) : p[2] = "case") =>
                 Each(Refs(cs), f) = {<<r, "case">> : r \in Refs(cs)}
  <1> DEFINE R == Refs(cs)
             found == Each(R, f)
  <1>1. \A p \in found : \E r \in R : p = <<r, f[r]>>
    BY DEF Each
  <1>2. \A r \in R : <<r, f[r]>> \in found
    BY DEF Each
  <1>3. \A c \in cs : c.ref \in R
    BY DEF Refs
  <1>4. \A r \in R : f[r] \in Outcome
    OBVIOUS
  <1> HIDE DEF R, found
  <1>5. found \subseteq R \X Outcome
    BY <1>1, <1>4
  <1>6. \A p, q \in found : p[1] = q[1] => p = q
    BY <1>1
  <1>7. \A c \in cs : \E p \in found : p[1] = c.ref
    BY <1>2, <1>3
  <1>8. ASSUME \A p \in found : p[2] = "case"
        PROVE  found = {<<r, "case">> : r \in R}
    <2>1. \A r \in R : f[r] = "case"
      <3>1. TAKE r \in R
      <3>2. <<r, f[r]>>[2] = "case"
        BY <1>2, <1>8
      <3> QED
        BY <3>2
    <2>2. \A p \in found : \E r \in R : p = <<r, "case">>
      BY <1>1, <2>1
    <2>3. \A r \in R : <<r, "case">> \in found
      BY <1>2, <2>1
    <2> QED
      BY <2>2, <2>3
  <1> QED
    BY <1>5, <1>6, <1>7, <1>8 DEF R, found

LEMMA ExtractStep ==
    ASSUME TypeOK, \A v \in Unit : UnitInv(v), NEW u \in Unit, NEW found,
           at[u] = "w2", Extracted(u, found),
           raised' = raised \/ raised' = raised \cup {u},
           found # {} => sound[u] /\ extractor,
           found \subseteq Refs(AtomicCases(u)) \X Outcome,
           \A p, q \in found : p[1] = q[1] => p = q,
           sound[u] /\ extractor /\ u \notin raised' =>
               \A c \in AtomicCases(u) : \E p \in found : p[1] = c.ref
    PROVE  TypeOK' /\ (\A v \in Unit : UnitInv(v))'
  <1>1. /\ at' = [at EXCEPT ![u] = "done"]
        /\ results' = [results EXCEPT ![u] = found]
        /\ UNCHANGED <<chunk, cases, nonCase, sound, anchors, loose, ended, setup, settled>>
    BY DEF Extracted, decided
  <1>2. Refs(AtomicCases(u)) \subseteq Nat \X Ref
    BY DEF Refs, AtomicCases, TypeOK, FragmentOf
  <1>3. TypeOK'
    <2>1. /\ client' \in BOOLEAN /\ extractor' \in BOOLEAN /\ ended' \in BOOLEAN
          /\ sound' \in [Unit -> BOOLEAN]
      BY <1>1 DEF TypeOK, setup
    <2>2. /\ at' \in [Unit -> {"boundary", "anchor", "w2", "done"}]
          /\ raised' \subseteq Unit
      BY <1>1 DEF TypeOK
    <2>3. results' \in [Unit -> SUBSET ((Nat \X Ref) \X Outcome)]
      BY <1>1, <1>2 DEF TypeOK
    <2> QED
      BY <1>1, <2>1, <2>2, <2>3 DEF TypeOK, setup, Claimed
  <1>4. UnitInv(u)'
    <2>1. at'[u] = "done" /\ results'[u] = found /\ ~ended
      BY <1>1 DEF TypeOK, UnitInv, StagesFit
    <2>2. StagesFit(u)'
      BY <1>1, <2>1 DEF UnitInv, StagesFit
    <2>3. ChunksAreKept(u)' /\ RefsAreApart(u)'
      BY <1>1 DEF UnitInv, ChunksAreKept, RefsAreApart
    <2>4. AnchorsAreKept(u)'
      BY <1>1, <2>1 DEF UnitInv, AnchorsAreKept
    <2>5. ResultsFit(u)'
      <3>1. AtomicCases(u)' = AtomicCases(u) /\ sound' = sound /\ extractor' = extractor
        BY <1>1 DEF AtomicCases, setup
      <3>2. found # {} => sound[u] /\ extractor
        OBVIOUS
      <3>3. \A p \in found : p[1] \in Refs(AtomicCases(u))
        OBVIOUS
      <3> QED
        BY <2>1, <3>1, <3>2, <3>3 DEF ResultsFit, Refs
    <2> QED
      BY <2>2, <2>3, <2>4, <2>5 DEF UnitInv
  <1>5. ASSUME NEW v \in Unit, v # u PROVE UnitInv(v)'
    BY <1>1, <1>5, Untouched DEF TypeOK, setup
  <1> QED
    BY <1>3, <1>4, <1>5

LEMMA ExtractKeeps ==
    ASSUME IInv, NEW u \in Unit,
           ExtractSkips(u) \/ ExtractRead(u) \/ Extract(u) \/ ExtractFails(u)
    PROVE  IInv'
  <1> USE DEF IInv
  <1>1. at[u] = "w2"
    BY DEF ExtractSkips, ExtractRead, Extract, ExtractFails, MustExtract
  <1>2. ASSUME MustExtract(u) PROVE sound[u] /\ extractor
    BY <1>2 DEF MustExtract, HasManifest
  <1>3. CASE ExtractSkips(u)
    <2>1. /\ ~(sound[u] /\ extractor) /\ Extracted(u, {})
          /\ UNCHANGED raised /\ UNCHANGED checkpoint
      BY <1>3 DEF ExtractSkips, HasManifest
    <2>2. TypeOK' /\ (\A v \in Unit : UnitInv(v))'
      BY <1>1, <2>1, ExtractStep
    <2> QED
      BY <2>1, <2>2, CheckpointsUntouched
  <1>4. CASE ExtractRead(u)
    <2>1. PICK x \in checkpoint["w2"] : x[1] = Manifest(u) /\ Extracted(u, x[2])
      BY <1>4 DEF ExtractRead, Saved
    <2> DEFINE R == Refs(AtomicCases(u))
               f == [r \in R |-> "case"]
    <2>2. x[2] = Each(R, f)
      <3>1. x[1][2] = cases[u]
        BY <2>1 DEF Manifest
      <3>2. x[2] = {<<r, "case">> : r \in R}
        BY <3>1 DEF CheckpointsAreGood, GoodResults, AtomicCases
      <3>3. \A r \in R : f[r] = "case"
        OBVIOUS
      <3> QED
        BY <3>2, <3>3 DEF Each
    <2>3. /\ x[2] \subseteq Refs(AtomicCases(u)) \X Outcome
          /\ \A p, q \in x[2] : p[1] = q[1] => p = q
          /\ \A c \in AtomicCases(u) : \E p \in x[2] : p[1] = c.ref
      <3>1. \A r \in R : f[r] \in Outcome
        BY DEF Outcome
      <3> HIDE DEF f
      <3> QED
        BY <2>2, <3>1, OneOutcomeEach
    <2>4. sound[u] /\ extractor /\ UNCHANGED raised
      BY <1>2, <1>4 DEF ExtractRead
    <2>5. TypeOK' /\ (\A v \in Unit : UnitInv(v))'
      BY <1>1, <2>1, <2>3, <2>4, ExtractStep
    <2> QED
      BY <1>4, <2>5, CheckpointsUntouched DEF ExtractRead
  <1>5. CASE Extract(u)
    <2>1. PICK outcome \in [Refs(AtomicCases(u)) -> Outcome] :
            LET found == {<<r, outcome[r]>> : r \in Refs(AtomicCases(u))}
            IN  /\ Extracted(u, found)
                /\ IF \A p \in found : p[2] = "case"
                   THEN Save("w2", Manifest(u), found)
                   ELSE UNCHANGED checkpoint
      BY <1>5 DEF Extract
    <2> DEFINE found == Each(Refs(AtomicCases(u)), outcome)
    <2>2. /\ Extracted(u, found)
          /\ (\A p \in found : p[2] = "case") => Save("w2", Manifest(u), found)
          /\ ~(\A p \in found : p[2] = "case") => UNCHANGED checkpoint
      BY <2>1 DEF Each
    <2>3. sound[u] /\ extractor /\ UNCHANGED raised
      BY <1>2, <1>5 DEF Extract
    <2>4. \A r \in Refs(AtomicCases(u)) : outcome[r] \in Outcome
      OBVIOUS
    <2>5. /\ found \subseteq Refs(AtomicCases(u)) \X Outcome
          /\ \A p, q \in found : p[1] = q[1] => p = q
          /\ \A c \in AtomicCases(u) : \E p \in found : p[1] = c.ref
          /\ (\A p \in found : p[2] = "case") =>
                found = {<<r, "case">> : r \in Refs(AtomicCases(u))}
      BY <2>4, OneOutcomeEach
    <2>6. (\A p \in found : p[2] = "case") => GoodResults(found, Manifest(u)[2])
      <3>1. Manifest(u)[2] = cases[u]
        BY DEF Manifest
      <3> QED
        BY <2>5, <3>1 DEF GoodResults, AtomicCases
    <2> HIDE DEF found
    <2>7. TypeOK' /\ (\A v \in Unit : UnitInv(v))'
      BY <1>1, <2>2, <2>3, <2>5, ExtractStep
    <2>8. CheckpointsAreGood'
      BY <2>2, <2>6, SaveW2, CheckpointsUntouched
    <2> QED
      BY <2>7, <2>8
  <1>6. CASE ExtractFails(u)
    <2>1. Extracted(u, {}) /\ raised' = raised \cup {u} /\ UNCHANGED checkpoint
      BY <1>6 DEF ExtractFails
    <2>2. TypeOK' /\ (\A v \in Unit : UnitInv(v))'
      BY <1>1, <2>1, ExtractStep
    <2> QED
      BY <2>1, <2>2, CheckpointsUntouched
  <1> QED
    BY <1>3, <1>4, <1>5, <1>6

LEMMA BuildCardsKeeps ==
    ASSUME IInv, BuildCards PROVE IInv'
  <1> USE DEF IInv
  <1>1. /\ \A u \in Unit : at[u] = "done"
        /\ ended' = TRUE
        /\ UNCHANGED <<at, chunk, decided, results, raised, checkpoint, setup>>
    BY DEF BuildCards
  <1>2. TypeOK'
    BY <1>1 DEF TypeOK, setup, decided, Claimed
  <1>3. ASSUME NEW u \in Unit PROVE UnitInv(u)'
    <2>1. StagesFit(u)'
      BY <1>1 DEF UnitInv, StagesFit, decided
    <2>2. ChunksAreKept(u)' /\ RefsAreApart(u)' /\ AnchorsAreKept(u)'
      BY <1>1 DEF UnitInv, ChunksAreKept, RefsAreApart, AnchorsAreKept, decided
    <2>3. ResultsFit(u)'
      BY <1>1 DEF UnitInv, ResultsFit, AtomicCases, decided, setup
    <2> QED
      BY <2>1, <2>2, <2>3 DEF UnitInv
  <1> QED
    BY <1>1, <1>2, <1>3, CheckpointsUntouched

LEMMA RunAgainKeeps ==
    ASSUME IInv, RunAgain PROVE IInv'
  <1> USE DEF IInv
  <1>1. /\ runs' = runs + 1 /\ runs < MaxRuns /\ Start /\ UNCHANGED checkpoint
    BY DEF RunAgain
  <1>2. TypeOK'
    <2>1. \A u \in Unit : chunk'[u] <= Len(Rows[u])
      BY <1>1, RowsShape DEF Start
    <2>2. \A u \in Unit : Claimed(cases'[u]) \cup nonCase'[u] \subseteq MessagesOf(u)
      BY <1>1 DEF Start, Claimed
    <2>3. /\ client' \in BOOLEAN /\ extractor' \in BOOLEAN /\ ended' \in BOOLEAN
          /\ sound' \in [Unit -> BOOLEAN]
      BY <1>1 DEF Start
    <2>4. /\ at' \in [Unit -> {"boundary", "anchor", "w2", "done"}]
          /\ chunk' \in [Unit -> Nat]
          /\ runs' \in 1..MaxRuns /\ raised' \subseteq Unit
      BY <1>1, UnitAssumption DEF Start, TypeOK
    <2>5. /\ cases' \in [Unit -> SUBSET FragmentOf(Nat \X Ref)]
          /\ nonCase' \in [Unit -> SUBSET Message]
          /\ anchors' \in [Unit -> SUBSET (Message \X ((Nat \X Ref) \cup {NoRef}))]
          /\ loose' \in [Unit -> SUBSET Message]
          /\ results' \in [Unit -> SUBSET ((Nat \X Ref) \X Outcome)]
      BY <1>1 DEF Start
    <2>6. (\A u \in Unit : /\ chunk[u] <= Len(Rows[u])
                           /\ Claimed(cases[u]) \cup nonCase[u] \subseteq MessagesOf(u))'
      BY <2>1, <2>2 DEF Claimed
    <2> QED
      BY <2>3, <2>4, <2>5, <2>6, Zenon DEF TypeOK
  <1>3. ASSUME NEW u \in Unit PROVE UnitInv(u)'
    <2>1. StagesFit(u)'
      BY <1>1, RowsShape DEF Start, StagesFit
    <2>2. ChunksAreKept(u)'
      BY <1>1 DEF Start, ChunksAreKept, Claimed
    <2>3. RefsAreApart(u)' /\ AnchorsAreKept(u)' /\ ResultsFit(u)'
      BY <1>1 DEF Start, RefsAreApart, AnchorsAreKept, ResultsFit
    <2> QED
      BY <2>1, <2>2, <2>3 DEF UnitInv
  <1> QED
    BY <1>1, <1>2, <1>3, CheckpointsUntouched

LEMMA StutterKeeps ==
    ASSUME IInv, UNCHANGED vars PROVE IInv'
  <1> USE DEF IInv, vars, decided, setup
  <1>1. TypeOK'
    BY DEF TypeOK, Claimed
  <1>2. ASSUME NEW u \in Unit PROVE UnitInv(u)'
    BY Untouched
  <1> QED
    BY <1>1, <1>2, CheckpointsUntouched

LEMMA Invariance == Spec => []IInv
  <1>1. ASSUME IInv, [Next]_vars PROVE IInv'
    <2>1. ASSUME NEW u \in Unit, Decide(u) PROVE IInv'
      BY <1>1, <2>1, BoundaryKeeps, DisabledKeeps, AnchorKeeps, ExtractKeeps DEF Decide
    <2> QED
      BY <1>1, <2>1, BuildCardsKeeps, RunAgainKeeps, StutterKeeps DEF Next, Work
  <1> QED
    BY <1>1, Initially, PTL DEF Spec

-----------------------------------------------------------------------------
(* Theorems                                                                 *)

\* What a unit's fragments, anchors and cards are made of is what its own
\* episode holds, whatever the models answer and whatever is on disk.
THEOREM TypeCorrect == Spec => []TypeOK
  <1>1. IInv => TypeOK
    BY DEF IInv
  <1> QED
    BY <1>1, Invariance, PTL

LEMMA SoundIsAccounted ==
    ASSUME IInv, NEW u \in Unit, sound[u], at[u] \in {"w2", "done"}
    PROVE  Accounted(u)
  <1>1. chunk[u] = Len(Rows[u])
    BY DEF IInv, UnitInv, StagesFit
  <1>2. MessagesOf(u) = UNION {Rows[u][i] : i \in 1..chunk[u]}
    BY <1>1, RowsShape DEF MessagesOf
  <1>3. Claimed(cases[u]) \cup nonCase[u] = MessagesOf(u) /\ Claimed(cases[u]) \cap nonCase[u] = {}
    BY <1>2 DEF IInv, UnitInv, ChunksAreKept
  <1>4. GoodAnchors(anchors[u], loose[u], Evidence[u], Refs(cases[u]))
    BY DEF IInv, UnitInv, AnchorsAreKept
  <1> QED
    BY <1>3, <1>4 DEF Accounted, GoodAnchors

\* W2 never works on an episode with a message or an attachment that nobody
\* accounted for: decisions with issues, on disk or not, do not reach it.
THEOREM OnlyAccounted == Spec => []OnlyAccountedIsExtracted
  <1>1. ASSUME IInv, NEW u \in Unit, AtomicCards(u) # {} PROVE Accounted(u)
    <2>1. results[u] # {}
      BY <1>1 DEF AtomicCards
    <2>2. sound[u] /\ at[u] = "done"
      BY <1>1, <2>1 DEF IInv, UnitInv, ResultsFit
    <2> QED
      BY <1>1, <2>2, SoundIsAccounted
  <1>2. IInv => OnlyAccountedIsExtracted
    BY <1>1 DEF OnlyAccountedIsExtracted
  <1> QED
    BY <1>2, Invariance, PTL

\* The cards of a unit name it.
LEMMA CardShape ==
    ASSUME NEW u \in Unit, NEW d \in AtomicCards(u) \cup RawCards(u)
    PROVE  /\ d.unit = u
           /\ \/ \E c \in AtomicCases(u), p \in results[u] :
                    p[1] = c.ref /\ d = Card(u, c, CaseRef(u, c, p[2]))
              \/ \E c \in cases[u] :
                    /\ d = Card(u, c, <<"raw", u, c.ref>>)
                    /\ extractor => c.kind \notin Atomic
  <1>1. CASE d \in AtomicCards(u)
    <2>1. PICK c \in AtomicCases(u) :
              d \in {Card(u, c, CaseRef(u, c, p[2])) : p \in {q \in results[u] : q[1] = c.ref}}
      BY <1>1 DEF AtomicCards
    <2>2. PICK p \in results[u] : p[1] = c.ref /\ d = Card(u, c, CaseRef(u, c, p[2]))
      BY <2>1
    <2> QED
      BY <2>2 DEF Card
  <1>2. CASE d \in RawCards(u)
    <2>1. PICK c \in cases[u] : d = Card(u, c, <<"raw", u, c.ref>>)
                                /\ (extractor => c.kind \notin Atomic)
      BY <1>2 DEF RawCards
    <2> QED
      BY <2>1 DEF Card
  <1> QED
    BY <1>1, <1>2

LEMMA SelectedIsAnchored ==
    ASSUME IInv, NEW u \in Unit, sound[u], at[u] = "done", NEW f
    PROVE  Selected(u, f) = f.messages \cup {m \in Evidence[u] : <<m, f.ref>> \in anchors[u]}
  <1>1. anchors[u] \subseteq Message \X ((Nat \X Ref) \cup {NoRef})
    BY DEF IInv, TypeOK
  <1>2. {p[1] : p \in anchors[u]} \subseteq Evidence[u]
    BY DEF IInv, UnitInv, AnchorsAreKept, GoodAnchors
  <1>3. \A p \in anchors[u] : p = <<p[1], p[2]>> /\ p[1] \in Evidence[u]
    BY <1>1, <1>2
  <1>4. \A m : m \in {p[1] : p \in {q \in anchors[u] : q[2] = f.ref}} <=>
                 m \in Evidence[u] /\ <<m, f.ref>> \in anchors[u]
    <2>1. ASSUME NEW p \in anchors[u], p[2] = f.ref
          PROVE  p[1] \in Evidence[u] /\ <<p[1], f.ref>> \in anchors[u]
      BY <1>3, <2>1
    <2>2. ASSUME NEW m, <<m, f.ref>> \in anchors[u]
          PROVE  \E p \in anchors[u] : p[2] = f.ref /\ m = p[1]
      <3>1. WITNESS <<m, f.ref>> \in anchors[u]
      <3> QED
        OBVIOUS
    <2> QED
      BY <2>1, <2>2
  <1> QED
    BY <1>4 DEF Selected

\* One fragment that is to be assembled, one card.
LEMMA OneCardEach ==
    ASSUME IInv, ended, Clean, NEW u \in Unit, NEW f \in cases[u], f.kind \in Assembly
    PROVE  \E c \in Cards :
              /\ c.unit = u /\ c.fragment = f.ref /\ c.kind = f.kind
              /\ c.evidence = Selected(u, f)
              /\ \A d \in Cards : d.unit = u /\ d.fragment = f.ref => d = c
  <1> DEFINE w2  == extractor /\ f.kind \in Atomic
             ref == IF w2 THEN <<"case", u, f.ref>> ELSE <<"raw", u, f.ref>>
             c   == Card(u, f, ref)
  <1>1. /\ at[u] = "done" /\ sound[u] /\ u \notin raised /\ Cards = AllCards
        /\ \A p \in results[u] : p[2] = "case"
    BY DEF IInv, UnitInv, StagesFit, Clean
  <1>2. \A e \in cases[u] : e.ref = f.ref => e = f
    BY DEF IInv, UnitInv, RefsAreApart
  <1>3. c \in AtomicCards(u) \cup RawCards(u)
    <2>1. CASE w2
      <3>1. f \in AtomicCases(u)
        BY <2>1 DEF AtomicCases
      <3>2. PICK p \in results[u] : p[1] = f.ref
        BY <1>1, <2>1, <3>1 DEF IInv, UnitInv, ResultsFit
      <3>3. CaseRef(u, f, p[2]) = ref
        BY <1>1, <2>1 DEF CaseRef
      <3>4. Card(u, f, CaseRef(u, f, p[2])) \in AtomicCards(u)
        BY <3>1, <3>2 DEF AtomicCards
      <3> QED
        BY <3>3, <3>4
    <2>2. CASE ~w2
      BY <2>2 DEF RawCards
    <2> QED
      BY <2>1, <2>2
  <1>4. c \in Cards
    BY <1>1, <1>3 DEF AllCards
  <1>5. /\ c.unit = u /\ c.fragment = f.ref /\ c.kind = f.kind
        /\ c.evidence = Selected(u, f)
    BY DEF Card
  <1>6. ASSUME NEW d \in Cards, d.unit = u, d.fragment = f.ref PROVE d = c
    <2>1. PICK v \in Unit : d \in AtomicCards(v) \cup RawCards(v)
      BY <1>1 DEF AllCards
    <2>2. v = u
      BY <1>6, <2>1, CardShape
    <2>3. ASSUME NEW e \in AtomicCases(u), NEW p \in results[u],
                 d = Card(u, e, CaseRef(u, e, p[2]))
          PROVE  d = c
      <3>1. e.ref = f.ref /\ e \in cases[u]
        BY <1>6, <2>3 DEF Card, AtomicCases
      <3>2. e = f /\ f.kind \in Atomic
        BY <1>2, <3>1 DEF AtomicCases
      <3>3. extractor
        BY DEF IInv, UnitInv, ResultsFit
      <3>4. CaseRef(u, f, p[2]) = ref
        BY <1>1, <3>2, <3>3 DEF CaseRef
      <3> QED
        BY <2>3, <3>2, <3>4
    <2>4. ASSUME NEW e \in cases[u], d = Card(u, e, <<"raw", u, e.ref>>),
                 extractor => e.kind \notin Atomic
          PROVE  d = c
      <3>1. e.ref = f.ref
        BY <1>6, <2>4 DEF Card
      <3>2. e = f
        BY <1>2, <3>1
      <3>3. ~w2
        BY <2>4, <3>2
      <3> QED
        BY <2>4, <3>2, <3>3
    <2>5. \/ \E e \in AtomicCases(u), p \in results[u] :
                 p[1] = e.ref /\ d = Card(u, e, CaseRef(u, e, p[2]))
          \/ \E e \in cases[u] :
                 /\ d = Card(u, e, <<"raw", u, e.ref>>)
                 /\ extractor => e.kind \notin Atomic
      BY <2>1, <2>2, CardShape
    <2> HIDE DEF c
    <2> QED
      BY <2>3, <2>4, <2>5
  <1> HIDE DEF c
  <1> QED
    BY <1>4, <1>5, <1>6

\* What W7 assembles of a clean batch is every case the models found, once,
\* with the messages and the attachments they gave to it.
THEOREM EveryCaseOnce == Spec => []EveryCaseHasItsCard
  <1>1. ASSUME IInv, ended, Clean, NEW u \in Unit,
               NEW f \in {c \in cases[u] : c.kind \in Assembly}
        PROVE  \E c \in Cards :
                  /\ c.unit = u /\ c.fragment = f.ref /\ c.kind = f.kind
                  /\ c.evidence = f.messages \cup
                         {m \in Evidence[u] : <<m, f.ref>> \in anchors[u]}
                  /\ \A d \in Cards : d.unit = u /\ d.fragment = f.ref => d = c
    <2>1. at[u] = "done" /\ sound[u]
      BY <1>1 DEF IInv, UnitInv, StagesFit, Clean
    <2>2. Selected(u, f) = f.messages \cup {m \in Evidence[u] : <<m, f.ref>> \in anchors[u]}
      BY <1>1, <2>1, SelectedIsAnchored
    <2>3. PICK c \in Cards :
              /\ c.unit = u /\ c.fragment = f.ref /\ c.kind = f.kind
              /\ c.evidence = Selected(u, f)
              /\ \A d \in Cards : d.unit = u /\ d.fragment = f.ref => d = c
      BY <1>1, OneCardEach
    <2> QED
      BY <2>2, <2>3
  <1>2. IInv => EveryCaseHasItsCard
    BY <1>1 DEF EveryCaseHasItsCard
  <1> QED
    BY <1>2, Invariance, PTL

\* No message of a clean batch disappears between the stages.
THEOREM NothingLost == Spec => []NothingIsLost
  <1>1. ASSUME IInv, ended, Clean, NEW u \in Unit, NEW m \in MessagesOf(u)
        PROVE  \/ \E c \in Cards : c.unit = u /\ m \in c.evidence
               \/ \E c \in cases[u] : c.kind = "noise" /\ m \in c.messages
               \/ m \in nonCase[u]
    <2>1. at[u] = "done" /\ sound[u]
      BY <1>1 DEF IInv, UnitInv, StagesFit, Clean
    <2>2. Claimed(cases[u]) \cup nonCase[u] = MessagesOf(u)
      BY <1>1, <2>1, SoundIsAccounted DEF Accounted
    <2>3. CASE m \in nonCase[u]
      BY <2>3
    <2>4. CASE m \notin nonCase[u]
      <3>1. PICK f \in cases[u] : m \in f.messages
        BY <1>1, <2>2, <2>4 DEF Claimed
      <3>2. f.kind \in Kind
        BY <1>1 DEF IInv, TypeOK, FragmentOf
      <3>3. CASE f.kind = "noise"
        BY <3>1, <3>3
      <3>4. CASE f.kind \in Assembly
        <4>1. PICK c \in Cards : c.unit = u /\ c.evidence = Selected(u, f)
          BY <1>1, <3>4, OneCardEach
        <4>2. m \in Selected(u, f)
          BY <3>1 DEF Selected
        <4> QED
          BY <4>1, <4>2
      <3> QED
        BY <3>2, <3>3, <3>4 DEF Assembly
    <2> QED
      BY <2>3, <2>4
  <1>2. IInv => NothingIsLost
    BY <1>1 DEF NothingIsLost
  <1> QED
    BY <1>2, Invariance, PTL

-----------------------------------------------------------------------------
(* What the end of a batch rests on                                         *)
(*                                                                          *)
(* BatchEnds is left to TLC.  Proved are the two facts it follows from      *)
(* under the fairness of Spec: until the cards are built somebody can go    *)
(* on, and whatever happens to a unit brings it nearer to its end.          *)

\* A worker has something to do with u: a chunk to decide, the attachments,
\* or the extraction, which waits for all the units.
CanBeDecided(u) ==
    \/ at[u] = "boundary" /\ (client => chunk[u] + 1 \in DOMAIN Rows[u])
    \/ at[u] = "anchor"
    \/ at[u] = "w2" /\ AllDecided

CanGoOn ==
    ended \/ (\A u \in Unit : at[u] = "done") \/ \E u \in Unit : CanBeDecided(u)

\* Nobody waits at the barrier before W2 for a unit that cannot come.
THEOREM NeverStuck == Spec => []CanGoOn
  <1>1. IInv => CanGoOn
    <2> SUFFICES ASSUME IInv, ~ended, NEW u \in Unit, at[u] # "done"
                 PROVE  \E v \in Unit : CanBeDecided(v)
      BY DEF CanGoOn
    <2>1. \A v \in Unit : at[v] \in Stages
      BY DEF IInv, TypeOK, Stages
    <2>2. CASE AllDecided
      BY <2>1, <2>2 DEF CanBeDecided, AllDecided, Stages
    <2>3. CASE ~AllDecided
      <3>1. PICK v \in Unit : at[v] \in {"boundary", "anchor"}
        BY <2>1, <2>3 DEF AllDecided, Stages
      <3>2. at[v] = "boundary" => chunk[v] + 1 \in DOMAIN Rows[v]
        BY RowsShape, NextChunk DEF IInv, TypeOK, UnitInv, StagesFit
      <3> QED
        BY <3>1, <3>2 DEF CanBeDecided
    <2> QED
      BY <2>2, <2>3
  <1> QED
    BY <1>1, Invariance, PTL

\* The decisions unit u still takes.
DecisionsLeft(u) ==
    CASE at[u] = "boundary" -> Len(Rows[u]) - chunk[u] + 2
      [] at[u] = "anchor"   -> 2
      [] at[u] = "w2"       -> 1
      [] OTHER              -> 0

LEMMA DecideGoesDown ==
    ASSUME IInv, NEW u \in Unit, Decide(u)
    PROVE  /\ DecisionsLeft(u)' < DecisionsLeft(u)
           /\ \A v \in Unit \ {u} : DecisionsLeft(v)' = DecisionsLeft(v)
  <1>0. /\ at \in [Unit -> Stages] /\ chunk \in [Unit -> Nat]
        /\ Len(Rows[u]) \in Nat \ {0}
        /\ at[u] = "boundary" => chunk[u] < Len(Rows[u])
    BY RowsShape DEF IInv, TypeOK, Stages, UnitInv, StagesFit
  <1>1. CASE BoundaryRead(u) \/ BoundaryAsk(u) \/ BoundaryFails(u)
    <2>1. PICK d, ok : Combine(u, d, ok)
      BY <1>1 DEF BoundaryRead, BoundaryAsk, BoundaryFails
    <2>2. at[u] = "boundary"
      BY <1>1 DEF BoundaryRead, BoundaryAsk, BoundaryFails
    <2>3. /\ chunk' = [chunk EXCEPT ![u] = @ + 1]
          /\ at' = [at EXCEPT ![u] = IF chunk[u] + 1 = Len(Rows[u]) THEN "anchor" ELSE @]
      BY <2>1 DEF Combine
    <2>4. /\ chunk'[u] = chunk[u] + 1
          /\ at'[u] = "anchor" \/ at'[u] = "boundary"
          /\ \A v \in Unit \ {u} : at'[v] = at[v] /\ chunk'[v] = chunk[v]
      BY <1>0, <2>2, <2>3
    <2> QED
      BY <1>0, <2>2, <2>4 DEF DecisionsLeft
  <1>2. CASE BoundaryDisabled(u)
    <2>1. at[u] = "boundary" /\ at' = [at EXCEPT ![u] = "anchor"] /\ chunk' = chunk
      BY <1>2 DEF BoundaryDisabled
    <2> QED
      BY <1>0, <2>1 DEF DecisionsLeft
  <1>3. CASE AnchorSkips(u) \/ AnchorRead(u) \/ AnchorAsk(u) \/ AnchorFails(u)
    <2>1. at[u] = "anchor" /\ at' = [at EXCEPT ![u] = "w2"] /\ chunk' = chunk
      BY <1>3 DEF AnchorSkips, AnchorRead, AnchorAsk, AnchorFails, MustAnchor, Anchor
    <2> QED
      BY <1>0, <2>1 DEF DecisionsLeft
  <1>4. CASE ExtractSkips(u) \/ ExtractRead(u) \/ Extract(u) \/ ExtractFails(u)
    <2>1. at[u] = "w2" /\ at' = [at EXCEPT ![u] = "done"] /\ chunk' = chunk
      BY <1>4 DEF ExtractSkips, ExtractRead, Extract, ExtractFails, MustExtract, Extracted
    <2> QED
      BY <1>0, <2>1 DEF DecisionsLeft
  <1> QED
    BY <1>1, <1>2, <1>3, <1>4 DEF Decide

\* One unit has fewer decisions left and the others as many, or the cards are
\* built from units that have none.
GoesDown ==
    \/ \E u \in Unit : /\ DecisionsLeft(u)' < DecisionsLeft(u)
                       /\ \A v \in Unit \ {u} : DecisionsLeft(v)' = DecisionsLeft(v)
    \/ ~ended /\ ended' /\ \A u \in Unit : DecisionsLeft(u) = 0

\* Every step but a new run brings the batch nearer to its end: no failure,
\* checkpoint or issue sends a unit back.
THEOREM BatchesGoDown == Spec => [][RunAgain \/ GoesDown]_vars
  <1>1. ASSUME IInv, Work PROVE GoesDown
    <2>1. CASE BuildCards
      BY <2>1 DEF BuildCards, GoesDown, DecisionsLeft
    <2>2. CASE ~BuildCards
      <3>1. PICK u \in Unit : Decide(u)
        BY <1>1, <2>2 DEF Work
      <3> QED
        BY <1>1, <3>1, DecideGoesDown DEF GoesDown
    <2> QED
      BY <2>1, <2>2
  <1> QED
    BY <1>1, Invariance, PTL DEF Spec, Next
=============================================================================
