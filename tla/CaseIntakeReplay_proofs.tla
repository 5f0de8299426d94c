----------------------- MODULE CaseIntakeReplay_proofs -----------------------
(* ReplayBuildsTheSame, for every batch.                                     *)
(*                                                                           *)
(* The argument.  A key is written when nothing is saved under it, so what   *)
(* is saved stays (Retains), one output per input (OneEach).  While a unit   *)
(* is sound, what it holds is what is saved for the chunks and stages behind *)
(* it (ChunksHeld, AnchorsHeld, ResultsHeld).  A clean run therefore leaves  *)
(* everything saved that a run of its kind asks for (Kept), and its cards    *)
(* are a function of the disk (FinalCards).  A later run with a model finds  *)
(* all of it, so that no question is left that could fail (Smooth).          *)
EXTENDS CaseIntake_proofs

-----------------------------------------------------------------------------
(* Functions of a disk D                                                    *)

Under(S, key) == {x \in S : x[1] = key}

\* What is saved for the chunks of u up to k.
ChunkCases(D, u, i) ==
    UNION {{Referenced(u, i, c) : c \in x[2].cases} : x \in Under(D["boundary"], <<u, i>>)}
ChunkNonCase(D, u, i) == UNION {x[2].nonCase : x \in Under(D["boundary"], <<u, i>>)}
CasesTo(D, u, k)      == UNION {ChunkCases(D, u, i) : i \in 1..k}
NonCaseTo(D, u, k)    == UNION {ChunkNonCase(D, u, i) : i \in 1..k}
ChunksSaved(D, u, k)  == \A i \in 1..k : Under(D["boundary"], <<u, i>>) # {}

\* What a sound run ends with.
FinalCases(D, u)   == CasesTo(D, u, Len(Rows[u]))
FinalNonCase(D, u) == NonCaseTo(D, u, Len(Rows[u]))
FinalInput(D, u)   == <<u, FinalCases(D, u), FinalNonCase(D, u)>>
FinalAnchors(D, u) ==
    IF Evidence[u] = {} THEN {} ELSE UNION {x[2].to : x \in Under(D["anchor"], FinalInput(D, u))}
FinalLoose(D, u) ==
    IF Evidence[u] = {} THEN {} ELSE UNION {x[2].loose : x \in Under(D["anchor"], FinalInput(D, u))}
FinalManifest(D, u) ==
    <<u, FinalCases(D, u), FinalNonCase(D, u), FinalAnchors(D, u), FinalLoose(D, u)>>

\* The cards of a clean run, with an extractor (e) or without, of the
\* fragments cs and the anchors an of u.
CardOf(e, u, c, an) ==
    [ref |-> <<IF e /\ c.kind \in Atomic THEN "case" ELSE "raw", u, c.ref>>,
     unit |-> u, fragment |-> c.ref, kind |-> c.kind,
     evidence |-> c.messages \cup {p[1] : p \in {q \in an : q[2] = c.ref}}]
CardsOf(e, u, cs, an) == {CardOf(e, u, c, an) : c \in {c \in cs : c.kind \in Assembly}}
FinalCards(D, e) ==
    UNION {CardsOf(e, u, FinalCases(D, u), FinalAnchors(D, u)) : u \in Unit}

\* Everything is saved that such a run asks for.
KeptUnit(D, e, u) ==
    /\ ChunksSaved(D, u, Len(Rows[u]))
    /\ Evidence[u] # {} => Under(D["anchor"], FinalInput(D, u)) # {}
    /\ e => Under(D["w2"], FinalManifest(D, u)) # {}
Kept(D, e) == \A u \in Unit : KeptUnit(D, e, u)

\* Nothing that is saved on D changes on E.
Retains(D, E) ==
    \A s \in Shelf : \A k : Under(D[s], k) # {} => Under(E[s], k) = Under(D[s], k)

-----------------------------------------------------------------------------
(* The invariant                                                            *)

OneEach == \A s \in Shelf : \A x, y \in checkpoint[s] : x[1] = y[1] => x = y

ChunksHeld(u) ==
    sound[u] =>
        /\ ChunksSaved(checkpoint, u, chunk[u])
        /\ cases[u] = CasesTo(checkpoint, u, chunk[u])
        /\ nonCase[u] = NonCaseTo(checkpoint, u, chunk[u])

AnchorsHeld(u) ==
    at[u] \in {"w2", "done"} /\ sound[u] =>
        IF Evidence[u] = {} THEN anchors[u] = {} /\ loose[u] = {}
        ELSE \E x \in Under(checkpoint["anchor"], AnchorInput(u)) :
                anchors[u] = x[2].to /\ loose[u] = x[2].loose

SmoothUnit(u) == sound[u] /\ u \notin raised /\ \A p \in results[u] : p[2] = "case"

ResultsHeld(u) ==
    at[u] = "done" /\ extractor /\ SmoothUnit(u) =>
        Under(checkpoint["w2"], Manifest(u)) # {}

Held(u) == ChunksHeld(u) /\ AnchorsHeld(u) /\ ResultsHeld(u)

SettledFits ==
    /\ settled = [e \in BOOLEAN |-> settled[e]]
    /\ \A e \in BOOLEAN : settled[e] # {} =>
          Kept(checkpoint, e) /\ settled[e] = {FinalCards(checkpoint, e)}

\* Nothing goes wrong in a run that finds everything saved.
Smooth == client /\ settled[extractor] # {} => \A u \in Unit : SmoothUnit(u)

RInv == OneEach /\ SettledFits /\ Smooth /\ \A u \in Unit : Held(u)

-----------------------------------------------------------------------------
(* What is saved stays                                                      *)

LEMMA SaveRetains ==
    ASSUME CheckpointsAreGood, OneEach, NEW stage \in Shelf, NEW input, NEW output,
           Under(checkpoint[stage], input) = {}, Save(stage, input, output)
    PROVE  /\ OneEach' /\ Retains(checkpoint, checkpoint')
           /\ Under(checkpoint'[stage], input) = {<<input, output>>}
  <1>1. /\ checkpoint'[stage] = checkpoint[stage] \cup {<<input, output>>}
        /\ \A s \in Shelf \ {stage} : checkpoint'[s] = checkpoint[s]
    BY SaveShape
  <1>2. \A x \in checkpoint[stage] : x[1] # input
    BY DEF Under
  <1>3. OneEach'
    <2>1. ASSUME NEW s \in Shelf, NEW x \in checkpoint'[s], NEW y \in checkpoint'[s],
                 x[1] = y[1]
          PROVE  x = y
      BY <1>1, <1>2, <2>1 DEF OneEach
    <2> QED
      BY <2>1 DEF OneEach
  <1>4. Retains(checkpoint, checkpoint')
    <2>1. ASSUME NEW s \in Shelf, NEW k, Under(checkpoint[s], k) # {}
          PROVE  Under(checkpoint'[s], k) = Under(checkpoint[s], k)
      BY <1>1, <1>2, <2>1 DEF Under
    <2> QED
      BY <2>1 DEF Retains
  <1>5. Under(checkpoint'[stage], input) = {<<input, output>>}
    BY <1>1, <1>2 DEF Under
  <1> QED
    BY <1>3, <1>4, <1>5

LEMMA NothingSaved ==
    ASSUME OneEach, UNCHANGED checkpoint
    PROVE  OneEach' /\ Retains(checkpoint, checkpoint')
  BY DEF OneEach, Retains

LEMMA ChunksRetained ==
    ASSUME NEW D, NEW E, Retains(D, E), NEW u, NEW k, ChunksSaved(D, u, k)
    PROVE  /\ ChunksSaved(E, u, k)
           /\ CasesTo(E, u, k) = CasesTo(D, u, k)
           /\ NonCaseTo(E, u, k) = NonCaseTo(D, u, k)
  <1>1. ASSUME NEW i \in 1..k
        PROVE  /\ Under(E["boundary"], <<u, i>>) = Under(D["boundary"], <<u, i>>)
               /\ Under(D["boundary"], <<u, i>>) # {}
    BY DEF Retains, ChunksSaved, Shelf
  <1>2. \A i \in 1..k : ChunkCases(E, u, i) = ChunkCases(D, u, i)
    BY <1>1 DEF ChunkCases
  <1>3. \A i \in 1..k : ChunkNonCase(E, u, i) = ChunkNonCase(D, u, i)
    BY <1>1 DEF ChunkNonCase
  <1>4. CasesTo(E, u, k) = CasesTo(D, u, k)
    BY <1>2, Zenon DEF CasesTo
  <1>5. NonCaseTo(E, u, k) = NonCaseTo(D, u, k)
    BY <1>3, Zenon DEF NonCaseTo
  <1> QED
    BY <1>1, <1>4, <1>5 DEF ChunksSaved

LEMMA UnitRetained ==
    ASSUME NEW D, NEW E, Retains(D, E), NEW e, NEW u, KeptUnit(D, e, u)
    PROVE  /\ KeptUnit(E, e, u)
           /\ FinalCases(E, u) = FinalCases(D, u)
           /\ FinalAnchors(E, u) = FinalAnchors(D, u)
  <1>1. /\ ChunksSaved(E, u, Len(Rows[u]))
        /\ FinalCases(E, u) = FinalCases(D, u)
        /\ FinalNonCase(E, u) = FinalNonCase(D, u)
    BY ChunksRetained DEF KeptUnit, FinalCases, FinalNonCase
  <1>2. FinalInput(E, u) = FinalInput(D, u)
    BY <1>1 DEF FinalInput
  <1>3. Evidence[u] # {} =>
            /\ Under(E["anchor"], FinalInput(E, u)) = Under(D["anchor"], FinalInput(D, u))
            /\ Under(E["anchor"], FinalInput(E, u)) # {}
    BY <1>2 DEF KeptUnit, Retains, Shelf
  <1>4. FinalAnchors(E, u) = FinalAnchors(D, u) /\ FinalLoose(E, u) = FinalLoose(D, u)
    BY <1>3 DEF FinalAnchors, FinalLoose
  <1>5. FinalManifest(E, u) = FinalManifest(D, u)
    BY <1>1, <1>4 DEF FinalManifest
  <1>6. e => Under(E["w2"], FinalManifest(E, u)) # {}
    BY <1>5 DEF KeptUnit, Retains, Shelf
  <1> QED
    BY <1>1, <1>3, <1>4, <1>6 DEF KeptUnit

LEMMA KeptRetained ==
    ASSUME NEW D, NEW E, Retains(D, E), NEW e, Kept(D, e)
    PROVE  Kept(E, e) /\ FinalCards(E, e) = FinalCards(D, e)
  <1>1. \A u \in Unit : /\ KeptUnit(E, e, u)
                        /\ FinalCases(E, u) = FinalCases(D, u)
                        /\ FinalAnchors(E, u) = FinalAnchors(D, u)
    BY UnitRetained DEF Kept
  <1>2. \A u \in Unit : CardsOf(e, u, FinalCases(E, u), FinalAnchors(E, u)) =
                        CardsOf(e, u, FinalCases(D, u), FinalAnchors(D, u))
    BY <1>1
  <1>3. FinalCards(E, e) = FinalCards(D, e)
    BY <1>2, Zenon DEF FinalCards
  <1> QED
    BY <1>1, <1>3 DEF Kept

-----------------------------------------------------------------------------
(* A sound unit holds what is saved                                         *)

LEMMA HeldIsFinal ==
    ASSUME IInv, RInv, NEW u \in Unit, sound[u], at[u] # "boundary"
    PROVE  /\ ChunksSaved(checkpoint, u, Len(Rows[u]))
           /\ cases[u] = FinalCases(checkpoint, u)
           /\ nonCase[u] = FinalNonCase(checkpoint, u)
           /\ AnchorInput(u) = FinalInput(checkpoint, u)
  <1>1. chunk[u] = Len(Rows[u])
    BY DEF IInv, UnitInv, StagesFit
  <1>2. ChunksHeld(u)
    BY DEF RInv, Held
  <1> QED
    BY <1>1, <1>2 DEF ChunksHeld, FinalCases, FinalNonCase, FinalInput, AnchorInput

LEMMA AnchoredIsFinal ==
    ASSUME IInv, RInv, NEW u \in Unit, sound[u], at[u] \in {"w2", "done"}
    PROVE  /\ Evidence[u] # {} => Under(checkpoint["anchor"], FinalInput(checkpoint, u)) # {}
           /\ anchors[u] = FinalAnchors(checkpoint, u)
           /\ loose[u] = FinalLoose(checkpoint, u)
           /\ Manifest(u) = FinalManifest(checkpoint, u)
  <1>1. /\ cases[u] = FinalCases(checkpoint, u)
        /\ nonCase[u] = FinalNonCase(checkpoint, u)
        /\ AnchorInput(u) = FinalInput(checkpoint, u)
    BY HeldIsFinal
  <1>2. AnchorsHeld(u)
    BY DEF RInv, Held
  <1>3. CASE Evidence[u] = {}
    BY <1>1, <1>2, <1>3 DEF AnchorsHeld, FinalAnchors, FinalLoose, FinalManifest, Manifest
  <1>4. CASE Evidence[u] # {}
    <2>1. PICK x \in Under(checkpoint["anchor"], FinalInput(checkpoint, u)) :
              anchors[u] = x[2].to /\ loose[u] = x[2].loose
      BY <1>1, <1>2, <1>4 DEF AnchorsHeld
    <2>2. \A y \in Under(checkpoint["anchor"], FinalInput(checkpoint, u)) : y = x
      BY DEF RInv, OneEach, Under, Shelf
    <2>3. Under(checkpoint["anchor"], FinalInput(checkpoint, u)) = {x}
      BY <2>2
    <2> QED
      BY <1>1, <1>4, <2>1, <2>3 DEF FinalAnchors, FinalLoose, FinalManifest, Manifest
  <1> QED
    BY <1>3, <1>4

\* In a run of a kind that once was clean, every question has an answer.
LEMMA NothingToAsk ==
    ASSUME IInv, RInv, client, settled[extractor] # {}, NEW u \in Unit
    PROVE  /\ SmoothUnit(u)
           /\ at[u] = "boundary" => Saved("boundary", <<u, chunk[u] + 1>>) # {}
           /\ MustAnchor(u) => Saved("anchor", AnchorInput(u)) # {}
           /\ MustExtract(u) => Saved("w2", Manifest(u)) # {}
  <1>1. SmoothUnit(u)
    BY DEF RInv, Smooth
  <1>2. KeptUnit(checkpoint, extractor, u)
    BY DEF RInv, SettledFits, Kept, IInv, TypeOK
  <1>3. ASSUME at[u] = "boundary"
        PROVE  Saved("boundary", <<u, chunk[u] + 1>>) # {}
    <2>1. chunk[u] + 1 \in 1..Len(Rows[u])
      BY <1>3, RowsShape DEF IInv, TypeOK, UnitInv, StagesFit
    <2> QED
      BY <1>2, <2>1 DEF KeptUnit, ChunksSaved, Saved, Under
  <1>4. ASSUME MustAnchor(u) PROVE Saved("anchor", AnchorInput(u)) # {}
    <2>1. sound[u] /\ at[u] = "anchor" /\ Evidence[u] # {}
      BY <1>4 DEF MustAnchor
    <2>2. AnchorInput(u) = FinalInput(checkpoint, u)
      BY <2>1, HeldIsFinal
    <2> QED
      BY <1>2, <2>1, <2>2 DEF KeptUnit, Saved, Under
  <1>5. ASSUME MustExtract(u) PROVE Saved("w2", Manifest(u)) # {}
    <2>1. sound[u] /\ at[u] = "w2" /\ extractor
      BY <1>5 DEF MustExtract, HasManifest
    <2>2. Manifest(u) = FinalManifest(checkpoint, u)
      BY <2>1, AnchoredIsFinal
    <2> QED
      BY <1>2, <2>1, <2>2 DEF KeptUnit, Saved, Under
  <1> QED
    BY <1>1, <1>3, <1>4, <1>5

\* What is left to show of a step of unit u.
LEMMA UnitStep ==
    ASSUME IInv, RInv, NEW u \in Unit, OneEach', Retains(checkpoint, checkpoint'),
           Held(u)', client /\ settled[extractor] # {} => SmoothUnit(u)',
           client' = client, extractor' = extractor, settled' = settled,
           \A v \in Unit \ {u} :
               /\ at'[v] = at[v] /\ chunk'[v] = chunk[v] /\ cases'[v] = cases[v]
               /\ nonCase'[v] = nonCase[v] /\ anchors'[v] = anchors[v]
               /\ loose'[v] = loose[v] /\ results'[v] = results[v],
           \A v \in Unit \ {u} : sound'[v] = sound[v],
           \A v \in Unit \ {u} : v \in raised' <=> v \in raised
    PROVE  RInv'
  <1>1. ASSUME NEW v \in Unit, v # u PROVE SmoothUnit(v)' <=> SmoothUnit(v)
    BY <1>1 DEF SmoothUnit
  <1>2. ASSUME NEW v \in Unit, v # u PROVE Held(v)'
    <2>1. ChunksHeld(v)'
      <3>1. ChunksHeld(v)
        BY DEF RInv, Held
      <3>2. sound[v] =>
              /\ ChunksSaved(checkpoint', v, chunk[v])
              /\ CasesTo(checkpoint', v, chunk[v]) = CasesTo(checkpoint, v, chunk[v])
              /\ NonCaseTo(checkpoint', v, chunk[v]) = NonCaseTo(checkpoint, v, chunk[v])
        BY <3>1, ChunksRetained DEF ChunksHeld
      <3> QED
        BY <1>2, <3>1, <3>2 DEF ChunksHeld
    <2>2. AnchorsHeld(v)'
      <3>1. AnchorsHeld(v) /\ AnchorInput(v)' = AnchorInput(v)
        BY <1>2 DEF RInv, Held, AnchorInput
      <3>2. Under(checkpoint["anchor"], AnchorInput(v)) # {} =>
                Under(checkpoint'["anchor"], AnchorInput(v)) =
                Under(checkpoint["anchor"], AnchorInput(v))
        BY DEF Retains, Shelf
      <3> QED
        BY <1>2, <3>1, <3>2 DEF AnchorsHeld
    <2>3. ResultsHeld(v)'
      <3>1. ResultsHeld(v) /\ Manifest(v)' = Manifest(v)
        BY <1>2 DEF RInv, Held, Manifest
      <3>2. Under(checkpoint["w2"], Manifest(v)) # {} =>
                Under(checkpoint'["w2"], Manifest(v)) # {}
        BY DEF Retains, Shelf
      <3> QED
        BY <1>1, <1>2, <3>1, <3>2 DEF ResultsHeld
    <2> QED
      BY <2>1, <2>2, <2>3 DEF Held
  <1>3. SettledFits'
    <2>1. ASSUME NEW e \in BOOLEAN, settled[e] # {}
          PROVE  Kept(checkpoint', e) /\ settled[e] = {FinalCards(checkpoint', e)}
      BY <2>1, KeptRetained DEF RInv, SettledFits
    <2> QED
      BY <2>1 DEF RInv, SettledFits
  <1>4. Smooth'
    <2>1. ASSUME client, settled[extractor] # {}, NEW v \in Unit PROVE SmoothUnit(v)'
      BY <1>1, <2>1 DEF RInv, Smooth
    <2> QED
      BY <2>1 DEF Smooth
  <1> QED
    BY <1>2, <1>3, <1>4 DEF RInv

-----------------------------------------------------------------------------
(* The steps of a unit                                                      *)

LEMMA OneMoreChunk ==
    ASSUME NEW D, NEW u, NEW k \in Nat, NEW x,
           Under(D["boundary"], <<u, k + 1>>) = {x}, ChunksSaved(D, u, k)
    PROVE  /\ ChunksSaved(D, u, k + 1)
           /\ CasesTo(D, u, k + 1) =
                 CasesTo(D, u, k) \cup {Referenced(u, k + 1, c) : c \in x[2].cases}
           /\ NonCaseTo(D, u, k + 1) = NonCaseTo(D, u, k) \cup x[2].nonCase
  <1>1. 1..(k + 1) = (1..k) \cup {k + 1}
    OBVIOUS
  <1>2. ChunksSaved(D, u, k + 1)
    BY <1>1 DEF ChunksSaved
  <1>3. ChunkCases(D, u, k + 1) = {Referenced(u, k + 1, c) : c \in x[2].cases}
    BY Zenon DEF ChunkCases
  <1>4. ChunkNonCase(D, u, k + 1) = x[2].nonCase
    BY Zenon DEF ChunkNonCase
  <1>5. CasesTo(D, u, k + 1) = CasesTo(D, u, k) \cup ChunkCases(D, u, k + 1)
    BY <1>1, Zenon DEF CasesTo
  <1>6. NonCaseTo(D, u, k + 1) = NonCaseTo(D, u, k) \cup ChunkNonCase(D, u, k + 1)
    BY <1>1, Zenon DEF NonCaseTo
  <1> QED
    BY <1>2, <1>3, <1>4, <1>5, <1>6

LEMMA CombineReplays ==
    ASSUME IInv, RInv, NEW u \in Unit, NEW d, NEW ok \in BOOLEAN,
           at[u] = "boundary", Combine(u, d, ok),
           OneEach', Retains(checkpoint, checkpoint'),
           ok => \E x : /\ Under(checkpoint'["boundary"], <<u, chunk[u] + 1>>) = {x}
                        /\ x[2] = d,
           client /\ settled[extractor] # {} => ok
    PROVE  RInv'
  <1> DEFINE k == chunk[u]
             new == {Referenced(u, k + 1, c) : c \in d.cases}
  <1>1. /\ chunk' = [chunk EXCEPT ![u] = @ + 1]
        /\ at' = [at EXCEPT ![u] = IF chunk[u] + 1 = Len(Rows[u]) THEN "anchor" ELSE @]
        /\ cases' = [cases EXCEPT ![u] = @ \cup new]
        /\ nonCase' = [nonCase EXCEPT ![u] = @ \cup d.nonCase]
        /\ sound' = [sound EXCEPT ![u] = @ /\ ok]
        /\ UNCHANGED <<anchors, loose, results, raised, ended, client, extractor, runs, settled>>
    BY DEF Combine, setup
  <1>2. /\ k \in Nat /\ chunk'[u] = k + 1
        /\ cases'[u] = cases[u] \cup new /\ nonCase'[u] = nonCase[u] \cup d.nonCase
        /\ at'[u] \in {"boundary", "anchor"}
    BY <1>1 DEF IInv, TypeOK
  <1>3. sound'[u] = (sound[u] /\ ok)
    BY <1>1 DEF IInv, TypeOK
  <1>4. ASSUME sound'[u]
        PROVE  /\ ChunksSaved(checkpoint', u, chunk'[u])
               /\ cases'[u] = CasesTo(checkpoint', u, chunk'[u])
               /\ nonCase'[u] = NonCaseTo(checkpoint', u, chunk'[u])
    <2>1. sound[u] /\ ok
      BY <1>3, <1>4
    <2>2. PICK x : Under(checkpoint'["boundary"], <<u, k + 1>>) = {x} /\ x[2] = d
      BY <2>1
    <2>3. /\ ChunksSaved(checkpoint, u, k)
          /\ cases[u] = CasesTo(checkpoint, u, k)
          /\ nonCase[u] = NonCaseTo(checkpoint, u, k)
      BY <2>1 DEF RInv, Held, ChunksHeld
    <2>4. /\ ChunksSaved(checkpoint', u, k)
          /\ CasesTo(checkpoint', u, k) = CasesTo(checkpoint, u, k)
          /\ NonCaseTo(checkpoint', u, k) = NonCaseTo(checkpoint, u, k)
      BY <2>3, ChunksRetained
    <2> HIDE DEF k
    <2>5. /\ ChunksSaved(checkpoint', u, k + 1)
          /\ CasesTo(checkpoint', u, k + 1) =
                CasesTo(checkpoint', u, k) \cup {Referenced(u, k + 1, c) : c \in x[2].cases}
          /\ NonCaseTo(checkpoint', u, k + 1) = NonCaseTo(checkpoint', u, k) \cup x[2].nonCase
      BY <1>2, <2>2, <2>4, OneMoreChunk
    <2> QED
      BY <1>2, <2>2, <2>3, <2>4, <2>5
  <1>5. Held(u)'
    <2>1. ChunksHeld(u)'
      BY <1>4 DEF ChunksHeld
    <2>2. AnchorsHeld(u)' /\ ResultsHeld(u)'
      BY <1>2 DEF AnchorsHeld, ResultsHeld
    <2> QED
      BY <2>1, <2>2 DEF Held
  <1>6. ASSUME client, settled[extractor] # {} PROVE SmoothUnit(u)'
    <2>1. SmoothUnit(u) /\ ok
      BY <1>6, NothingToAsk
    <2> QED
      BY <1>1, <1>3, <2>1 DEF SmoothUnit
  <1>7. \A v \in Unit \ {u} :
            /\ at'[v] = at[v] /\ chunk'[v] = chunk[v] /\ cases'[v] = cases[v]
            /\ nonCase'[v] = nonCase[v] /\ anchors'[v] = anchors[v]
            /\ loose'[v] = loose[v] /\ results'[v] = results[v]
    BY <1>1 DEF IInv, TypeOK
  <1>8. \A v \in Unit \ {u} : sound'[v] = sound[v]
    BY <1>1 DEF IInv, TypeOK
  <1> QED
    BY <1>1, <1>5, <1>6, <1>7, <1>8, UnitStep

LEMMA BoundaryReplays ==
    ASSUME IInv, RInv, NEW u \in Unit,
           BoundaryRead(u) \/ BoundaryAsk(u) \/ BoundaryFails(u) \/ BoundaryDisabled(u)
    PROVE  RInv'
  <1> DEFINE key == <<u, chunk[u] + 1>>
  <1>1. at[u] = "boundary" /\ CheckpointsAreGood /\ OneEach
    BY DEF BoundaryRead, BoundaryAsk, BoundaryFails, BoundaryDisabled, IInv, RInv
  <1>2. CASE BoundaryRead(u)
    <2>1. PICK x \in Under(checkpoint["boundary"], key) : Combine(u, x[2], TRUE)
      BY <1>2 DEF BoundaryRead, Saved, Under
    <2>2. UNCHANGED checkpoint
      BY <1>2 DEF BoundaryRead
    <2>3. Under(checkpoint'["boundary"], key) = {x}
      BY <1>1, <2>2 DEF OneEach, Under, Shelf
    <2>4. OneEach' /\ Retains(checkpoint, checkpoint')
      BY <1>1, <2>2, NothingSaved
    <2> HIDE DEF key
    <2>5. \E y : Under(checkpoint'["boundary"], key) = {y} /\ y[2] = x[2]
      BY <2>3
    <2> QED
      BY <1>1, <2>1, <2>4, <2>5, CombineReplays DEF key
  <1>3. CASE BoundaryAsk(u)
    <2>1. PICK r \in Reply :
              /\ Combine(u, Normalized(r, Rows[u][chunk[u] + 1]),
                            BoundaryAccepted(r, Rows[u][chunk[u] + 1]))
              /\ IF BoundaryAccepted(r, Rows[u][chunk[u] + 1])
                 THEN Save("boundary", key, Normalized(r, Rows[u][chunk[u] + 1]))
                 ELSE UNCHANGED checkpoint
      BY <1>3 DEF BoundaryAsk
    <2> DEFINE d == Normalized(r, Rows[u][chunk[u] + 1])
               ok == BoundaryAccepted(r, Rows[u][chunk[u] + 1])
    <2>2. /\ Combine(u, d, ok) /\ ok \in BOOLEAN
          /\ ok => Save("boundary", key, d)
          /\ ~ok => UNCHANGED checkpoint
      BY <2>1 DEF BoundaryAccepted
    <2>3. Saved("boundary", key) = {} /\ client
      BY <1>3 DEF BoundaryAsk
    <2>4. settled[extractor] = {}
      BY <1>1, <2>3, NothingToAsk
    <2>5. Under(checkpoint["boundary"], key) = {}
      BY <2>3 DEF Saved, Under
    <2> HIDE DEF d, ok, key
    <2>6. ok => /\ OneEach' /\ Retains(checkpoint, checkpoint')
                /\ Under(checkpoint'["boundary"], key) = {<<key, d>>}
      BY <1>1, <2>2, <2>5, SaveRetains DEF Shelf
    <2>7. ~ok => OneEach' /\ Retains(checkpoint, checkpoint')
      BY <1>1, <2>2, NothingSaved
    <2>8. ok => \E y : Under(checkpoint'["boundary"], key) = {y} /\ y[2] = d
      <3>1. <<key, d>>[2] = d
        OBVIOUS
      <3> QED
        BY <2>6, <3>1
    <2> QED
      BY <1>1, <2>2, <2>4, <2>6, <2>7, <2>8, CombineReplays DEF key
  <1>4. CASE BoundaryFails(u)
    <2>1. /\ Combine(u, [cases |-> {}, nonCase |-> {}], FALSE)
          /\ UNCHANGED checkpoint /\ Saved("boundary", key) = {} /\ client
      BY <1>4 DEF BoundaryFails
    <2>2. settled[extractor] = {}
      BY <1>1, <2>1, NothingToAsk
    <2> QED
      BY <1>1, <2>1, <2>2, NothingSaved, CombineReplays
  <1>5. CASE BoundaryDisabled(u)
    <2>1. /\ ~client
          /\ at' = [at EXCEPT ![u] = "anchor"]
          /\ sound' = [sound EXCEPT ![u] = FALSE]
          /\ UNCHANGED <<chunk, cases, nonCase, anchors, loose, results, raised,
                         checkpoint, ended, client, extractor, runs, settled>>
      BY <1>5 DEF BoundaryDisabled, setup
    <2>2. ~sound'[u]
      BY <2>1 DEF IInv, TypeOK
    <2>3. Held(u)'
      BY <2>2 DEF Held, ChunksHeld, AnchorsHeld, ResultsHeld, SmoothUnit
    <2>4. \A v \in Unit \ {u} : at'[v] = at[v]
      BY <2>1 DEF IInv, TypeOK
    <2>5. \A v \in Unit \ {u} : sound'[v] = sound[v]
      BY <2>1 DEF IInv, TypeOK
    <2> QED
      BY <1>1, <2>1, <2>3, <2>4, <2>5, NothingSaved, UnitStep
  <1> QED
    BY <1>2, <1>3, <1>4, <1>5

LEMMA AnchoredReplays ==
    ASSUME IInv, RInv, NEW u \in Unit, NEW a, NEW ok \in BOOLEAN,
           at[u] = "anchor", Anchor(u, a, ok),
           OneEach', Retains(checkpoint, checkpoint'),
           sound[u] /\ ok =>
               IF Evidence[u] = {} THEN a.to = {} /\ a.loose = {}
               ELSE \E x \in Under(checkpoint'["anchor"], AnchorInput(u)) :
                        a.to = x[2].to /\ a.loose = x[2].loose,
           client /\ settled[extractor] # {} => ok
    PROVE  RInv'
  <1>1. /\ at' = [at EXCEPT ![u] = "w2"]
        /\ anchors' = [anchors EXCEPT ![u] = a.to]
        /\ loose' = [loose EXCEPT ![u] = a.loose]
        /\ sound' = [sound EXCEPT ![u] = @ /\ ok]
        /\ UNCHANGED <<chunk, cases, nonCase, results, raised, ended, client, extractor, runs, settled>>
    BY DEF Anchor, setup
  <1>2. at'[u] = "w2" /\ anchors'[u] = a.to /\ loose'[u] = a.loose
    BY <1>1 DEF IInv, TypeOK
  <1>3. sound'[u] = (sound[u] /\ ok)
    BY <1>1 DEF IInv, TypeOK
  <1>4. Held(u)'
    <2>1. ChunksHeld(u)'
      <3>1. sound'[u] =>
              /\ ChunksSaved(checkpoint, u, chunk[u])
              /\ cases[u] = CasesTo(checkpoint, u, chunk[u])
              /\ nonCase[u] = NonCaseTo(checkpoint, u, chunk[u])
        BY <1>3 DEF RInv, Held, ChunksHeld
      <3>2. sound'[u] =>
              /\ ChunksSaved(checkpoint', u, chunk[u])
              /\ CasesTo(checkpoint', u, chunk[u]) = CasesTo(checkpoint, u, chunk[u])
              /\ NonCaseTo(checkpoint', u, chunk[u]) = NonCaseTo(checkpoint, u, chunk[u])
        BY <3>1, ChunksRetained
      <3> QED
        BY <1>1, <3>1, <3>2 DEF ChunksHeld
    <2>2. AnchorsHeld(u)'
      <3>1. AnchorInput(u)' = AnchorInput(u)
        BY <1>1 DEF AnchorInput
      <3> QED
        BY <1>2, <1>3, <3>1 DEF AnchorsHeld
    <2>3. ResultsHeld(u)'
      BY <1>2 DEF ResultsHeld
    <2> QED
      BY <2>1, <2>2, <2>3 DEF Held
  <1>5. ASSUME client, settled[extractor] # {} PROVE SmoothUnit(u)'
    <2>1. SmoothUnit(u) /\ ok
      BY <1>5, NothingToAsk
    <2> QED
      BY <1>1, <1>3, <2>1 DEF SmoothUnit
  <1>6. \A v \in Unit \ {u} :
            /\ at'[v] = at[v] /\ chunk'[v] = chunk[v] /\ cases'[v] = cases[v]
            /\ nonCase'[v] = nonCase[v] /\ anchors'[v] = anchors[v]
            /\ loose'[v] = loose[v] /\ results'[v] = results[v]
    BY <1>1 DEF IInv, TypeOK
  <1>7. \A v \in Unit \ {u} : sound'[v] = sound[v]
    BY <1>1 DEF IInv, TypeOK
  <1> QED
    BY <1>1, <1>4, <1>5, <1>6, <1>7, UnitStep

LEMMA AnchorReplays ==
    ASSUME IInv, RInv, NEW u \in Unit,
           AnchorSkips(u) \/ AnchorRead(u) \/ AnchorAsk(u) \/ AnchorFails(u)
    PROVE  RInv'
  <1> DEFINE key == AnchorInput(u)
  <1>1. at[u] = "anchor" /\ CheckpointsAreGood /\ OneEach
    BY DEF AnchorSkips, AnchorRead, AnchorAsk, AnchorFails, MustAnchor, IInv, RInv
  <1>2. sound[u] \in BOOLEAN /\ NoAnchors.to = {} /\ NoAnchors.loose = {}
    BY DEF IInv, TypeOK, NoAnchors
  <1>3. CASE AnchorSkips(u)
    <2>1. /\ Evidence[u] = {} \/ ~sound[u]
          /\ Anchor(u, NoAnchors, sound[u]) /\ UNCHANGED checkpoint
      BY <1>3 DEF AnchorSkips
    <2>2. client /\ settled[extractor] # {} => sound[u]
      BY NothingToAsk DEF SmoothUnit
    <2>3. OneEach' /\ Retains(checkpoint, checkpoint')
      BY <1>1, <2>1, NothingSaved
    <2> QED
      BY <1>1, <1>2, <2>1, <2>2, <2>3, AnchoredReplays
  <1>4. CASE AnchorRead(u)
    <2>1. PICK x \in Under(checkpoint["anchor"], key) : Anchor(u, x[2], TRUE)
      BY <1>4 DEF AnchorRead, Saved, Under
    <2>2. UNCHANGED checkpoint /\ Evidence[u] # {}
      BY <1>4 DEF AnchorRead, MustAnchor
    <2>3. OneEach' /\ Retains(checkpoint, checkpoint')
      BY <1>1, <2>2, NothingSaved
    <2>4. x \in Under(checkpoint'["anchor"], key)
      BY <2>1, <2>2
    <2> QED
      BY <1>1, <2>1, <2>2, <2>3, <2>4, AnchoredReplays
  <1>5. CASE AnchorAsk(u)
    <2>1. PICK b \in AnchorReply(Evidence[u], Refs(cases[u])) :
              LET ok == AnchorAccepted(b, Evidence[u], Refs(cases[u]))
                  d  == [to |-> b.to, loose |-> b.loose]
              IN  /\ Anchor(u, d, ok)
                  /\ IF ok THEN Save("anchor", key, d) ELSE UNCHANGED checkpoint
      BY <1>5 DEF AnchorAsk
    <2> DEFINE ok == AnchorAccepted(b, Evidence[u], Refs(cases[u]))
               d  == [to |-> b.to, loose |-> b.loose]
    <2>2. /\ Anchor(u, d, ok) /\ ok \in BOOLEAN
          /\ ok => Save("anchor", key, d)
          /\ ~ok => UNCHANGED checkpoint
      BY <2>1 DEF AnchorAccepted
    <2>3. MustAnchor(u) /\ Saved("anchor", key) = {} /\ Evidence[u] # {}
      BY <1>5 DEF AnchorAsk, MustAnchor
    <2>4. ~(client /\ settled[extractor] # {})
      BY <2>3, NothingToAsk
    <2>5. Under(checkpoint["anchor"], key) = {}
      BY <2>3 DEF Saved, Under
    <2> HIDE DEF d, ok, key
    <2>6. ok => /\ OneEach' /\ Retains(checkpoint, checkpoint')
                /\ Under(checkpoint'["anchor"], key) = {<<key, d>>}
      BY <1>1, <2>2, <2>5, SaveRetains DEF Shelf
    <2>7. ~ok => OneEach' /\ Retains(checkpoint, checkpoint')
      BY <1>1, <2>2, NothingSaved
    <2>8. ok => \E x \in Under(checkpoint'["anchor"], key) :
                    d.to = x[2].to /\ d.loose = x[2].loose
      <3>1. <<key, d>>[2] = d
        OBVIOUS
      <3> QED
        BY <2>6, <3>1
    <2> QED
      BY <1>1, <2>2, <2>3, <2>4, <2>6, <2>7, <2>8, AnchoredReplays DEF key
  <1>6. CASE AnchorFails(u)
    <2>1. /\ Anchor(u, NoAnchors, FALSE) /\ UNCHANGED checkpoint
          /\ MustAnchor(u) /\ Saved("anchor", key) = {}
      BY <1>6 DEF AnchorFails
    <2>2. ~(client /\ settled[extractor] # {})
      BY <2>1, NothingToAsk
    <2>3. OneEach' /\ Retains(checkpoint, checkpoint')
      BY <1>1, <2>1, NothingSaved
    <2> QED
      BY <1>1, <2>1, <2>2, <2>3, AnchoredReplays
  <1> QED
    BY <1>3, <1>4, <1>5, <1>6

LEMMA ExtractedReplays ==
    ASSUME IInv, RInv, NEW u \in Unit, NEW found,
           at[u] = "w2", Extracted(u, found),
           raised' = raised \/ raised' = raised \cup {u},
           OneEach', Retains(checkpoint, checkpoint'),
           extractor /\ sound[u] /\ u \notin raised' /\ (\A p \in found : p[2] = "case") =>
               Under(checkpoint'["w2"], Manifest(u)) # {},
           client /\ settled[extractor] # {} =>
               u \notin raised' /\ \A p \in found : p[2] = "case"
    PROVE  RInv'
  <1>1. /\ at' = [at EXCEPT ![u] = "done"]
        /\ results' = [results EXCEPT ![u] = found]
        /\ UNCHANGED <<chunk, cases, nonCase, sound, anchors, loose, ended,
                       client, extractor, runs, settled>>
    BY DEF Extracted, decided, setup
  <1>2. at'[u] = "done" /\ results'[u] = found
    BY <1>1 DEF IInv, TypeOK
  <1>3. Held(u)'
    <2>1. ChunksHeld(u)'
      <3>1. ChunksHeld(u)
        BY DEF RInv, Held
      <3>2. sound[u] =>
              /\ ChunksSaved(checkpoint', u, chunk[u])
              /\ CasesTo(checkpoint', u, chunk[u]) = CasesTo(checkpoint, u, chunk[u])
              /\ NonCaseTo(checkpoint', u, chunk[u]) = NonCaseTo(checkpoint, u, chunk[u])
        BY <3>1, ChunksRetained DEF ChunksHeld
      <3> QED
        BY <1>1, <3>1, <3>2 DEF ChunksHeld
    <2>2. AnchorsHeld(u)'
      <3>1. AnchorsHeld(u) /\ AnchorInput(u)' = AnchorInput(u)
        BY <1>1 DEF RInv, Held, AnchorInput
      <3>2. Under(checkpoint["anchor"], AnchorInput(u)) # {} =>
                Under(checkpoint'["anchor"], AnchorInput(u)) =
                Under(checkpoint["anchor"], AnchorInput(u))
        BY DEF Retains, Shelf
      <3> QED
        BY <1>1, <3>1, <3>2 DEF AnchorsHeld
    <2>3. ResultsHeld(u)'
      <3>1. Manifest(u)' = Manifest(u)
        BY <1>1 DEF Manifest
      <3> QED
        BY <1>1, <1>2, <3>1 DEF ResultsHeld, SmoothUnit
    <2> QED
      BY <2>1, <2>2, <2>3 DEF Held
  <1>4. ASSUME client, settled[extractor] # {} PROVE SmoothUnit(u)'
    <2>1. SmoothUnit(u)
      BY <1>4, NothingToAsk
    <2> QED
      BY <1>1, <1>2, <1>4, <2>1 DEF SmoothUnit
  <1>5. \A v \in Unit \ {u} :
            /\ at'[v] = at[v] /\ chunk'[v] = chunk[v] /\ cases'[v] = cases[v]
            /\ nonCase'[v] = nonCase[v] /\ anchors'[v] = anchors[v]
            /\ loose'[v] = loose[v] /\ results'[v] = results[v]
    BY <1>1 DEF IInv, TypeOK
  <1>6. \A v \in Unit \ {u} : sound'[v] = sound[v]
    BY <1>1
  <1>7. \A v \in Unit \ {u} : v \in raised' <=> v \in raised
    OBVIOUS
  <1> QED
    BY <1>1, <1>3, <1>4, <1>5, <1>6, <1>7, UnitStep

LEMMA ExtractReplays ==
    ASSUME IInv, RInv, NEW u \in Unit,
           ExtractSkips(u) \/ ExtractRead(u) \/ Extract(u) \/ ExtractFails(u)
    PROVE  RInv'
  <1> DEFINE key == Manifest(u)
  <1>1. at[u] = "w2" /\ CheckpointsAreGood /\ OneEach
    BY DEF ExtractSkips, ExtractRead, Extract, ExtractFails, MustExtract, IInv, RInv
  <1>2. client /\ settled[extractor] # {} => u \notin raised
    BY NothingToAsk DEF SmoothUnit
  <1>3. CASE ExtractSkips(u)
    <2>1. /\ ~(extractor /\ sound[u]) /\ Extracted(u, {})
          /\ UNCHANGED raised /\ UNCHANGED checkpoint
      BY <1>3 DEF ExtractSkips, HasManifest
    <2>2. OneEach' /\ Retains(checkpoint, checkpoint')
      BY <1>1, <2>1, NothingSaved
    <2> QED
      BY <1>1, <1>2, <2>1, <2>2, ExtractedReplays
  <1>4. CASE ExtractRead(u)
    <2>1. PICK x \in Under(checkpoint["w2"], key) : Extracted(u, x[2])
      BY <1>4 DEF ExtractRead, Saved, Under
    <2>2. UNCHANGED raised /\ UNCHANGED checkpoint
      BY <1>4 DEF ExtractRead
    <2>3. OneEach' /\ Retains(checkpoint, checkpoint')
      BY <1>1, <2>2, NothingSaved
    <2>4. Under(checkpoint'["w2"], key) # {}
      BY <2>1, <2>2
    <2>5. \A p \in x[2] : p[2] = "case"
      <3>1. GoodResults(x[2], x[1][2])
        BY <1>1, <2>1 DEF Under, CheckpointsAreGood
      <3>2. \A p \in x[2] : \E r : p = <<r, "case">>
        BY <3>1 DEF GoodResults
      <3> QED
        BY <3>2
    <2> QED
      BY <1>1, <1>2, <2>1, <2>2, <2>3, <2>4, <2>5, ExtractedReplays
  <1>5. CASE Extract(u)
    <2>1. PICK outcome \in [Refs(AtomicCases(u)) -> Outcome] :
            LET found == {<<r, outcome[r]>> : r \in Refs(AtomicCases(u))}
            IN  /\ Extracted(u, found)
                /\ IF \A p \in found : p[2] = "case"
                   THEN Save("w2", key, found) ELSE UNCHANGED checkpoint
      BY <1>5 DEF Extract
    <2> DEFINE found == {<<r, outcome[r]>> : r \in Refs(AtomicCases(u))}
               ok    == \A p \in found : p[2] = "case"
    <2>2. /\ Extracted(u, found)
          /\ ok => Save("w2", key, found)
          /\ ~ok => UNCHANGED checkpoint
      BY <2>1
    <2>3. MustExtract(u) /\ Saved("w2", key) = {} /\ UNCHANGED raised
      BY <1>5 DEF Extract
    <2>4. ~(client /\ settled[extractor] # {})
      BY <2>3, NothingToAsk
    <2>5. Under(checkpoint["w2"], key) = {}
      BY <2>3 DEF Saved, Under
    <2>6. ok <=> \A p \in found : p[2] = "case"
      OBVIOUS
    <2> HIDE DEF found, ok, key
    <2>7. ok => /\ OneEach' /\ Retains(checkpoint, checkpoint')
                /\ Under(checkpoint'["w2"], key) # {}
      BY <1>1, <2>2, <2>5, SaveRetains DEF Shelf
    <2>8. ~ok => OneEach' /\ Retains(checkpoint, checkpoint')
      BY <1>1, <2>2, NothingSaved
    <2> QED
      BY <1>1, <2>2, <2>3, <2>4, <2>6, <2>7, <2>8, ExtractedReplays DEF key
  <1>6. CASE ExtractFails(u)
    <2>1. /\ Extracted(u, {}) /\ raised' = raised \cup {u} /\ UNCHANGED checkpoint
          /\ MustExtract(u) /\ Saved("w2", key) = {}
      BY <1>6 DEF ExtractFails
    <2>2. ~(client /\ settled[extractor] # {})
      BY <2>1, NothingToAsk
    <2>3. OneEach' /\ Retains(checkpoint, checkpoint')
      BY <1>1, <2>1, NothingSaved
    <2> QED
      BY <1>1, <2>1, <2>2, <2>3, ExtractedReplays
  <1> QED
    BY <1>3, <1>4, <1>5, <1>6

-----------------------------------------------------------------------------
(* The cards of a clean run                                                 *)

LEMMA UnitCards ==
    ASSUME IInv, NEW u \in Unit, at[u] = "done", SmoothUnit(u)
    PROVE  AtomicCards(u) \cup RawCards(u) = CardsOf(extractor, u, cases[u], anchors[u])
  <1> DEFINE card(c) == CardOf(extractor, u, c, anchors[u])
  <1>1. sound[u] /\ u \notin raised /\ \A p \in results[u] : p[2] = "case"
    BY DEF SmoothUnit
  <1>2. ASSUME NEW c, extractor, c.kind \in Atomic
        PROVE  Card(u, c, CaseRef(u, c, "case")) = card(c)
    BY <1>2 DEF Card, CaseRef, CardOf, Selected
  <1>3. ASSUME NEW c, ~(extractor /\ c.kind \in Atomic)
        PROVE  Card(u, c, <<"raw", u, c.ref>>) = card(c)
    BY <1>3 DEF Card, CardOf, Selected
  <1>4. CardsOf(extractor, u, cases[u], anchors[u]) =
            {card(c) : c \in {c \in cases[u] : c.kind \in Assembly}}
    BY DEF CardsOf
  <1> HIDE DEF card
  <1>5. ASSUME NEW d \in AtomicCards(u)
        PROVE  \E c \in cases[u] : c.kind \in Assembly /\ d = card(c)
    <2>1. PICK c \in AtomicCases(u) :
              d \in {Card(u, c, CaseRef(u, c, p[2])) : p \in {q \in results[u] : q[1] = c.ref}}
      BY <1>5 DEF AtomicCards
    <2>2. PICK p \in results[u] : d = Card(u, c, CaseRef(u, c, p[2]))
      BY <2>1
    <2>3. extractor
      BY DEF IInv, UnitInv, ResultsFit
    <2>4. c \in cases[u] /\ c.kind \in Atomic /\ c.kind \in Assembly
      BY DEF AtomicCases, Atomic, Assembly, Kind
    <2>5. d = card(c)
      BY <1>1, <1>2, <2>2, <2>3, <2>4
    <2> QED
      BY <2>4, <2>5
  <1>6. ASSUME NEW d \in RawCards(u)
        PROVE  \E c \in cases[u] : c.kind \in Assembly /\ d = card(c)
    <2>1. PICK c \in cases[u] : /\ c.kind \in Assembly /\ (extractor => c.kind \notin Atomic)
                                /\ d = Card(u, c, <<"raw", u, c.ref>>)
      BY <1>6 DEF RawCards
    <2> QED
      BY <1>3, <2>1
  <1>7. ASSUME NEW c \in cases[u], c.kind \in Assembly
        PROVE  card(c) \in AtomicCards(u) \cup RawCards(u)
    <2>1. CASE extractor /\ c.kind \in Atomic
      <3>1. c \in AtomicCases(u)
        BY <2>1 DEF AtomicCases
      <3>2. PICK p \in results[u] : p[1] = c.ref
        BY <1>1, <2>1, <3>1 DEF IInv, UnitInv, ResultsFit
      <3>3. Card(u, c, CaseRef(u, c, p[2])) \in AtomicCards(u)
        BY <3>1, <3>2 DEF AtomicCards
      <3> QED
        BY <1>1, <1>2, <2>1, <3>2, <3>3
    <2>2. CASE ~(extractor /\ c.kind \in Atomic)
      <3>1. Card(u, c, <<"raw", u, c.ref>>) \in RawCards(u)
        BY <1>7, <2>2 DEF RawCards
      <3> QED
        BY <1>3, <2>2, <3>1
    <2> QED
      BY <2>1, <2>2
  <1> QED
    BY <1>4, <1>5, <1>6, <1>7

\* What a clean run leaves: its cards are those of the disk, and everything
\* that it asked is saved.
LEMMA CleanCards ==
    ASSUME IInv, RInv, \A u \in Unit : at[u] = "done" /\ SmoothUnit(u)
    PROVE  /\ Cards = AllCards
           /\ Cards = FinalCards(checkpoint, extractor)
           /\ Kept(checkpoint, extractor)
  <1>1. ASSUME NEW u \in Unit
        PROVE  /\ KeptUnit(checkpoint, extractor, u)
               /\ cases[u] = FinalCases(checkpoint, u)
               /\ anchors[u] = FinalAnchors(checkpoint, u)
    <2>1. sound[u] /\ at[u] = "done" /\ SmoothUnit(u)
      BY DEF SmoothUnit
    <2>2. /\ ChunksSaved(checkpoint, u, Len(Rows[u]))
          /\ cases[u] = FinalCases(checkpoint, u)
      BY <2>1, HeldIsFinal
    <2>3. /\ Evidence[u] # {} => Under(checkpoint["anchor"], FinalInput(checkpoint, u)) # {}
          /\ anchors[u] = FinalAnchors(checkpoint, u)
          /\ Manifest(u) = FinalManifest(checkpoint, u)
      BY <2>1, AnchoredIsFinal
    <2>4. extractor => Under(checkpoint["w2"], FinalManifest(checkpoint, u)) # {}
      BY <2>1, <2>3 DEF RInv, Held, ResultsHeld
    <2> QED
      BY <2>2, <2>3, <2>4 DEF KeptUnit
  <1>2. \A u \in Unit : AtomicCards(u) \cup RawCards(u) =
            CardsOf(extractor, u, FinalCases(checkpoint, u), FinalAnchors(checkpoint, u))
    BY <1>1, UnitCards
  <1>3. AllCards = FinalCards(checkpoint, extractor)
    BY <1>2, Zenon DEF AllCards, FinalCards
  <1>4. ASSUME NEW c \in AllCards PROVE c.unit \in Unit /\ c.ref[2] = c.unit
    <2>1. PICK u \in Unit : c \in CardsOf(extractor, u, FinalCases(checkpoint, u),
                                          FinalAnchors(checkpoint, u))
      BY <1>3 DEF FinalCards
    <2>2. PICK f : c = CardOf(extractor, u, f, FinalAnchors(checkpoint, u))
      BY <2>1 DEF CardsOf
    <2> QED
      BY <2>2 DEF CardOf
  <1>5. Cards = AllCards
    BY <1>4 DEF Cards, Unit
  <1> QED
    BY <1>1, <1>3, <1>5 DEF Kept

-----------------------------------------------------------------------------
(* The steps of the batch                                                   *)

LEMMA StateReplays ==
    ASSUME RInv, UNCHANGED <<at, chunk, decided, results, raised, checkpoint, setup>>
    PROVE  OneEach' /\ \A u \in Unit : Held(u)'
  <1>1. ASSUME NEW u \in Unit PROVE Held(u)'
    <2>1. ChunksHeld(u)'
      BY DEF RInv, Held, ChunksHeld, decided
    <2>2. AnchorsHeld(u)'
      BY DEF RInv, Held, AnchorsHeld, AnchorInput, decided
    <2>3. ResultsHeld(u)'
      BY DEF RInv, Held, ResultsHeld, SmoothUnit, Manifest, decided, setup
    <2> QED
      BY <2>1, <2>2, <2>3 DEF Held
  <1>2. OneEach'
    BY NothingSaved DEF RInv
  <1> QED
    BY <1>1, <1>2

LEMMA BuildCardsReplays ==
    ASSUME IInv, RInv, BuildCards PROVE RInv'
  <1>1. /\ \A u \in Unit : at[u] = "done"
        /\ settled' = IF Clean /\ settled[extractor] = {}
                      THEN [settled EXCEPT ![extractor] = {Cards}] ELSE settled
        /\ UNCHANGED <<at, chunk, decided, results, raised, checkpoint, setup>>
    BY DEF BuildCards
  <1>2. OneEach' /\ \A u \in Unit : Held(u)'
    BY <1>1, StateReplays
  <1>3. ASSUME NEW u \in Unit PROVE SmoothUnit(u)' <=> SmoothUnit(u)
    BY <1>1 DEF SmoothUnit, decided
  <1>4. Clean => \A u \in Unit : SmoothUnit(u)
    BY DEF Clean, SmoothUnit
  <1>5. client' = client /\ extractor' = extractor /\ checkpoint' = checkpoint
    BY <1>1 DEF setup
  <1>6. CASE Clean /\ settled[extractor] = {}
    <2>1. Cards = FinalCards(checkpoint, extractor) /\ Kept(checkpoint, extractor)
      BY <1>1, <1>4, <1>6, CleanCards
    <2>2. settled' = [settled EXCEPT ![extractor] = {Cards}]
      BY <1>1, <1>6
    <2>3. settled' = [e \in BOOLEAN |-> settled'[e]]
      BY <2>2 DEF RInv, SettledFits
    <2>4. ASSUME NEW e \in BOOLEAN, settled'[e] # {}
          PROVE  Kept(checkpoint, e) /\ settled'[e] = {FinalCards(checkpoint, e)}
      <3>1. CASE e = extractor
        <4>1. settled'[e] = {Cards}
          BY <2>2, <3>1 DEF RInv, SettledFits
        <4> QED
          BY <2>1, <3>1, <4>1
      <3>2. CASE e # extractor
        <4>1. settled'[e] = settled[e]
          BY <2>2, <3>2 DEF RInv, SettledFits
        <4> QED
          BY <2>4, <4>1 DEF RInv, SettledFits
      <3> QED
        BY <3>1, <3>2
    <2>5. SettledFits'
      BY <1>5, <2>3, <2>4 DEF SettledFits
    <2>6. Smooth'
      BY <1>3, <1>4, <1>6 DEF Smooth
    <2> QED
      BY <1>2, <2>5, <2>6 DEF RInv
  <1>7. CASE ~(Clean /\ settled[extractor] = {})
    <2>1. settled' = settled
      BY <1>1, <1>7
    <2>2. SettledFits'
      BY <1>5, <2>1 DEF RInv, SettledFits
    <2>3. Smooth'
      BY <1>3, <1>5, <2>1 DEF RInv, Smooth
    <2> QED
      BY <1>2, <2>2, <2>3 DEF RInv
  <1> QED
    BY <1>6, <1>7

\* A unit that nothing was decided of yet holds what is saved.
LEMMA NothingHeld ==
    ASSUME NEW D, NEW u
    PROVE  ChunksSaved(D, u, 0) /\ CasesTo(D, u, 0) = {} /\ NonCaseTo(D, u, 0) = {}
  <1>1. 1..0 = {}
    OBVIOUS
  <1>2. ChunksSaved(D, u, 0)
    BY <1>1 DEF ChunksSaved
  <1>3. CasesTo(D, u, 0) = {} /\ NonCaseTo(D, u, 0) = {}
    BY <1>1 DEF CasesTo, NonCaseTo
  <1> QED
    BY <1>2, <1>3

LEMMA RunAgainReplays ==
    ASSUME IInv, RInv, RunAgain PROVE RInv'
  <1>1. Start /\ UNCHANGED <<checkpoint, settled>>
    BY DEF RunAgain
  <1>2. OneEach'
    BY <1>1, NothingSaved DEF RInv
  <1>3. ASSUME NEW u \in Unit PROVE Held(u)'
    <2>1. /\ at'[u] = "boundary" /\ chunk'[u] = 0 /\ cases'[u] = {} /\ nonCase'[u] = {}
      BY <1>1 DEF Start
    <2>2. /\ ChunksSaved(checkpoint', u, 0)
          /\ CasesTo(checkpoint', u, 0) = {} /\ NonCaseTo(checkpoint', u, 0) = {}
      BY NothingHeld
    <2>3. ChunksHeld(u)'
      BY <2>1, <2>2 DEF ChunksHeld
    <2>4. AnchorsHeld(u)' /\ ResultsHeld(u)'
      BY <2>1 DEF AnchorsHeld, ResultsHeld
    <2> QED
      BY <2>3, <2>4 DEF Held
  <1>4. SettledFits'
    BY <1>1 DEF RInv, SettledFits
  <1>5. Smooth'
    BY <1>1 DEF Start, Smooth, SmoothUnit
  <1> QED
    BY <1>2, <1>3, <1>4, <1>5 DEF RInv

LEMMA ReplayInitially == Init => RInv
  <1> SUFFICES ASSUME Init PROVE RInv
    OBVIOUS
  <1>1. OneEach
    BY DEF Init, OneEach, Shelf
  <1>2. ASSUME NEW u \in Unit PROVE Held(u)
    <2>1. /\ at[u] = "boundary" /\ chunk[u] = 0 /\ cases[u] = {} /\ nonCase[u] = {}
      BY DEF Init
    <2>2. /\ ChunksSaved(checkpoint, u, 0)
          /\ CasesTo(checkpoint, u, 0) = {} /\ NonCaseTo(checkpoint, u, 0) = {}
      BY NothingHeld
    <2>3. ChunksHeld(u)
      BY <2>1, <2>2 DEF ChunksHeld
    <2>4. AnchorsHeld(u) /\ ResultsHeld(u)
      BY <2>1 DEF AnchorsHeld, ResultsHeld
    <2> QED
      BY <2>3, <2>4 DEF Held
  <1>3. SettledFits
    BY DEF Init, SettledFits
  <1>4. Smooth
    BY DEF Init, Smooth, SmoothUnit
  <1> QED
    BY <1>1, <1>2, <1>3, <1>4 DEF RInv

LEMMA StutterReplays ==
    ASSUME RInv, UNCHANGED vars PROVE RInv'
  <1> USE DEF vars
  <1>1. OneEach' /\ \A u \in Unit : Held(u)'
    BY StateReplays
  <1>2. SettledFits'
    BY DEF RInv, SettledFits
  <1>3. Smooth'
    BY DEF RInv, Smooth, SmoothUnit, decided, setup
  <1> QED
    BY <1>1, <1>2, <1>3 DEF RInv

LEMMA ReplayInvariance == Spec => [](IInv /\ RInv)
  <1>1. ASSUME IInv, RInv, [Next]_vars PROVE RInv'
    <2>1. ASSUME NEW u \in Unit, Decide(u) PROVE RInv'
      BY <1>1, <2>1, BoundaryReplays, AnchorReplays, ExtractReplays DEF Decide
    <2> QED
      BY <1>1, <2>1, BuildCardsReplays, RunAgainReplays, StutterReplays DEF Next, Work
  <1> QED
    BY <1>1, ReplayInitially, Invariance, PTL DEF Spec

\* A decision that was accepted and written is never replaced, whatever fails,
\* answers otherwise or dies: a later run reads what the first one accepted.
THEOREM SavedStays == Spec => [][Retains(checkpoint, checkpoint')]_vars
  <1>1. ASSUME IInv, RInv, Next PROVE Retains(checkpoint, checkpoint')
    <2>1. CASE UNCHANGED checkpoint
      BY <2>1 DEF Retains
    <2>2. ASSUME NEW s \in Shelf, NEW i, NEW o, Saved(s, i) = {}, Save(s, i, o)
          PROVE  Retains(checkpoint, checkpoint')
      BY <1>1, <2>2, SaveRetains DEF IInv, RInv, Saved, Under
    <2>3. CASE RunAgain \/ BuildCards
      BY <2>1, <2>3 DEF RunAgain, BuildCards
    <2>4. ASSUME NEW u \in Unit, Decide(u) PROVE Retains(checkpoint, checkpoint')
      <3>1. CASE BoundaryAsk(u)
        BY <2>1, <2>2, <3>1 DEF BoundaryAsk, Shelf
      <3>2. CASE AnchorAsk(u)
        BY <2>1, <2>2, <3>2 DEF AnchorAsk, Shelf
      <3>3. CASE Extract(u)
        BY <2>1, <2>2, <3>3 DEF Extract, Shelf
      <3>4. CASE BoundaryRead(u) \/ BoundaryFails(u) \/ BoundaryDisabled(u)
        BY <2>1, <3>4 DEF BoundaryRead, BoundaryFails, BoundaryDisabled
      <3>5. CASE AnchorSkips(u) \/ AnchorRead(u) \/ AnchorFails(u)
        BY <2>1, <3>5 DEF AnchorSkips, AnchorRead, AnchorFails
      <3>6. CASE ExtractSkips(u) \/ ExtractRead(u) \/ ExtractFails(u)
        BY <2>1, <3>6 DEF ExtractSkips, ExtractRead, ExtractFails
      <3> QED
        BY <2>4, <3>1, <3>2, <3>3, <3>4, <3>5, <3>6 DEF Decide
    <2> QED
      BY <1>1, <2>3, <2>4 DEF Next, Work
  <1>2. UNCHANGED vars => Retains(checkpoint, checkpoint')
    BY DEF vars, Retains
  <1> QED
    BY <1>1, <1>2, ReplayInvariance, PTL DEF Spec

\* Once a run of the batch reported no issue, a later run with a model and the
\* same extractor setting reports none and builds the same cards, whatever
\* died or failed in between, and whatever other answers the models have.
THEOREM ReplaysAgree == Spec => []ReplayBuildsTheSame
  <1>1. IInv /\ RInv => ReplayBuildsTheSame
    <2> SUFFICES ASSUME IInv, RInv, ended, client, settled[extractor] # {}
                 PROVE  Clean /\ settled[extractor] = {Cards}
      BY DEF ReplayBuildsTheSame
    <2>1. \A u \in Unit : at[u] = "done" /\ SmoothUnit(u)
      BY DEF IInv, UnitInv, StagesFit, RInv, Smooth
    <2>2. Cards = AllCards /\ Cards = FinalCards(checkpoint, extractor)
      BY <2>1, CleanCards
    <2>3. Clean
      BY <2>1, <2>2 DEF Clean, SmoothUnit, IInv, TypeOK
    <2>4. settled[extractor] = {FinalCards(checkpoint, extractor)}
      BY DEF RInv, SettledFits, IInv, TypeOK
    <2> QED
      BY <2>2, <2>3, <2>4
  <1> QED
    BY <1>1, ReplayInvariance, PTL
=============================================================================
