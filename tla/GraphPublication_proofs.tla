---------------------- MODULE GraphPublication_proofs ----------------------
(* Proofs about GraphPublication, for every set of items, every number of    *)
(* readers and every number of crashes.                                      *)
(*                                                                           *)
(* The argument.  While W5 runs nobody else writes the graph, so its store   *)
(* is what the files behind `next' hold (StoreIsWritten); what has an audit  *)
(* row, or is about to get one, is in its store, or the version of the       *)
(* document that replaced it (AuditedIsStored); what is in its store is      *)
(* audited, about to be, or left by a crash (StoredIsKnown); and no set of   *)
(* objects or edges it stores has two versions of a document (StoreIsSingle) *)
(* or, unless a crash left that, an edge without an object (StoreIsValid).   *)
(* None of it depends on what is in a batch.  Every write overtakes the      *)
(* readers that live, so a reader that was not overtaken has seen nothing    *)
(* but the files as they are now (ReadersSeeTheFiles), and a session served  *)
(* by such readers has one graph (SessionsHaveOneGraph).                     *)
EXTENDS GraphPublication, TLAPS

StoreIsWritten ==
    /\ at \in {"apply", "audit", "publish"} => file = store
    /\ at \in {"merge", "recompute"} =>
         \A f \in File : /\ f < next => file[f] = store[f]
                         /\ f > next => file[f] # Torn

\* An item, or another version of it, is in a set; a set has no two versions.
Stands(i, S) == S \cap ({i} \cup Replaced(i)) # {}
Single(S)    == \A i \in S : Replaced(i) \cap S = {}

AuditedIsStored ==
    /\ at \in {"apply", "merge", "recompute", "publish"} =>
         audit # Torn /\ \A i \in audit, f \in File \ {Policies} : Stands(i, store[f])
    /\ at \in {"merge", "audit"} =>
         \A i \in rows, f \in File \ {Policies} : Stands(i, store[f])
    /\ at = "audit" => audit = Torn

StoredIsKnown ==
    /\ at \notin {"merge", "audit"} /\ audit # Torn /\ file[Objects] # Torn =>
         file[Objects] \subseteq audit \cup left
    /\ at \in {"merge", "audit"} /\ file[Objects] # Torn =>
         file[Objects] \subseteq rows \cup left
    /\ at \in {"apply", "recompute", "publish"} => store[Objects] \subseteq audit \cup left
    /\ at \in {"merge", "audit"} => store[Objects] \subseteq rows \cup left

StoreIsSingle == at # "idle" => \A f \in File : Single(store[f])

\* A crash in a merge leaves an item; one in a recomputation changed no edge.
StoreIsValid ==
    /\ at # "idle" /\ left = {} => Valid(store)
    /\ at = "idle" /\ Whole /\ left = {} => Valid(file)
    /\ at = "recompute" =>
         \A f \in File \ {Policies} : file[f] # Torn => file[f] = store[f]
    /\ at = "apply" => todo \cap audit = {}
    /\ at = "merge" => rows \ audit # {}
    /\ at \in {"merge", "audit"} => todo \cap rows = {}

PoliciesAreWhole ==
    /\ at = "recompute" => store[Policies] = store[Objects] \cap Executable
    /\ at = "publish" /\ applied \cap Executable # {} =>
         /\ store[Policies] = store[Objects] \cap Executable
         /\ projected = store[Objects] \cap Executable

ReadersSeeTheFiles ==
    \A p \in Reader \ overtaken :
        /\ boot[p] = "hash" => built[p] = file
        /\ boot[p] = "swap" => built[p] = file /\ hashed[p] = file
        /\ boot[p] = "serve" => index.marker = file
        /\ boot[p] = "up" => index.marker = file /\ model[p] = file

SessionsHaveOneGraph ==
    session.open /\ session.sound =>
        session.from = session.pin /\ session.walked = session.pin

IInv ==
    /\ TypeOK /\ StoreIsWritten /\ AuditedIsWhole /\ AuditedIsStored
    /\ StoredIsKnown /\ OneVersion /\ StoreIsSingle /\ StoreIsValid
    /\ PoliciesAreWhole
    /\ ReadersSeeTheFiles /\ IndexIsWhatItSays /\ SessionsHaveOneGraph

-----------------------------------------------------------------------------
(* Graphs and disks                                                          *)

\* The files, one by one.
LEMMA Files ==
    /\ File = {1, 2, 3}
    /\ Objects \in File /\ Policies \in File /\ Relations \in File
    /\ Objects # Policies /\ Relations # Policies /\ Objects # Relations
BY DEF File, Objects, Policies, Relations

\* A graph is a disk without a torn file.
LEMMA GraphIsDisk ==
    ASSUME NEW g \in Graph
    PROVE  /\ g \in Disk
           /\ g = [f \in File |-> g[f]]
           /\ \A f \in File : g[f] \subseteq Item /\ g[f] # Torn
BY DEF Graph, Disk

\* Sets of items in every file are a graph.
LEMMA MakesGraph ==
    ASSUME NEW g, g = [f \in File |-> g[f]], \A f \in File : g[f] \subseteq Item
    PROVE  g \in Graph
<1>1. \A f \in File : g[f] # Torn BY PublicationAssumption
<1>2. g \in Disk BY DEF Disk
<1> QED BY <1>1, <1>2 DEF Graph

LEMMA EmptyIsGraph == Empty \in Graph /\ Empty \in Disk
<1>1. \A f \in File : {} # Torn /\ {} \subseteq Item BY PublicationAssumption
<1> QED BY <1>1 DEF Graph, Disk, Empty

\* A disk without a torn file is a graph.
LEMMA WholeIsGraph ==
    ASSUME NEW d \in Disk, \A f \in File : d[f] # Torn
    PROVE  d \in Graph
BY DEF Graph

\* merge_graph makes a graph: it adds the item to what the store holds, and
\* purges other versions of it only.
LEMMA MergedIsGraph ==
    ASSUME NEW s \in Graph, NEW i \in Item
    PROVE  /\ Merged(s, i) \in Graph
           /\ \A f \in File \ {Policies} :
                Merged(s, i)[f] = (s[f] \ (Replaced(i) \cap s[Objects])) \cup {i}
           /\ Merged(s, i)[Policies] = s[Policies]
<1>1. \A f \in File : s[f] \subseteq Item BY GraphIsDisk
<1>2. Merged(s, i) = [f \in File |-> Merged(s, i)[f]] BY DEF Merged
<1>3. \A f \in File : Merged(s, i)[f] \subseteq Item BY <1>1 DEF Merged
<1>4. Merged(s, i) \in Graph BY <1>2, <1>3, MakesGraph
<1> QED BY <1>4, Files DEF Merged

\* Replacing is symmetric and, between different versions, transitive.
LEMMA Versions ==
    /\ \A i : i \notin Replaced(i)
    /\ \A i, j : j \in Replaced(i) => i \in Replaced(j)
    /\ \A i, j, k : j \in Replaced(i) /\ k \in Replaced(j) => k = i \/ k \in Replaced(i)
    /\ \A i \in Executable : Replaced(i) = {}
BY PublicationAssumption DEF Replaced

\* The item, or a version of it, is still there when another item is merged: a
\* version is purged only when one of the same document comes.
LEMMA MergeKeepsVersions ==
    ASSUME NEW S, NEW i, NEW k, NEW D, Stands(i, S)
    PROVE  Stands(i, (S \ (Replaced(k) \cap D)) \cup {k})
<1>1. PICK j \in S : j = i \/ j \in Replaced(i) BY DEF Stands
<1>2. CASE j \notin Replaced(k) BY <1>1, <1>2 DEF Stands
<1>3. CASE j \in Replaced(k)
  <2>1. k \in Replaced(j) BY <1>3, Versions
  <2>2. k = i \/ k \in Replaced(i) BY <1>1, <2>1, Versions
  <2> QED BY <2>2 DEF Stands
<1> QED BY <1>2, <1>3

\* The objects that a merge leaves have one version of each document, and so
\* have edges that do not dangle.
LEMMA MergeIsSingle ==
    ASSUME NEW s \in Graph, NEW i \in Item, \A f \in File : Single(s[f]),
           Valid(Merged(s, i))
    PROVE  \A f \in File : Single(Merged(s, i)[f])
<1>1. Single(Merged(s, i)[Objects])
  <2>1. Merged(s, i)[Objects] = (s[Objects] \ Replaced(i)) \cup {i}
    BY MergedIsGraph, Files
  <2>2. Single(s[Objects]) BY Files
  <2> QED BY <2>1, <2>2, Versions DEF Single
<1>2. Single(Merged(s, i)[Relations]) BY <1>1 DEF Single, Valid
<1>3. Single(Merged(s, i)[Policies]) BY MergedIsGraph, Files
<1> QED BY <1>1, <1>2, <1>3, Files DEF Objects, Policies, Relations

\* The recomputation makes a graph, and changes only the policies.
LEMMA RecomputedIsGraph ==
    ASSUME NEW s \in Graph
    PROVE  /\ Recomputed(s) \in Graph
           /\ Recomputed(s)[Policies] = s[Objects] \cap Executable
           /\ \A f \in File \ {Policies} : Recomputed(s)[f] = s[f]
<1>1. s = [f \in File |-> s[f]] /\ \A f \in File : s[f] \subseteq Item BY GraphIsDisk
<1>2. \A f \in File : Recomputed(s)[f] = IF f = Policies THEN s[Objects] \cap Executable
                                                         ELSE s[f]
    BY <1>1, Files DEF Recomputed
<1>3. Recomputed(s) = [f \in File |-> Recomputed(s)[f]] BY <1>1 DEF Recomputed
<1>4. \A f \in File : Recomputed(s)[f] \subseteq Item BY <1>1, <1>2, Files
<1>5. Recomputed(s) \in Graph BY <1>3, <1>4, MakesGraph
<1> QED BY <1>2, <1>5, Files

-----------------------------------------------------------------------------
(* Types                                                                     *)

\* Every step keeps the types; a file that is read whole is a graph.
LEMMA TypeStep ==
    ASSUME TypeOK, StoreIsWritten, AuditedIsStored, [Next]_vars
    PROVE  TypeOK'
<1> USE DEF TypeOK
<1>e. Empty \in Graph /\ Empty \in Disk BY EmptyIsGraph
<1>g. \A g \in Graph : g \in Disk BY GraphIsDisk
<1>w. Parsable => file \in Graph BY WholeIsGraph DEF Parsable
<1>m. crashes < MaxCrash => crashes + 1 \in 0..MaxCrash BY PublicationAssumption
<1>l. Live \subseteq Reader BY DEF Live
<1>1. ASSUME NEW i \in Item, Skip(i) PROVE TypeOK'
    BY <1>1 DEF Skip, disk, reader
<1>2. CASE StartRun
  <2>1. file \in Graph BY <1>2, WholeIsGraph DEF StartRun, Whole
  <2> QED BY <1>2, <2>1 DEF StartRun, disk, reader
<1>3. ASSUME NEW i \in Item, Merge(i) PROVE TypeOK'
  <2>1. store' \in Graph BY <1>3, MergedIsGraph DEF Merge
  <2>2. rows' \subseteq Item
    BY <1>3 DEF Merge, AuditedIsStored
  <2> QED BY <1>3, <2>1, <2>2, Files DEF Merge, disk, reader, Written
<1>4. CASE OpenFile
  <2>1. file' \in Disk BY <1>4, Files DEF OpenFile, Disk, Written
  <2> QED BY <1>4, <2>1, <1>l DEF OpenFile, run, reader
<1>5. CASE FillFile
  <2>1. next \in File BY <1>5, Files DEF FillFile, Written
  <2>2. store[next] \subseteq Item BY <2>1, GraphIsDisk
  <2>3. file' \in Disk BY <1>5, <2>1, <2>2 DEF FillFile, Disk
  <2>4. next' \in File \cup {Written} BY <1>5, <2>1, Files DEF FillFile, Written
  <2> QED BY <1>5, <2>3, <2>4, <1>l DEF FillFile, reader
<1>6. CASE OpenAudit BY <1>6 DEF OpenAudit, reader
<1>7. CASE FillAudit BY <1>7 DEF FillAudit, reader
<1>8. CASE EndBatch
  <2>1. Recomputed(store) \in Graph BY RecomputedIsGraph
  <2> QED BY <1>8, <2>1, Files DEF EndBatch, disk, reader
<1>9. CASE Materialize
  <2>1. store[Objects] \subseteq Item BY GraphIsDisk, Files
  <2> QED BY <1>9, <2>1 DEF Materialize, reader
<1>i. ASSUME Idle
      PROVE  /\ at' = "idle" /\ store' \in Graph /\ next' \in File \cup {Written}
             /\ todo' \subseteq Item /\ rows' \subseteq Item /\ applied' \subseteq Item
             /\ changed' \in BOOLEAN
    BY <1>i, <1>e, Files DEF Idle
<1>10. CASE Publish
  <2>1. file \in Graph BY <1>10 DEF Publish, StoreIsWritten
  <2>2. index' \in [marker : Disk, content : Graph, raced : BOOLEAN]
    <3>1. BuiltFrom(file) \in [marker : Disk, content : Graph, raced : BOOLEAN]
      BY <2>1, <1>g DEF BuiltFrom
    <3> QED BY <1>10, <3>1 DEF Publish
  <2>3. overtaken' \subseteq Reader BY <1>10, <1>l DEF Publish
  <2>4. Idle BY <1>10 DEF Publish
  <2> QED BY <1>10, <2>2, <2>3, <2>4, <1>i DEF Publish, reader
<1>11. CASE CrashRun
  <2>1. Idle BY <1>11 DEF CrashRun
  <2>2. left' \subseteq Item BY <1>11 DEF CrashRun
  <2> QED BY <1>11, <2>1, <2>2, <1>i, <1>m DEF CrashRun, disk, reader
<1>12. ASSUME NEW p \in Reader, Read(p) \/ CrashBoot(p) \/ Diagnose(p) PROVE TypeOK'
  <2>x. ASSUME Exit(p)
        PROVE  /\ boot' \in [Reader -> Booting \cup {"down", "up"}]
               /\ built' \in [Reader -> Graph] /\ hashed' \in [Reader -> Disk]
               /\ model' \in [Reader -> Graph]
    BY <2>x, <1>e DEF Exit, Goes
  <2>1. CASE Boot(p) BY <2>1 DEF Boot, Goes, Booting, disk, run
  <2>2. CASE Compare(p) BY <2>2 DEF Compare, Goes, Booting, disk, run
  <2>3. CASE Load(p) BY <2>3, <1>w DEF Load, Goes, Booting, disk, run
  <2>4. CASE Hash(p) BY <2>4 DEF Hash, Goes, Booting, disk, run
  <2>5. CASE Install(p)
    <3>1. index' \in [marker : Disk, content : Graph, raced : BOOLEAN]
      BY <2>5 DEF Install
    <3>2. overtaken' \subseteq Reader BY <2>5, <1>l DEF Install
    <3> QED BY <2>5, <3>1, <3>2, <1>e DEF Install, Goes, Booting, run
  <2>6. CASE Serve(p) BY <2>6, <1>w DEF Serve, Goes, Booting, disk, run
  <2>7. CASE Stop(p) BY <2>7, <2>x DEF Stop, disk, run
  <2>8. CASE CrashBoot(p) BY <2>8, <2>x, <1>m DEF CrashBoot, disk, run
  <2>9. CASE StartSession(p)
    <3>1. model[p] \in Graph /\ Revision \in Disk BY DEF Revision
    <3>2. session' \in Session BY <2>9, <3>1 DEF StartSession, Session
    <3> QED BY <2>9, <3>2 DEF StartSession, disk, run, reader
  <2>10. CASE StepSession(p)
    <3>1. session \in Session BY <2>10 DEF StepSession, Restores, NoSession
    <3>2. session' \in Session BY <2>10, <3>1 DEF StepSession, Session
    <3> QED BY <2>10, <3>2 DEF StepSession, disk, run, reader
  <2>11. CASE RefuseSession(p) BY <2>11 DEF RefuseSession, disk, run, reader
  <2> QED BY <1>12, <2>1, <2>2, <2>3, <2>4, <2>5, <2>6, <2>7, <2>8, <2>9, <2>10, <2>11
          DEF Read, Diagnose
<1>13. CASE UNCHANGED vars BY <1>13 DEF vars, disk, run, reader
<1> QED
  BY <1>1, <1>2, <1>3, <1>4, <1>5, <1>6, <1>7, <1>8, <1>9, <1>10, <1>11, <1>12, <1>13
     DEF Next, Apply
-----------------------------------------------------------------------------
(* What W5 writes                                                            *)

RunInv ==
    /\ StoreIsWritten /\ AuditedIsWhole /\ AuditedIsStored
    /\ StoredIsKnown /\ OneVersion /\ StoreIsSingle /\ StoreIsValid
    /\ PoliciesAreWhole

\* Everything but W5 leaves the files to it.
LEMMA OthersLeaveTheRun ==
    ASSUME RunInv, UNCHANGED <<run, file, audit, projected, left>>
    PROVE  RunInv'
BY DEF RunInv, StoreIsWritten, AuditedIsWhole, AuditedIsStored, StoredIsKnown, OneVersion,
       StoreIsSingle, StoreIsValid, Whole, Valid, PoliciesAreWhole, run

\* A run that is over, by its end or by a crash, leaves what it wrote; a crash
\* in a merge leaves an item without its row.
LEMMA RunEndKeeps ==
    ASSUME TypeOK, RunInv, at # "idle", Idle, UNCHANGED <<file, audit, projected>>,
           left' = IF at = "merge" THEN left \cup (rows \ audit) ELSE left
    PROVE  RunInv'
<1> USE DEF RunInv
<1>0. at \in {"apply", "merge", "audit", "recompute", "publish"} BY DEF TypeOK
<1>1. StoreIsWritten' /\ AuditedIsStored' /\ StoreIsSingle' /\ PoliciesAreWhole'
  BY DEF Idle, StoreIsWritten, AuditedIsStored, StoreIsSingle, PoliciesAreWhole
<1>2. AuditedIsWhole' /\ OneVersion' BY DEF AuditedIsWhole, OneVersion
<1>3. StoredIsKnown' BY <1>0 DEF Idle, StoredIsKnown, AuditedIsStored
<1>4. StoreIsValid'
  BY <1>0, Files DEF Idle, StoreIsValid, StoreIsWritten, Whole, Valid, AuditedIsStored
<1> QED BY <1>1, <1>2, <1>3, <1>4

LEMMA RunStep ==
    ASSUME TypeOK, RunInv, Apply
    PROVE  RunInv'
<1> USE DEF RunInv
<1>s. store \in Graph /\ file \in Disk BY DEF TypeOK
<1>v. \A f \in File : store[f] # Torn BY <1>s, GraphIsDisk
<1>1. CASE StartRun
  <2>1. StoreIsWritten' BY <1>1 DEF StartRun, StoreIsWritten, disk
  <2>2. AuditedIsWhole' BY <1>1 DEF StartRun, AuditedIsWhole, disk
  <2>3. AuditedIsStored' BY <1>1 DEF StartRun, AuditedIsStored, AuditedIsWhole, Stands, Whole, disk
  <2>4. StoredIsKnown' BY <1>1, Files DEF StartRun, StoredIsKnown, Whole, disk
  <2>5. OneVersion' BY <1>1 DEF StartRun, OneVersion, disk
  <2>6. StoreIsSingle' BY <1>1 DEF StartRun, StoreIsSingle, OneVersion, Single, Whole
  <2>7. StoreIsValid' BY <1>1 DEF StartRun, StoreIsValid, Whole, Valid, disk
  <2>8. PoliciesAreWhole' BY <1>1 DEF StartRun, PoliciesAreWhole
  <2> QED BY <2>1, <2>2, <2>3, <2>4, <2>5, <2>6, <2>7, <2>8
<1>2. ASSUME NEW i \in Item, Merge(i) PROVE RunInv'
  <2>1. /\ store' = Merged(store, i) /\ Valid(Merged(store, i))
        /\ \A f \in File \ {Policies} :
             store'[f] = (store[f] \ (Replaced(i) \cap store[Objects])) \cup {i}
    BY <1>2, <1>s, MergedIsGraph DEF Merge
  <2>2. \A f \in File : file[f] # Torn BY <1>2, <1>v DEF Merge, StoreIsWritten
  <2>3. StoreIsWritten' BY <1>2, <2>2 DEF Merge, StoreIsWritten, File, Objects, disk
  <2>4. AuditedIsWhole' BY <1>2 DEF Merge, AuditedIsWhole, disk
  <2>5. AuditedIsStored'
    <3>1. ASSUME NEW k \in audit, NEW f \in File \ {Policies} PROVE Stands(k, store'[f])
      <4>1. Stands(k, store[f]) BY <1>2 DEF Merge, AuditedIsStored
      <4>2. Stands(k, (store[f] \ (Replaced(i) \cap store[Objects])) \cup {i})
        BY <4>1, MergeKeepsVersions
      <4>3. store'[f] = (store[f] \ (Replaced(i) \cap store[Objects])) \cup {i} BY <2>1
      <4> QED BY <4>2, <4>3
    <3>2. \A f \in File \ {Policies} : Stands(i, store'[f]) BY <2>1 DEF Stands
    <3> QED BY <1>2, <3>1, <3>2 DEF Merge, AuditedIsStored, disk
  <2>6. StoredIsKnown' BY <1>2, <2>1, Files DEF Merge, StoredIsKnown, StoreIsWritten, disk
  <2>7. OneVersion' BY <1>2 DEF Merge, OneVersion, disk
  <2>8. StoreIsSingle' BY <1>2, <1>s, <2>1, MergeIsSingle DEF Merge, StoreIsSingle
  <2>9. StoreIsValid' BY <1>2, <2>1 DEF Merge, StoreIsValid, AuditedIsStored, Valid, disk
  <2>10. PoliciesAreWhole' BY <1>2 DEF Merge, PoliciesAreWhole
  <2> QED BY <2>3, <2>4, <2>5, <2>6, <2>7, <2>8, <2>9, <2>10
<1>3. ASSUME NEW i \in Item, Skip(i) PROVE RunInv'
  <2>1. UNCHANGED <<at, store, next, rows, applied, file, audit, projected, left>>
    BY <1>3 DEF Skip, disk
  <2>2. todo' = todo \ {i} BY <1>3 DEF Skip
  <2>3. StoreIsValid' BY <2>1, <2>2 DEF StoreIsValid, Whole, Valid
  <2> QED
    BY <2>1, <2>3 DEF StoreIsWritten, AuditedIsWhole, AuditedIsStored, StoredIsKnown,
                      OneVersion, StoreIsSingle, PoliciesAreWhole
<1>4. CASE OpenFile
  <2>1. next \in File BY <1>4, Files DEF OpenFile, TypeOK, Written
  <2>2. \A f \in File : file'[f] = IF f = next THEN Torn ELSE file[f]
    BY <1>4, <1>s DEF OpenFile, Disk
  <2>3. StoreIsWritten' BY <1>4, <2>2, <2>1, Files DEF OpenFile, StoreIsWritten, run
  <2>4. AuditedIsWhole' BY <1>4, <2>2 DEF OpenFile, AuditedIsWhole
  <2>5. AuditedIsStored' BY <1>4, <2>2 DEF OpenFile, AuditedIsStored, run
  <2>6. StoredIsKnown' BY <1>4, <2>2, Files DEF OpenFile, StoredIsKnown, run
  <2>7. OneVersion' BY <1>4, <2>2 DEF OpenFile, OneVersion
  <2>8. StoreIsSingle' BY <1>4, <2>2 DEF OpenFile, StoreIsSingle, run
  <2>9. StoreIsValid' BY <1>4, <2>2, Files DEF OpenFile, StoreIsValid, Whole, Valid, run
  <2>10. PoliciesAreWhole' BY <1>4, <2>2 DEF OpenFile, PoliciesAreWhole, run
  <2> QED BY <2>3, <2>4, <2>5, <2>6, <2>7, <2>8, <2>9, <2>10
<1>5. CASE FillFile
  <2>1. next \in File BY <1>5, Files DEF FillFile, TypeOK, Written
  <2>2. \A f \in File : file'[f] = IF f = next THEN store[f] ELSE file[f]
    BY <1>5, <1>s DEF FillFile, Disk
  <2>3. StoreIsWritten' BY <1>5, <2>2, <2>1, Files DEF FillFile, StoreIsWritten
  <2>4. AuditedIsWhole' BY <1>5, <2>2 DEF FillFile, AuditedIsWhole, AuditedIsStored, Stands
  <2>5. AuditedIsStored' BY <1>5, <2>2 DEF FillFile, AuditedIsStored
  <2>6. StoredIsKnown' BY <1>5, <2>2, Files DEF FillFile, StoredIsKnown
  <2>7. OneVersion' BY <1>5, <2>2 DEF FillFile, OneVersion, StoreIsSingle, Single
  <2>8. StoreIsSingle' BY <1>5, <2>2 DEF FillFile, StoreIsSingle
  <2>9. StoreIsValid' BY <1>5, <2>2, Files DEF FillFile, StoreIsValid, Whole, Valid
  <2>10. PoliciesAreWhole' BY <1>5, <2>2 DEF FillFile, PoliciesAreWhole
  <2> QED BY <2>3, <2>4, <2>5, <2>6, <2>7, <2>8, <2>9, <2>10
<1>w. at \in {"merge", "recompute"} /\ next = Written => file = store
  <2>1. \A f \in File : f < Written BY Files DEF Written
  <2>2. SUFFICES ASSUME at \in {"merge", "recompute"}, next = Written PROVE file = store
    OBVIOUS
  <2>3. \A f \in File : file[f] = store[f] BY <2>1, <2>2 DEF StoreIsWritten
  <2>4. file = [f \in File |-> file[f]] /\ store = [f \in File |-> store[f]]
    BY <1>s, GraphIsDisk DEF Disk
  <2> QED BY <2>3, <2>4
<1>6. CASE OpenAudit
  <2>1. StoreIsWritten' BY <1>6, <1>w DEF OpenAudit, StoreIsWritten
  <2>2. AuditedIsWhole' BY <1>6 DEF OpenAudit, AuditedIsWhole
  <2>3. AuditedIsStored' BY <1>6 DEF OpenAudit, AuditedIsStored
  <2>4. StoredIsKnown' BY <1>6 DEF OpenAudit, StoredIsKnown
  <2>5. OneVersion' BY <1>6 DEF OpenAudit, OneVersion
  <2>6. StoreIsSingle' BY <1>6 DEF OpenAudit, StoreIsSingle
  <2>7. StoreIsValid' BY <1>6 DEF OpenAudit, StoreIsValid, Whole, Valid
  <2>8. PoliciesAreWhole' BY <1>6 DEF OpenAudit, PoliciesAreWhole
  <2> QED BY <2>1, <2>2, <2>3, <2>4, <2>5, <2>6, <2>7, <2>8
<1>7. CASE FillAudit
  <2>1. rows # Torn BY PublicationAssumption DEF TypeOK
  <2>2. StoreIsWritten' BY <1>7 DEF FillAudit, StoreIsWritten
  <2>3. AuditedIsWhole' BY <1>7 DEF FillAudit, AuditedIsWhole, AuditedIsStored, StoreIsWritten, Stands
  <2>4. AuditedIsStored' BY <1>7, <2>1 DEF FillAudit, AuditedIsStored
  <2>5. StoredIsKnown' BY <1>7 DEF FillAudit, StoredIsKnown
  <2>6. OneVersion' BY <1>7 DEF FillAudit, OneVersion
  <2>7. StoreIsSingle' BY <1>7 DEF FillAudit, StoreIsSingle
  <2>8. StoreIsValid' BY <1>7 DEF FillAudit, StoreIsValid, Valid
  <2>9. PoliciesAreWhole' BY <1>7 DEF FillAudit, PoliciesAreWhole
  <2> QED BY <2>2, <2>3, <2>4, <2>5, <2>6, <2>7, <2>8, <2>9
<1>8. CASE EndBatch
  <2>0. UNCHANGED <<todo, rows, applied, file, audit, projected, left>>
    BY <1>8 DEF EndBatch, disk
  <2>1. CASE applied \cap Executable # {}
    <3>1. /\ store'[Policies] = store[Objects] \cap Executable
          /\ \A f \in File \ {Policies} : store'[f] = store[f]
          /\ at = "apply" /\ at' = "recompute" /\ next' = Objects
      BY <1>8, <2>1, <1>s, RecomputedIsGraph DEF EndBatch
    <3>2. file = store BY <3>1 DEF StoreIsWritten
    <3>3. StoreIsWritten' BY <2>0, <3>1, <3>2, <1>v DEF StoreIsWritten, File, Objects
    <3>4. AuditedIsWhole' BY <2>0 DEF AuditedIsWhole
    <3>5. AuditedIsStored' BY <2>0, <3>1 DEF AuditedIsStored
    <3>6. StoredIsKnown' BY <2>0, <3>1, Files DEF StoredIsKnown
    <3>7. OneVersion' BY <2>0 DEF OneVersion
    <3>8. StoreIsSingle'
      <4>1. Single(store[Objects] \cap Executable) BY Versions DEF Single
      <4> QED BY <3>1, <4>1 DEF StoreIsSingle
    <3>9. StoreIsValid' BY <2>0, <3>1, <3>2, Files DEF StoreIsValid, Valid
    <3>10. PoliciesAreWhole' BY <3>1, Files DEF PoliciesAreWhole
    <3> QED BY <3>3, <3>4, <3>5, <3>6, <3>7, <3>8, <3>9, <3>10
  <2>2. CASE applied \cap Executable = {}
    <3>1. at = "apply" /\ at' = "publish" /\ store' = store
      BY <1>8, <2>2 DEF EndBatch
    <3>2. StoreIsWritten' /\ AuditedIsWhole' /\ AuditedIsStored' /\ StoredIsKnown'
      BY <2>0, <3>1 DEF StoreIsWritten, AuditedIsWhole, AuditedIsStored, StoredIsKnown
    <3>3. OneVersion' /\ StoreIsSingle' /\ StoreIsValid' /\ PoliciesAreWhole'
      BY <2>0, <2>2, <3>1 DEF OneVersion, StoreIsSingle, StoreIsValid, Valid,
                              PoliciesAreWhole
    <3> QED BY <3>2, <3>3
  <2> QED BY <2>1, <2>2
<1>9. CASE Materialize
  <2>1. StoreIsWritten' BY <1>9, <1>w DEF Materialize, StoreIsWritten
  <2>2. AuditedIsWhole' BY <1>9 DEF Materialize, AuditedIsWhole
  <2>3. AuditedIsStored' BY <1>9 DEF Materialize, AuditedIsStored
  <2>4. StoredIsKnown' BY <1>9 DEF Materialize, StoredIsKnown
  <2>5. OneVersion' BY <1>9 DEF Materialize, OneVersion
  <2>6. StoreIsSingle' BY <1>9 DEF Materialize, StoreIsSingle
  <2>7. StoreIsValid' BY <1>9 DEF Materialize, StoreIsValid, Valid
  <2>8. PoliciesAreWhole' BY <1>9 DEF Materialize, PoliciesAreWhole
  <2> QED BY <2>1, <2>2, <2>3, <2>4, <2>5, <2>6, <2>7, <2>8
<1>10. CASE Publish BY <1>10, RunEndKeeps DEF Publish
<1> QED
  BY <1>1, <1>2, <1>3, <1>4, <1>5, <1>6, <1>7, <1>8, <1>9, <1>10 DEF Apply

-----------------------------------------------------------------------------
(* What the readers see                                                      *)

ReadInv == ReadersSeeTheFiles /\ IndexIsWhatItSays /\ SessionsHaveOneGraph

\* A step of W5 that changes the files or the index overtakes whoever lives.
LEMMA WritesOvertake ==
    ASSUME TypeOK, RunInv, ReadInv, Apply
    PROVE  ReadInv'
<1> USE DEF ReadInv
<1>r. UNCHANGED <<boot, built, hashed, model, session>>
  BY DEF Apply, StartRun, EndBatch, OpenFile, FillFile, OpenAudit, FillAudit, Materialize,
         Publish, Merge, Skip, reader
<1>o. CASE overtaken' = Live
  <2>1. ReadersSeeTheFiles' BY <1>o, <1>r DEF ReadersSeeTheFiles, Live
  <2>2. SessionsHaveOneGraph' BY <1>r DEF SessionsHaveOneGraph
  <2>3. index' = index \/ index' = BuiltFrom(file)
    BY DEF Apply, StartRun, EndBatch, OpenFile, FillFile, OpenAudit, FillAudit, Materialize,
           Publish, Merge, Skip, disk
  <2>4. IndexIsWhatItSays' BY <2>3 DEF IndexIsWhatItSays, BuiltFrom
  <2> QED BY <2>1, <2>2, <2>4
<1>u. CASE UNCHANGED <<file, index, overtaken>>
  BY <1>u, <1>r DEF ReadersSeeTheFiles, IndexIsWhatItSays, SessionsHaveOneGraph
<1> QED
  BY <1>o, <1>u DEF Apply, StartRun, EndBatch, OpenFile, FillFile, OpenAudit, FillAudit,
                    Materialize, Publish, Merge, Skip, disk

\* A step of a reader looks at the files as they are.
LEMMA ReadStep ==
    ASSUME TypeOK, ReadInv, NEW p \in Reader, Read(p) \/ CrashBoot(p)
    PROVE  ReadInv'
<1> USE DEF ReadInv, TypeOK
<1>i. ASSUME UNCHANGED <<index, session>>
      PROVE  IndexIsWhatItSays' /\ SessionsHaveOneGraph'
  BY <1>i DEF IndexIsWhatItSays, SessionsHaveOneGraph
<1>x. ASSUME Exit(p), UNCHANGED <<file, index, overtaken, session>> PROVE ReadInv'
  <2>1. ReadersSeeTheFiles' BY <1>x DEF Exit, Goes, ReadersSeeTheFiles
  <2> QED BY <2>1, <1>x, <1>i
<1>1. CASE Boot(p)
  <2>1. ReadersSeeTheFiles' BY <1>1 DEF Boot, Goes, ReadersSeeTheFiles, disk
  <2> QED BY <2>1, <1>1, <1>i DEF Boot, disk
<1>2. CASE Compare(p)
  <2>1. ReadersSeeTheFiles'
    BY <1>2 DEF Compare, Goes, ReadersSeeTheFiles, Rebuilds, Revision, disk
  <2> QED BY <2>1, <1>2, <1>i DEF Compare, disk
<1>3. CASE Load(p)
  <2>1. ReadersSeeTheFiles' BY <1>3 DEF Load, Goes, ReadersSeeTheFiles, disk
  <2> QED BY <2>1, <1>3, <1>i DEF Load, disk
<1>4. CASE Hash(p)
  <2>1. ReadersSeeTheFiles' BY <1>4 DEF Hash, Goes, ReadersSeeTheFiles, disk
  <2> QED BY <2>1, <1>4, <1>i DEF Hash, disk
<1>5. CASE Install(p)
  <2>1. ReadersSeeTheFiles' BY <1>5 DEF Install, Goes, ReadersSeeTheFiles, Live
  <2>2. IndexIsWhatItSays' BY <1>5 DEF Install, IndexIsWhatItSays, ReadersSeeTheFiles
  <2>3. SessionsHaveOneGraph' BY <1>5 DEF Install, SessionsHaveOneGraph
  <2> QED BY <2>1, <2>2, <2>3
<1>6. CASE Serve(p)
  <2>1. ReadersSeeTheFiles' BY <1>6 DEF Serve, Goes, ReadersSeeTheFiles, disk
  <2> QED BY <2>1, <1>6, <1>i DEF Serve, disk
<1>7. CASE Stop(p) BY <1>7, <1>x DEF Stop, disk
<1>8. CASE CrashBoot(p) BY <1>8, <1>x DEF CrashBoot, disk
<1> QED BY <1>1, <1>2, <1>3, <1>4, <1>5, <1>6, <1>7, <1>8 DEF Read

\* A session that goes on is served the graph of its pin.
LEMMA SessionStep ==
    ASSUME TypeOK, ReadInv, NEW p \in Reader, Diagnose(p)
    PROVE  ReadInv'
<1> USE DEF ReadInv
<1>r. UNCHANGED <<file, index, boot, built, hashed, model, overtaken>>
  BY DEF Diagnose, StartSession, StepSession, RefuseSession, disk, reader
<1>1. ReadersSeeTheFiles' /\ IndexIsWhatItSays'
  BY <1>r DEF ReadersSeeTheFiles, IndexIsWhatItSays
<1>2. boot[p] = "up" /\ p \notin overtaken => model[p] = Revision
  BY DEF ReadersSeeTheFiles, Revision
<1>3. CASE StartSession(p)
  <2>1. SessionsHaveOneGraph' BY <1>2, <1>3 DEF StartSession, SessionsHaveOneGraph
  <2> QED BY <1>1, <2>1
<1>4. CASE StepSession(p)
  <2>1. session \in Session BY <1>4 DEF StepSession, Restores, NoSession, TypeOK
  <2>2. session' = [session EXCEPT !.walked = model[p],
                                   !.sound = session.sound /\ p \notin overtaken]
    BY <1>4 DEF StepSession
  <2>3. /\ session'.pin = session.pin /\ session'.from = session.from
        /\ session'.walked = model[p]
        /\ session'.sound <=> (session.sound /\ p \notin overtaken)
        /\ session.open
    BY <2>1, <2>2 DEF Session
  <2>4. SessionsHaveOneGraph'
    BY <1>2, <1>4, <2>3 DEF StepSession, Restores, SessionsHaveOneGraph
  <2> QED BY <1>1, <2>4
<1>5. CASE RefuseSession(p)
  <2>1. SessionsHaveOneGraph' BY <1>5 DEF RefuseSession, SessionsHaveOneGraph, NoSession
  <2> QED BY <1>1, <2>1
<1> QED BY <1>3, <1>4, <1>5 DEF Diagnose

-----------------------------------------------------------------------------
(* The invariant and what follows from it                                    *)

LEMMA Parts == IInv <=> TypeOK /\ RunInv /\ ReadInv
BY DEF IInv, RunInv, ReadInv

LEMMA Initially ==
    ASSUME Init
    PROVE  IInv
<1> USE DEF Init
<1>1. TypeOK
  <2>1. Empty \in Graph /\ Empty \in Disk BY EmptyIsGraph
  <2>2. 0 \in 0..MaxCrash BY PublicationAssumption
  <2> QED BY <2>1, <2>2, Files DEF TypeOK
<1>2. RunInv
  <2>1. \A f \in File : file[f] = {} BY DEF Empty
  <2>2. StoreIsWritten /\ AuditedIsWhole /\ AuditedIsStored /\ PoliciesAreWhole
    BY <2>1 DEF StoreIsWritten, AuditedIsWhole, AuditedIsStored, PoliciesAreWhole
  <2>3. StoredIsKnown /\ OneVersion /\ StoreIsSingle /\ StoreIsValid
    BY <2>1, Files DEF StoredIsKnown, OneVersion, StoreIsSingle, StoreIsValid, Valid
  <2> QED BY <2>2, <2>3 DEF RunInv
<1>3. ReadInv
  BY DEF ReadInv, ReadersSeeTheFiles, IndexIsWhatItSays, SessionsHaveOneGraph, NoSession
<1> QED BY <1>1, <1>2, <1>3, Parts

LEMMA Step ==
    ASSUME IInv, [Next]_vars
    PROVE  IInv'
<1>0. TypeOK /\ RunInv /\ ReadInv BY Parts
<1>1. SUFFICES RunInv' /\ ReadInv'
  <2>1. TypeOK' BY <1>0, TypeStep DEF RunInv
  <2> QED BY <2>1 DEF IInv, RunInv, ReadInv
<1>2. CASE Apply BY <1>0, <1>2, RunStep, WritesOvertake
<1>3. CASE CrashRun
  <2>1. RunInv' BY <1>0, <1>3, RunEndKeeps DEF CrashRun, disk
  <2>2. ReadInv'
    BY <1>0, <1>3 DEF CrashRun, ReadInv, ReadersSeeTheFiles, IndexIsWhatItSays,
                      SessionsHaveOneGraph, disk, reader
  <2> QED BY <2>1, <2>2
<1>4. ASSUME NEW p \in Reader, Read(p) \/ CrashBoot(p) PROVE RunInv' /\ ReadInv'
  <2>1. UNCHANGED <<run, file, audit, projected, left>>
    BY <1>4 DEF Read, CrashBoot, Boot, Compare, Load, Hash, Install, Serve, Stop, disk
  <2> QED BY <1>0, <1>4, <2>1, OthersLeaveTheRun, ReadStep
<1>5. ASSUME NEW p \in Reader, Diagnose(p) PROVE RunInv' /\ ReadInv'
  <2>1. UNCHANGED <<run, file, audit, projected, left>>
    BY <1>5 DEF Diagnose, StartSession, StepSession, RefuseSession, disk
  <2> QED BY <1>0, <1>5, <2>1, OthersLeaveTheRun, SessionStep
<1>6. CASE UNCHANGED vars
  <2>1. RunInv' BY <1>0, <1>6, OthersLeaveTheRun DEF vars, disk
  <2>2. ReadInv'
    BY <1>0, <1>6 DEF vars, ReadInv, ReadersSeeTheFiles, IndexIsWhatItSays,
                      SessionsHaveOneGraph, disk, reader
  <2> QED BY <2>1, <2>2
<1> QED BY <1>2, <1>3, <1>4, <1>5, <1>6 DEF Next

\* The invariant holds in every state of the publication.
THEOREM Invariance == Spec => []IInv
BY Initially, Step, PTL DEF Spec

\* Types: what is loaded is whole, and no counter leaves its bound.
THEOREM TypeCorrect == Spec => []TypeOK
<1>1. IInv => TypeOK BY DEF IInv
<1> QED BY <1>1, Invariance, PTL

\* An audit row stands for an item that is in every file of the graph, or for a
\* document of which another version is, through crashes between the files,
\* replacements and batches of any content (merge_graph, the audit).
THEOREM AuditedItemsAreWhole == Spec => []AuditedIsWhole
<1>1. IInv => AuditedIsWhole BY DEF IInv
<1> QED BY <1>1, Invariance, PTL

\* No file of the graph holds two versions of a document
\* (_purge_replaced_document_sources).
THEOREM VersionsFollowOneAnother == Spec => []OneVersion
<1>1. IInv => OneVersion BY DEF IInv
<1> QED BY <1>1, Invariance, PTL

\* As long as no run died in a merge, whatever is approved passes the validation
\* of the merged graph: a purge takes the edges with the objects.
THEOREM TheGraphStaysValid == Spec => []OnlyACrashBlocks
<1>1. ASSUME IInv PROVE OnlyACrashBlocks
  <2> USE DEF IInv
  <2>1. SUFFICES ASSUME at = "apply", left = {}, NEW i \in Item
                 PROVE  Valid(Merged(store, i))
    BY DEF OnlyACrashBlocks
  <2>2. store[Relations] \subseteq store[Objects] BY <1>1, <2>1 DEF StoreIsValid, Valid
  <2>3. store \in Graph BY <1>1 DEF TypeOK
  <2> QED BY <2>2, <2>3, MergedIsGraph, Files DEF Valid
<1> QED BY <1>1, Invariance, PTL

\* A batch that recomputes leaves the policies and the materialized execution
\* of everything audited, whatever an earlier one left undone, and beyond that
\* only of what a crash left merged.
THEOREM RecomputationCatchesUp == Spec => []RecomputeCatchesUp
<1>1. ASSUME IInv PROVE RecomputeCatchesUp
  <2> USE DEF IInv
  <2>1. SUFFICES ASSUME at = "publish", applied \cap Executable # {}
                 PROVE  /\ audit \cap Executable \subseteq file[Policies]
                        /\ file[Policies] \subseteq audit \cup left
                        /\ projected = file[Policies]
    BY DEF RecomputeCatchesUp
  <2>2. file = store BY <2>1, <1>1 DEF StoreIsWritten
  <2>3. store[Objects] \subseteq audit \cup left BY <2>1, <1>1 DEF StoredIsKnown
  <2>4. ASSUME NEW i \in audit \cap Executable PROVE i \in store[Objects]
    <3>1. Stands(i, store[Objects]) BY <2>1, <1>1, Files DEF AuditedIsStored
    <3>2. Replaced(i) = {} BY Versions
    <3> QED BY <3>1, <3>2 DEF Stands
  <2> QED BY <2>1, <2>2, <2>3, <2>4, <1>1 DEF PoliciesAreWhole
<1> QED BY <1>1, Invariance, PTL

\* The revision an index records is that of its content, except when files were
\* written between load and hash (build_sqlite_sag_v2).
THEOREM TheIndexIsWhatItSays == Spec => []IndexIsWhatItSays
<1>1. IInv => IndexIsWhatItSays BY DEF IInv
<1> QED BY <1>1, Invariance, PTL

\* A process that was not overtaken serves the graph of its index.
THEOREM ReadersServeTheIndex == Spec => []ServesItsIndex
<1>1. IInv => ServesItsIndex BY DEF IInv, ReadersSeeTheFiles, ServesItsIndex, Revision
<1> QED BY <1>1, Invariance, PTL

\* The pin keeps a session on one graph, whatever processes serve it, unless
\* one of them was overtaken (_restore_plan).
THEOREM SessionsKeepTheirGraph == Spec => []SessionKeepsItsGraph
<1>1. IInv => SessionKeepsItsGraph BY DEF IInv, SessionsHaveOneGraph, SessionKeepsItsGraph
<1> QED BY <1>1, Invariance, PTL
=============================================================================
