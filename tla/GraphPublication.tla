-------------------------- MODULE GraphPublication --------------------------
(***************************************************************************)
(* How approved knowledge reaches a diagnostic session.  W5 merges the     *)
(* approved items into the JSON files of the graph, one file after the     *)
(* other; the batch ends with the policies, the materialized execution and *)
(* the SAG index.  A read process compares the revision recorded in the    *)
(* index with a hash of the files, rebuilds the index if they differ, and  *)
(* loads the files once, for as long as it lives.  Sessions pin the        *)
(* revision of the index.  There is no lock: processes see half of a       *)
(* write, and a crash leaves it.                                           *)
(*                                                                         *)
(* A file is the set of items merged into it, or Torn while it is written; *)
(* a revision is what was in the files that were hashed.  An item is a     *)
(* version of a bundle or of a document; what W6 has approved when a batch *)
(* starts is any set of them, as reviewers approve, reject, send back and  *)
(* replace between two batches (module ReviewQueue).                       *)
(***************************************************************************)
EXTENDS Naturals

CONSTANTS
    Item,        \* candidate versions that W6 may approve
    Document,    \* those that are the document layer of a source document
    Source,      \* the source_path of each of these
    Executable,  \* those that allow materialization or policy recomputation
    Reader,      \* processes of the read side
    MaxCrash,    \* bound on the crashes
    Torn         \* a file that was opened for writing and is not written yet

ASSUME PublicationAssumption ==
    /\ Document \subseteq Item
    /\ Executable \subseteq Item \ Document
    /\ MaxCrash \in Nat
    /\ \A S \in SUBSET Item : S # Torn

\* The files in the order they are written: one that holds objects of every
\* item, DecisionPolicy, and the relations.
File      == 1..3
Objects   == 1
Policies  == 2
Relations == 3
Written   == 4             \* no file is left to write

Disk  == [File -> {Torn} \cup (SUBSET Item)]
Graph == {d \in Disk : \A f \in File : d[f] # Torn}
Empty == [f \in File |-> {}]

VARIABLES
    file,        \* objects/*.json and relations/edges.json
    audit,       \* items with a row in approved_applied.json, or Torn
    projected,   \* items the materialized execution was computed from
    index,       \* SAG_v2: the revision it records and what it was built from
    at,          \* where the run of W5 is
    store,       \* its JsonKGV2Store
    next,        \* the file it writes
    todo,        \* items of the batch it has not looked at
    rows,        \* the audit rows it writes, with the current item
    applied,     \* items it applied in this run
    changed,     \* an item of this run changed the graph (requires_sag_publish)
    boot,        \* where each reader is
    built,       \* what it loaded to build an index from
    hashed,      \* the revision it hashed for that index
    model,       \* its read model
    session,     \* a diagnostic session
    overtaken,   \* history: readers that a write or an index swap overtook
    left,        \* history: items a crash left merged, or half merged, unaudited
    crashes

disk     == <<file, audit, projected, index>>
run      == <<at, store, next, todo, rows, applied, changed>>
reader   == <<boot, built, hashed, model>>
vars     == <<disk, run, reader, session, overtaken, left, crashes>>

Revision == index.marker
Whole    == audit # Torn /\ \A f \in File : file[f] # Torn
Live     == {p \in Reader : boot[p] # "down"}

NoSession == [open |-> FALSE]
Session   == [open : {TRUE}, pin : Disk, from : Graph, walked : Graph, sound : BOOLEAN]

Init ==
    /\ file = Empty /\ audit = {} /\ projected = {}
    /\ index = [marker |-> Empty, content |-> Empty, raced |-> FALSE]
    /\ at = "idle" /\ store = Empty /\ next = Objects /\ todo = {} /\ rows = {}
    /\ applied = {} /\ changed = FALSE
    /\ boot = [p \in Reader |-> "down"]
    /\ hashed = [p \in Reader |-> Empty]
    /\ built = [p \in Reader |-> Empty]
    /\ model = [p \in Reader |-> Empty]
    /\ session = NoSession /\ overtaken = {} /\ left = {} /\ crashes = 0

-----------------------------------------------------------------------------
(* W5: apply_approved_batch and the publication after it                    *)

\* apply-approved-queue; with a torn file it dies before it does anything.
\* The batch is what W6 has approved by now and the admission checks of W5 let
\* through; _seen_dedupe_key keeps out what has a row: only this run adds rows.
StartRun ==
    /\ at = "idle" /\ Whole
    /\ \E batch \in SUBSET Item : todo' = batch \ audit
    /\ at' = "apply"
    /\ store' = file
    /\ UNCHANGED <<next, rows, applied, changed>>
    /\ UNCHANGED <<disk, reader, session, overtaken, left, crashes>>

\* The other versions of a document: those with its source_path.
Replaced(i) ==
    IF i \in Document THEN {j \in Document \ {i} : Source[j] = Source[i]} ELSE {}

\* Mutants of Merged: the item takes the place of the graph; nothing is purged;
\* the edges of what is purged stay.
MergedAlone(s, i)    == [f \in File |-> IF f = Policies THEN s[f] ELSE {i}]
MergedUnpurged(s, i) == [f \in File |-> IF f = Policies THEN s[f] ELSE s[f] \cup {i}]
MergedObjects(s, i)  ==
    [s EXCEPT ![Objects] = (@ \ Replaced(i)) \cup {i}, ![Relations] = @ \cup {i}]

\* merge_graph: everything that is in the store and the item, without the
\* objects and edges of the version of a document that it replaces.  The purge
\* looks for that version among the objects.
Merged(s, i) ==
    LET gone == Replaced(i) \cap s[Objects]
    IN  [f \in File |-> IF f = Policies THEN s[f] ELSE (s[f] \ gone) \cup {i}]

\* validate_graph, of which what a crash can break: no edge dangles.
Valid(s) == s[Relations] \subseteq s[Objects]

\* apply_approved_typed_review_item up to _write_graph.
Merge(i) ==
    /\ at = "apply" /\ i \in todo
    /\ Valid(Merged(store, i))
    /\ at' = "merge"
    /\ store' = Merged(store, i)
    /\ changed' = (changed \/ store' # store)
    /\ next' = Objects
    /\ todo' = todo \ {i}
    /\ applied' = applied \cup {i}
    /\ rows' = audit \cup {i}
    /\ UNCHANGED <<disk, reader, session, overtaken, left, crashes>>

\* _write_graph writes nothing: schema_invalid, and the batch goes on.
Skip(i) ==
    /\ at = "apply" /\ i \in todo
    /\ ~Valid(Merged(store, i))
    /\ todo' = todo \ {i}
    /\ UNCHANGED <<at, store, next, rows, applied, changed>>
    /\ UNCHANGED <<disk, reader, session, overtaken, left, crashes>>

\* write_text of one file of the graph: open truncates it ...
OpenFile ==
    /\ at \in {"merge", "recompute"} /\ next # Written
    /\ file[next] # Torn
    /\ file' = [file EXCEPT ![next] = Torn]
    /\ overtaken' = Live
    /\ UNCHANGED <<audit, projected, index, run, reader, session, left, crashes>>

\* ... and close leaves the new content.
FillFile ==
    /\ at \in {"merge", "recompute"} /\ next # Written
    /\ file[next] = Torn
    /\ file' = [file EXCEPT ![next] = store[next]]
    /\ next' = next + 1
    /\ overtaken' = Live
    /\ UNCHANGED <<at, store, todo, rows, applied, changed>>
    /\ UNCHANGED <<audit, projected, index, reader, session, left, crashes>>

\* The audit row is written when every file of the graph is.
OpenAudit ==
    /\ at = "merge" /\ next = Written
    /\ at' = "audit"
    /\ audit' = Torn
    /\ UNCHANGED <<store, next, todo, rows, applied, changed>>
    /\ UNCHANGED <<file, projected, index, reader, session, overtaken, left,
                   crashes>>

FillAudit ==
    /\ at = "audit"
    /\ at' = "apply"
    /\ audit' = rows
    /\ UNCHANGED <<store, next, todo, rows, applied, changed>>
    /\ UNCHANGED <<file, projected, index, reader, session, overtaken, left,
                   crashes>>

\* Mutant of Recomputed: the policies of the batch, not of the graph.
RecomputedOfBatch(s) == [s EXCEPT ![Policies] = s[Policies] \cup (applied \cap Executable)]

\* build_policy_objects: policies of everything executable in the graph.
Recomputed(s) == [s EXCEPT ![Policies] = s[Objects] \cap Executable]

\* The batch is through; it recomputes only if it applied something executable.
EndBatch ==
    /\ at = "apply" /\ todo = {}
    /\ IF applied \cap Executable # {}
       THEN at' = "recompute" /\ store' = Recomputed(store) /\ next' = Objects
       ELSE at' = "publish" /\ UNCHANGED <<store, next>>
    /\ UNCHANGED <<todo, rows, applied, changed>>
    /\ UNCHANGED <<disk, reader, session, overtaken, left, crashes>>

\* KGV2Materializer.materialize
Materialize ==
    /\ at = "recompute" /\ next = Written
    /\ at' = "publish"
    /\ projected' = store[Objects] \cap Executable
    /\ UNCHANGED <<store, next, todo, rows, applied, changed>>
    /\ UNCHANGED <<file, audit, index, reader, session, overtaken, left, crashes>>

\* build_sqlite_sag_v2 by the only process that writes the files.
BuiltFrom(s) == [marker |-> s, content |-> s, raced |-> FALSE]

Idle ==
    /\ at' = "idle" /\ store' = Empty /\ next' = Objects /\ todo' = {} /\ rows' = {}
    /\ applied' = {} /\ changed' = FALSE

\* The command ends; --skip-sag-build leaves the index as it is.
Publish ==
    /\ at = "publish"
    /\ Idle
    /\ \/ /\ changed
          /\ index' = BuiltFrom(file)
          /\ overtaken' = Live
       \/ UNCHANGED <<index, overtaken>>
    /\ UNCHANGED <<file, audit, projected, reader, session, left, crashes>>

\* W5 dies: its memory is lost, what it wrote stays.  (When the audit file is
\* open it stays torn, and no run starts again.)
CrashRun ==
    /\ at # "idle" /\ crashes < MaxCrash
    /\ left' = IF at = "merge" THEN left \cup (rows \ audit) ELSE left
    /\ Idle
    /\ crashes' = crashes + 1
    /\ UNCHANGED <<disk, reader, session, overtaken>>

Apply ==
    \/ StartRun \/ EndBatch \/ OpenFile \/ FillFile \/ OpenAudit \/ FillAudit
    \/ Materialize \/ Publish
    \/ \E i \in Item : Merge(i) \/ Skip(i)

-----------------------------------------------------------------------------
(* A read process: _build_read_model.  A scan of the files (a hash or a      *)
(* load) is one step: while no write falls into it that is what it is, and   *)
(* if one does, the reader is overtaken.  The halves that W5 writes or       *)
(* leaves are seen.                                                          *)

Booting == {"check", "load", "hash", "swap", "serve"}

\* Mutant of Parsable: only the file that a boot looks for is looked at.
ParsableObjects == file[Objects] # Torn

\* JsonKGV2Store loads every file; a torn one raises.
Parsable == \A f \in File : file[f] # Torn

Goes(p, where) == boot' = [boot EXCEPT ![p] = where]

Boot(p) ==
    /\ boot[p] = "down"
    /\ Goes(p, "check")
    /\ overtaken' = overtaken \ {p}
    /\ UNCHANGED <<built, hashed, model, disk, run, session, left, crashes>>

\* The index records another revision than the files have.  A hash takes the
\* bytes as they are, torn or not.
Rebuilds == Revision # file

\* In sag_snapshot_mode a process refuses to start on another revision, in the
\* other modes it rebuilds.
Compare(p) ==
    /\ boot[p] = "check"
    /\ \/ ~Rebuilds /\ Goes(p, "serve")
       \/ Rebuilds /\ (Goes(p, "down") \/ Goes(p, "load"))
    /\ UNCHANGED <<built, hashed, model, disk, run, session, overtaken, left, crashes>>

\* build_sqlite_sag_v2: the store is loaded first ...
Load(p) ==
    /\ boot[p] = "load" /\ Parsable
    /\ built' = [built EXCEPT ![p] = file]
    /\ Goes(p, "hash")
    /\ UNCHANGED <<hashed, model, disk, run, session, overtaken, left, crashes>>

\* ... the revision hashed after ...
Hash(p) ==
    /\ boot[p] = "hash"
    /\ hashed' = [hashed EXCEPT ![p] = file]
    /\ Goes(p, "swap")
    /\ UNCHANGED <<built, model, disk, run, session, overtaken, left, crashes>>

\* ... and the file that was built takes the place of the index: whoever is
\* last wins.
Install(p) ==
    /\ boot[p] = "swap"
    /\ index' = [marker |-> hashed[p], content |-> built[p], raced |-> p \in overtaken]
    /\ overtaken' = overtaken \cup (Live \ {p})
    /\ built' = [built EXCEPT ![p] = Empty]
    /\ hashed' = [hashed EXCEPT ![p] = Empty]
    /\ Goes(p, "serve")
    /\ UNCHANGED <<model, file, audit, projected, run, session, left, crashes>>

\* KGV2ReadModel loads the files itself; from here on it does not look again.
Serve(p) ==
    /\ boot[p] = "serve" /\ Parsable
    /\ model' = [model EXCEPT ![p] = file]
    /\ Goes(p, "up")
    /\ UNCHANGED <<built, hashed, disk, run, session, overtaken, left, crashes>>

Exit(p) ==
    /\ built' = [built EXCEPT ![p] = Empty]
    /\ hashed' = [hashed EXCEPT ![p] = Empty]
    /\ model' = [model EXCEPT ![p] = Empty]
    /\ Goes(p, "down")

\* A load of a torn file raises; or the command is over, the server stopped.
Stop(p) ==
    /\ \/ boot[p] \in {"load", "serve"} /\ ~Parsable
       \/ boot[p] = "up"
    /\ Exit(p)
    /\ UNCHANGED <<disk, run, session, overtaken, left, crashes>>

\* The process dies; what it built is left in a file nobody reads.
CrashBoot(p) ==
    /\ boot[p] \in Booting /\ crashes < MaxCrash
    /\ Exit(p)
    /\ crashes' = crashes + 1
    /\ UNCHANGED <<disk, run, session, overtaken, left>>

Read(p) ==
    \/ Boot(p) \/ Compare(p) \/ Load(p) \/ Hash(p) \/ Install(p) \/ Serve(p)
    \/ Stop(p)

-----------------------------------------------------------------------------
(* The diagnostic session                                                   *)

\* start: the plan comes from the model of the process, the pin from the index.
StartSession(p) ==
    /\ boot[p] = "up" /\ ~session.open
    /\ session' = [open |-> TRUE, pin |-> Revision, from |-> model[p],
                   walked |-> model[p], sound |-> p \notin overtaken]
    /\ UNCHANGED <<disk, run, reader, overtaken, left, crashes>>

\* Mutant of Restores: the pin is not compared.
RestoresUnpinned(p) == boot[p] = "up" /\ session.open

\* _restore_plan: the pin is compared with the index, as it is now.
Restores(p) == boot[p] = "up" /\ session.open /\ session.pin = Revision

\* step: the plan is compiled again, from the model of this process.
StepSession(p) ==
    /\ Restores(p)
    /\ session' = [session EXCEPT !.walked = model[p],
                                  !.sound = @ /\ p \notin overtaken]
    /\ UNCHANGED <<disk, run, reader, overtaken, left, crashes>>

\* invalid_kg_v2_session: another revision, or the plan is another one.
RefuseSession(p) ==
    /\ boot[p] = "up" /\ session.open
    /\ session.pin # Revision \/ model[p] # session.from
    /\ session' = NoSession
    /\ UNCHANGED <<disk, run, reader, overtaken, left, crashes>>

Diagnose(p) == StartSession(p) \/ StepSession(p) \/ RefuseSession(p)

Next ==
    \/ Apply \/ CrashRun
    \/ \E p \in Reader : Read(p) \/ CrashBoot(p) \/ Diagnose(p)

Spec == Init /\ [][Next]_vars

-----------------------------------------------------------------------------
(* Properties                                                               *)

TypeOK ==
    /\ file \in Disk
    /\ audit \in {Torn} \cup (SUBSET Item)
    /\ projected \subseteq Item /\ left \subseteq Item
    /\ index \in [marker : Disk, content : Graph, raced : BOOLEAN]
    /\ at \in {"idle", "apply", "merge", "audit", "recompute", "publish"}
    /\ store \in Graph /\ next \in File \cup {Written}
    /\ todo \subseteq Item /\ rows \subseteq Item /\ applied \subseteq Item
    /\ changed \in BOOLEAN
    /\ boot \in [Reader -> Booting \cup {"down", "up"}]
    /\ built \in [Reader -> Graph] /\ hashed \in [Reader -> Disk]
    /\ model \in [Reader -> Graph]
    /\ session \in {NoSession} \cup Session
    /\ overtaken \subseteq Reader /\ crashes \in 0..MaxCrash

\* An audit row stops the item from being merged ever again.  When it is there
\* the item is in every file, whatever crashed between two files and whatever a
\* later run merged; a version of a document is, or the version that took its
\* place.
AuditedIsWhole ==
    audit # Torn =>
        \A i \in audit, f \in File \ {Policies} :
            file[f] # Torn => file[f] \cap ({i} \cup Replaced(i)) # {}

\* The versions of a document follow one another: no file that can be read
\* holds objects or edges of two, not even after a crash in a replacement.
OneVersion ==
    \A f \in File : file[f] # Torn => \A i \in file[f] : Replaced(i) \cap file[f] = {}

\* The edges and the objects of the graph fit, so that a run can merge whatever
\* is approved; only a crash between two files of a merge may end that.  (After
\* one in a replacement every merge is schema_invalid, as the edges of the
\* replaced version stay.)
OnlyACrashBlocks ==
    at = "apply" /\ left = {} => \A i \in Item : Valid(Merged(store, i))

\* A batch that recomputes catches up on what an earlier batch that crashed
\* after its audit rows left out.  Beyond what is audited it has policies only
\* for what a crash left merged without an audit row: that item has them even
\* if its approval is taken back.
RecomputeCatchesUp ==
    at = "publish" /\ applied \cap Executable # {} =>
        /\ audit \cap Executable \subseteq file[Policies]
        /\ file[Policies] \subseteq audit \cup left
        /\ projected = file[Policies]

\* The index was built from the revision it records, unless files were written
\* between the load and the hash of the process that built it.
IndexIsWhatItSays == ~index.raced => index.content = index.marker

\* A process serves the graph its index records, unless a write or another
\* index came after it looked: then index and model may be of different graphs.
ServesItsIndex ==
    \A p \in Reader : boot[p] = "up" /\ p \notin overtaken => model[p] = Revision

\* A session walks the graph it was started on, through any number of processes
\* and publications, as long as none that serves it was overtaken.  (One that
\* was overtaken pins the new revision and walks the old graph.)
SessionKeepsItsGraph ==
    session.open /\ session.sound => session.walked = session.from
=============================================================================
