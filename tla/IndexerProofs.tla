---------------------------- MODULE IndexerProofs ----------------------------
(***************************************************************************)
(* Type correctness of the indexer, and the two invariants that tie its    *)
(* facts and edges to the rows of its files, for every workspace.          *)
(***************************************************************************)
EXTENDS Indexer, TLAPS, WellFoundedInduction

\* the phases that may have files left to be marked not current
Marking == {"roots", "dependents", "structure", "refresh"}

Phase == Marking \cup {"idle", "scan", "hash", "parse", "failures", "delete", "link", "finish"}

RunType ==
    [pc : Phase, mode : {"workspace", "paths"}, force : BOOLEAN, paths : SUBSET Files,
     expand : BOOLEAN, scanned : [Files -> Nat], existing : [Files -> Row],
     hashes : [Files -> Nat], failures : SUBSET Files, todo : SUBSET Files,
     to_delete : SUBSET Files, snapshot : BOOLEAN, known : SUBSET Files,
     symbols : SUBSET Files, indexed : SUBSET Files, initial : SUBSET Files,
     changed : SUBSET Files, api : SUBSET Files, structure : SUBSET Files,
     fatal : SUBSET Files, queue : SUBSET Files, marked : SUBSET Files,
     local : SUBSET Files]

CountType == [edits : 0 .. MaxEdits, calls : 0 .. MaxCalls, breaks : 0 .. MaxBreaks]
StateType == [status : {"Idle", "Scanning", "Hashing", "Parsing", "Completed", "Failed"},
              active : BOOLEAN]
HistType == [edited : BOOLEAN, owed : SUBSET Files, done : BOOLEAN,
             last : {"workspace", "paths", "full"}]

\* the tables, and everything but them and the run
Tables == files \in [Files -> Row] /\ facts \in [Files -> Content] /\ edges \subseteq Edge

Outside ==
    /\ disk \in [Files -> [content : Content, mtime : Nat, readable : BOOLEAN]]
    /\ count \in CountType
    /\ state \in StateType
    /\ hist \in HistType

\* Nothing is written before the parse phase, and what is written up to the expansion was scanned.
Visited ==
    /\ run.pc \in {"scan", "hash"} => run.indexed = {}
    /\ run.pc \in {"parse", "failures"} =>
         run.indexed \subseteq Scanned /\ run.failures \subseteq Scanned
    /\ run.pc = "parse" => run.todo \subseteq Scanned

\* Up to the expansion the run's copy of a row it has not written is that row.
CopyCurrent ==
    run.pc \in {"hash", "parse", "failures"} =>
        \A f \in Files \ run.indexed : files[f] = run.existing[f]

\* The files of the link snapshot have live rows as long as the snapshot is used.
SnapshotLive ==
    run.pc \in Marking \cup {"parse", "failures"} => run.known \subseteq LiveFiles(files)

\* While the expansion marks files, the run's copy of a row it is going to mark is not deleted
\* unless the row itself is not live.
MarksKeepLive ==
    /\ run.pc \notin Marking => run.marked = {}
    /\ \A f \in run.marked : f \in LiveBefore \/ f \notin Scanned
    /\ run.pc \in {"roots", "dependents", "structure"} \/ run.marked # {} =>
         \A f \in Files \ Scanned : Live(files[f]) => ~ run.existing[f].deleted

IInv ==
    /\ Tables /\ Outside /\ run \in RunType
    /\ Visited /\ CopyCurrent /\ SnapshotLive /\ MarksKeepLive
    /\ NoFactsUnlessCurrent /\ NoImportOfDeleted

\* A set of files that is not empty has a first one: ranks are natural numbers.
LEMMA FirstInSet ==
    ASSUME NEW S \in SUBSET Files, S # {}
    PROVE  First(S) \in S
  <1> DEFINE ranks == {Rank[f] : f \in S}
             less  == OpToRel(<, Nat)
  <1>1. ranks \subseteq Nat /\ ranks # {}
    BY RankAssumption
  <1>2. \E m \in ranks : \A n \in ranks : ~ (<<n, m>> \in less)
    <2> HIDE DEF ranks, less
    <2>1. IsWellFoundedOn(less, Nat)
      BY NatLessThanWellFounded DEF less
    <2> QED
      BY <1>1, <2>1, WFMin
  <1>3. PICK m \in ranks : \A n \in ranks : ~ (<<n, m>> \in less)
    BY <1>2
  <1>4. \A n \in ranks : m <= n
    <2>1. ASSUME NEW n \in ranks PROVE m <= n
      <3>1. n \in Nat /\ m \in Nat
        BY <1>1
      <3>2. ~ (n < m)
        BY <1>3, <3>1 DEF OpToRel
      <3> QED
        BY <3>1, <3>2
    <2> QED
      BY <2>1
  <1>5. PICK f \in S : m = Rank[f]
    OBVIOUS
  <1>6. \A g \in S : Rank[f] <= Rank[g]
    BY <1>4, <1>5
  <1> QED
    BY <1>6 DEF First

-----------------------------------------------------------------------------
(* The helpers of the model *)

Empty == {"Absent", "NotCurrent", "Deleted"}

\* Linking a file gives edges of that file, and resolves imports to known files only.
LEMMA LinkedEdges ==
    ASSUME NEW f \in Files, NEW c \in Content, NEW known, NEW symbols
    PROVE  /\ link_file(f, c, known, symbols) \subseteq Edge
           /\ \A e \in link_file(f, c, known, symbols) :
                /\ e.from = f
                /\ e.kind = "import" /\ e.link = "resolved" => e.to \in known
  <1>1. ASSUME NEW g \in c.imports
        PROVE  /\ ImportLink(g, known) \in {"resolved", "known", "unknown"}
               /\ ImportLink(g, known) = "resolved" => g \in known
    BY DEF ImportLink
  <1>2. ASSUME NEW g \in c.calls PROVE CallLink(g, symbols) \in {"resolved", "known", "unknown"}
    BY DEF CallLink
  <1>3. c.imports \subseteq Files /\ c.calls \subseteq Files
    BY DEF Content
  <1>4. ASSUME NEW e \in link_file(f, c, known, symbols)
        PROVE  /\ e \in Edge /\ e.from = f
               /\ e.kind = "import" /\ e.link = "resolved" => e.to \in known
    <2>1. CASE \E g \in c.imports :
                 e = [from |-> f, kind |-> "import", to |-> g, link |-> ImportLink(g, known)]
      BY <1>1, <1>3, <2>1 DEF Edge
    <2>2. CASE \E g \in c.calls :
                 e = [from |-> f, kind |-> "call", to |-> g, link |-> CallLink(g, symbols)]
      BY <1>2, <1>3, <2>2 DEF Edge
    <2> QED
      BY <2>1, <2>2 DEF link_file
  <1> QED
    BY <1>4

\* The transaction of one file keeps the invariants of the tables if what it writes has them.
LEMMA WriteKeeps ==
    ASSUME Tables, NoFactsUnlessCurrent, NoImportOfDeleted,
           NEW f \in Files, NEW row \in Row, NEW content \in Content, NEW new \in SUBSET Edge,
           write_file_atomically(f, row, content, new),
           row.fresh \in Empty => content = NoContent /\ new = {},
           Live(files[f]) => Live(row),
           \A e \in new : /\ e.from = f
                          /\ e.kind = "import" /\ e.link = "resolved" => Live(files[e.to])
    PROVE  /\ Tables' /\ NoFactsUnlessCurrent' /\ NoImportOfDeleted'
           /\ \A g \in Files : Live(files[g]) => Live(files'[g])
           /\ \A g \in Files \ {f} : files'[g] = files[g]
  <1>1. /\ files' = [files EXCEPT ![f] = row]
        /\ facts' = [facts EXCEPT ![f] = content]
        /\ \A e \in edges' : e \in new \/ (e \in edges /\ e.from # f)
    BY DEF write_file_atomically, OtherEdges, EdgesFrom
  <1>2. Tables'
    BY <1>1 DEF Tables
  <1>3. \A g \in Files : files'[g] = IF g = f THEN row ELSE files[g]
    BY <1>1 DEF Tables
  <1>4. \A g \in Files : facts'[g] = IF g = f THEN content ELSE facts[g]
    BY <1>1 DEF Tables
  <1>5. NoFactsUnlessCurrent'
    BY <1>1, <1>3, <1>4 DEF NoFactsUnlessCurrent, EdgesFrom, Empty
  <1>6. \A g \in Files : Live(files[g]) => Live(files'[g])
    BY <1>3
  <1>7. NoImportOfDeleted'
    <2>1. \A e \in edges' : e.to \in Files
      BY <1>2 DEF Tables, Edge
    <2>2. \A e \in edges' : e.kind = "import" /\ e.link = "resolved" => Live(files[e.to])
      BY <1>1 DEF NoImportOfDeleted
    <2> QED
      BY <1>6, <2>1, <2>2 DEF NoImportOfDeleted
  <1> QED
    BY <1>2, <1>3, <1>5, <1>6, <1>7

\* A file without content has a content record.
LEMMA NoContentType == NoContent \in Content
  BY DEF NoContent, Content

\* The importers of a file are files.
LEMMA ImportersType == Tables => \A S : Importers(S, edges) \subseteq Files
  BY DEF Tables, Importers, Edge

\* What process_and_write_file stores fits the tables: a row that is not deleted, no facts and
\* no edges with a row that is not current, and otherwise edges of the file whose imports are live.
LEMMA ProcessedFile ==
    ASSUME IInv, run.pc \in {"parse", "failures", "refresh"}, NEW f \in Files
    PROVE  /\ ProcessedRow(f) \in Row /\ Live(ProcessedRow(f))
           /\ ProcessedRow(f).fresh \in Empty <=> ~ Parses(f)
           /\ ~ Parses(f) => ProcessedEdges(f) = {}
           /\ ProcessedEdges(f) \subseteq Edge
           /\ \A e \in ProcessedEdges(f) :
                /\ e.from = f
                /\ e.kind = "import" /\ e.link = "resolved" => Live(files[e.to])
  <1>1. /\ disk[f].content \in Content /\ run.scanned[f] \in Nat
        /\ run.hashes[f] \in Nat /\ run.existing[f] \in Row
    BY DEF IInv, Outside, RunType
  <1>2. PlannedHash(f) \in Nat
    BY <1>1 DEF PlannedHash, Row
  <1>3. disk[f].content.structure \in Nat /\ disk[f].content.api \in Nat
    BY <1>1 DEF Content
  <1>4. /\ ProcessedRow(f) \in Row /\ Live(ProcessedRow(f))
        /\ ProcessedRow(f).fresh \in Empty <=> ~ Parses(f)
    <2>1. CASE ~ Parses(f)
      BY <1>1, <1>2, <2>1 DEF ProcessedRow, FailedRow, Row, Freshness, Live, HasRow, Empty
    <2>2. CASE Parses(f)
      BY <1>1, <1>2, <1>3, <2>2 DEF ProcessedRow, Row, Freshness, Live, HasRow, Empty
    <2> QED
      BY <2>1, <2>2
  <1>5. run.known \subseteq LiveFiles(files)
    BY DEF IInv, SnapshotLive, Marking
  <1>6. \A g \in LiveFiles(files) : Live(files[g])
    BY DEF LiveFiles
  <1>7. CASE ~ Parses(f)
    BY <1>4, <1>7 DEF ProcessedEdges
  <1>8. CASE Parses(f) /\ should_reuse_existing_edges(f)
    BY <1>4, <1>8 DEF ProcessedEdges, EdgesFrom, IInv, Tables, NoImportOfDeleted
  <1>9. CASE Parses(f) /\ ~ should_reuse_existing_edges(f) /\ run.snapshot
    <2>1. ProcessedEdges(f) = link_file(f, disk[f].content, run.known, run.symbols)
      BY <1>9 DEF ProcessedEdges
    <2> QED
      BY <1>1, <1>4, <1>5, <1>6, <1>9, <2>1, LinkedEdges
  <1>10. CASE Parses(f) /\ ~ should_reuse_existing_edges(f) /\ ~ run.snapshot
    <2>1. ProcessedEdges(f) = link_file(f, disk[f].content, LiveFiles(files), Symbols)
      BY <1>10 DEF ProcessedEdges
    <2> QED
      BY <1>1, <1>4, <1>6, <1>10, <2>1, LinkedEdges
  <1> QED
    BY <1>7, <1>8, <1>9, <1>10

\* What the run keeps over the transaction of f: the phase, the scan, the snapshot and the copy.
SameRun(f) ==
    /\ run' \in RunType
    /\ run'.pc = run.pc /\ run'.scanned = run.scanned /\ run'.existing = run.existing
    /\ run'.known = run.known /\ run'.failures = run.failures /\ run'.marked = run.marked
    /\ run'.indexed = run.indexed \cup {f} /\ run'.todo \subseteq run.todo

\* The transaction of one file keeps the invariant if the tables and the run keep theirs.
LEMMA SameRunKeeps ==
    ASSUME IInv, run.pc \in {"parse", "failures", "refresh"}, run.marked = {},
           NEW f \in Files, run.pc \in {"parse", "failures"} => f \in Scanned,
           SameRun(f), Outside',
           Tables' /\ NoFactsUnlessCurrent' /\ NoImportOfDeleted',
           \A g \in Files : Live(files[g]) => Live(files'[g]),
           \A g \in Files \ {f} : files'[g] = files[g]
    PROVE  IInv'
  <1>1. Scanned' = Scanned
    BY DEF SameRun, Scanned
  <1>2. Visited'
    BY <1>1 DEF IInv, Visited, SameRun
  <1>3. CopyCurrent'
    BY DEF IInv, CopyCurrent, SameRun
  <1>4. SnapshotLive'
    BY DEF IInv, SnapshotLive, SameRun, LiveFiles
  <1>5. MarksKeepLive'
    BY DEF MarksKeepLive, SameRun
  <1> QED
    BY <1>2, <1>3, <1>4, <1>5 DEF IInv, SameRun

\* process_and_write_file keeps the invariant.
LEMMA ProcessKeeps ==
    ASSUME IInv, run.pc \in {"parse", "failures", "refresh"}, run.marked = {},
           NEW f \in Files, run.pc \in {"parse", "failures"} => f \in Scanned,
           process_and_write_file(f)
    PROVE  IInv'
  <1> DEFINE content == IF ~ Parses(f) THEN NoContent ELSE disk[f].content
  <1>1. write_file_atomically(f, ProcessedRow(f), content, ProcessedEdges(f))
    BY DEF process_and_write_file
  <1>2. content \in Content
    BY NoContentType DEF IInv, Outside
  <1>3. ProcessedRow(f).fresh \in Empty => content = NoContent /\ ProcessedEdges(f) = {}
    BY ProcessedFile
  <1>4. /\ Tables' /\ NoFactsUnlessCurrent' /\ NoImportOfDeleted'
        /\ \A g \in Files : Live(files[g]) => Live(files'[g])
        /\ \A g \in Files \ {f} : files'[g] = files[g]
    <2> HIDE DEF content
    <2> QED
      BY <1>1, <1>2, <1>3, ProcessedFile, WriteKeeps DEF IInv
  <1>5. SameRun(f)
    <2> DEFINE delta == confirmed_delta(f)
               api == IF delta.api THEN run.api \cup {f} ELSE run.api
               structure == IF delta.structure THEN run.structure \cup {f} ELSE run.structure
               fatal == IF ~ Parses(f) THEN run.fatal \cup {f} ELSE run.fatal
    <2>1. run' = [run EXCEPT !.indexed = @ \cup {f}, !.changed = @ \cup {f}, !.api = api,
                             !.structure = structure, !.fatal = fatal,
                             !.todo = @ \ {f}, !.queue = @ \ {f}]
      BY DEF process_and_write_file, IInv, RunType
    <2>2. api \in SUBSET Files /\ structure \in SUBSET Files /\ fatal \in SUBSET Files
      BY DEF IInv, RunType
    <2> HIDE DEF api, structure, fatal
    <2> QED
      BY <2>1, <2>2 DEF IInv, RunType, SameRun
  <1>6. Outside'
    <2>1. hist' \in HistType
      BY ImportersType DEF process_and_write_file, Owe, IInv, Outside, HistType
    <2> QED
      BY <2>1 DEF process_and_write_file, IInv, Outside
  <1> QED
    BY <1>4, <1>5, <1>6, SameRunKeeps

\* mark_hash_read_failure keeps the invariant.
LEMMA FailureKeeps ==
    ASSUME IInv, run.pc \in {"parse", "failures", "refresh"}, run.marked = {},
           NEW f \in Files, run.pc \in {"parse", "failures"} => f \in Scanned,
           mark_hash_read_failure(f)
    PROVE  IInv'
  <1> DEFINE row == FailedRow(run.existing[f].hash, run.scanned[f])
  <1>1. write_file_atomically(f, row, NoContent, {})
    BY DEF mark_hash_read_failure
  <1>2. row \in Row /\ Live(row)
    <2>1. run.existing[f].hash \in Nat /\ run.scanned[f] \in Nat
      BY DEF IInv, RunType, Row
    <2> QED
      BY <2>1 DEF FailedRow, Row, Freshness, Live, HasRow
  <1>3. /\ Tables' /\ NoFactsUnlessCurrent' /\ NoImportOfDeleted'
        /\ \A g \in Files : Live(files[g]) => Live(files'[g])
        /\ \A g \in Files \ {f} : files'[g] = files[g]
    <2> HIDE DEF row
    <2> QED
      BY <1>1, <1>2, NoContentType, WriteKeeps DEF IInv
  <1>4. SameRun(f)
    BY DEF mark_hash_read_failure, IInv, RunType, SameRun
  <1>5. Outside'
    <2>1. hist' \in HistType
      BY ImportersType DEF mark_hash_read_failure, Owe, IInv, Outside, HistType
    <2> QED
      BY <2>1 DEF mark_hash_read_failure, IInv, Outside
  <1> QED
    BY <1>3, <1>4, <1>5, SameRunKeeps

-----------------------------------------------------------------------------
(* The inductive invariant *)

\* The locals of no run have the types of locals.
LEMMA NoRunType == NoRun \in RunType
  BY DEF NoRun, RunType, Phase, Marking, NoRow, Row, Freshness

\* An empty database and a freshly indexed one satisfy the invariant.
LEMMA InitInvariant == Init => IInv
  <1> SUFFICES ASSUME Init PROVE IInv
    OBVIOUS
  <1>1. run \in RunType /\ run.pc = "idle" /\ run.marked = {}
    <2>1. run = NoRun
      BY DEF Init
    <2>2. NoRun.pc = "idle" /\ NoRun.marked = {}
      BY DEF NoRun
    <2> QED
      BY <2>1, <2>2, NoRunType
  <1>2. Outside
    <2>1. disk \in [Files -> [content : Content, mtime : Nat, readable : BOOLEAN]]
      BY ContentAssumption, NoContentType DEF Init, Gone
    <2>2. count \in CountType
      BY BoundsAssumption DEF Init, CountType
    <2>3. state \in StateType
      <3>1. \/ state = [status |-> "Idle", active |-> FALSE]
            \/ state = [status |-> "Completed", active |-> FALSE]
        BY DEF Init
      <3>2. CASE state = [status |-> "Idle", active |-> FALSE]
        BY <3>2 DEF StateType
      <3>3. CASE state = [status |-> "Completed", active |-> FALSE]
        BY <3>3 DEF StateType
      <3> QED
        BY <3>1, <3>2, <3>3
    <2>4. hist \in HistType
      BY DEF Init, HistType
    <2> QED
      BY <2>1, <2>2, <2>3, <2>4 DEF Outside
  <1>3. Visited /\ CopyCurrent /\ SnapshotLive /\ MarksKeepLive
    BY <1>1 DEF Visited, CopyCurrent, SnapshotLive, MarksKeepLive, Marking
  <1>4. CASE files = [f \in Files |-> NoRow] /\ facts = [f \in Files |-> NoContent] /\ edges = {}
    <2>1. Tables /\ NoFactsUnlessCurrent /\ NoImportOfDeleted
      BY <1>4, NoContentType DEF Tables, NoRow, Row, Freshness, NoFactsUnlessCurrent,
         EdgesFrom, NoImportOfDeleted
    <2> QED
      BY <1>1, <1>2, <1>3, <2>1 DEF IInv
  <1>5. CASE /\ files = [f \in Files |-> FirstRow(Start[f])]
             /\ facts = Start
             /\ edges = UNION {link_file(f, Start[f], LiveFiles(files), Symbols) : f \in Files}
    <2>1. ASSUME NEW f \in Files
          PROVE  /\ files[f] \in Row
                 /\ files[f].fresh \in Empty => Start[f] = NoContent
      <3>1. Start[f] \in Content /\ (Start[f].text = 0 => Start[f] = NoContent)
        BY ContentAssumption
      <3>2. Start[f].text \in Nat /\ Start[f].structure \in Nat /\ Start[f].api \in Nat
        BY <3>1 DEF Content
      <3>3. files[f] = FirstRow(Start[f])
        BY <1>5
      <3>4. CASE Start[f].text = 0
        BY <3>1, <3>3, <3>4 DEF FirstRow, NoRow, Row, Freshness
      <3>5. CASE Start[f].text # 0
        BY <3>2, <3>3, <3>5 DEF FirstRow, Row, Freshness, Empty
      <3> QED
        BY <3>4, <3>5
    <2>2. ASSUME NEW e \in edges
          PROVE  /\ e \in Edge
                 /\ \E f \in Files : /\ e \in link_file(f, Start[f], LiveFiles(files), Symbols)
                                     /\ e.from = f
                 /\ e.kind = "import" /\ e.link = "resolved" => Live(files[e.to])
      <3>1. PICK f \in Files : e \in link_file(f, Start[f], LiveFiles(files), Symbols)
        BY <1>5
      <3>2. Start[f] \in Content
        BY ContentAssumption
      <3>3. e \in Edge /\ e.from = f
        BY <3>1, <3>2, LinkedEdges
      <3>4. e.kind = "import" /\ e.link = "resolved" => e.to \in LiveFiles(files)
        BY <3>1, <3>2, LinkedEdges
      <3> QED
        BY <3>1, <3>3, <3>4 DEF LiveFiles
    <2>3. Tables
      <3>1. files \in [Files -> Row]
        BY <1>5, <2>1
      <3>2. facts \in [Files -> Content]
        BY <1>5, ContentAssumption
      <3> QED
        BY <2>2, <3>1, <3>2 DEF Tables
    <2>4. NoFactsUnlessCurrent
      <3>1. ASSUME NEW f \in Files, files[f].fresh \in Empty
            PROVE  facts[f] = NoContent /\ EdgesFrom(f) = {}
        <4>1. Start[f] = NoContent
          BY <2>1, <3>1
        <4>2. link_file(f, Start[f], LiveFiles(files), Symbols) = {}
          BY <4>1 DEF link_file, NoContent
        <4>3. EdgesFrom(f) = {}
          BY <2>2, <4>2 DEF EdgesFrom
        <4> QED
          BY <1>5, <4>1, <4>3
      <3> QED
        BY <3>1 DEF NoFactsUnlessCurrent, Empty
    <2>5. NoImportOfDeleted
      BY <2>2 DEF NoImportOfDeleted
    <2> QED
      BY <1>1, <1>2, <1>3, <2>3, <2>4, <2>5 DEF IInv
  <1> QED
    BY <1>4, <1>5 DEF Init

\* The tables stay as they are, and the run moves on in a phase that needs no more of them.
LEMMA TablesUnchanged ==
    ASSUME IInv, UNCHANGED db, Outside', run' \in RunType,
           Visited', CopyCurrent', SnapshotLive', MarksKeepLive'
    PROVE  IInv'
  <1>1. files' = files /\ facts' = facts /\ edges' = edges
    BY DEF db
  <1>2. Tables' /\ NoFactsUnlessCurrent' /\ NoImportOfDeleted'
    BY <1>1 DEF IInv, Tables, NoFactsUnlessCurrent, NoImportOfDeleted, EdgesFrom
  <1> QED
    BY <1>2 DEF IInv

\* A phase that marks nothing is left with nothing to mark.
LEMMA NothingMarked ==
    ASSUME run'.pc \notin Marking, run'.marked = {}
    PROVE  MarksKeepLive'
  BY DEF MarksKeepLive, Marking

\* A pass of the expansion keeps the invariant if what it is going to mark had a live row when
\* the run began or was not scanned.
LEMMA PassKeeps ==
    ASSUME IInv, UNCHANGED <<disk, count, db, state, hist>>,
           run.pc \in {"failures", "roots", "dependents", "structure"},
           run' \in RunType, run'.pc \in Marking,
           run'.scanned = run.scanned, run'.existing = run.existing, run'.known = run.known,
           \A f \in run'.marked : f \in LiveBefore \/ f \notin Scanned
    PROVE  IInv'
  <1>1. files' = files /\ Scanned' = Scanned /\ LiveBefore' = LiveBefore
    BY DEF db, Scanned, LiveBefore
  <1>2. \A f \in Files \ Scanned : Live(files[f]) => ~ run.existing[f].deleted
    BY DEF IInv, Visited, CopyCurrent, MarksKeepLive, Live
  <1>3. Visited' /\ CopyCurrent'
    BY DEF Visited, CopyCurrent, Marking
  <1>4. SnapshotLive'
    BY <1>1 DEF IInv, SnapshotLive, Marking
  <1>5. MarksKeepLive'
    BY <1>1, <1>2 DEF MarksKeepLive
  <1>6. Outside'
    BY DEF IInv, Outside
  <1> QED
    BY <1>3, <1>4, <1>5, <1>6, TablesUnchanged

\* Marking a file not current keeps the invariant: its row is as live as it was.
LEMMA MarkKeeps == IInv /\ mark_not_current_without_refresh => IInv'
  <1> SUFFICES ASSUME IInv, mark_not_current_without_refresh PROVE IInv'
    OBVIOUS
  <1> DEFINE mark(f) == [run.existing[f] EXCEPT !.structure = 0, !.api = 0, !.fresh = "NotCurrent"]
  <1>1. PICK f \in run.marked :
          /\ write_file_atomically(f, mark(f), NoContent, {})
          /\ run' = [run EXCEPT !.marked = @ \ {f}]
          /\ hist' = [hist EXCEPT !.owed = @ \ {f}]
          /\ UNCHANGED <<disk, count, state>>
    BY DEF mark_not_current_without_refresh
  <1>2. f \in Files /\ run.existing[f] \in Row /\ run.pc \in Marking
    BY DEF IInv, RunType, MarksKeepLive
  <1>3. Live(files[f]) => ~ run.existing[f].deleted
    BY <1>2 DEF IInv, MarksKeepLive, LiveBefore, Live
  <1>4. mark(f) \in Row /\ mark(f).deleted = run.existing[f].deleted /\ HasRow(mark(f))
    BY <1>2 DEF Row, Freshness, HasRow
  <1> HIDE DEF mark
  <1>5. /\ Tables' /\ NoFactsUnlessCurrent' /\ NoImportOfDeleted'
        /\ \A g \in Files : Live(files[g]) => Live(files'[g])
        /\ \A g \in Files \ {f} : files'[g] = files[g]
    <2>1. Live(files[f]) => Live(mark(f))
      BY <1>3, <1>4 DEF Live
    <2> QED
      BY <1>1, <1>2, <1>4, <2>1, NoContentType, WriteKeeps DEF IInv
  <1>6. files'[f] = mark(f)
    BY <1>1, <1>2 DEF write_file_atomically, IInv, Tables
  <1>7. /\ run' \in RunType /\ run'.pc = run.pc /\ run'.known = run.known
        /\ run'.scanned = run.scanned /\ run'.existing = run.existing
        /\ run'.marked \subseteq run.marked
    BY <1>1 DEF IInv, RunType
  <1>8. Outside'
    BY <1>1 DEF IInv, Outside, HistType
  <1>9. Visited' /\ CopyCurrent'
    BY <1>2, <1>7 DEF Visited, CopyCurrent, Marking
  <1>10. SnapshotLive'
    BY <1>5, <1>7 DEF IInv, SnapshotLive, LiveFiles
  <1>11. MarksKeepLive'
    <2>1. Scanned' = Scanned /\ LiveBefore' = LiveBefore
      BY <1>7 DEF Scanned, LiveBefore
    <2>2. \A g \in Files \ Scanned : Live(files'[g]) => ~ run.existing[g].deleted
      BY <1>4, <1>5, <1>6 DEF IInv, MarksKeepLive, Live
    <2> QED
      BY <1>2, <1>7, <2>1, <2>2 DEF IInv, MarksKeepLive
  <1> QED
    BY <1>5, <1>7, <1>8, <1>9, <1>10, <1>11 DEF IInv

\* The passes of the invalidation expansion keep the invariant.
LEMMA ExpansionKeeps ==
    IInv /\ (\/ apply_resolution_scope_invalidation \/ InvalidateRoots
             \/ apply_dependent_invalidation \/ apply_structural_invalidation) => IInv'
  <1> SUFFICES ASSUME IInv,
                      \/ apply_resolution_scope_invalidation \/ InvalidateRoots
                      \/ apply_dependent_invalidation \/ apply_structural_invalidation
               PROVE  IInv'
    OBVIOUS
  <1>0. LiveBefore \subseteq Files /\ Scanned \subseteq Files
    BY DEF LiveBefore, Scanned
  <1>1. CASE apply_resolution_scope_invalidation
    <2>1. ScopeReach \subseteq LiveBefore
      BY DEF ScopeReach, Unvisited
    <2>2. /\ run' = [run EXCEPT !.pc = "roots", !.queue = ScopeReach \cap Scanned,
                                !.marked = ScopeReach \ Scanned]
          /\ run.pc = "failures" /\ UNCHANGED <<disk, count, db, state, hist>>
      BY <1>1 DEF apply_resolution_scope_invalidation
    <2>3. /\ run' \in RunType /\ run'.pc \in Marking
          /\ run'.scanned = run.scanned /\ run'.existing = run.existing
          /\ run'.known = run.known /\ run'.marked = ScopeReach \ Scanned
      BY <1>0, <2>1, <2>2 DEF IInv, RunType, Phase, Marking
    <2> QED
      BY <2>1, <2>2, <2>3, PassKeeps
  <1>2. CASE InvalidateRoots
    <2> DEFINE roots  == Unvisited(DependentRoots)
               queue  == run.queue \cup (roots \cap Scanned)
               marked == {f \in roots \ Scanned : HasRow(run.existing[f])}
    <2>1. roots \subseteq Files
      BY DEF IInv, RunType, DependentRoots, Unvisited
    <2>2. /\ run' = [run EXCEPT !.pc = "dependents", !.queue = queue, !.marked = marked]
          /\ run.pc = "roots" /\ UNCHANGED <<disk, count, db, state, hist>>
      BY <1>2 DEF InvalidateRoots, IInv, RunType
    <2>3. queue \subseteq Files /\ marked \subseteq Files \ Scanned
      BY <2>1 DEF IInv, RunType
    <2> HIDE DEF queue, marked
    <2>4. /\ run' \in RunType /\ run'.pc \in Marking
          /\ run'.scanned = run.scanned /\ run'.existing = run.existing
          /\ run'.known = run.known /\ run'.marked = marked
      BY <2>2, <2>3 DEF IInv, RunType, Phase, Marking
    <2> QED
      BY <2>2, <2>3, <2>4, PassKeeps
  <1>3. CASE apply_dependent_invalidation
    <2> DEFINE reached == Unvisited(Transitive({f \in DependentRoots : HasRow(run.existing[f])})
                                    \ DependentRoots)
               queued  == (reached \cap Scanned) \ run.queue
               queue   == run.queue \cup queued
               marked  == reached \ queued
    <2>1. reached \subseteq LiveBefore
      <3>1. \A S : Transitive(S) \subseteq LiveBefore
        BY DEF Transitive
      <3> QED
        BY <3>1 DEF Unvisited
    <2>2. /\ run' = [run EXCEPT !.pc = "structure", !.queue = queue, !.marked = marked]
          /\ run.pc = "dependents" /\ UNCHANGED <<disk, count, db, state, hist>>
      BY <1>3 DEF apply_dependent_invalidation, IInv, RunType
    <2> HIDE DEF reached
    <2>3. queue \subseteq Files /\ marked \subseteq LiveBefore
      BY <1>0, <2>1 DEF IInv, RunType
    <2> HIDE DEF queue, marked
    <2>4. /\ run' \in RunType /\ run'.pc \in Marking
          /\ run'.scanned = run.scanned /\ run'.existing = run.existing
          /\ run'.known = run.known /\ run'.marked = marked
      BY <1>0, <2>2, <2>3 DEF IInv, RunType, Phase, Marking
    <2> QED
      BY <2>2, <2>3, <2>4, PassKeeps
  <1>4. CASE apply_structural_invalidation
    <2> DEFINE near   == Unvisited((Importers(run.structure, edges) \cap LiveBefore) \ run.structure)
               queue  == (run.queue \cup (near \cap Scanned)) \ run.indexed
               marked == near \ Scanned
               local  == (near \cap Scanned) \ run.queue
    <2>1. near \subseteq LiveBefore
      BY DEF Unvisited
    <2>2. /\ run' = [run EXCEPT !.pc = "refresh", !.queue = queue, !.marked = marked, !.local = local]
          /\ run.pc = "structure" /\ UNCHANGED <<disk, count, db, state, hist>>
      BY <1>4 DEF apply_structural_invalidation, IInv, RunType
    <2> HIDE DEF near
    <2>3. queue \subseteq Files /\ local \subseteq Files /\ marked \subseteq LiveBefore
      BY <1>0, <2>1 DEF IInv, RunType
    <2> HIDE DEF queue, marked, local
    <2>4. /\ run' \in RunType /\ run'.pc \in Marking
          /\ run'.scanned = run.scanned /\ run'.existing = run.existing
          /\ run'.known = run.known /\ run'.marked = marked
      BY <1>0, <2>2, <2>3 DEF IInv, RunType, Phase, Marking
    <2> QED
      BY <2>2, <2>3, <2>4, PassKeeps
  <1> QED
    BY <1>1, <1>2, <1>3, <1>4

\* Marking a file deleted keeps the invariant: the imports resolved to it go with it.
LEMMA DeleteKeeps == IInv /\ Delete => IInv'
  <1> SUFFICES ASSUME IInv, Delete PROVE IInv'
    OBVIOUS
  <1> DEFINE f == First(run.todo)
             row == [run.existing[f] EXCEPT !.deleted = TRUE, !.fresh = "Deleted"]
  <1>1. f \in Files
    BY FirstInSet DEF Delete, IInv, RunType
  <1>2. /\ files' = [files EXCEPT ![f] = row]
        /\ facts' = [facts EXCEPT ![f] = NoContent]
        /\ edges' = {e \in OtherEdges(f) : ~ (e.kind = "import" /\ e.link = "resolved" /\ e.to = f)}
        /\ run' = [run EXCEPT !.todo = @ \ {f}]
        /\ hist' = [hist EXCEPT !.owed = Owe(f, Importers({f}, edges))]
        /\ run.pc = "delete" /\ UNCHANGED <<disk, count, state>>
    BY DEF Delete, mark_deleted_file
  <1>3. row \in Row
    <2>1. run.existing[f] \in Row
      BY <1>1 DEF IInv, RunType
    <2> QED
      BY <2>1 DEF Row, Freshness
  <1> HIDE DEF f, row
  <1>4. Tables' /\ NoFactsUnlessCurrent' /\ NoImportOfDeleted'
    <2>1. files' \in [Files -> Row] /\ facts' \in [Files -> Content]
      BY <1>1, <1>2, <1>3, NoContentType DEF IInv, Tables
    <2>2. facts'[f] = NoContent
      BY <1>1, <1>2 DEF IInv, Tables
    <2>3. \A g \in Files \ {f} : facts'[g] = facts[g] /\ files'[g] = files[g]
      BY <1>1, <1>2 DEF IInv, Tables
    <2>4. \A e \in edges' : /\ e \in edges /\ e.from # f /\ e.to \in Files
                            /\ e.kind = "import" /\ e.link = "resolved" => e.to # f
      BY <1>2 DEF OtherEdges, EdgesFrom, IInv, Tables, Edge
    <2>5. Tables'
      BY <2>1, <2>4 DEF IInv, Tables
    <2>6. NoFactsUnlessCurrent'
      BY <2>2, <2>3, <2>4 DEF IInv, NoFactsUnlessCurrent, EdgesFrom
    <2>7. NoImportOfDeleted'
      BY <2>3, <2>4 DEF IInv, NoImportOfDeleted
    <2> QED
      BY <2>5, <2>6, <2>7
  <1>5. run' \in RunType /\ run'.pc = "delete" /\ run'.marked = {}
    BY <1>2 DEF IInv, RunType, MarksKeepLive, Marking
  <1>6. Outside'
    <2>1. hist' \in HistType
      BY <1>2, ImportersType DEF Owe, IInv, Outside, HistType
    <2> QED
      BY <1>2, <2>1 DEF IInv, Outside
  <1>7. Visited' /\ CopyCurrent' /\ SnapshotLive' /\ MarksKeepLive'
    BY <1>5, NothingMarked DEF Visited, CopyCurrent, SnapshotLive, Marking
  <1> QED
    BY <1>4, <1>5, <1>6, <1>7 DEF IInv

\* Declaring the remaining current files retained keeps the invariant.
LEMMA RetainKeeps == IInv /\ refresh_unchanged_files => IInv'
  <1> SUFFICES ASSUME IInv, refresh_unchanged_files PROVE IInv'
    OBVIOUS
  <1> DEFINE kept(f) == /\ Live(files[f]) /\ f \notin run.indexed
                        /\ files[f].fresh \in {"RefreshedCurrent", "RetainedCurrent"}
             row(f) == IF kept(f) THEN [files[f] EXCEPT !.fresh = "RetainedCurrent"] ELSE files[f]
  <1>1. /\ files' = [f \in Files |-> row(f)]
        /\ run' = [run EXCEPT !.pc = "link"]
        /\ UNCHANGED <<disk, count, facts, edges, state, hist>>
    BY DEF refresh_unchanged_files
  <1>2. ASSUME NEW f \in Files
        PROVE  /\ row(f) \in Row
               /\ Live(files[f]) => Live(row(f))
               /\ row(f).fresh \in Empty => files[f].fresh \in Empty
    <2>1. files[f] \in Row
      BY DEF IInv, Tables
    <2>2. CASE kept(f)
      BY <2>1, <2>2 DEF Row, Freshness, Live, HasRow, Empty
    <2>3. CASE ~ kept(f)
      BY <2>1, <2>3
    <2> QED
      BY <2>2, <2>3
  <1> HIDE DEF row
  <1>3. Tables'
    BY <1>1, <1>2 DEF IInv, Tables
  <1>4. NoFactsUnlessCurrent'
    BY <1>1, <1>2 DEF IInv, NoFactsUnlessCurrent, EdgesFrom, Empty
  <1>5. NoImportOfDeleted'
    BY <1>1, <1>2 DEF IInv, NoImportOfDeleted, Tables, Edge
  <1>6. run' \in RunType /\ run'.pc = "link" /\ run'.marked = {}
    BY <1>1 DEF refresh_unchanged_files, IInv, RunType, Phase, MarksKeepLive, Marking
  <1>7. Outside'
    BY <1>1 DEF IInv, Outside
  <1>8. Visited' /\ CopyCurrent' /\ SnapshotLive' /\ MarksKeepLive'
    BY <1>6, NothingMarked DEF Visited, CopyCurrent, SnapshotLive, Marking
  <1> QED
    BY <1>3, <1>4, <1>5, <1>6, <1>7, <1>8 DEF IInv

\* The link pass keeps the invariant: it drops edges, or resolves imports to live rows.
LEMMA LinkKeeps == IInv /\ Link => IInv'
  <1> SUFFICES ASSUME IInv, Link PROVE IInv'
    OBVIOUS
  <1>1. /\ run' = [run EXCEPT !.pc = "finish"]
        /\ UNCHANGED <<disk, count, files, facts, state, hist>>
        /\ edges' \in {edges, relink_contract_changed_files, link_workspace}
    BY DEF Link
  <1>2. ASSUME NEW e \in edges
        PROVE  /\ Relinked(e) \in Edge /\ Relinked(e).from = e.from
               /\ Relinked(e).kind = "import" /\ Relinked(e).link = "resolved"
                    => Live(files[Relinked(e).to])
    <2>1. e \in Edge /\ (e.kind = "import" /\ e.link = "resolved" => Live(files[e.to]))
      BY DEF IInv, Tables, NoImportOfDeleted
    <2>2. CASE Relinked(e) = e
      BY <2>1, <2>2
    <2>3. CASE Relinked(e) # e
      <3>1. /\ Relinked(e) = [e EXCEPT !.link = "resolved"]
            /\ e.to \in (IF e.kind = "import" THEN LiveFiles(files) ELSE Symbols)
        BY <2>3 DEF Relinked
      <3>2. /\ Relinked(e) \in Edge /\ Relinked(e).from = e.from
            /\ Relinked(e).to = e.to /\ Relinked(e).kind = e.kind
        BY <2>1, <3>1 DEF Edge
      <3> QED
        BY <3>1, <3>2 DEF LiveFiles
    <2> QED
      BY <2>2, <2>3
  <1>3. ASSUME NEW e \in edges'
        PROVE  /\ e \in Edge /\ (\E d \in edges : d.from = e.from)
               /\ e.kind = "import" /\ e.link = "resolved" => Live(files[e.to])
    <2>1. e \in edges \/ \E d \in edges : e = Relinked(d)
      BY <1>1 DEF relink_contract_changed_files, link_workspace
    <2>2. CASE e \in edges
      BY <2>2 DEF IInv, Tables, NoImportOfDeleted
    <2>3. CASE \E d \in edges : e = Relinked(d)
      BY <1>2, <2>3
    <2> QED
      BY <2>1, <2>2, <2>3
  <1>4. Tables' /\ NoImportOfDeleted'
    BY <1>1, <1>3 DEF IInv, Tables, NoImportOfDeleted
  <1>5. NoFactsUnlessCurrent'
    BY <1>1, <1>3 DEF IInv, NoFactsUnlessCurrent, EdgesFrom
  <1>6. run' \in RunType /\ run'.pc = "finish" /\ run'.marked = {}
    BY <1>1 DEF Link, IInv, RunType, Phase, MarksKeepLive, Marking
  <1>7. Outside'
    BY <1>1 DEF IInv, Outside
  <1>8. Visited' /\ CopyCurrent' /\ SnapshotLive' /\ MarksKeepLive'
    BY <1>6, NothingMarked DEF Visited, CopyCurrent, SnapshotLive, Marking
  <1> QED
    BY <1>4, <1>5, <1>6, <1>7, <1>8 DEF IInv

\* Edits change the files on disk, and neither the tables nor the run.
LEMMA EnvironmentKeeps == IInv /\ Environment => IInv'
  <1> SUFFICES ASSUME IInv, Environment PROVE IInv'
    OBVIOUS
  <1>1. /\ Disturb
        /\ disk' \in [Files -> [content : Content, mtime : Nat, readable : BOOLEAN]]
    <2>1. PICK f \in Files : WriteFile(f) \/ RemoveFile(f) \/ ChangeMode(f)
      BY DEF Environment
    <2>2. count.edits \in Nat
      BY BoundsAssumption DEF IInv, Outside, CountType
    <2>3. CASE WriteFile(f)
      <3>1. PICK c \in Versions[f] :
              disk' = [disk EXCEPT ![f] = [content |-> c, mtime |-> count.edits + 2, readable |-> TRUE]]
        BY <2>3 DEF WriteFile
      <3>2. c \in Content
        BY ContentAssumption
      <3>3. [content |-> c, mtime |-> count.edits + 2, readable |-> TRUE]
              \in [content : Content, mtime : Nat, readable : BOOLEAN]
        BY <2>2, <3>2
      <3> QED
        BY <2>3, <3>1, <3>3 DEF WriteFile, IInv, Outside
    <2>4. CASE RemoveFile(f)
      <3>1. Gone \in [content : Content, mtime : Nat, readable : BOOLEAN]
        BY NoContentType DEF Gone
      <3> QED
        BY <2>4, <3>1 DEF RemoveFile, IInv, Outside
    <2>5. CASE ChangeMode(f)
      BY <2>5 DEF ChangeMode, IInv, Outside
    <2> QED
      BY <2>1, <2>3, <2>4, <2>5
  <1>2. count' \in CountType
    BY <1>1, BoundsAssumption DEF Disturb, IInv, Outside, CountType
  <1>3. UNCHANGED <<db, state, run>> /\ hist' = [hist EXCEPT !.edited = TRUE]
    BY <1>1 DEF Disturb
  <1>4. Outside'
    BY <1>1, <1>2, <1>3 DEF IInv, Outside, HistType
  <1>5. run' \in RunType /\ Visited' /\ CopyCurrent' /\ SnapshotLive' /\ MarksKeepLive'
    BY <1>3 DEF db, IInv, Visited, Scanned, CopyCurrent, SnapshotLive, LiveFiles,
       MarksKeepLive, LiveBefore
  <1> QED
    BY <1>3, <1>4, <1>5, TablesUnchanged

\* A run that begins, or ends in whatever way, leaves the tables and has written nothing yet.
LEMMA FreshRunKeeps ==
    ASSUME IInv, UNCHANGED db, Outside', run' \in RunType,
           run'.pc \in {"idle", "scan"}, run'.indexed = {}, run'.marked = {}
    PROVE  IInv'
  <1>1. Visited' /\ CopyCurrent' /\ SnapshotLive' /\ MarksKeepLive'
    BY NothingMarked DEF Visited, CopyCurrent, SnapshotLive, Marking
  <1> QED
    BY <1>1, TablesUnchanged

\* A call is counted within its bound.
LEMMA CalledCount == IInv /\ Called => count' \in CountType
  BY BoundsAssumption DEF Called, IInv, Outside, CountType

\* Calls of the indexer keep the invariant; invalidate_paths leaves its file as deleted as it was.
LEMMA RequestKeeps == IInv /\ Request => IInv'
  <1> SUFFICES ASSUME IInv, Request PROVE IInv'
    OBVIOUS
  <1>0. NoRun \in RunType /\ NoRun.indexed = {} /\ NoRun.marked = {}
    BY NoRunType DEF NoRun
  <1>1. ASSUME NEW force \in BOOLEAN, BeginWorkspace(force) PROVE IInv'
    <2>1. run' = [NoRun EXCEPT !.pc = "scan", !.force = force] /\ UNCHANGED <<disk, db>>
      BY <1>1 DEF BeginWorkspace
    <2>2. run' \in RunType /\ run'.pc = "scan" /\ run'.indexed = {} /\ run'.marked = {}
      BY <1>0, <2>1 DEF RunType, Phase
    <2>3. Outside'
      BY <1>1, CalledCount DEF BeginWorkspace, IInv, Outside, StateType, HistType
    <2> QED
      BY <2>1, <2>2, <2>3, FreshRunKeeps
  <1>2. ASSUME NEW f \in Requested, NEW expand \in BOOLEAN, BeginPaths({f}, expand) PROVE IInv'
    <2>1. /\ run' = [NoRun EXCEPT !.pc = "scan", !.mode = "paths", !.paths = {f}, !.expand = expand]
          /\ UNCHANGED <<disk, db, state>>
      BY <1>2 DEF BeginPaths
    <2>2. f \in Files
      BY ConfigAssumption
    <2>3. run' \in RunType /\ run'.pc = "scan" /\ run'.indexed = {} /\ run'.marked = {}
      BY <1>0, <2>1, <2>2 DEF RunType, Phase
    <2>4. Outside'
      BY <1>2, CalledCount DEF BeginPaths, IInv, Outside, HistType
    <2> QED
      BY <2>1, <2>3, <2>4, FreshRunKeeps
  <1>3. ASSUME NEW f \in Requested, invalidate_paths(f) PROVE IInv'
    <2> DEFINE row == [FailedRow(0, 0) EXCEPT !.deleted = files[f].deleted]
    <2>1. f \in Files
      BY ConfigAssumption
    <2>2. /\ write_file_atomically(f, row, NoContent, {})
          /\ UNCHANGED <<disk, state, run>> /\ run.pc = "idle"
          /\ hist' = [hist EXCEPT !.owed = @ \ {f}, !.done = FALSE]
      BY <1>3 DEF invalidate_paths, Called
    <2>3. row \in Row /\ (Live(files[f]) => Live(row))
      <3>1. files[f] \in Row
        BY <2>1 DEF IInv, Tables
      <3> QED
        BY <3>1 DEF FailedRow, Row, Freshness, Live, HasRow
    <2>4. Tables' /\ NoFactsUnlessCurrent' /\ NoImportOfDeleted'
      <3> HIDE DEF row
      <3> QED
        BY <2>1, <2>2, <2>3, NoContentType, WriteKeeps DEF IInv
    <2>5. Outside'
      BY <1>3, <2>2, CalledCount DEF invalidate_paths, IInv, Outside, HistType
    <2>6. run' \in RunType /\ Visited' /\ CopyCurrent' /\ SnapshotLive' /\ MarksKeepLive'
      BY <2>2, NothingMarked DEF IInv, Visited, CopyCurrent, SnapshotLive, MarksKeepLive, Marking
    <2> QED
      BY <2>4, <2>5, <2>6 DEF IInv
  <1> QED
    BY <1>1, <1>2, <1>3 DEF Request

\* The phases up to the parse phase keep the invariant: the snapshot is of the rows as they are.
LEMMA PlanningKeeps == IInv /\ (Scan \/ Hash) => IInv'
  <1> SUFFICES ASSUME IInv, Scan \/ Hash PROVE IInv'
    OBVIOUS
  <1>1. CASE Scan
    <2>1. /\ run' = [run EXCEPT !.pc = "hash", !.scanned = [f \in Files |-> disk[f].mtime],
                                !.existing = files]
          /\ run.pc = "scan" /\ UNCHANGED <<disk, count, db>>
      BY <1>1 DEF Scan
    <2>2. [f \in Files |-> disk[f].mtime] \in [Files -> Nat] /\ files \in [Files -> Row]
      BY DEF IInv, Outside, Tables
    <2>3. /\ run' \in RunType /\ run'.pc = "hash" /\ run'.existing = files
          /\ run'.indexed = run.indexed /\ run'.marked = {}
      BY <2>1, <2>2 DEF IInv, RunType, Phase, MarksKeepLive, Marking
    <2>4. Outside'
      <3>1. state' \in StateType
        BY <1>1 DEF Scan, SetStatus, IInv, Outside, StateType
      <3> QED
        BY <1>1, <2>1, <3>1 DEF Scan, IInv, Outside, HistType
    <2>5. Visited' /\ CopyCurrent' /\ SnapshotLive' /\ MarksKeepLive'
      BY <2>1, <2>3, NothingMarked DEF db, IInv, Visited, CopyCurrent, SnapshotLive, Marking
    <2> QED
      BY <2>1, <2>3, <2>4, <2>5, TablesUnchanged
  <1>2. CASE Hash
    <2> DEFINE hashed   == {f \in Scanned : should_hash(f) /\ CanRead(f)}
               to_index == IF run.mode = "workspace" /\ hashed = {} /\ ~ run.force
                           THEN build_metadata_only_dirty_set
                           ELSE build_dirty_set(hashed)
               snapshot == run.force \/ Cardinality(to_index) > 1
               hashes   == [f \in Files |-> IF f \in hashed THEN disk[f].content.text ELSE 0]
               failures == {f \in Scanned : ~ CanRead(f)}
               gone     == {f \in Files : Live(run.existing[f])} \ Scanned
               known    == IF snapshot THEN LiveFiles(run.existing) ELSE {}
               symbols  == IF snapshot THEN Symbols ELSE {}
    <2>1. /\ run' = [run EXCEPT !.pc = "parse", !.hashes = hashes, !.failures = failures,
                                !.todo = to_index, !.to_delete = gone, !.snapshot = snapshot,
                                !.known = known, !.symbols = symbols]
          /\ run.pc = "hash" /\ SetStatus("Parsing") /\ UNCHANGED <<disk, count, db, hist>>
      BY <1>2 DEF Hash
    <2>2. hashed \subseteq Scanned /\ to_index \subseteq Scanned /\ failures \subseteq Scanned
      BY DEF build_metadata_only_dirty_set, build_dirty_set
    <2>3. Scanned \subseteq Files
      BY DEF Scanned
    <2>4. hashes \in [Files -> Nat]
      <3>1. \A f \in Files : disk[f].content.text \in Nat
        BY DEF IInv, Outside, Content
      <3> QED
        BY <3>1
    <2>5. known \subseteq LiveFiles(run.existing) /\ symbols \subseteq Files /\ snapshot \in BOOLEAN
      BY DEF Symbols
    <2>6. LiveFiles(run.existing) \subseteq Files /\ gone \subseteq Files
      BY DEF LiveFiles
    <2>7. Outside'
      <3>1. state' \in StateType
        BY <2>1 DEF SetStatus, IInv, Outside, StateType
      <3> QED
        BY <2>1, <3>1 DEF IInv, Outside
    <2> HIDE DEF hashed, to_index, snapshot, hashes, failures, gone, known, symbols
    <2>8. /\ run' \in RunType /\ run'.pc = "parse" /\ run'.known = known
          /\ run'.scanned = run.scanned /\ run'.existing = run.existing
          /\ run'.indexed = run.indexed /\ run'.failures = failures /\ run'.todo = to_index
          /\ run'.marked = {}
      BY <2>1, <2>2, <2>3, <2>4, <2>5, <2>6 DEF IInv, RunType, Phase, MarksKeepLive, Marking
    <2>9. \A f \in Files : files[f] = run.existing[f]
      BY <2>1 DEF IInv, Visited, CopyCurrent
    <2>10. Visited'
      <3>1. Scanned' = Scanned
        BY <2>8 DEF Scanned
      <3> QED
        BY <2>1, <2>2, <2>8, <3>1 DEF IInv, Visited
    <2>11. CopyCurrent' /\ SnapshotLive' /\ MarksKeepLive'
      BY <2>1, <2>5, <2>8, <2>9, NothingMarked DEF db, CopyCurrent, SnapshotLive, LiveFiles, Marking
    <2> QED
      BY <2>1, <2>7, <2>8, <2>10, <2>11, TablesUnchanged
  <1> QED
    BY <1>1, <1>2

\* Writing the planned and the queued files one by one keeps the invariant.
LEMMA FilesKeep ==
    IInv /\ (ParseTouchedFailure \/ ParsePlanned \/ MarkFailures \/ Refresh) => IInv'
  <1> SUFFICES ASSUME IInv, ParseTouchedFailure \/ ParsePlanned \/ MarkFailures \/ Refresh
               PROVE  IInv'
    OBVIOUS
  <1>0. \A S : UnreadableRows(S) \in SUBSET Files /\ UnreadableRows(S) \subseteq run.failures
    BY DEF UnreadableRows, IInv, RunType
  <1>a. run.pc \in {"parse", "failures"} => run.marked = {}
    BY DEF IInv, MarksKeepLive, Marking
  <1>1. CASE ParseTouchedFailure
    <2>1. PICK f \in UnreadableRows(run.paths) : mark_hash_read_failure(f)
      BY <1>1 DEF ParseTouchedFailure
    <2>2. run.pc = "parse" /\ f \in Files /\ f \in Scanned
      BY <1>0, <1>1 DEF ParseTouchedFailure, IInv, Visited
    <2> QED
      BY <1>a, <2>1, <2>2, FailureKeeps
  <1>2. CASE ParsePlanned
    <2>1. First(run.todo) \in run.todo
      BY <1>2, FirstInSet DEF ParsePlanned, IInv, RunType
    <2>2. run.pc = "parse" /\ First(run.todo) \in Files /\ First(run.todo) \in Scanned
      BY <1>2, <2>1 DEF ParsePlanned, IInv, RunType, Visited
    <2> QED
      BY <1>a, <1>2, <2>2, ProcessKeeps DEF ParsePlanned
  <1>3. CASE MarkFailures
    <2> DEFINE f == First(UnreadableRows(Files))
    <2>1. f \in UnreadableRows(Files)
      BY <1>0, <1>3, FirstInSet DEF MarkFailures
    <2>2. run.pc = "failures" /\ f \in Files /\ f \in Scanned
      BY <1>0, <1>3, <2>1 DEF MarkFailures, IInv, Visited
    <2>3. mark_hash_read_failure(f)
      BY <1>3 DEF MarkFailures
    <2> QED
      BY <1>a, <2>2, <2>3, FailureKeeps
  <1>4. CASE Refresh
    <2>1. PICK f \in run.queue : \/ mark_hash_read_failure(f) \/ process_and_write_file(f)
                                 \/ /\ run' = [run EXCEPT !.queue = @ \ {f}]
                                    /\ UNCHANGED <<disk, count, db, state, hist>>
      BY <1>4 DEF Refresh
    <2>2. run.pc = "refresh" /\ run.marked = {} /\ f \in Files
      BY <1>4 DEF Refresh, IInv, RunType
    <2>3. CASE mark_hash_read_failure(f) \/ process_and_write_file(f)
      BY <2>2, <2>3, FailureKeeps, ProcessKeeps
    <2>4. CASE run' = [run EXCEPT !.queue = @ \ {f}] /\ UNCHANGED <<disk, count, db, state, hist>>
      <3>1. /\ run' \in RunType /\ run'.pc = "refresh" /\ run'.known = run.known
            /\ run'.marked = {}
        BY <2>2, <2>4 DEF IInv, RunType
      <3>2. Visited' /\ CopyCurrent' /\ SnapshotLive' /\ MarksKeepLive'
        BY <2>2, <2>4, <3>1 DEF db, IInv, Visited, CopyCurrent, SnapshotLive, LiveFiles,
           MarksKeepLive, Marking
      <3>3. Outside'
        BY <2>4 DEF IInv, Outside
      <3> QED
        BY <2>4, <3>1, <3>2, <3>3, TablesUnchanged
    <2> QED
      BY <2>1, <2>3, <2>4
  <1> QED
    BY <1>1, <1>2, <1>3, <1>4

\* The steps between the phases keep the invariant.
LEMMA PhasesKeep == IInv /\ (EndParse \/ EndRefresh \/ Finish) => IInv'
  <1> SUFFICES ASSUME IInv, EndParse \/ EndRefresh \/ Finish PROVE IInv'
    OBVIOUS
  <1>1. CASE EndParse
    <2>1. /\ run' = [run EXCEPT !.pc = "failures", !.initial = run.indexed]
          /\ run.pc = "parse" /\ UNCHANGED <<disk, count, db, state, hist>>
      BY <1>1 DEF EndParse
    <2>2. /\ run' \in RunType /\ run'.pc = "failures" /\ run'.known = run.known
          /\ run'.scanned = run.scanned /\ run'.existing = run.existing
          /\ run'.indexed = run.indexed /\ run'.failures = run.failures /\ run'.marked = {}
      BY <2>1 DEF IInv, RunType, Phase, MarksKeepLive, Marking
    <2>3. Outside'
      BY <2>1 DEF IInv, Outside
    <2>4. Visited' /\ CopyCurrent' /\ SnapshotLive' /\ MarksKeepLive'
      BY <2>1, <2>2, NothingMarked DEF db, IInv, Visited, Scanned, CopyCurrent, SnapshotLive,
         LiveFiles, Marking
    <2> QED
      BY <2>1, <2>2, <2>3, <2>4, TablesUnchanged
  <1>2. CASE EndRefresh
    <2>1. /\ run' = [run EXCEPT !.pc = "delete", !.todo = run.to_delete]
          /\ run.marked = {} /\ UNCHANGED <<disk, count, db, state, hist>>
      BY <1>2 DEF EndRefresh
    <2>2. run' \in RunType /\ run'.pc = "delete" /\ run'.marked = {}
      BY <2>1 DEF IInv, RunType, Phase
    <2>3. Outside'
      BY <2>1 DEF IInv, Outside
    <2>4. Visited' /\ CopyCurrent' /\ SnapshotLive' /\ MarksKeepLive'
      BY <2>2, NothingMarked DEF Visited, CopyCurrent, SnapshotLive, Marking
    <2> QED
      BY <2>1, <2>2, <2>3, <2>4, TablesUnchanged
  <1>3. CASE Finish
    <2>1. run' \in RunType /\ run'.pc = "idle" /\ run'.indexed = {} /\ run'.marked = {} /\ UNCHANGED db
      BY <1>3, NoRunType DEF Finish, NoRun
    <2>2. Outside'
      BY <1>3 DEF Finish, IInv, RunType, Outside, StateType, HistType
    <2> QED
      BY <2>1, <2>2, FreshRunKeeps
  <1> QED
    BY <1>1, <1>2, <1>3

\* A run that fails or crashes in any phase keeps the invariant.
LEMMA BrokenKeeps == IInv /\ (Fail \/ Crash) => IInv'
  <1> SUFFICES ASSUME IInv, Fail \/ Crash PROVE IInv'
    OBVIOUS
  <1>1. Broken /\ UNCHANGED <<disk, db, hist>>
    BY DEF Fail, Crash
  <1>2. run' \in RunType /\ run'.pc = "idle" /\ run'.indexed = {} /\ run'.marked = {}
    BY <1>1, NoRunType DEF Broken, NoRun
  <1>3. count' \in CountType
    BY <1>1, BoundsAssumption DEF Broken, IInv, Outside, CountType
  <1>4. state' \in StateType
    <2>1. state' = state \/ state' = [status |-> "Failed", active |-> FALSE]
      BY DEF Fail, Crash
    <2>2. CASE state' = state
      BY <2>2 DEF IInv, Outside
    <2>3. CASE state' = [status |-> "Failed", active |-> FALSE]
      BY <2>3 DEF StateType
    <2> QED
      BY <2>1, <2>2, <2>3
  <1>5. Outside'
    BY <1>1, <1>3, <1>4 DEF IInv, Outside
  <1> QED
    BY <1>1, <1>2, <1>5, FreshRunKeeps

\* Every step keeps the invariant.
LEMMA StepInvariant == IInv /\ [Next]_vars => IInv'
  <1> SUFFICES ASSUME IInv, [Next]_vars PROVE IInv'
    OBVIOUS
  <1>1. CASE Environment
    BY <1>1, EnvironmentKeeps
  <1>2. CASE Request
    BY <1>2, RequestKeeps
  <1>3. CASE Step
    BY <1>3, PlanningKeeps, FilesKeep, PhasesKeep, ExpansionKeeps, MarkKeeps, DeleteKeeps,
       RetainKeeps, LinkKeeps DEF Step
  <1>4. CASE Fail \/ Crash
    BY <1>4, BrokenKeeps
  <1>5. CASE UNCHANGED vars
    <2>1. UNCHANGED <<disk, count, state, hist, run>> /\ UNCHANGED db
      BY <1>5 DEF vars, db
    <2>2. Outside'
      BY <2>1 DEF IInv, Outside
    <2>3. run' \in RunType /\ Visited' /\ CopyCurrent' /\ SnapshotLive' /\ MarksKeepLive'
      BY <2>1 DEF db, IInv, Visited, Scanned, CopyCurrent, SnapshotLive, LiveFiles,
         MarksKeepLive, LiveBefore
    <2> QED
      BY <2>1, <2>2, <2>3, TablesUnchanged
  <1> QED
    BY <1>1, <1>2, <1>3, <1>4, <1>5 DEF Next

\* The invariant holds in every state of every behaviour.
LEMMA Invariant == Spec => []IInv
  BY InitInvariant, StepInvariant, PTL DEF Spec

-----------------------------------------------------------------------------
\* The tables and the locals of a run always have their types (TypeOK), for every workspace,
\* every set of contents and any number of edits, calls and interrupted runs.
THEOREM TypeCorrect == Spec => []TypeOK
  <1>1. IInv => TypeOK
    BY DEF IInv, Tables, Outside, RunType, TypeOK, CountType, StateType, HistType
  <1> QED
    BY <1>1, Invariant, PTL

\* A file that is deleted, not current or unknown never has facts or edges of its own, at any
\* moment of any run and after any interruption (write_file_atomically, mark_deleted_file).
THEOREM FactsAreOfCurrentFiles == Spec => []NoFactsUnlessCurrent
  <1>1. IInv => NoFactsUnlessCurrent
    BY DEF IInv
  <1> QED
    BY <1>1, Invariant, PTL

\* No import is ever resolved to a file without a live row, although the rows a run links with
\* may be a copy made before its first write (LinkWorkspaceSnapshot).
THEOREM ImportsAreOfLiveFiles == Spec => []NoImportOfDeleted
  <1>1. IInv => NoImportOfDeleted
    BY DEF IInv
  <1> QED
    BY <1>1, Invariant, PTL
=============================================================================
