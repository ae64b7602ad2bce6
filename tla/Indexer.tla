------------------------------ MODULE Indexer ------------------------------
(***************************************************************************)
(* The incremental indexer of the Rust engine (crate dh-indexer) over its  *)
(* SQLite tables (crate dh-storage): the files of a workspace on disk, the *)
(* rows, facts and graph edges kept for them, and one indexing run at a    *)
(* time that goes through its phases while the files may be edited.        *)
(*                                                                         *)
(* A file's content is a record: its text stands for the blake3 hash,      *)
(* structure and api for the two fingerprints, imports and calls for the   *)
(* files it imports and whose exported function it calls, exports says     *)
(* whether it defines such a function, and parse what the parser makes of  *)
(* it.  The number 0 is the empty hash, and the fingerprint None.          *)
(***************************************************************************)
EXTENDS Naturals, FiniteSets

CONSTANTS
    Files,      \* the workspace-relative paths
    Rank,       \* their order: planned files are sorted by rel_path
    Config,     \* the paths is_resolution_scope_path accepts
    Versions,   \* the contents each file may have
    Start,      \* the workspace before the first run; NoContent for no file
    Requested,  \* the paths that path-scoped calls name
    MaxEdits,   \* how often the files on disk change
    MaxCalls,   \* how often the indexer is called
    MaxBreaks   \* how many runs crash or fail

ASSUME RankAssumption ==
    /\ Rank \in [Files -> Nat]
    /\ \A f, g \in Files : Rank[f] = Rank[g] => f = g

ASSUME ConfigAssumption == Config \subseteq Files /\ Requested \subseteq Files

Content == [text : Nat, structure : Nat, api : Nat, imports : SUBSET Files,
            calls : SUBSET Files, exports : BOOLEAN, parse : {"ok", "errors", "fails"}]

NoContent == [text |-> 0, structure |-> 0, api |-> 0, imports |-> {},
              calls |-> {}, exports |-> FALSE, parse |-> "ok"]

ASSUME ContentAssumption ==
    /\ Versions \in [Files -> SUBSET Content]
    /\ Start \in [Files -> Content]
    /\ \A f \in Files : Start[f].text = 0 => Start[f] = NoContent

ASSUME BoundsAssumption == {MaxEdits, MaxCalls, MaxBreaks} \subseteq Nat

VARIABLES
    disk,       \* the file system
    count,      \* edits, calls and breaks so far
    files,      \* the table files
    facts,      \* the symbols and chunks stored for each file
    edges,      \* the table graph_edges
    state,      \* the row of index_state
    run,        \* the locals of the run under way
    hist        \* history, read by the properties only

db == <<files, facts, edges>>
vars == <<disk, count, files, facts, edges, state, run, hist>>

Gone == [content |-> NoContent, mtime |-> 0, readable |-> FALSE]

NoRow == [hash |-> 0, mtime |-> 0, structure |-> 0, api |-> 0,
          deleted |-> FALSE, fresh |-> "Absent"]

HasRow(row) == row.fresh # "Absent"
Live(row) == HasRow(row) /\ ~ row.deleted

OnDisk(f) == disk[f].content.text # 0
CanRead(f) == OnDisk(f) /\ disk[f].readable

First(S) == CHOOSE f \in S : \A g \in S : Rank[f] <= Rank[g]

(***************************************************************************)
(* The edges stored for a file.  An import is resolved when the target is  *)
(* on disk and has a live row; without the row the path is known and a     *)
(* later link pass can still resolve it; with no file on disk it cannot.   *)
(***************************************************************************)
Edge == [from : Files, kind : {"import", "call"}, to : Files,
         link : {"resolved", "known", "unknown"}]

EdgesFrom(f) == {e \in edges : e.from = f}

Importers(S, E) ==
    {e.from : e \in {x \in E : x.kind = "import" /\ x.link = "resolved" /\ x.to \in S}}

\* the call edges that end in a symbol stored for f
SymbolEdges(f) ==
    {e \in edges : e.kind = "call" /\ e.link = "resolved" /\ e.to = f /\ facts[f].exports}

\* what is left when the edges of f and of its symbols go
OtherEdges(f) == edges \ (EdgesFrom(f) \cup SymbolEdges(f))

LiveFiles(rows) == {f \in Files : Live(rows[f])}
Symbols == {f \in Files : facts[f].exports}

ImportLink(g, known) ==
    IF ~ OnDisk(g) THEN "unknown" ELSE IF g \in known THEN "resolved" ELSE "known"

CallLink(g, symbols) == IF g \in symbols THEN "resolved" ELSE "known"

link_file(f, c, known, symbols) ==
    {[from |-> f, kind |-> "import", to |-> g, link |-> ImportLink(g, known)] : g \in c.imports}
    \cup {[from |-> f, kind |-> "call", to |-> g, link |-> CallLink(g, symbols)] : g \in c.calls}

(***************************************************************************)
(* The run.                                                                *)
(***************************************************************************)
NoRun ==
    [pc |-> "idle", mode |-> "workspace", force |-> FALSE, paths |-> {}, expand |-> FALSE,
     scanned |-> [f \in Files |-> 0], existing |-> [f \in Files |-> NoRow],
     hashes |-> [f \in Files |-> 0], failures |-> {}, todo |-> {}, to_delete |-> {},
     snapshot |-> FALSE, known |-> {}, symbols |-> {},
     indexed |-> {}, initial |-> {}, changed |-> {}, api |-> {}, structure |-> {},
     fatal |-> {}, queue |-> {}, marked |-> {},
     local |-> {}]      \* history: the files queued by the structural pass only

Scanned == {f \in Files : run.scanned[f] # 0}

\* the rows and edges a first run leaves when nothing disturbs it
FirstRow(c) ==
    IF c.text = 0 THEN NoRow
    ELSE [hash |-> c.text, mtime |-> 1, structure |-> c.structure, api |-> c.api,
          deleted |-> FALSE, fresh |-> "RefreshedCurrent"]

Init ==
    /\ disk = [f \in Files |->
                 IF Start[f] = NoContent
                 THEN Gone
                 ELSE [content |-> Start[f], mtime |-> 1, readable |-> TRUE]]
    /\ count = [edits |-> 0, calls |-> 0, breaks |-> 0]
    /\ \/ /\ files = [f \in Files |-> NoRow]
          /\ facts = [f \in Files |-> NoContent]
          /\ edges = {}
          /\ state = [status |-> "Idle", active |-> FALSE]
       \/ /\ files = [f \in Files |-> FirstRow(Start[f])]
          /\ facts = Start
          /\ edges = UNION {link_file(f, Start[f], LiveFiles(files), Symbols) : f \in Files}
          /\ state = [status |-> "Completed", active |-> FALSE]
    /\ run = NoRun
    /\ hist = [edited |-> FALSE, owed |-> {}, done |-> FALSE, last |-> "workspace"]

(***************************************************************************)
(* The environment: whoever edits the workspace, at any moment.  The       *)
(* phases that are missing from Disturb do not look at the disk, so an     *)
(* edit in one of them is the same as one after it.                        *)
(***************************************************************************)
Disturb ==
    /\ count.edits < MaxEdits
    /\ run.pc \in {"idle", "hash", "parse", "refresh"}
    /\ count' = [count EXCEPT !.edits = @ + 1]
    /\ hist' = [hist EXCEPT !.edited = TRUE]
    /\ UNCHANGED <<db, state, run>>

WriteFile(f) ==
    /\ \E c \in Versions[f] \ {disk[f].content} :
           disk' = [disk EXCEPT ![f] = [content |-> c, mtime |-> count.edits + 2, readable |-> TRUE]]
    /\ Disturb

RemoveFile(f) ==
    /\ OnDisk(f)
    /\ disk' = [disk EXCEPT ![f] = Gone]
    /\ Disturb

ChangeMode(f) ==
    /\ OnDisk(f)
    /\ disk' = [disk EXCEPT ![f].readable = ~ @]
    /\ Disturb

(***************************************************************************)
(* Starting a run.  index_workspace records itself in index_state before   *)
(* it scans; index_paths touches index_state only when it has finished.    *)
(***************************************************************************)
Called ==
    /\ run.pc = "idle" /\ count.calls < MaxCalls
    /\ count' = [count EXCEPT !.calls = @ + 1]

BeginWorkspace(force) ==
    /\ Called
    /\ run' = [NoRun EXCEPT !.pc = "scan", !.force = force]
    /\ state' = [status |-> "Scanning", active |-> TRUE]
    /\ hist' = [hist EXCEPT !.done = FALSE]
    /\ UNCHANGED <<disk, db>>

BeginPaths(paths, expand) ==
    /\ Called
    /\ run' = [NoRun EXCEPT !.pc = "scan", !.mode = "paths", !.paths = paths, !.expand = expand]
    /\ hist' = [hist EXCEPT !.done = FALSE]
    /\ UNCHANGED <<disk, db, state>>

SetStatus(s) ==
    state' = IF run.mode = "workspace" THEN [state EXCEPT !.status = s] ELSE state

Scan ==
    /\ run.pc = "scan"
    /\ run' = [run EXCEPT !.pc = "hash",
                          !.scanned = [f \in Files |-> disk[f].mtime],
                          !.existing = files]
    /\ SetStatus("Hashing")
    /\ hist' = [hist EXCEPT !.edited = FALSE]
    /\ UNCHANGED <<disk, count, db>>

(***************************************************************************)
(* Hashing and planning.  A candidate is read when its row cannot vouch    *)
(* for it; any other is only opened.                                       *)
(***************************************************************************)
MetadataChangedIgnoringMtime(f) ==
    LET row == run.existing[f]
    IN  row.deleted \/ row.hash = 0

MetadataChanged(f) ==
    LET row == run.existing[f]
    IN  row.deleted \/ row.hash = 0 \/ row.mtime # run.scanned[f]

should_hash(f) ==
    run.force \/ f \in run.paths \/ ~ HasRow(run.existing[f]) \/ MetadataChanged(f)

plan_candidate_ignoring_force(f, hash) ==
    LET row == run.existing[f]
    IN  \/ ~ HasRow(row)
        \/ row.deleted
        \/ row.hash # hash
        \/ f \in run.paths

plan_candidate(f, hash) ==
    LET row == run.existing[f]
    IN  \/ run.force
        \/ ~ HasRow(row)
        \/ row.deleted
        \/ row.hash # hash
        \/ f \in run.paths

build_dirty_set(hashed) == {f \in hashed : plan_candidate(f, disk[f].content.text)}

build_metadata_only_dirty_set ==
    {f \in Scanned : HasRow(run.existing[f]) /\ MetadataChanged(f)}

Hash ==
    /\ run.pc = "hash"
    /\ LET hashed   == {f \in Scanned : should_hash(f) /\ CanRead(f)}
           to_index == IF run.mode = "workspace" /\ hashed = {} /\ ~ run.force
                       THEN build_metadata_only_dirty_set
                       ELSE build_dirty_set(hashed)
           snapshot == run.force \/ Cardinality(to_index) > 1
       IN  run' = [run EXCEPT
                     !.pc = "parse",
                     !.hashes = [f \in Files |-> IF f \in hashed THEN disk[f].content.text ELSE 0],
                     !.failures = {f \in Scanned : ~ CanRead(f)},
                     !.todo = to_index,
                     !.to_delete = {f \in Files : Live(run.existing[f])} \ Scanned,
                     !.snapshot = snapshot,
                     !.known = IF snapshot THEN LiveFiles(run.existing) ELSE {},
                     !.symbols = IF snapshot THEN Symbols ELSE {}]
    /\ SetStatus("Parsing")
    /\ UNCHANGED <<disk, count, db, hist>>

(***************************************************************************)
(* Writing one file, in one transaction.  The row keeps the hash computed  *)
(* earlier and the scan's mtime; the facts are those of the content read   *)
(* now.  A file whose fingerprints are those of its row keeps the edges    *)
(* that are stored for it.                                                 *)
(***************************************************************************)
PlannedHash(f) == IF run.hashes[f] # 0 THEN run.hashes[f] ELSE run.existing[f].hash

Parses(f) == CanRead(f) /\ disk[f].content.parse # "fails"

FailedRowWithParseStatus(hash, mtime) ==
    [hash |-> hash, mtime |-> mtime, structure |-> 0, api |-> 0,
     deleted |-> FALSE, fresh |-> "Failed"]

FailedRow(hash, mtime) ==
    [hash |-> hash, mtime |-> mtime, structure |-> 0, api |-> 0,
     deleted |-> FALSE, fresh |-> "NotCurrent"]

ProcessedRow(f) ==
    LET c == disk[f].content
    IN  IF ~ Parses(f)
        THEN FailedRow(PlannedHash(f), run.scanned[f])
        ELSE [hash |-> PlannedHash(f), mtime |-> run.scanned[f],
              structure |-> c.structure, api |-> c.api, deleted |-> FALSE,
              fresh |-> IF c.parse = "errors" THEN "DegradedPartial" ELSE "RefreshedCurrent"]

confirmed_delta(f) ==
    LET before == run.existing[f]
        after  == ProcessedRow(f)
        known  == HasRow(before) /\ Parses(f)
    IN  [structure |-> known /\ before.structure # after.structure,
         api       |-> known /\ before.api # after.api]

should_reuse_existing_edges(f) ==
    /\ HasRow(run.existing[f])
    /\ ProcessedRow(f).fresh = "RefreshedCurrent"
    /\ ~ confirmed_delta(f).api
    /\ ~ confirmed_delta(f).structure
    /\ f \notin Config

ProcessedEdges(f) ==
    IF ~ Parses(f) THEN {}
    ELSE IF should_reuse_existing_edges(f) THEN EdgesFrom(f)
    ELSE IF run.snapshot THEN link_file(f, disk[f].content, run.known, run.symbols)
    ELSE link_file(f, disk[f].content, LiveFiles(files), Symbols)

write_file_keeping_facts(f, row, content, newEdges) ==
    /\ files' = [files EXCEPT ![f] = row]
    /\ facts' = IF content = NoContent THEN facts ELSE [facts EXCEPT ![f] = content]
    /\ edges' = OtherEdges(f) \cup newEdges

\* the transaction: the old facts and edges of f go, the new ones come
write_file_atomically(f, row, content, newEdges) ==
    /\ files' = [files EXCEPT ![f] = row]
    /\ facts' = [facts EXCEPT ![f] = content]
    /\ edges' = OtherEdges(f) \cup newEdges

\* history: f is up to date, and the importers in S that this run has not visited are not,
\* unless f is visited only because the structure of a file it imports has changed
Owe(f, S) == (hist.owed \cup (IF f \in run.local THEN {} ELSE S \ run.indexed)) \ {f}

process_and_write_file(f) ==
    LET delta == confirmed_delta(f)
        fatal == ~ Parses(f)
    IN  /\ write_file_atomically(f, ProcessedRow(f),
                                 IF fatal THEN NoContent ELSE disk[f].content, ProcessedEdges(f))
        /\ run' = [run EXCEPT !.indexed = @ \cup {f}, !.changed = @ \cup {f},
                              !.api = IF delta.api THEN @ \cup {f} ELSE @,
                              !.structure = IF delta.structure THEN @ \cup {f} ELSE @,
                              !.fatal = IF fatal THEN @ \cup {f} ELSE @,
                              !.todo = @ \ {f}, !.queue = @ \ {f}]
        /\ hist' = [hist EXCEPT !.owed =
                      Owe(f, IF fatal \/ delta.api THEN Importers({f}, edges) ELSE {})]
        /\ UNCHANGED <<disk, count, state>>

mark_hash_read_failure(f) ==
    /\ write_file_atomically(f, FailedRow(run.existing[f].hash, run.scanned[f]), NoContent, {})
    /\ run' = [run EXCEPT !.indexed = @ \cup {f}, !.fatal = @ \cup {f}, !.queue = @ \ {f}]
    /\ hist' = [hist EXCEPT !.owed = Owe(f, Importers({f}, edges))]
    /\ UNCHANGED <<disk, count, state>>

(***************************************************************************)
(* The parse phase: a path-scoped run first marks the requested files that *)
(* could not be read, then the planned files are written one by one.  A    *)
(* run over the workspace marks its unreadable files after that.           *)
(***************************************************************************)
UnreadableRows(S) == {f \in (run.failures \cap S) \ run.indexed : HasRow(run.existing[f])}

ParseTouchedFailure ==
    /\ run.pc = "parse" /\ run.mode = "paths"
    /\ \E f \in UnreadableRows(run.paths) : mark_hash_read_failure(f)

ParsePlanned ==
    /\ run.pc = "parse" /\ UnreadableRows(run.paths) = {}
    /\ run.todo # {}
    /\ process_and_write_file(First(run.todo))

EndParse ==
    /\ run.pc = "parse" /\ UnreadableRows(run.paths) = {} /\ run.todo = {}
    /\ run' = [run EXCEPT !.pc = "failures", !.initial = run.indexed]
    /\ UNCHANGED <<disk, count, db, state, hist>>

MarkFailures ==
    /\ run.pc = "failures" /\ run.mode = "workspace"
    /\ UnreadableRows(Files) # {}
    /\ mark_hash_read_failure(First(UnreadableRows(Files)))

(***************************************************************************)
(* apply_confirmed_invalidation_expansion, in three passes over the        *)
(* imports stored by now.  A pass queues the scanned files it reaches that *)
(* the parse phase has not written.  Others it marks not current, one      *)
(* transaction each, before the next begins: the ones that are not on disk *)
(* and, in the pass over the dependents, also the ones that are queued     *)
(* already.                                                                *)
(***************************************************************************)
LiveBefore == {f \in Files : Live(run.existing[f])}
Unvisited(S) == S \ run.initial

ScopeReach == IF run.changed \cap Config # {} THEN Unvisited(LiveBefore) ELSE {}

apply_resolution_scope_invalidation ==
    /\ run.pc = "failures"
    /\ run.mode = "workspace" => UnreadableRows(Files) = {}
    /\ run' = [run EXCEPT !.pc = "roots", !.queue = ScopeReach \cap Scanned,
                          !.marked = ScopeReach \ Scanned]
    /\ UNCHANGED <<disk, count, db, state, hist>>

DependentRootsWithoutFailures ==
    run.api \cup run.to_delete \cup (IF run.expand THEN run.paths ELSE {})

DependentRoots ==
    run.api \cup run.to_delete \cup run.fatal \cup (IF run.expand THEN run.paths ELSE {})

\* apply_dependent_invalidation, first the roots themselves
InvalidateRoots ==
    /\ run.pc = "roots" /\ run.marked = {}
    /\ LET roots == Unvisited(DependentRoots)
       IN  run' = [run EXCEPT !.pc = "dependents", !.queue = @ \cup (roots \cap Scanned),
                              !.marked = {f \in roots \ Scanned : HasRow(run.existing[f])}]
    /\ UNCHANGED <<disk, count, db, state, hist>>

Transitive(S) ==
    LET Up[n \in 0 .. Cardinality(Files)] ==
            IF n = 0 THEN S ELSE Up[n - 1] \cup (Importers(Up[n - 1], edges) \cap LiveBefore)
    IN  Importers(Up[Cardinality(Files)], edges) \cap LiveBefore

\* then whatever imports them, directly or not
apply_dependent_invalidation ==
    /\ run.pc = "dependents" /\ run.marked = {}
    /\ LET roots   == {f \in DependentRoots : HasRow(run.existing[f])}
           reached == Unvisited(Transitive(roots) \ DependentRoots)
           queued  == (reached \cap Scanned) \ run.queue
       IN  run' = [run EXCEPT !.pc = "structure", !.queue = @ \cup queued,
                              !.marked = reached \ queued]
    /\ UNCHANGED <<disk, count, db, state, hist>>

\* the files that import one whose structure changed, and no further
apply_structural_invalidation ==
    /\ run.pc = "structure" /\ run.marked = {}
    /\ LET near == Unvisited((Importers(run.structure, edges) \cap LiveBefore) \ run.structure)
       IN  run' = [run EXCEPT !.pc = "refresh",
                              !.queue = (@ \cup (near \cap Scanned)) \ run.indexed,
                              !.marked = near \ Scanned,
                              !.local = (near \cap Scanned) \ run.queue]
    /\ UNCHANGED <<disk, count, db, state, hist>>

mark_not_current_without_refresh ==
    \E f \in run.marked :
        /\ write_file_atomically(f, [run.existing[f] EXCEPT !.structure = 0, !.api = 0,
                                                            !.fresh = "NotCurrent"], NoContent, {})
        /\ run' = [run EXCEPT !.marked = @ \ {f}]
        /\ hist' = [hist EXCEPT !.owed = @ \ {f}]
        /\ UNCHANGED <<disk, count, state>>

\* Draining the refresh queue; what changes here invalidates nothing further.  A file that
\* could not be hashed is not read again, and skipped when it has no row.
Refresh ==
    /\ run.pc = "refresh" /\ run.marked = {}
    /\ \E f \in run.queue :
           IF run.hashes[f] # 0 \/ f \notin run.failures
           THEN process_and_write_file(f)
           ELSE \/ /\ HasRow(run.existing[f])
                   /\ mark_hash_read_failure(f)
                \/ /\ ~ HasRow(run.existing[f])
                   /\ run' = [run EXCEPT !.queue = @ \ {f}]
                   /\ UNCHANGED <<disk, count, db, state, hist>>

EndRefresh ==
    /\ run.pc = "refresh" /\ run.marked = {} /\ run.queue = {}
    /\ run' = [run EXCEPT !.pc = "delete", !.todo = run.to_delete]
    /\ UNCHANGED <<disk, count, db, state, hist>>

mark_deleted_file_keeping_importers(f) ==
    /\ files' = [files EXCEPT ![f] = [run.existing[f] EXCEPT !.deleted = TRUE, !.fresh = "Deleted"]]
    /\ facts' = [facts EXCEPT ![f] = NoContent]
    /\ edges' = OtherEdges(f)

mark_deleted_file(f) ==
    /\ files' = [files EXCEPT ![f] = [run.existing[f] EXCEPT !.deleted = TRUE, !.fresh = "Deleted"]]
    /\ facts' = [facts EXCEPT ![f] = NoContent]
    /\ edges' = {e \in OtherEdges(f) : ~ (e.kind = "import" /\ e.link = "resolved" /\ e.to = f)}

Delete ==
    /\ run.pc = "delete" /\ run.todo # {}
    /\ LET f == First(run.todo)
       IN  /\ mark_deleted_file(f)
           /\ run' = [run EXCEPT !.todo = @ \ {f}]
           /\ hist' = [hist EXCEPT !.owed = Owe(f, Importers({f}, edges))]
    /\ UNCHANGED <<disk, count, state>>

refresh_unchanged_files ==
    /\ run.pc = "delete" /\ run.todo = {}
    /\ files' = [f \in Files |->
                   IF /\ Live(files[f]) /\ f \notin run.indexed
                      /\ files[f].fresh \in {"RefreshedCurrent", "RetainedCurrent"}
                   THEN [files[f] EXCEPT !.fresh = "RetainedCurrent"]
                   ELSE files[f]]
    /\ run' = [run EXCEPT !.pc = "link"]
    /\ UNCHANGED <<disk, count, facts, edges, state, hist>>

(***************************************************************************)
(* The closing link pass.                                                  *)
(***************************************************************************)
ContractChanged == run.api \cup run.structure

content_only_incremental ==
    /\ ~ run.force
    /\ run.to_delete = {} /\ run.fatal = {} /\ ContractChanged = {}
    /\ run.changed = run.indexed
    /\ \A f \in run.changed : HasRow(run.existing[f])

relink_contract_changed_files ==
    {e \in edges :
       \/ e.from \notin ContractChanged
       \/ e.kind = "import" /\ e.link = "resolved"}

Relinked(e) ==
    IF /\ e.link = "known" /\ ~ files[e.from].deleted
       /\ e.to \in (IF e.kind = "import" THEN LiveFiles(files) ELSE Symbols)
    THEN [e EXCEPT !.link = "resolved"]
    ELSE e

link_workspace == {Relinked(e) : e \in edges}

Link ==
    /\ run.pc = "link"
    /\ edges' = IF \/ run.indexed = {} /\ run.to_delete = {}
                   \/ content_only_incremental
                THEN edges
                ELSE IF run.to_delete = {} /\ ContractChanged # {}
                     THEN relink_contract_changed_files
                     ELSE link_workspace
    /\ run' = [run EXCEPT !.pc = "finish"]
    /\ UNCHANGED <<disk, count, files, facts, state, hist>>

Finish ==
    /\ run.pc = "finish"
    /\ state' = [status |-> "Completed", active |-> FALSE]
    /\ hist' = [hist EXCEPT !.done = TRUE, !.last = IF run.force THEN "full" ELSE run.mode]
    /\ run' = NoRun
    /\ UNCHANGED <<disk, count, db>>

(***************************************************************************)
(* A run that does not finish.  index_workspace records its own error; an  *)
(* error in index_paths is only returned, and a crash is recorded nowhere. *)
(***************************************************************************)
Broken ==
    /\ run.pc # "idle" /\ count.breaks < MaxBreaks
    /\ count' = [count EXCEPT !.breaks = @ + 1]
    /\ run' = NoRun

Fail ==
    /\ Broken
    /\ state' = IF run.mode = "workspace" THEN [status |-> "Failed", active |-> FALSE] ELSE state
    /\ UNCHANGED <<disk, db, hist>>

Crash ==
    /\ Broken
    /\ UNCHANGED <<disk, db, state, hist>>

invalidate_paths(f) ==
    /\ Called /\ HasRow(files[f])
    /\ write_file_atomically(f, [FailedRow(0, 0) EXCEPT !.deleted = files[f].deleted], NoContent, {})
    /\ hist' = [hist EXCEPT !.owed = @ \ {f}, !.done = FALSE]
    /\ UNCHANGED <<disk, state, run>>

Environment == \E f \in Files : WriteFile(f) \/ RemoveFile(f) \/ ChangeMode(f)

Request ==
    \/ \E force \in BOOLEAN : BeginWorkspace(force)
    \/ \E f \in Requested, expand \in BOOLEAN : BeginPaths({f}, expand)
    \/ \E f \in Requested : invalidate_paths(f)

Step ==
    \/ Scan \/ Hash
    \/ ParseTouchedFailure \/ ParsePlanned \/ EndParse \/ MarkFailures
    \/ apply_resolution_scope_invalidation \/ InvalidateRoots
    \/ apply_dependent_invalidation \/ apply_structural_invalidation
    \/ mark_not_current_without_refresh \/ Refresh \/ EndRefresh
    \/ Delete \/ refresh_unchanged_files \/ Link \/ Finish

Next == Environment \/ Request \/ Step \/ Fail \/ Crash

Spec == Init /\ [][Next]_vars

-----------------------------------------------------------------------------
(***************************************************************************)
(* What is to be shown.                                                    *)
(***************************************************************************)
Freshness == {"Absent", "RefreshedCurrent", "RetainedCurrent", "DegradedPartial",
              "NotCurrent", "Deleted"}
Row == [hash : Nat, mtime : Nat, structure : Nat, api : Nat, deleted : BOOLEAN, fresh : Freshness]

\* The variables have the shapes the tables and the locals of a run have.
TypeOK ==
    /\ disk \in [Files -> [content : Content, mtime : Nat, readable : BOOLEAN]]
    /\ count \in [edits : 0 .. MaxEdits, calls : 0 .. MaxCalls, breaks : 0 .. MaxBreaks]
    /\ files \in [Files -> Row]
    /\ facts \in [Files -> Content]
    /\ edges \subseteq Edge
    /\ state \in [status : {"Idle", "Scanning", "Hashing", "Parsing", "Completed", "Failed"},
                  active : BOOLEAN]
    /\ run.existing \in [Files -> Row]
    /\ run.scanned \in [Files -> Nat] /\ run.hashes \in [Files -> Nat]
    /\ UNION {run.paths, run.failures, run.todo, run.to_delete, run.known, run.symbols, run.indexed,
              run.initial, run.changed, run.api, run.structure, run.fatal, run.queue, run.marked,
              run.local, hist.owed}
         \subseteq Files

Current(f) == files[f].fresh \in {"RefreshedCurrent", "RetainedCurrent"}

\* A file that is deleted, not current or has no row has no facts and no edges of its own, in
\* every state, also between the transactions of a run (write_file_atomically,
\* mark_deleted_file and the two link passes).
NoFactsUnlessCurrent ==
    \A f \in Files :
        files[f].fresh \in {"Absent", "NotCurrent", "Deleted"} =>
            facts[f] = NoContent /\ EdgesFrom(f) = {}

\* No import is resolved to a file that is deleted or was never indexed, whatever mixture of
\* the planning snapshot and the present tables it was linked with.
NoImportOfDeleted ==
    \A e \in edges : e.kind = "import" /\ e.link = "resolved" => Live(files[e.to])

Settled == hist.done /\ ~ hist.edited

\* After a run during which nothing was edited, a current file whose row carries the hash of
\* its own facts has exactly the facts of the content on disk: the mtime screen, the hash
\* comparison and the failure rows never hide a change.  (Not meant are a row whose file was
\* edited between its hash and its facts, and files a path-scoped run cannot read and was not
\* asked for.)
CurrentFactsMatchDisk ==
    Settled =>
        \A f \in Files :
            /\ Current(f) /\ files[f].hash = facts[f].text
            /\ hist.last = "paths" => CanRead(f) \/ ~ OnDisk(f)
            => facts[f] = disk[f].content

\* A forced run during which nothing was edited heals whatever interrupted runs, races and
\* unreadable files left: every file that can be read and parsed is stored with its own hash
\* and facts, and every file that is gone is deleted.
FullRunHeals ==
    Settled /\ hist.last = "full" =>
        \A f \in Files :
            /\ Parses(f) => /\ files[f].fresh \in {"RefreshedCurrent", "DegradedPartial"}
                            /\ facts[f] = disk[f].content
                            /\ files[f].hash = disk[f].content.text
            /\ ~ OnDisk(f) => ~ Live(files[f])

\* When no run was interrupted, every file that imported a file a run found with another
\* public interface, unreadable, unparsable or gone has been visited by that run too or is not
\* current, however the workspace was edited meanwhile.  One case is excepted, and the code
\* does not cover it: a file that apply_structural_invalidation alone has queued may turn out
\* to have changed or failed only while the queue is drained, which expands nothing, and its
\* importers stay as they are.
ImportersRevisited ==
    run.pc = "idle" /\ count.breaks = 0 => hist.owed = {}

\* After a run during which nothing was edited, a file it has refreshed successfully has the
\* edges of its own current content and no others, resolved or not.
RefreshedEdgesAreCurrent ==
    Settled =>
        \A f \in Files :
            files[f].fresh = "RefreshedCurrent" =>
                {<<e.kind, e.to>> : e \in EdgesFrom(f)} =
                    ({"import"} \X facts[f].imports) \cup ({"call"} \X facts[f].calls)

\* Once a run completes with nothing edited during it, no importer of a file whose public
\* interface changed, that failed or was deleted is left unvisited and current, also when an
\* earlier run was interrupted.
NoImporterOwed == Settled => hist.owed = {}
=============================================================================
