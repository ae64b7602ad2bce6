----------------------------- MODULE MCIndexer -----------------------------
(***************************************************************************)
(* A workspace of three source files and one resolution config file: d     *)
(* imports a, and a imports and calls b.  The versions of a file differ in *)
(* what the indexer tells apart: the calls in a body, the structure, the   *)
(* public interface, what the parser makes of them.                        *)
(***************************************************************************)
EXTENDS Indexer, TLC

CONSTANTS a, b, d, t

MCFiles == {a, b, d, t}
MCRank == (a :> 1) @@ (b :> 2) @@ (d :> 3) @@ (t :> 4)
MCConfig == {t}
MCRequested == {b}

Source(text, structure, api, imports, calls, exports, parse) ==
    [text |-> text, structure |-> structure, api |-> api, imports |-> imports,
     calls |-> calls, exports |-> exports, parse |-> parse]

\* a: the import and the call, then the call is gone from a function's body
AVersions == {Source(1, 1, 1, {b}, {b}, FALSE, "ok"), Source(2, 1, 1, {b}, {}, FALSE, "ok")}

\* b: one interface, another structure with the same interface, another interface that only
\* parses in part
BVersions == {Source(1, 1, 1, {}, {}, TRUE, "ok"), Source(2, 2, 1, {}, {}, TRUE, "ok"),
              Source(3, 3, 3, {}, {}, TRUE, "errors")}

DVersions == {Source(1, 1, 1, {a}, {}, FALSE, "ok")}

TVersions == {Source(1, 1, 1, {}, {}, FALSE, "ok"), Source(2, 1, 1, {}, {}, FALSE, "ok")}

MCVersions == (a :> AVersions) @@ (b :> BVersions) @@ (d :> DVersions) @@ (t :> TVersions)

MCStart == (a :> Source(1, 1, 1, {b}, {b}, FALSE, "ok")) @@
           (b :> Source(1, 1, 1, {}, {}, TRUE, "ok")) @@
           (d :> Source(1, 1, 1, {a}, {}, FALSE, "ok")) @@
           (t :> Source(1, 1, 1, {}, {}, FALSE, "ok"))
=============================================================================
