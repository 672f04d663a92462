-------------------------- MODULE MCRagProjection ---------------------------
(* Small instances of RagProjection for TLC.                               *)
EXTENDS RagProjection, TLC

Content(text, version, title) == [text |-> text, version |-> version, title |-> title]

First   == Content("first", "v1", "title")
Second  == Content("second", "v2", "title")
Renamed == Content("second", "v2", "new title")

AllContents == {First, Second, Renamed}

Command(kind, seq, content) == [kind |-> kind, seq |-> seq, content |-> content]

\* Two revisions and a tombstone between them; a project reindex that sends the
\* old content under the sequence of the second revision; and a command that
\* repeats this sequence with the same text and a new title.
RacingEvents ==
    {Command("upsert", 1, First), Command("tombstone", 2, None), Command("upsert", 3, Second),
     Command("reindex", 3, First), Command("upsert", 3, Renamed)}

AnyWorker == Permutations(Workers)
=============================================================================
