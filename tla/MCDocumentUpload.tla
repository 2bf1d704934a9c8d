-------------------------- MODULE MCDocumentUpload --------------------------
(***************************************************************************)
(* DocumentUpload for TLC: every pair of contents and extension, every     *)
(* Markdown text of a few lines, and plain texts around a page's length.   *)
(***************************************************************************)
EXTENDS DocumentUpload

CONSTANTS MaxLines, TextLengths

MCFile ==
  [content : Magic, ext : Format \cup {""}, lines : {<<"text">>}]
    \cup [content : {"plain"}, ext : {"md"}, lines : UNION {[1 .. n -> LineKind] : n \in 0 .. MaxLines}]
    \cup {[content |-> "plain", ext |-> "txt", lines |-> [i \in 1 .. n |-> "text"]] : n \in TextLengths}

=============================================================================
