------------------------------- MODULE Intake -------------------------------
(***************************************************************************)
(* What the upload routes of api/kb.py let in and how the file route       *)
(* serves it: the checks on a file's suffix and content type, the parser   *)
(* that its suffix selects, the limit on its bytes.                        *)
(***************************************************************************)
EXTENDS Integers, SequencesExt, Functions

CONSTANTS
  UploadMaxBytes,  \* upload_max_bytes
  ReadChunkBytes   \* _READ_CHUNK_BYTES

ASSUME BytesAssumption == UploadMaxBytes \in Nat \ {0} /\ ReadChunkBytes \in Nat \ {0}

Word == "application/vnd.openxmlformats-officedocument.wordprocessingml.document"
UnknownMimeType == "application/octet-stream"

\* BaseParser.registered_parsers: the suffixes that each parser has claimed.
MarkdownParser == {".md", ".markdown"}
TextParser == {".txt"}
HTMLParser == {".htm", ".html"}
PDFParser == {".pdf"}
WordParser == {".docx"}
ParsedSuffixes == MarkdownParser \cup TextParser \cup HTMLParser \cup PDFParser \cup WordParser

MimeTypes(suffix) ==
  IF suffix \in {".md", ".markdown"} THEN {"text/markdown", "text/x-markdown", "text/plain"}
  ELSE IF suffix = ".txt" THEN {"text/plain"}
  ELSE IF suffix \in {".htm", ".html"} THEN {"text/html"}
  ELSE IF suffix = ".pdf" THEN {"application/pdf"} ELSE {Word}

\* _validate_upload_metadata, of a suffix in lower case ("" for none).
ValidMetadata(suffix, mime) ==
  suffix \in ParsedSuffixes /\ mime \in MimeTypes(suffix) \cup {UnknownMimeType}

\* _served_file_for, with the fallback for a suffix that is in no table.
Served(suffix) ==
  IF suffix \in {".md", ".markdown"} THEN [type |-> "text/markdown", mode |-> "text"]
  ELSE IF suffix = ".txt" THEN [type |-> "text/plain", mode |-> "text"]
  ELSE IF suffix \in {".htm", ".html"} THEN [type |-> "text/plain", mode |-> "download"]
  ELSE IF suffix = ".pdf" THEN [type |-> "application/pdf", mode |-> "pdf"]
  ELSE [type |-> IF suffix = ".docx" THEN Word ELSE UnknownMimeType, mode |-> "download"]

\* download_kb_source_file.
Disposition(suffix, download) ==
  IF download \/ Served(suffix).mode = "download" THEN "attachment" ELSE "inline"

\* MUTANT of Read: the size is compared before the bytes are added to it.
ReadLate(state, bytes) ==
  IF state.refused THEN state
  ELSE IF state.buffered > UploadMaxBytes THEN [state EXCEPT !.refused = TRUE]
  ELSE [state EXCEPT !.buffered = @ + bytes]

\* One turn of _read_limited_upload's loop.
Read(state, bytes) ==
  IF state.refused THEN state
  ELSE [buffered |-> state.buffered + bytes, refused |-> state.buffered + bytes > UploadMaxBytes]

\* _read_limited_upload, of a file that arrives in these reads.
ReadLimitedUpload(reads) == FoldLeft(Read, [buffered |-> 0, refused |-> FALSE], reads)

-----------------------------------------------------------------------------
(* Properties of an upload.                                                *)

\* A file is accepted exactly when it is no longer than the limit, however it is cut
\* into reads, and no more than one read above the limit is ever held; what is
\* accepted has a parser, is served as one of the types it may be uploaded as or as
\* plain text, and never shows as a page of the API's origin.
UploadIsBounded(suffix, mime, reads) ==
  LET upload == ReadLimitedUpload(reads) IN
  /\ upload.refused = (SumFunction(reads) > UploadMaxBytes)
  /\ upload.buffered <= UploadMaxBytes + ReadChunkBytes
  /\ ValidMetadata(suffix, mime) /\ ~upload.refused =>
       /\ suffix \in ParsedSuffixes
       /\ Served(suffix).type \in MimeTypes(suffix) \cup {"text/plain"}
       /\ Disposition(suffix, FALSE) = "inline" => Served(suffix).type # "text/html"
=============================================================================
