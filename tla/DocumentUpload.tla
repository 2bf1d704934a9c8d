--------------------------- MODULE DocumentUpload ---------------------------
(***************************************************************************)
(* What the donna_sign tool does before there is a submission: the file    *)
(* adapter of lib/docuseal_file_adapter.py, the client of lib/docuseal.py  *)
(* and _dispatch_to_docuseal.  One document is dispatched, and dispatched  *)
(* again by a caller who is told that it failed; every call is a process.  *)
(* Names differ from DocusealWebhook's, for one module to extend both.     *)
(***************************************************************************)
EXTENDS Integers, Sequences, FiniteSets

CONSTANTS
  File,      \* the documents
  MaxCalls   \* bound: calls for the document

\* What the first bytes of a file, or the entries of a ZIP, tell; "plain" is none of it.
Magic == {"pdf", "docx", "odt", "zip", "doc", "png", "jpg", "rtf", "html", "plain"}
Format == {"pdf", "docx", "doc", "rtf", "odt", "html", "md", "png", "jpg", "txt"}
LineKind == {"fence", "heading", "item", "blank", "text"}
Tool == {"libreoffice", "pillow", "reportlab", "markdown"}

\* lines: the lines of a Markdown text, or those a plain text wraps to.
ASSUME FilesAreFiles == File \subseteq [content : Magic, ext : Format \cup {""}, lines : Seq(LineKind)]
\* split gives a plain text one line at least, wrap gives one for each.
ASSUME TextHasALine == \A f \in File : f.ext = "txt" => f.lines # << >>
ASSUME CallsAreNumbers == MaxCalls \in Nat

VARIABLES
  document,     \* the document
  removable,    \* does the file system let a directory be removed?
  tools,        \* what is installed for the call
  call,         \* the number of the call
  stage,        \* where it is
  output,       \* what the adapter has made
  dirs,         \* calls whose temporary directory is there
  templates,    \* templates DocuSeal has
  submitted,    \* calls whose submission DocuSeal has
  ended         \* ended[c]: how call c has ended

uploadVars == <<document, removable, tools, call, stage, output, dirs, templates, submitted,
                ended>>

Attempt == 1 .. MaxCalls
Passthrough == {"pdf", "docx", "html"}
NoOutput == [endpoint |-> "", format |-> "", body |-> << >>]

UploadInit ==
  /\ document \in File /\ removable \in BOOLEAN /\ tools = {} /\ call = 0 /\ stage = "idle" /\ output = NoOutput
  /\ dirs = {} /\ templates = {} /\ submitted = {} /\ ended = [c \in Attempt |-> "none"]

----------------------------------------------------------------------------
\* detect_format.

\* _sniff_zip_type: a ZIP that is nothing else is a DOCX.
Sniffed(f) == IF f.content = "zip" THEN "docx" ELSE f.content

\* A bug: the extension first.
Detected_ExtensionFirst(f) == IF f.ext # "" THEN f.ext ELSE IF f.content # "plain" THEN Sniffed(f) ELSE "unknown"

\* The first bytes, then the extension.
Detected(f) == IF f.content # "plain" THEN Sniffed(f) ELSE IF f.ext # "" THEN f.ext ELSE "unknown"

----------------------------------------------------------------------------
\* _minimal_md_to_html: one line after the other; a part names the lines it is made of.

Part(tag, lines) == [tag |-> tag, lines |-> lines]
FlushPara(h) ==
  IF h.para = << >> THEN h ELSE [h EXCEPT !.parts = Append(@, Part("p", h.para)), !.para = << >>]
FlushList(h) ==
  IF h.list THEN [h EXCEPT !.parts = Append(@, Part("/ul", << >>)), !.list = FALSE] ELSE h
Put(h, tag, i) == [h EXCEPT !.parts = Append(@, Part(tag, <<i>>))]

Fence(h) ==
  LET g == FlushList(FlushPara(h))
  IN [g EXCEPT !.parts = Append(@, Part(IF h.code THEN "/pre" ELSE "pre", << >>)), !.code = ~@]
Item(h, i) ==
  LET g == FlushPara(h)
  IN Put(IF g.list THEN g ELSE [g EXCEPT !.parts = Append(@, Part("ul", << >>)), !.list = TRUE], "li", i)

HtmlLine(h, kind, i) ==
  IF kind = "fence" THEN Fence(h)
  ELSE IF h.code THEN Put(h, "raw", i)
  ELSE CASE kind = "heading" -> Put(FlushList(FlushPara(h)), "h", i)
         [] kind = "item" -> Item(h, i)
         [] kind = "blank" -> FlushList(FlushPara(h))
         [] kind = "text" -> [FlushList(h) EXCEPT !.para = Append(@, i)]

NothingRead == [parts |-> << >>, code |-> FALSE, list |-> FALSE, para |-> << >>]
Html(lines) ==
  LET read[n \in 0 .. Len(lines)] ==
        IF n = 0 THEN NothingRead ELSE HtmlLine(read[n - 1], lines[n], n)
  IN FlushList(FlushPara(read[Len(lines)])).parts

----------------------------------------------------------------------------
\* _txt_to_pdf_minimal: pages of 841.89 points with lines of 16.8 points, in hundredths.

Margin == 5000
Top == 84189 - Margin
Leading == 1680

\* Line i goes on a new page if it would end below the margin.
Placed(s, i) ==
  IF s.y - Leading < Margin
  THEN [pages |-> Append(s.pages, <<i>>), y |-> Top - Leading]
  ELSE [pages |-> [s.pages EXCEPT ![Len(s.pages)] = Append(@, i)], y |-> s.y - Leading]

FirstPage == [pages |-> << << >> >>, y |-> Top]
Pages(lines) ==
  LET placed[n \in 0 .. Len(lines)] == IF n = 0 THEN FirstPage ELSE Placed(placed[n - 1], n)
  IN placed[Len(lines)].pages

----------------------------------------------------------------------------
\* adapt: what a converter makes of a file of format fmt, if it does not raise.

Made(format, body) == [endpoint |-> format, format |-> format, body |-> body]

\* No LibreOffice, no success and no answer in time raise; no file is no error.
LibreOffice == IF "libreoffice" \in tools THEN {Made("docx", << >>), [Made("docx", << >>) EXCEPT !.format = "missing"]} ELSE {}

\* Pillow opens nothing but images.
Image(f) == IF "pillow" \in tools /\ f.content \in {"png", "jpg"} THEN {Made("pdf", << >>)} ELSE {}

\* The markdown package, or the renderer of the adapter.
Markdown(f) == {Made("html", IF "markdown" \in tools THEN << >> ELSE Html(f.lines))}

\* reportlab, or the writer of the adapter.
PlainText(f) == {Made("pdf", IF "reportlab" \in tools THEN << >> ELSE Pages(f.lines))}

\* A copy keeps its name and what it holds.
Copy(f, fmt) == {[endpoint |-> fmt, format |-> f.content, body |-> << >>]}

Converted(f, fmt) ==
  CASE fmt \in Passthrough -> Copy(f, fmt)
    [] fmt \in {"doc", "rtf", "odt"} -> LibreOffice
    [] fmt \in {"png", "jpg"} -> Image(f)
    [] fmt = "md" -> Markdown(f)
    [] fmt = "txt" -> PlainText(f)

----------------------------------------------------------------------------
\* handle, from the file to the submission.

Active == stage # "idle"
End(how) ==
  /\ stage' = "idle" /\ ended' = [ended EXCEPT ![call] = how]
  /\ tools' = {} /\ output' = NoOutput

\* A call, with what is installed by now; detect_format comes before the directory.
Start ==
  /\ ~Active /\ call < MaxCalls /\ (call # 0 => ended[call] # "ok")
  /\ call' = call + 1
  /\ \/ /\ Detected(document) = "unknown"
        /\ ended' = [ended EXCEPT ![call'] = "unknown"]
        /\ UNCHANGED <<stage, tools, dirs>>
     \/ /\ Detected(document) # "unknown"
        /\ stage' = "adapting" /\ tools' \in SUBSET Tool /\ dirs' = dirs \cup {call'}
        /\ UNCHANGED ended
  /\ UNCHANGED <<document, removable, output, templates, submitted>>

\* adapt_ctx calls adapt before its try: an adapter that raises leaves the directory.
Adapt ==
  /\ stage = "adapting"
  /\ \/ output' \in Converted(document, Detected(document)) /\ stage' = "uploading" /\ UNCHANGED <<tools, ended>>
     \/ End("unconverted")
  /\ UNCHANGED <<document, removable, call, dirs, templates, submitted>>

\* _create_template: fails without a key, a readable file or an answer; without an
\* answer the template may be there all the same.
MakeTemplate ==
  /\ stage = "uploading"
  /\ LET made == templates \cup {[call |-> call, made |-> output]}
     IN \/ /\ output.format # "missing"
           /\ templates' = made /\ stage' = "submitting"
        \/ /\ templates' \in IF output.format = "missing" THEN {templates} ELSE {templates, made}
           /\ stage' = "failing"
  /\ UNCHANGED <<document, removable, tools, call, output, dirs, submitted, ended>>

\* create_submission, over the template of this call.
MakeSubmission ==
  /\ stage = "submitting"
  /\ \/ submitted' = submitted \cup {call} /\ stage' = "leaving"
     \/ submitted' \in {submitted, submitted \cup {call}} /\ stage' = "failing"
  /\ UNCHANGED <<document, removable, tools, call, output, dirs, templates, ended>>

\* rmtree ignores errors: what cannot be removed stays.
Removed == {dirs \ {call}} \cup IF removable THEN {} ELSE {dirs}

\* A bug: the directory is removed only if nothing was raised.
Leave_NoFinally ==
  /\ stage \in {"leaving", "failing"}
  /\ dirs' \in IF stage = "leaving" THEN Removed ELSE {dirs}
  /\ End(IF stage = "leaving" THEN "ok" ELSE "failed")
  /\ UNCHANGED <<document, removable, call, templates, submitted>>

\* The finally of adapt_ctx, and the answer.
Leave ==
  /\ stage \in {"leaving", "failing"}
  /\ dirs' \in Removed
  /\ End(IF stage = "leaving" THEN "ok" ELSE "failed")
  /\ UNCHANGED <<document, removable, call, templates, submitted>>

\* The tool kills a process after 60 seconds and reports a failure.
TimeOut ==
  /\ Active
  /\ End("killed")
  /\ UNCHANGED <<document, removable, call, dirs, templates, submitted>>

UploadNext == Start \/ Adapt \/ MakeTemplate \/ MakeSubmission \/ Leave \/ TimeOut

UploadSpec == UploadInit /\ [][UploadNext]_uploadVars

----------------------------------------------------------------------------

\* The lines a renderer must show, and what a line of Markdown is to become.
InCode(lines, i) == Cardinality({j \in 1 .. i : lines[j] = "fence"}) % 2 = 1
TagOf(lines, i) ==
  IF InCode(lines, i) THEN "raw"
  ELSE IF lines[i] = "heading" THEN "h" ELSE IF lines[i] = "item" THEN "li" ELSE "p"
Shown(lines) == {i \in DOMAIN lines : lines[i] # "fence" /\ (InCode(lines, i) \/ lines[i] # "blank")}
Holds(part) == {part.lines[j] : j \in DOMAIN part.lines}

\* Parts hold the lines that are to be shown, each once and in order, each in a part
\* of its kind; two lines share one only if they follow each other.
PartsKeep(lines, parts) ==
  /\ Shown(lines) = UNION {Holds(parts[k]) : k \in DOMAIN parts}
  /\ \A k \in DOMAIN parts :
       /\ \A i \in Holds(parts[k]) : parts[k].tag = TagOf(lines, i)
       /\ \A j \in 2 .. Len(parts[k].lines) : parts[k].lines[j] = parts[k].lines[j - 1] + 1
       /\ \A m \in 1 .. k - 1 : \A i \in Holds(parts[m]), j \in Holds(parts[k]) : i < j

\* Lists and code are opened before they are closed, hold items and code alone, and
\* only code whose last fence is missing stays open.
Opened(parts, k, tag, end) ==
  Cardinality({j \in 1 .. k : parts[j].tag = tag}) - Cardinality({j \in 1 .. k : parts[j].tag = end})
PartsNest(lines, parts) ==
  LET n == Len(parts)
  IN /\ \A k \in 1 .. n :
          /\ Opened(parts, k, "ul", "/ul") = IF parts[k].tag \in {"ul", "li"} THEN 1 ELSE 0
          /\ Opened(parts, k, "pre", "/pre") = IF parts[k].tag \in {"pre", "raw"} THEN 1 ELSE 0
     /\ n > 0 => /\ parts[n].tag \notin {"ul", "li"}
                 /\ parts[n].tag \in {"pre", "raw"} <=> InCode(lines, Len(lines))

\* Pages hold all lines in order, and each as many as fit on it.
Fit == (Top - Margin) \div Leading
PagesKeep(lines, pages) ==
  LET n == Len(pages)
  IN /\ \A k \in 1 .. n - 1 : Len(pages[k]) = Fit
     /\ Len(pages[n]) \in 1 .. Fit
     /\ (n - 1) * Fit + Len(pages[n]) = Len(lines)
     /\ \A k \in 1 .. n : \A j \in 1 .. Len(pages[k]) : pages[k][j] = (k - 1) * Fit + j

\* What DocuSeal makes a template from is the document: in the format of the endpoint,
\* unless nothing in the file tells its format or it is some other ZIP, and with all
\* its lines where the adapter itself converts it.
UploadIsDocument ==
  \A t \in templates :
    LET out == t.made IN
    /\ document.content \notin {"plain", "zip"} => out.format = out.endpoint
    /\ out.body # << >> /\ out.endpoint = "html" => PartsKeep(document.lines, out.body) /\ PartsNest(document.lines, out.body)
    /\ out.body # << >> /\ out.endpoint = "pdf" => PagesKeep(document.lines, out.body)

\* Of a call that has ended well, one template and a submission over it are left, and
\* no directory that can be removed; one that can stays only where a call was killed or
\* could not convert the file, and a submission never without its template.
LeavesInOrder ==
  \A c \in Attempt :
    LET mine == {t \in templates : t.call = c} IN
    /\ ended[c] = "ok" => Cardinality(mine) = 1 /\ c \in submitted
    /\ c \in dirs => \/ ended[c] \in {"killed", "unconverted"} \/ (c = call /\ Active)
                     \/ ended[c] \in {"ok", "failed"} /\ ~removable
    /\ c \in submitted => mine # {}
    /\ ended[c] \in {"unknown", "unconverted"} => mine = {}

=============================================================================
