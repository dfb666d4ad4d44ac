------------------------------- MODULE Preview -------------------------------
(***************************************************************************)
(* The previews of files (preview/core): PreviewService.generate with its  *)
(* cache, the choice of an extractor, and what each extractor keeps of a   *)
(* file.  Calls overlap while an extractor works; nothing joins two calls  *)
(* for one content.  A file is a record of what the code looks at.         *)
(***************************************************************************)
EXTENDS Integers, Sequences, FiniteSets, SequencesExt

CONSTANTS Cid, Caller,
          Named,         \* the files that bring a content: its name and MIME type may differ
          Plugin,        \* extractors of plugins: they claim every file
          Faulty,        \* of which extract rejects
          Picky,         \* of which canExtract throws
          MaxEntries,    \* the cache
          HitWeight,     \* what a hit weighs against a unit of age
          Ttl, MaxFileSize, MaxTime

VARIABLES store,         \* the cache: its entries in the order of the Map
          now,
          plugins,       \* registered extractors of plugins, the last one first
          call,          \* what each caller asked, and what it was answered
          hits, generated, errors   \* stats

vars == <<store, now, plugins, call, hits, generated, errors>>

Idle == [st |-> "idle"]
Init ==
    /\ store = <<>> /\ now = 0 /\ plugins = <<>> /\ call = [k \in Caller |-> Idle]
    /\ hits = 0 /\ generated = 0 /\ errors = 0

--------------------------------------------------------------------------------
\* The type a file seems to have, by its extension before its MIME type.
MarkdownExt == {"md", "mdx", "rst"}
ImageExt == {"png", "jpg", "jpeg", "gif", "webp", "svg", "avif"}
ModelExt == {"stl", "obj", "gltf", "glb", "fbx", "ply"}
SyntaxExt == {"js", "ts", "jsx", "tsx", "py", "rs", "go", "c", "cpp", "java", "json", "yaml",
              "toml", "sh", "bash", "css", "html", "xml", "sql", "glsl", "wgsl", "lua", "rb",
              "php", "kt", "swift", "dart"}
Text == {"text/plain", "text/html"}
Raw == {"application/octet-stream", "application/wasm"}
InferPreviewType(mime, ext) ==
    CASE ext \in MarkdownExt                            -> "markdown"
      [] ext \in ImageExt                               -> "image"
      [] ext \in ModelExt                               -> "model_3d"
      [] ext \in {"pdf"}                                -> "pdf"
      [] ext \in {"wav", "mp3", "ogg", "flac", "aac"}   -> "audio"
      [] ext \in {"mp4", "webm", "mkv", "mov"}          -> "video"
      [] ext \in {"ttf", "otf", "woff", "woff2"}        -> "font"
      [] ext \in SyntaxExt                              -> "syntax"
      [] OTHER -> IF mime \in Text THEN "syntax" ELSE IF mime \in Raw THEN "binary" ELSE "fallback"

\* What the extractors claim; the first to claim a file gets it.
Languages == SyntaxExt \union {"cs", "zsh", "fish", "ps1", "yml", "scss", "hlsl", "r", "perl",
                               "pl", "md", "mdx"}
Builtin == <<"markdown", "syntax", "opengraph", "model_3d", "image", "binary">>
CanExtract(x, mime, ext) ==
    CASE x = "markdown"  -> ext \in MarkdownExt \union {"txt"}
      [] x = "syntax"    -> ext \in Languages \/ mime \in Text
      [] x = "opengraph" -> ext = "html" \/ mime \in {"text/html", "application/xhtml+xml"}
      [] x = "model_3d"  -> ext \in ModelExt \union {"3ds"} \/ mime = "model/stl"
      [] x = "image"     -> ext \in ImageExt \union {"bmp"} \/ mime \in {"image/png", "image/svg+xml"}
      [] x = "binary"    -> mime \in Raw
      [] OTHER           -> x \in Plugin
None == "none"
Select(xs, f) ==
    LET claims == SelectSeq(xs, LAMBDA x : CanExtract(x, f.mime, f.ext))
    IN  IF claims = <<>> THEN None ELSE Head(claims)

--------------------------------------------------------------------------------
\* What the extractors keep.  Markdown: one pass over the lines, in or out of a fence.
Line(acc, line) ==
    IF line = "fence" THEN [acc EXCEPT !.fenced = ~@, !.code = @ \/ acc.fenced, !.parts = @ + 1]
    ELSE IF acc.fenced THEN [acc EXCEPT !.parts = @ + 1]
    ELSE [acc EXCEPT !.parts = @ + 1,
                     !.headings = @ + (IF line = "heading" THEN 1 ELSE 0),
                     !.tables = @ \/ line \in {"row", "divider"},
                     !.words = @ + (IF line \in {"heading", "item", "para"} THEN 1 ELSE 0)]
Parse(lines) ==
    FoldLeft(Line, [fenced |-> FALSE, code |-> FALSE, parts |-> 0, headings |-> 0,
                    tables |-> FALSE, words |-> 0], lines)

AtMost(x, y) == IF x < y THEN x ELSE y
PreviewLines == 50
MarkdownMax == 200000
Markdown(f) == [shown |-> AtMost(f.size, MarkdownMax), detail |-> Parse(f.lines)]
Syntax(f) ==
    [shown |-> AtMost(f.text, PreviewLines),
     detail |-> [language |-> IF f.ext \in Languages THEN f.ext ELSE "plaintext", lineCount |-> f.text]]
\* An og: tag before the plain one.
OpenGraph(f) ==
    LET field(name) == IF "og:" \o name \in f.tags THEN "og:" \o name
                       ELSE IF name \in f.tags THEN name ELSE None
    IN  [shown |-> 1, detail |-> [title |-> field("title"), description |-> field("description")]]
Binary(f) ==
    [shown |-> (AtMost(f.size, 256) + 15) \div 16 + (IF f.size > 256 THEN 1 ELSE 0),
     detail |-> IF f.head \in {"wasm", "elf", "pe", "pdf"} THEN f.head ELSE "binary"]
\* An SVG is kept whole.
Image(f) == [shown |-> IF f.ext = "svg" THEN f.size ELSE AtMost(f.size, 100), detail |-> None]
\* A binary STL whose header says "solid" counts as ASCII.
Model3D(f) ==
    [shown |-> 1,
     detail |-> IF f.ext # "stl" THEN None
                ELSE IF f.head = "solid" THEN f.text ELSE IF f.size >= 84 THEN f.facets ELSE 0]
Extracted(x, f) ==
    CASE x = "markdown" -> Markdown(f) [] x = "syntax" -> Syntax(f) [] x = "opengraph" -> OpenGraph(f)
      [] x = "binary" -> Binary(f) [] x = "image" -> Image(f) [] x = "model_3d" -> Model3D(f)
      [] OTHER -> [shown |-> 0, detail |-> None]

--------------------------------------------------------------------------------
\* PreviewCache.
Holds(s, cid) == \E i \in DOMAIN s : s[i].cid = cid
At(s, cid) == CHOOSE i \in DOMAIN s : s[i].cid = cid
Without(s, cid) == SelectSeq(s, LAMBDA e : e.cid # cid)
Score(e) == e.hitCount * HitWeight - e.cachedAt
EvictOne(s) ==
    LET victim == CHOOSE i \in DOMAIN s :
                      /\ \A j \in DOMAIN s : Score(s[i]) <= Score(s[j])
                      /\ \A j \in 1..(i - 1) : Score(s[i]) < Score(s[j])
    IN  RemoveAt(s, victim)
CacheSet(s, cid, result) ==
    LET entry == [cid |-> cid, result |-> result, cachedAt |-> now, hitCount |-> 0]
    IN  IF Holds(s, cid) THEN ReplaceAt(s, At(s, cid), entry)
        ELSE Append(IF Len(s) >= MaxEntries THEN EvictOne(s) ELSE s, entry)
Fresh(s, cid) == Holds(s, cid) /\ now <= s[At(s, cid)].cachedAt + Ttl
\* get: an expired entry is deleted by who asks for it.
CacheGet(s, cid) ==
    IF Fresh(s, cid) THEN [s EXCEPT ![At(s, cid)].hitCount = @ + 1] ELSE Without(s, cid)

--------------------------------------------------------------------------------
Result(cid, f, status, x) ==
    [cid |-> cid, file |-> f, status |-> status, by |-> x, made |-> now]
Answered(k, how, result) ==
    call' = [call EXCEPT ![k] = [st |-> "done", cid |-> result.cid, how |-> how,
                                 result |-> result, at |-> now]]

\* generate, up to the extractor: the cache, the size, the choice of an extractor.
Generate(k, cid, f, skipCache) ==
    LET got == IF skipCache THEN store ELSE CacheGet(store, cid)
        x == Select(plugins \o Builtin, f)
    IN  /\ call[k] = Idle
        /\ \/ /\ ~skipCache /\ Fresh(store, cid)
              /\ store' = got /\ hits' = hits + 1
              /\ Answered(k, "cache", store[At(store, cid)].result)
              /\ UNCHANGED generated
           \/ /\ skipCache \/ ~Fresh(store, cid)
              /\ UNCHANGED hits
              /\ \/ /\ f.size > MaxFileSize
                    /\ LET r == Result(cid, f, "unsupported", "oversized")
                       IN  store' = CacheSet(got, cid, r) /\ Answered(k, "oversized", r)
                    /\ UNCHANGED generated
                 \/ /\ f.size <= MaxFileSize /\ x \in Picky
                    /\ store' = got /\ Answered(k, "rejected", Result(cid, f, "error", x))
                    /\ UNCHANGED generated
                 \/ /\ f.size <= MaxFileSize /\ x = None
                    /\ LET r == Result(cid, f, "unsupported", None)
                       IN  store' = CacheSet(got, cid, r) /\ Answered(k, "made", r)
                    /\ generated' = generated + 1
                 \/ /\ f.size <= MaxFileSize /\ x \notin Picky \union {None}
                    /\ store' = got
                    /\ call' = [call EXCEPT ![k] = [st |-> "extracting", cid |-> cid, file |-> f,
                                                    by |-> x]]
                    /\ UNCHANGED generated
        /\ UNCHANGED <<now, plugins, errors>>

\* generate, from there: a preview or a report of the failure, and either is cached.
Finish(k) ==
    LET mine == call[k]
        failed == mine.by \in Faulty
        r == Result(mine.cid, mine.file, IF failed THEN "error" ELSE "ready", mine.by)
    IN  /\ mine.st = "extracting"
        /\ store' = CacheSet(store, mine.cid, r) /\ Answered(k, IF failed THEN "failed" ELSE "made", r)
        /\ generated' = generated + (IF failed THEN 0 ELSE 1)
        /\ errors' = errors + (IF failed THEN 1 ELSE 0)
        /\ UNCHANGED <<now, plugins, hits>>

Invalidate(cid) ==
    /\ Holds(store, cid) /\ store' = Without(store, cid)
    /\ UNCHANGED <<now, plugins, call, hits, generated, errors>>
RegisterExtractor(x) ==
    /\ ~Contains(plugins, x) /\ plugins' = <<x>> \o plugins
    /\ UNCHANGED <<store, now, call, hits, generated, errors>>
PruneExpired ==
    /\ \E i \in DOMAIN store : now > store[i].cachedAt + Ttl
    /\ store' = SelectSeq(store, LAMBDA e : now <= e.cachedAt + Ttl)
    /\ UNCHANGED <<now, plugins, call, hits, generated, errors>>
Tick ==
    /\ now < MaxTime /\ now' = now + 1
    /\ UNCHANGED <<store, plugins, call, hits, generated, errors>>

Next ==
    \/ \E k \in Caller, cid \in Cid, skip \in BOOLEAN :
           \E f \in Named[cid] : Generate(k, cid, f, skip)
    \/ \E k \in Caller : Finish(k)
    \/ \E cid \in Cid : Invalidate(cid)
    \/ \E x \in Plugin : RegisterExtractor(x)
    \/ PruneExpired \/ Tick

Spec == Init /\ [][Next]_vars
--------------------------------------------------------------------------------
\* The cache holds a content once and is never above its limit.
TypeOK ==
    /\ now \in 0..MaxTime /\ Range(plugins) \subseteq Plugin
    /\ Len(store) <= MaxEntries
    /\ \A i, j \in DOMAIN store : store[i].cid = store[j].cid => i = j

\* PreviewService.generate: an answer taken from the cache is about the content asked for
\* and was made no longer ago than an entry lives, however calls overlapped on the content
\* and whatever was invalidated or evicted meanwhile.
ServedSound ==
    \A k \in Caller : call[k].st = "done" =>
        /\ call[k].result.cid = call[k].cid
        /\ call[k].how = "cache" => call[k].result.made + Ttl >= call[k].at
        /\ call[k].how # "cache" => call[k].result.made = call[k].at

\* PreviewService.stats: every call that is over was counted once, as a hit, a preview or
\* a failure, but for the files too large to look at and the choices that threw.
CountedOnce ==
    hits + generated + errors =
        Cardinality({k \in Caller : call[k].st = "done" /\ call[k].how \notin {"oversized", "rejected"}})

\* inferPreviewType and the extractors' canExtract, two tables kept apart: a file of a type
\* that has an extractor is claimed by one, whatever its MIME type says.
Served == {"markdown", "image", "model_3d", "syntax", "binary"}
Extensions == MarkdownExt \union ImageExt \union ModelExt \union SyntaxExt \union {"bin", "pdf"}
TablesAgree ==
    \A ext \in Extensions, mime \in Text \union Raw \union {"application/json"} :
        InferPreviewType(mime, ext) \in Served => Select(Builtin, [ext |-> ext, mime |-> mime]) # None

\* The extractors: what a preview shows is bounded whatever the size of the file, but for
\* an SVG, and a Markdown text has a code block when a fence was closed and headings only
\* outside of the fences.
PreviewsSound ==
    \A k \in Caller : call[k].st = "done" /\ call[k].result.status = "ready" =>
        LET f == call[k].result.file
            lines == f.lines
            Fences(i) == Cardinality({j \in 1..i : lines[j] = "fence"})
            kept == Extracted(call[k].result.by, f)
        IN  /\ f.ext # "svg" => kept.shown <= MarkdownMax
            /\ call[k].result.by = "markdown" =>
                   /\ kept.detail.code = (Fences(Len(lines)) >= 2)
                   /\ kept.detail.headings = Cardinality(
                          {i \in DOMAIN lines : lines[i] = "heading" /\ Fences(i) % 2 = 0})
================================================================================
