-------------------------------- MODULE Reports --------------------------------
(***************************************************************************)
(* The report of a dissection (schema versions 1 and 2) and the rules that *)
(* the worker (dissection_report.py), the desktop (result_protocol.rs) and *)
(* the window (workerResultProtocol.ts) each have for it.                  *)
(*                                                                         *)
(* A JSON object is the record of its members, an array [items |-> ...];   *)
(* any other value in their place is Null or Odd.  A text is the class the *)
(* rules tell apart: "mark" is a byte order mark alone, which the window   *)
(* alone takes for blank, and "long" what only the worker refuses.         *)
(***************************************************************************)
EXTENDS Integers, Sequences

Null == <<>>
Odd == [odd |-> "value"]
Array(s) == [items |-> s]
Times(n, x) == Array([i \in 1..n |-> x])

With(r, k, v) == [x \in DOMAIN r \cup {k} |-> IF x = k THEN v ELSE r[x]]
Without(r, k) == [x \in DOMAIN r \ {k} |-> r[x]]

Texts == {"text", "mark", "long", "blank", "null", "odd"}
LanguageTags == {"null", "tag", "digits", "tag of 36", "words", "blank", "odd"}

\* The largest integer that is safe in the window, for which a small one stands.
MAX_SAFE_INTEGER == 99

SemanticKeys == {"overallNarrative", "segments", "highlights", "reusableTemplate", "audienceFit",
                 "strengths", "weaknesses"}
ReportKeys == SemanticKeys \cup {"schemaVersion", "sourceLanguage", "sourceChunks"}
SourceKeys(version) == IF version = 2 THEN {"sourceKind", "sourceTextSha256"}
                       ELSE {"sourceTranscriptSha256"}
ChunkKeys == {"id", "startByte", "endByte", "sha256"}
NarrativeKeys == {"openingHook", "structureType", "turningPoint", "closingType"}
SegmentTexts == {"title", "coreClaim", "rhythmNote", "reusablePattern"}
SegmentLists == {"supportingPoints", "rhetoricalDevices", "riskFlags"}
SegmentKeys == SegmentTexts \cup SegmentLists \cup {"id", "sourceChunkIds"}

-----------------------------------------------------------------------------
(* The worker: what the answer of a model must be. *)

_text(t) == t \in {"text", "mark"}
_optional_text(t) == t = "null" \/ _text(t)
_list(v) == DOMAIN v = {"items"}
_text_list(v, minimum, maximum) ==
  /\ _list(v) /\ Len(v.items) \in minimum..maximum
  /\ \A i \in DOMAIN v.items : _text(v.items[i])
_closed_object(v, keys) == DOMAIN v = keys
Ascending(s) == \A i, j \in DOMAIN s : i < j => s[i] < s[j]

\* The worker bounds only the lists that the contract gives a maximum.
Unbounded == 1000

_parse_semantic_report(r, ids) ==
  /\ LET n == r.overallNarrative
     IN /\ _closed_object(n, NarrativeKeys) /\ _text(n.structureType)
        /\ \A k \in NarrativeKeys \ {"structureType"} : _optional_text(n[k])
  /\ _list(r.segments) /\ r.segments.items # <<>>
  /\ \A i \in DOMAIN r.segments.items :
       LET s == r.segments.items[i]
       IN /\ _closed_object(s, SegmentKeys) /\ s.id = i
          /\ _list(s.sourceChunkIds) /\ s.sourceChunkIds.items # <<>>
          /\ Ascending(s.sourceChunkIds.items)
          /\ \A j \in DOMAIN s.sourceChunkIds.items : s.sourceChunkIds.items[j] \in ids
          /\ \A k \in SegmentTexts : _text(s[k])
          /\ \A k \in SegmentLists : _text_list(s[k], 0, Unbounded)
  /\ _text_list(r.highlights, 0, 8)
  /\ _closed_object(r.reusableTemplate, {"name", "skeleton"})
  /\ _text(r.reusableTemplate.name) /\ _text_list(r.reusableTemplate.skeleton, 3, 7)
  /\ _list(r.audienceFit)
  /\ \A i \in DOMAIN r.audienceFit.items :
       LET f == r.audienceFit.items[i]
       IN /\ _closed_object(f, {"audience", "fit", "note"})
          /\ _text(f.audience) /\ f.fit \in {"high", "medium", "low"} /\ _text(f.note)
  /\ _text_list(r.strengths, 0, 6) /\ _text_list(r.weaknesses, 0, 6)

\* The bytes of the longest chunk, of 2000 characters, on the scale of the integers.
MaxChunkBytes == 6

\* MarkdownSplitter.split: one chunk after the other, from the first byte, of at
\* least one character each.
split(chunks) ==
  /\ _list(chunks) /\ Len(chunks.items) \in 1..16
  /\ \A i \in DOMAIN chunks.items :
       LET c == chunks.items[i]
       IN /\ _closed_object(c, ChunkKeys) /\ c.id = i /\ c.sha256 = "hex"
          /\ c.startByte = (IF i = 1 THEN 0 ELSE chunks.items[i - 1].endByte)
          /\ c.endByte - c.startByte \in 1..MaxChunkBytes

\* parse_dissection_report with TranscriptDissection.to_dict: what a report of the
\* worker is.  The language comes from the transcript as it is.
parse_dissection_report(r, version) ==
  /\ _closed_object(r, ReportKeys \cup SourceKeys(version)) /\ r.schemaVersion = version
  /\ IF version = 2 THEN r.sourceKind = "article" /\ r.sourceTextSha256 = "hex"
                    ELSE r.sourceTranscriptSha256 = "hex"
  /\ r.sourceLanguage \notin {"blank", "odd"}
  /\ split(r.sourceChunks)
  /\ _parse_semantic_report(r, DOMAIN r.sourceChunks.items)

-----------------------------------------------------------------------------
(* The desktop. *)

is_string(t) == t \notin {"null", "odd"}
is_optional(t) == t # "odd"
is_strings(v) == DOMAIN v = {"items"} /\ \A i \in DOMAIN v.items : is_string(v.items[i])
is_objects(v, keys) == DOMAIN v = {"items"} /\ \A i \in DOMAIN v.items : DOMAIN v.items[i] = keys
is_non_blank(t) == t \notin {"blank", "null", "odd"}
all_non_blank(v) == \A i \in DOMAIN v.items : is_non_blank(v.items[i])

\* TaskDissection: its members and their types; those of the source are optional,
\* but null is none of their values.
TaskDissection(r) ==
  /\ ReportKeys \subseteq DOMAIN r
  /\ DOMAIN r \subseteq ReportKeys \cup SourceKeys(1) \cup SourceKeys(2)
  /\ \A k \in {"sourceTranscriptSha256", "sourceTextSha256"} \cap DOMAIN r : is_string(r[k])
  /\ "sourceKind" \in DOMAIN r => r.sourceKind = "article"
  /\ is_optional(r.sourceLanguage)
  /\ is_objects(r.sourceChunks, ChunkKeys)
  /\ \A i \in DOMAIN r.sourceChunks.items : r.sourceChunks.items[i].startByte >= 0
  /\ DOMAIN r.overallNarrative = NarrativeKeys
  /\ is_string(r.overallNarrative.structureType)
  /\ \A k \in NarrativeKeys : is_optional(r.overallNarrative[k])
  /\ is_objects(r.segments, SegmentKeys)
  /\ \A i \in DOMAIN r.segments.items :
       LET s == r.segments.items[i]
       IN /\ \A k \in SegmentTexts : is_string(s[k])
          /\ \A k \in SegmentLists : is_strings(s[k])
          /\ DOMAIN s.sourceChunkIds = {"items"}
  /\ \A k \in {"highlights", "strengths", "weaknesses"} : is_strings(r[k])
  /\ DOMAIN r.reusableTemplate = {"name", "skeleton"} /\ is_string(r.reusableTemplate.name)
  /\ is_strings(r.reusableTemplate.skeleton)
  /\ is_objects(r.audienceFit, {"audience", "fit", "note"})
  /\ \A i \in DOMAIN r.audienceFit.items :
       LET f == r.audienceFit.items[i]
       IN is_string(f.audience) /\ is_string(f.note) /\ f.fit \in {"high", "medium", "low"}

is_article(r) == r # Null /\ "schemaVersion" \in DOMAIN r /\ r.schemaVersion = 2

\* is_source_language: parts of letters and digits, of 35 characters in all.
is_source_language(l) == l \in {"null", "tag", "digits"}

valid_source(r) ==
  /\ r.schemaVersion \in {1, 2}
  /\ DOMAIN r \ ReportKeys = SourceKeys(r.schemaVersion)
  /\ \A k \in DOMAIN r \cap {"sourceTranscriptSha256", "sourceTextSha256"} : r[k] = "hex"

validate_task_dissection(r) ==
  /\ valid_source(r) /\ is_source_language(r.sourceLanguage)
  /\ Len(r.sourceChunks.items) \in 1..16 /\ r.segments.items # <<>>
  /\ Len(r.highlights.items) <= 8 /\ Len(r.strengths.items) <= 6 /\ Len(r.weaknesses.items) <= 6
  /\ Len(r.reusableTemplate.skeleton.items) \in 3..7
  /\ is_non_blank(r.overallNarrative.structureType)
  /\ \A k \in NarrativeKeys : r.overallNarrative[k] # "blank"
  /\ is_non_blank(r.reusableTemplate.name) /\ all_non_blank(r.reusableTemplate.skeleton)
  /\ \A k \in {"highlights", "strengths", "weaknesses"} : all_non_blank(r[k])
  /\ \A i \in DOMAIN r.audienceFit.items :
       is_non_blank(r.audienceFit.items[i].audience) /\ is_non_blank(r.audienceFit.items[i].note)
  /\ \A i \in DOMAIN r.sourceChunks.items :
       LET c == r.sourceChunks.items[i]
       IN /\ c.id = i /\ c.sha256 = "hex" /\ c.endByte > c.startByte
          /\ c.startByte = (IF i = 1 THEN 0 ELSE r.sourceChunks.items[i - 1].endByte)
  /\ \A i \in DOMAIN r.segments.items :
       LET s == r.segments.items[i]
           ids == s.sourceChunkIds.items
       IN /\ s.id = i /\ \A k \in SegmentTexts : is_non_blank(s[k])
          /\ \A k \in SegmentLists : all_non_blank(s[k])
          /\ ids # <<>> /\ Ascending(ids)
          /\ \A j \in DOMAIN ids : ids[j] > 0 /\ ids[j] <= Len(r.sourceChunks.items)

-----------------------------------------------------------------------------
(* The window. *)

readDataArray(v) == DOMAIN v = {"items"}
readExactObject(v, expectedKeys) == DOMAIN v = expectedKeys
isNonBlankString(t) == t \in {"text", "long"}
nullableNonBlankString(t) == t = "null" \/ isNonBlankString(t)
isSafeUnsignedInteger(n) == 0 <= n /\ n <= MAX_SAFE_INTEGER

readStringArray(v, maximum) ==
  /\ readDataArray(v) /\ Len(v.items) <= maximum
  /\ \A i \in DOMAIN v.items : isNonBlankString(v.items[i])

\* The maximum of a list for which the reader is given none.
DefaultMaximum == 32

\* SOURCE_LANGUAGE: its first part is of letters, and the whole of any length.
isSourceLanguage(l) == l \in {"null", "tag", "tag of 36"}

parseNarrative(n) ==
  /\ readExactObject(n, {"openingHook", "structureType", "turningPoint", "closingType"})
  /\ nullableNonBlankString(n.openingHook) /\ nullableNonBlankString(n.turningPoint)
  /\ nullableNonBlankString(n.closingType) /\ isNonBlankString(n.structureType)

parseDissectionSegment(s, expectedId, sourceChunkCount) ==
  /\ readExactObject(s, SegmentKeys)
  /\ s.id = expectedId /\ \A k \in SegmentTexts : isNonBlankString(s[k])
  /\ readDataArray(s.sourceChunkIds) /\ s.sourceChunkIds.items # <<>>
  /\ \A k \in SegmentLists : readStringArray(s[k], DefaultMaximum)
  /\ LET ids == s.sourceChunkIds.items
     IN \A i \in DOMAIN ids : /\ isSafeUnsignedInteger(ids[i]) /\ ids[i] <= sourceChunkCount
                              /\ ids[i] > (IF i = 1 THEN 0 ELSE ids[i - 1])

parseReusableTemplate(t) ==
  /\ readExactObject(t, {"name", "skeleton"}) /\ isNonBlankString(t.name)
  /\ readStringArray(t.skeleton, 7) /\ Len(t.skeleton.items) >= 3

parseAudienceFit(v) ==
  /\ readDataArray(v)
  /\ \A i \in DOMAIN v.items :
       LET f == v.items[i]
       IN /\ readExactObject(f, {"audience", "fit", "note"})
          /\ isNonBlankString(f.audience) /\ f.fit \in {"high", "medium", "low"}
          /\ isNonBlankString(f.note)

\* The chunks of a report: in order and apart, but there may be gaps.
parseSourceChunks(v) ==
  /\ readDataArray(v) /\ v.items # <<>>
  /\ \A i \in DOMAIN v.items :
       LET c == v.items[i]
       IN /\ readExactObject(c, ChunkKeys) /\ c.id = i
          /\ isSafeUnsignedInteger(c.startByte) /\ isSafeUnsignedInteger(c.endByte)
          /\ c.startByte >= (IF i = 1 THEN 0 ELSE v.items[i - 1].endByte)
          /\ c.endByte > c.startByte /\ c.sha256 = "hex"

parseDissection(r) ==
  r # Null =>
    LET version == IF "schemaVersion" \in DOMAIN r THEN r.schemaVersion ELSE 0
    IN /\ readExactObject(r, ReportKeys \cup SourceKeys(version)) /\ version \in {1, 2}
       /\ version = 2 => r.sourceKind = "article"
       /\ r[IF version = 2 THEN "sourceTextSha256" ELSE "sourceTranscriptSha256"] = "hex"
       /\ isSourceLanguage(r.sourceLanguage)
       /\ readStringArray(r.highlights, 8)
       /\ readStringArray(r.strengths, 6) /\ readStringArray(r.weaknesses, 6)
       /\ parseNarrative(r.overallNarrative) /\ parseReusableTemplate(r.reusableTemplate)
       /\ parseAudienceFit(r.audienceFit)
       /\ readDataArray(r.segments) /\ r.segments.items # <<>>
       /\ parseSourceChunks(r.sourceChunks)
       /\ \A i \in DOMAIN r.segments.items :
            parseDissectionSegment(r.segments.items[i], i, Len(r.sourceChunks.items))

-----------------------------------------------------------------------------
(* Reports: one of each version, and those that depart from it in one place. *)

Chunk(i, from, to) == [id |-> i, startByte |-> from, endByte |-> to, sha256 |-> "hex"]
Chunks == {Array(<<Chunk(1, a, b), Chunk(i, c, d)>>) : i \in {2, 3}, a \in {0, 1}, b \in {0, 2},
             c \in {1, 2, 3}, d \in {4, MAX_SAFE_INTEGER + 1}}
          \cup {Array(<<>>), Odd, Array([i \in 1..17 |-> Chunk(i, i - 1, i)]),
                Array(<<Chunk(1, 0, 2), With(Chunk(2, 2, 4), "sha256", "odd")>>),
                Array(<<Chunk(1, 0, 2), Without(Chunk(2, 2, 4), "sha256")>>)}

Lists(maximum) ==
  {Odd, Times(0, "text"), Times(maximum, "text"), Times(maximum + 1, "text")}
    \cup {Array(<<"text", t>>) : t \in Texts}

Narrative == [openingHook |-> "text", structureType |-> "text", turningPoint |-> "null",
              closingType |-> "text"]
Segment == [id |-> 1, title |-> "text", sourceChunkIds |-> Array(<<1, 2>>), coreClaim |-> "text",
            supportingPoints |-> Array(<<"text">>), rhetoricalDevices |-> Array(<<>>),
            rhythmNote |-> "text", reusablePattern |-> "text", riskFlags |-> Array(<<>>)]
Template == [name |-> "text", skeleton |-> Times(3, "text")]
Fit == [audience |-> "text", fit |-> "high", note |-> "text"]

Report(version) ==
  [k \in ReportKeys \cup SourceKeys(version) |->
     CASE k = "schemaVersion" -> version
       [] k = "sourceKind" -> "article"
       [] k \in {"sourceTextSha256", "sourceTranscriptSha256"} -> "hex"
       [] k = "sourceLanguage" -> "tag"
       [] k = "sourceChunks" -> Array(<<Chunk(1, 0, 2), Chunk(2, 2, 4)>>)
       [] k = "overallNarrative" -> Narrative
       [] k = "segments" -> Array(<<Segment>>)
       [] k = "reusableTemplate" -> Template
       [] k = "audienceFit" -> Array(<<Fit>>)
       [] OTHER -> Array(<<"text">>)]

\* An object with a member more or less.
Miskeyed(o) == {With(o, "extra", "text")} \cup {Without(o, k) : k \in DOMAIN o}

Segments == {Array(<<s>>) : s \in Miskeyed(Segment)
               \cup {With(Segment, k, t) : k \in SegmentTexts, t \in Texts}
               \cup {With(Segment, k, l) : k \in SegmentLists, l \in Lists(DefaultMaximum)}
               \cup {With(Segment, "id", i) : i \in {0, 1, 2}}
               \cup {With(Segment, "sourceChunkIds", Array(s)) :
                       s \in {<<>>, <<0>>, <<2>>, <<1, 1>>, <<2, 1>>, <<1, 3>>}}}
            \cup {Odd, Array(<<>>), Array(<<Segment, With(Segment, "id", 2)>>)}

Members(version) ==
  {<<"schemaVersion", v>> : v \in 0..3}
    \cup {<<k, t>> : k \in SourceKeys(version) \cup {"sourceTextSha256"}, t \in {"hex", "article", "null"}}
    \cup {<<"sourceLanguage", l>> : l \in LanguageTags}
    \cup {<<"sourceChunks", c>> : c \in Chunks}
    \cup {<<"overallNarrative", n>> :
            n \in Miskeyed(Narrative) \cup {With(Narrative, k, t) : k \in NarrativeKeys, t \in Texts}}
    \cup {<<"segments", s>> : s \in Segments}
    \cup {<<"highlights", l>> : l \in Lists(8)}
    \cup {<<k, l>> : k \in {"strengths", "weaknesses"}, l \in Lists(6)}
    \cup {<<"reusableTemplate", t>> :
            t \in Miskeyed(Template) \cup {With(Template, "name", t) : t \in Texts}
                    \cup {With(Template, "skeleton", l) : l \in Lists(7) \cup {Times(2, "text")}}}
    \cup {<<"audienceFit", l>> :
            l \in {Odd, Array(<<>>)} \cup
                  {Array(<<f>>) : f \in Miskeyed(Fit) \cup
                     {With(Fit, k, t) : k \in {"audience", "note"}, t \in Texts} \cup
                     {With(Fit, "fit", g) : g \in {"medium", "none"}}}}
===============================================================================
