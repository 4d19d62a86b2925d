----------------------------- MODULE WebSearch ------------------------------
(***************************************************************************)
(* The search_web tool and the adapters behind it, one per provider          *)
(* (outbound/openai, anthropic, vertex_ai, bedrock): what each makes of the  *)
(* provider's answer.                                                      *)
(*                                                                         *)
(* Of a text only the number of its characters counts.  A source is         *)
(* [title, url]; a blank URL or title is "".                                *)
(***************************************************************************)
EXTENDS Integers, SequencesExt

CONSTANTS MAX_QUERY_CHARS, MAX_SUMMARY_CHARS, MAX_CITATIONS,
          None

(* A result; soft tells what kind of failure it stands for, if any; failed   *)
(* is a PortError, which fails the tool.                                    *)
Result(summary, citations) ==
    [summary_text |-> summary, citations |-> citations, soft |-> None, failed |-> FALSE]
Soft(type) == [Result(0, << >>) EXCEPT !.soft = type]
Failed == [Result(0, << >>) EXCEPT !.failed = TRUE]

IsValidQuery(chars) == chars \in 1..MAX_QUERY_CHARS
Truncated(chars) == IF chars > MAX_SUMMARY_CHARS THEN MAX_SUMMARY_CHARS ELSE chars
SumOf(lengths) == FoldLeft(LAMBDA sum, length : sum + length, 0, lengths)

Urls(citations) == {citations[i].url : i \in DOMAIN citations}

(* push_citation, of Anthropic's adapter. *)
PushCitation(citations, source) ==
    IF source.url = "" \/ Len(citations) >= MAX_CITATIONS \/ source.url \in Urls(citations)
    THEN citations ELSE Append(citations, source)

(***************************************************************************)
(* HTTP, alike for OpenAI and Anthropic: "status" is None when no answer     *)
(* came in time, and "body" None when it is not JSON.                       *)
(***************************************************************************)

StatusFailure(status) ==
    IF status = None THEN Soft("temporary_error")
    ELSE IF status \in 400..499 THEN Soft("client_error")
    ELSE IF status \in 500..599 THEN Soft("temporary_error")
    ELSE None

(***************************************************************************)
(* OpenAI: output items, of which messages have parts: [text, annotations],  *)
(* text None if the part is no output_text; an annotation is [type, source].  *)
(***************************************************************************)

OpenAiParse(output) ==
    LET IsText(part) == part.text # None
        texts == SelectSeq(FlattenSeq([i \in DOMAIN output |->
                     IF output[i].type = "message" THEN output[i].content ELSE << >>]), IsText)
        annotations == FlattenSeq([i \in DOMAIN texts |-> texts[i].annotations])
        Collect(citations, annotation) ==
            IF \/ annotation.type # "url_citation"
               \/ annotation.source.url \in {""} \cup Urls(citations)
            THEN citations ELSE Append(citations, annotation.source)
        citations == FoldLeft(Collect, << >>, annotations)
    IN  Result(Truncated(SumOf([i \in DOMAIN texts |-> texts[i].text])),
               SubSeq(citations, 1, IF Len(citations) < MAX_CITATIONS THEN Len(citations)
                                    ELSE MAX_CITATIONS))

OpenAiSearch(query, status, body) ==
    IF ~IsValidQuery(query) THEN Failed
    ELSE IF StatusFailure(status) # None THEN StatusFailure(status)
    ELSE IF body = None THEN Failed
    ELSE OpenAiParse(body.output)

(***************************************************************************)
(* Anthropic: content blocks, of type "text" with its length and citations,   *)
(* or "web_search_tool_result" with sources or an error code.               *)
(***************************************************************************)

ClassifySearchToolError(code) ==
    IF code \in {"invalid_input", "query_too_long", "max_uses_exceeded"}
    THEN Soft("client_error") ELSE Soft("temporary_error")

(* A failed search inside the answer outweighs whatever text there is.       *)
AnthropicParse(content) ==
    LET Fails(block) == block.type = "web_search_tool_result" /\ block.error_code # None
        failures == SelectSeq(content, Fails)
        IsRead(block) == block.type \in {"text", "web_search_tool_result"}
        blocks == SelectSeq(content, IsRead)
        sources == FlattenSeq([i \in DOMAIN blocks |-> blocks[i].sources])
    IN  IF failures # << >> THEN ClassifySearchToolError(failures[1].error_code)
        ELSE Result(Truncated(SumOf([i \in DOMAIN blocks |->
                        IF blocks[i].type = "text" THEN blocks[i].text ELSE 0])),
                    FoldLeft(PushCitation, << >>, sources))

AnthropicSearch(query, status, body) ==
    IF ~IsValidQuery(query) THEN Failed
    ELSE IF StatusFailure(status) # None THEN StatusFailure(status)
    ELSE IF body = None THEN Failed
    ELSE AnthropicParse(body.content)

(***************************************************************************)
(* Vertex AI: candidates, [texts, grounding], grounding None or the chunks;  *)
(* a chunk is a source or None.  blocked: why there may be no candidate.     *)
(***************************************************************************)

(* citation_from_parts: the URL stands for a title that is missing.          *)
ChunkCitation(chunk) ==
    IF chunk = None THEN None
    ELSE IF chunk.url = "" THEN None
    ELSE [chunk EXCEPT !.title = IF @ = "" THEN chunk.url ELSE @]

(* collect_citations: stops at the limit. *)
CollectCitations(chunks) ==
    LET Collect(citations, chunk) ==
            LET citation == ChunkCitation(chunk)
            IN  IF Len(citations) >= MAX_CITATIONS THEN citations
                ELSE IF citation = None THEN citations
                ELSE IF citation.url \in Urls(citations) THEN citations
                ELSE Append(citations, citation)
    IN  FoldLeft(Collect, << >>, chunks)

ClassifyApiError(code) ==
    IF code \in {"INVALID_ARGUMENT", "FAILED_PRECONDITION", "PERMISSION_DENIED", "UNAUTHENTICATED"}
    THEN Soft("client_error") ELSE Soft("temporary_error")

(* The first candidate that says something, or else the first at all.        *)
VertexParse(candidates, blocked) ==
    LET Speaks(candidate) == candidate.texts # << >> \/ candidate.grounding # None
        speaking == SelectSeq(candidates, Speaks)
        chosen == Head(IF speaking = << >> THEN candidates ELSE speaking)
    IN  IF candidates = << >> THEN IF blocked THEN Soft("client_error") ELSE Result(0, << >>)
        ELSE Result(Truncated(SumOf(chosen.texts)),
                    IF chosen.grounding = None THEN << >> ELSE CollectCitations(chosen.grounding))

VertexSearch(query, code, candidates, blocked) ==
    IF ~IsValidQuery(query) THEN Failed
    ELSE IF code # None THEN ClassifyApiError(code)
    ELSE VertexParse(candidates, blocked)

(* Bedrock has no search. *)
BedrockSearch(query) == IF IsValidQuery(query) THEN Soft("capability_unavailable") ELSE Failed

(* SearchWebTool::call: a soft failure is an answer like any other.          *)
ToolOutput(result) ==
    IF result.failed THEN None
    ELSE [summary_text |-> result.summary_text, citations |-> result.citations, soft |-> result.soft]
=============================================================================
