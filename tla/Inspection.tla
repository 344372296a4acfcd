----------------------------- MODULE Inspection ------------------------------
(****************************************************************************)
(* The two pure inspectors (internal/interceptor/nonstream.go, stream.go):  *)
(* find the number of reasoning tokens a response reports and decide what   *)
(* is to become of the response.                                            *)
(*                                                                          *)
(* A JSON document is abstracted to what both envelopes decode of it: the   *)
(* four places a count may stand, each holding a number or Absent.  Bytes   *)
(* that are no such document are Malformed, no bytes at all Empty.  A       *)
(* stream chunk is a sequence of lines; a line is a document (a "data:"     *)
(* line that decodes), a half of one that the end of a chunk cuts in two,   *)
(* or Malformed (any other line: comments, "[DONE]", undecodable data).     *)
(****************************************************************************)
EXTENDS GuardConfig, Sequences

CONSTANTS Absent, Malformed, Empty

\* 1: usage.output_tokens_details            2: usage.completion_tokens_details
\* 3: response.usage.output_tokens_details   4: response.usage.completion_...
Field    == 1..4
Document == [Field -> Int \cup {Absent}]

ASSUME AbsentAssumption    == Absent \notin Int
ASSUME MalformedAssumption ==
    Malformed \notin Document /\ Empty \notin Document /\ Malformed # Empty

\* A half alone is no "data:" line that decodes; where a first half meets the
\* second, the line is whole again.
Half == Document \X {1, 2}
StreamLine == Document \cup Half \cup {Malformed}

\* json.Unmarshal succeeds.
Readable(b) == b \notin {Malformed, Empty}

Reports(doc) == \E f \in Field : doc[f] # Absent

\* The first of the four pointers that is not nil.
extractNonStreamReasoning(doc) ==
    doc[CHOOSE f \in Field : /\ doc[f] # Absent
                             /\ \A g \in 1..(f - 1) : doc[g] = Absent]

extractStreamReasoning(doc) ==
    CASE doc[1] # Absent -> doc[1]
      [] doc[1] = Absent /\ doc[2] # Absent -> doc[2]
      [] doc[1] = Absent /\ doc[2] = Absent /\ doc[3] # Absent -> doc[3]
      [] OTHER -> doc[4]

-----------------------------------------------------------------------------
(* InspectNonStream.  The block body is built exactly when the status code  *)
(* is set, so StatusCode stands for both.  A body that is not Readable is an *)
(* error of json.Unmarshal and has no decision: callers test for it first.  *)

NonStreamDecision ==
    [Matched : BOOLEAN, Retry : BOOLEAN, StatusCode : Int, ReasoningFound : BOOLEAN]

\* A bug it must not have: the last retry of the budget is never made.
Bug_SparesLastRetry(c, doc, retryRemaining) ==
    LET found   == Reports(doc)
        matched == found /\ ReasoningMatched(c, extractNonStreamReasoning(doc))
        retry   == matched /\ c.InterceptNonStreaming /\ retryRemaining > 1
    IN  [Matched        |-> matched,
         Retry          |-> retry,
         StatusCode     |-> IF matched /\ ~retry THEN c.NonStreamStatusCode ELSE 0,
         ReasoningFound |-> found]

InspectNonStream(c, doc, retryRemaining) ==
    LET found   == Reports(doc)
        matched == found /\ ReasoningMatched(c, extractNonStreamReasoning(doc))
        retry   == matched /\ c.InterceptNonStreaming /\ retryRemaining > 0
    IN  [Matched        |-> matched,
         Retry          |-> retry,
         StatusCode     |-> IF matched /\ ~retry THEN c.NonStreamStatusCode ELSE 0,
         ReasoningFound |-> found]

-----------------------------------------------------------------------------
(* InspectStreamChunk.  The history parameter is not read by the code, and  *)
(* its CloseStream result is read by no caller.                             *)

StreamDecision ==
    [Matched : BOOLEAN, Retry : BOOLEAN, DropChunk : BOOLEAN,
     ReplacementChunk : BOOLEAN, ReasoningFound : BOOLEAN]

\* extractSSEPayloads: where a data line of the chunk ends, and its document.
Payloads(chunk) ==
    {i \in 1..Len(chunk) :
        \/ chunk[i] \in Document
        \/ i > 1 /\ chunk[i - 1] \in Half /\ chunk[i] = <<chunk[i - 1][1], chunk[i - 1][2] + 1>>}

Payload(chunk, i) == IF chunk[i] \in Half THEN chunk[i][1] ELSE chunk[i]

\* Those that carry a count, and the last of them.
ReportingLines(chunk) == {i \in Payloads(chunk) : Reports(Payload(chunk, i))}

LastReport(chunk) ==
    LET lines == ReportingLines(chunk)
    IN  extractStreamReasoning(Payload(chunk, CHOOSE i \in lines : \A j \in lines : j <= i))

\* A bug it must not have: disconnect mode retries what is already half sent.
Bug_RetriesHalfSent(c, chunk, retryRemaining, wroteAnyChunk) ==
    LET found   == ReportingLines(chunk) # {}
        matched == found /\ ReasoningMatched(c, LastReport(chunk))
        retry   == matched /\ c.InterceptStreaming /\ retryRemaining > 0
    IN  [Matched          |-> matched,
         Retry            |-> retry,
         DropChunk        |-> matched /\ ~retry /\ c.StreamAction = "disconnect",
         ReplacementChunk |-> matched /\ ~retry /\ c.StreamAction # "disconnect",
         ReasoningFound   |-> found]

InspectStreamChunk(c, chunk, retryRemaining, wroteAnyChunk) ==
    LET found      == ReportingLines(chunk) # {}
        matched    == found /\ ReasoningMatched(c, LastReport(chunk))
        disconnect == c.StreamAction = "disconnect" /\ wroteAnyChunk
        retry      == /\ matched
                      /\ c.InterceptStreaming
                      /\ retryRemaining > 0
                      /\ ~disconnect
    IN  [Matched          |-> matched,
         Retry            |-> retry,
         DropChunk        |-> matched /\ ~retry /\ disconnect,
         ReplacementChunk |-> matched /\ ~retry /\ ~disconnect,
         ReasoningFound   |-> found]
=============================================================================
