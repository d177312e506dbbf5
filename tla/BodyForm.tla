------------------------------ MODULE BodyForm ------------------------------
(***************************************************************************)
(* The parts of a multipart body and the texts of each that are scanned:   *)
(* body-form-scan.ts with binary-islands.ts.                               *)
(*                                                                         *)
(* A body is a sequence of lines <<kind, of>>: "open" and "final" boundary *)
(* lines, "nest" (a Content-Type: multipart header that declares boundary  *)
(* of), "plain" (another Content-Type), "named" and "file" (dispositions   *)
(* with name of, 0 for none, the second also with a filename), "fold",     *)
(* "blank", "text", and "artifact" for a line of binary characters.        *)
(***************************************************************************)
EXTENDS Integers, Sequences, FiniteSets, SequencesExt

CONSTANTS
    FormBodies,       \* the bodies explored; the boundary of the request is 1
    MinRunLength      \* detectionBinaryMinRunLength, in lines

VARIABLES
    lines,            \* the body
    levels,           \* the stack of multipart levels being read, innermost first
    leaves            \* the parts found: header lines and the range of the payload

formVars == <<lines, levels, leaves>>

HeaderKinds == {"nest", "plain", "named", "file"}

\* parseMultipartLevel: a level reads the lines from pos to last.
Level(boundary, from, last) ==
    [boundary |-> boundary, pos |-> from, last |-> last,
     mode |-> "preamble", headers |-> <<>>, start |-> 0]

FormInit ==
    /\ lines \in FormBodies
    /\ levels = <<Level(1, 1, Len(lines))>>
    /\ leaves = <<>>

Here == levels[1]
Line == lines[Here.pos]
Reading(modes) == levels # <<>> /\ Here.mode \in modes /\ Here.pos <= Here.last
Become(level) == levels' = <<level>> \o Tail(levels)
Consume(mode) == Become([Here EXCEPT !.pos = @ + 1, !.mode = mode])

\* firstHeaderValue: the first header of these kinds.
FirstOf(headers, kinds) ==
    LET those == SelectSeq(headers, LAMBDA h : lines[h][1] \in kinds)
    IN IF those = <<>> THEN <<"none", 0>> ELSE lines[those[1]]

\* A part whose Content-Type is multipart with a boundary.
IsContainer(headers) == FirstOf(headers, {"nest", "plain"})[1] = "nest"

\* Mutant: a part that is not closed is lost.
FinishPartIfClosed(from, to, rest) ==
    /\ levels' = rest
    /\ leaves' = IF to = Here.last THEN leaves
                 ELSE Append(leaves, [headers |-> Here.headers, from |-> from, to |-> to])

\* appendMultipartLeafOrContainer: the payload ends at line to, and rest is read after it.
FinishPart(from, to, rest) ==
    \/ /\ IsContainer(Here.headers)
       /\ levels' = <<Level(FirstOf(Here.headers, {"nest"})[2], from, to)>> \o rest
       /\ UNCHANGED leaves
    \/ /\ ~IsContainer(Here.headers)
       /\ leaves' = Append(leaves, [headers |-> Here.headers, from |-> from, to |-> to])
       /\ levels' = rest

ReadPreamble ==
    /\ Reading({"preamble"})
    /\ \/ Line = <<"open", Here.boundary>> /\ Consume("next")
       \/ Line = <<"final", Here.boundary>> /\ levels' = Tail(levels)
       \/ Line \notin {<<"open", Here.boundary>>, <<"final", Here.boundary>>} /\ Consume("preamble")
    /\ UNCHANGED <<lines, leaves>>

\* readPart, in the header block: the first line without a colon, a boundary line
\* included, opens the payload.
ReadHeader ==
    /\ Reading({"next", "headers"})
    /\ \/ /\ Line[1] = "blank"
          /\ Become([Here EXCEPT !.mode = "payload", !.start = Here.pos + 1, !.pos = @ + 1])
       \/ /\ Line[1] \in HeaderKinds \/ (Line[1] = "fold" /\ Here.headers # <<>>)
          /\ Become([Here EXCEPT !.mode = "headers", !.headers = Append(@, Here.pos), !.pos = @ + 1])
       \/ /\ Line[1] \notin HeaderKinds \cup {"blank"}
          /\ ~(Line[1] = "fold" /\ Here.headers # <<>>)
          /\ Become([Here EXCEPT !.mode = "payload", !.start = Here.pos, !.pos = @ + 1])
    /\ UNCHANGED <<lines, leaves>>

ReadPayload ==
    /\ Reading({"payload"})
    /\ UNCHANGED lines
    /\ \/ /\ Line = <<"open", Here.boundary>>
          /\ FinishPart(Here.start, Here.pos - 1,
                        <<[Here EXCEPT !.pos = @ + 1, !.mode = "next", !.headers = <<>>]>> \o Tail(levels))
       \/ /\ Line = <<"final", Here.boundary>>
          /\ FinishPart(Here.start, Here.pos - 1, Tail(levels))
       \/ /\ Line \notin {<<"open", Here.boundary>>, <<"final", Here.boundary>>}
          /\ Consume("payload") /\ UNCHANGED leaves

\* The input ends: the part read so far is kept, with no payload if its headers never end.
EndOfLevel ==
    /\ levels # <<>> /\ Here.pos > Here.last
    /\ UNCHANGED lines
    /\ \/ /\ Here.mode \in {"preamble", "next"}
          /\ levels' = Tail(levels) /\ UNCHANGED leaves
       \/ /\ Here.mode \in {"headers", "payload"}
          /\ FinishPart(IF Here.mode = "headers" THEN Here.pos ELSE Here.start, Here.last, Tail(levels))

FormNext == ReadPreamble \/ ReadHeader \/ ReadPayload \/ EndOfLevel

-----------------------------------------------------------------------------
Disposition(part) == FirstOf(part.headers, {"named", "file"})

\* valueIsBinaryLike: at least a fifth of the payload.
IsBinaryLike(part) ==
    LET artifacts == {i \in part.from .. part.to : lines[i][1] = "artifact"}
    IN part.from <= part.to /\ 5 * Cardinality(artifacts) >= part.to - part.from + 1

\* extractBinaryIslands: the lines of the printable runs that are long enough.
Islands(part) ==
    LET Printable(from) == {r \in from .. part.to : \A i \in from .. r : lines[i][1] # "artifact"}
    IN IF MinRunLength <= 1 THEN part.from .. part.to
       ELSE UNION {s .. s + MinRunLength - 1 :
                      s \in {s \in part.from .. part.to : s + MinRunLength - 1 \in Printable(s)}}

\* multipartPartEntries: headers and payload, of a binary file its islands.
EntryLines(part) ==
    Range(part.headers)
    \cup (IF Disposition(part)[1] = "file" /\ IsBinaryLike(part) THEN Islands(part)
          ELSE part.from .. part.to)

-----------------------------------------------------------------------------
\* The line is one of a run of texts that an island would keep.
InTextRun(i) ==
    \E s \in 1 .. i : /\ s <= i /\ i < s + MinRunLength /\ s + MinRunLength - 1 <= Len(lines)
                      /\ \A j \in s .. s + MinRunLength - 1 : lines[j][1] = "text"

\* Outside of a level: before its first boundary line or after its last.
OutsideOf(b, from, i) ==
    \/ ~ \E o \in from .. i - 1 : lines[o] = <<"open", b>>
    \/ \E f \in from .. i - 1 : lines[f] = <<"final", b>>

\* Text of a multipart body escapes the scan only where the comment of the parser says so
\* (body-form-scan.ts:8-25): outside of the boundaries, of the whole body or of a
\* container that holds it, or as a short run in a binary file.
TextIsScanned ==
    levels = <<>> =>
        \A i \in DOMAIN lines :
            lines[i][1] = "text" =>
                \/ \E p \in DOMAIN leaves : i \in EntryLines(leaves[p])
                \/ OutsideOf(1, 1, i)
                \/ \E n \in 1 .. i - 1 : lines[n][1] = "nest" /\ OutsideOf(lines[n][2], n + 1, i)
                \/ \E n \in 1 .. i - 1 :
                      lines[n][1] = "file" /\ ~InTextRun(i) /\ \E a \in DOMAIN lines : lines[a][1] = "artifact"
=============================================================================
